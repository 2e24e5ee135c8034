CONSTANTS
  Paths = {t1}
  Ids = {q1, q2}
  Inodes = {1, 2}
  Contents = {c1}
  Workers = {a, b}
  None = None
  Partial = Partial
  MaxOutages = 0
  QuietWriters = FALSE
SPECIFICATION FairSpec
PROPERTIES Lifecycle RemovalIsRecorded
CHECK_DEADLOCK FALSE

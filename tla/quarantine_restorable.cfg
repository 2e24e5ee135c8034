CONSTANTS
  Paths = {t1}
  Ids = {q1, q2}
  Inodes = {1, 2, 3}
  Contents = {c1, c2}
  Workers = {a, b}
  None = None
  Partial = Partial
  MaxOutages = 1
  QuietWriters = TRUE
SPECIFICATION Spec
SYMMETRY Symmetry
INVARIANTS Restorable
CHECK_DEADLOCK FALSE

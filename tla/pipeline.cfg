SPECIFICATION FairSpec
CONSTANTS
  tree1 = tree1
  tree2 = tree2
  folder = folder
  doc = doc
  clean = clean
  bad = bad
  None = None
  Dirs = {tree1, tree2, folder}
  Paths = {doc}
  Contents = {clean, bad}
  Excluded = {}
  Wide = {doc}
  Roots <- MCRoots
  Parent <- MCParent
  DirOf <- MCDirOf
  Length <- MCLength
  Hits <- MCHits
  Features <- MCFeatures
  Feed <- MCFeed
  Enabled = {"MalwareBazaar", "ThreatFox"}
  LowAt = 30
  SuspiciousAt = 50
  MaliciousAt = 70
  Budget = 2
  QueueCap = 1
  BusCap = 1
  MaxOps = 2
  MaxTime = 2
INVARIANTS TypeOK OnlyCulprits  
 
CHECK_DEADLOCK FALSE

SPECIFICATION HostSpec
CONSTANTS
  Pids = {1, 2}
  Remotes = {bad}
  Shady = {bad}
  Inodes = {1}
  BonusOver = 2
  Bonus = 1
  KillAt = 4
  BusyOver = 1
  BusCap = 1
  MaxLives = 2
  MaxConnects = 2
  None = None
  Jobs = {api, cli}
  api = api
  cli = cli
  Types <- MCTypes
  Files = {f1}
  Contents = {c1, c2}
  Machines <- MCMachines
  Threshold = 5
  MaxScans = 3
  MaxChanges = 1
  MaxFaults = 1
  Gone = Gone
  Absent = Absent
  Torn = Torn
  Suspicious <- MCSuspicious
  Listed = {"ext4"}
  Whitelisted = {"ext4"}
  Rootkits = {"reptile", "adore"}
  Unreadable = Unreadable
INVARIANTS TypeOK   ScanTypeOK  
PROPERTIES Noticed
CHECK_DEADLOCK FALSE

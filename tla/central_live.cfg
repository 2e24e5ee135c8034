CONSTANTS
  Machines = {m1}
  Ids = {i1, i2}
  Events = {e1, e2, e3}
  Serious = {e1, e2}
  Recent = 2
  Ring = 1
  Stale = 1
  MaxFaults = 1
  MaxKills = 1
  None = None
  Torn = Torn
SPECIFICATION FairSpec
PROPERTIES AliveIsOnline DeadGoesOffline Delivered
CHECK_DEADLOCK FALSE

CONSTANTS
  Machines = {m1, m2}
  Ids = {i1, i2, i3}
  Events = {e1, e2}
  Serious = {e1, e2}
  Recent = 2
  Ring = 1
  Stale = 0
  MaxFaults = 1
  MaxKills = 1
  None = None
  Torn = Torn
SPECIFICATION Spec
SYMMETRY Symmetry
INVARIANTS TypeOK RingIsTail RingIsStored  Listed 
CHECK_DEADLOCK FALSE

SPECIFICATION Spec
CONSTANTS
  Callers = {a, b}
  Ips = {x}
  Notes = {n}
  MaxCalls = 3
  MaxFaults = 1
  None = None
SYMMETRY Symmetry
INVARIANTS TypeOK  BlacklistFirst NoDoubles InOut
CHECK_DEADLOCK FALSE

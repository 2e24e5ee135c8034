CONSTANTS
  Keys = {k1, k2}
  Tasks = {ev, sim}
  Scores = {40, 80}
  Critical = 70
  Window = 1
  MaxTime = 2
  MaxBatches = 3
  MaxFaults = 1
  MaxCrashes = 1
  None = None
SPECIFICATION Spec
SYMMETRY Symmetry
CHECK_DEADLOCK FALSE
INVARIANTS Linked

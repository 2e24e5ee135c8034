CONSTANTS
  Keys = {k1}
  Tasks = {ev, sim}
  Scores = {40, 80}
  Critical = 70
  Window = 0
  MaxTime = 1
  MaxBatches = 3
  MaxFaults = 1
  MaxCrashes = 0
  None = None
SPECIFICATION FairSpec
PROPERTIES SeriousIsFiled
CHECK_DEADLOCK FALSE

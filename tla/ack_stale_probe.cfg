SPECIFICATION Spec
CONSTANTS
  Dialects = {"Smoothieware"}
  PlannerCap = 1
  Faults = {"link"}
  MaxFaults = 0
  Jobs <- MCJobs
  MAX_LINES_PER_TICK = 2
  ConfigQueries = 1
  CleanReopen = FALSE
  MaxConnects = 2
  MaxStarts = 1
  MaxStops = 0
INVARIANTS
  CompletedMeansDone

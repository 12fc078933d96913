SPECIFICATION FairSpec
CONSTANTS
  Dialects = {"Marlin", "Snapmaker", "Smoothieware"}
  PlannerCap = 2
  Faults = {"lost_ok", "reject", "resend", "link"}
  MaxFaults = 1
  Jobs <- MCJobs
  MAX_LINES_PER_TICK = 2
  ConfigQueries = 1
  CleanReopen = TRUE
  MaxConnects = 2
  MaxStarts = 2
  MaxStops = 2
INVARIANTS
  OneUnanswered
  CompletedMeansDone
  RecoveryIsHalted
  NothingFollowsHalt
PROPERTIES
  JobEnds

SPECIFICATION FairSpec
CONSTANTS
  N = 2
  Offset <- MCOffset2
  AirAssist = {1}
  Dwell = {2}
  Homing = {}
  RxSize = 4
  PlannerCap = 1
  SpindleMode = FALSE
  MaxPresses = 2
  Faults = {"lost_ok", "silent", "link"}
  MaxFaults = 1
  GRBL_RX_BUFFER_SIZE = 4
  IdleLimit = 3
  Synchronous = TRUE
PROPERTIES
  JobEnds
  HealthyJobCompletes

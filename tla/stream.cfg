SPECIFICATION Spec
CONSTANTS
  N = 3
  Offset <- MCOffset3
  AirAssist = {3}
  Dwell = {2}
  Homing = {}
  RxSize = 4
  PlannerCap = 1
  SpindleMode = TRUE
  MaxPresses = 2
  Faults = {"reject", "lost_ok", "alarm", "restart", "silent", "link", "spool"}
  MaxFaults = 1
  GRBL_RX_BUFFER_SIZE = 4
  IdleLimit = 3
  Synchronous = FALSE
INVARIANTS
  NoOverflow
  CompletedMeansExecuted
  HealthyJobNeverFails
PROPERTY PromiseSpec

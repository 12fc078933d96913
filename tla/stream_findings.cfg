SPECIFICATION Spec
CONSTANTS
  N = 2
  Offset <- MCOffset2
  AirAssist = {}
  Dwell = {}
  Homing = {1}
  RxSize = 4
  PlannerCap = 1
  SpindleMode = TRUE
  MaxPresses = 2
  Faults = {}
  MaxFaults = 0
  GRBL_RX_BUFFER_SIZE = 4
  IdleLimit = 3
  Synchronous = FALSE
INVARIANT HealthyJobNeverFails
PROPERTY PausedOutputStaysOff

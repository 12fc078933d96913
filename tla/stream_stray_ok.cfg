SPECIFICATION StraySpec
CONSTANTS
  N = 4
  Offset <- MCOffset
  AirAssist = {}
  Dwell = {}
  Homing = {}
  RxSize = 4
  PlannerCap = 1
  SpindleMode = TRUE
  MaxPresses = 0
  Faults = {}
  MaxFaults = 0
  GRBL_RX_BUFFER_SIZE = 4
  IdleLimit = 3
  Synchronous = FALSE
INVARIANT NoOverflow

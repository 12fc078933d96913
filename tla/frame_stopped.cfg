CONSTANTS
  Bed = {0, 1}
  Contents = {c1, c2}
  Scopes = {"document"}
  PreviewsOverlap = FALSE
  ResetAlarms = FALSE
  MaxRequests = 3
  MaxMoves = 1
  MaxEdits = 2
  MaxFailures = 0
SPECIFICATION GateSpec
CHECK_DEADLOCK FALSE
INVARIANT ConfirmedWasTraced

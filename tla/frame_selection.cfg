CONSTANTS
  Bed = {0, 1}
  Contents = {c1, c2}
  Scopes = {"document", "selection"}
  PreviewsOverlap = FALSE
  ResetAlarms = TRUE
  MaxRequests = 3
  MaxMoves = 1
  MaxEdits = 2
  MaxFailures = 1
SPECIFICATION GateSpec
CHECK_DEADLOCK FALSE
INVARIANT StartsFramedAsCounted

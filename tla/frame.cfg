CONSTANTS
  Bed = {0, 1}
  Contents = {c1, c2}
  Scopes = {"document"}
  PreviewsOverlap = FALSE
  ResetAlarms = TRUE
  MaxRequests = 3
  MaxMoves = 1
  MaxEdits = 2
  MaxFailures = 1
SPECIFICATION GateSpec
SYMMETRY Sym
CHECK_DEADLOCK FALSE
\* With StartsFramed here too it is violated.
INVARIANTS ConfirmedWasTraced StartsFramedAsCounted

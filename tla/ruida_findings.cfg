\* Violates RecoveryIsFinal; without it, OthersUntouched.
CONSTANTS
  Names = {n1}
  Stored = {other}
  NoName = NoName
  Chunks = 2
  MAX_CONTROLLER_FILES = 2
  PanelDeletes = {n1, other}
  Faults = {"start", "lost_reply", "delete", "copy"}
  MaxFaults = 2
  MAX_ATTEMPTS = 2
  STORAGE_ATTEMPTS = 2
  CONFIRMATION_ATTEMPTS = 2
  UPLOAD_CHUNKS_PER_ADVANCE = 1
  MaxConnects = 2
  MaxStarts = 2
  MaxPresses = 2
  MaxMoves = 1
SPECIFICATION Spec
CHECK_DEADLOCK FALSE
INVARIANT OthersUntouched
PROPERTY RecoveryIsFinal

\* Two uploads of two datagrams next to a stored file, in a memory for two files; one
\* thing goes wrong, on the line, in the controller or at the panel; two presses.
CONSTANTS
  Names = {n1}
  Stored = {other}
  NoName = NoName
  Chunks = 2
  MAX_CONTROLLER_FILES = 2
  PanelDeletes = {n1, other}
  Faults = {"lost_send", "garbled", "lost_reply", "twice", "swapped", "late", "reset",
            "pause", "resume", "stop", "start", "delete", "copy", "unknown"}
  MaxFaults = 1
  MAX_ATTEMPTS = 2
  STORAGE_ATTEMPTS = 2
  CONFIRMATION_ATTEMPTS = 2
  UPLOAD_CHUNKS_PER_ADVANCE = 1
  MaxConnects = 2
  MaxStarts = 2
  MaxPresses = 2
  MaxMoves = 1
SPECIFICATION FairSpec
CHECK_DEADLOCK FALSE
INVARIANTS CompletedMeansRan OutputKnown OverMeansOver IndexIsMeant NothingSwallowed
PROPERTY JobEnds

CONSTANTS
  Packets = 3
  UsesBeam = {TRUE, FALSE}
  checksum_attempts = 2
  TRANSFER_POLLS_PER_ADVANCE = 2
  Faults = {"checksum", "write", "read", "timeout", "Busy", "again", "Power", "Unknown"}
  MaxFaults = 3
  MaxStarts = 2
  MaxPresses = 3
  MaxMoves = 1
SPECIFICATION FairSpec
INVARIANTS OutputKnown
PROPERTY CompletedMeansRan JobEnds

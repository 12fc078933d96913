\* Violates IdleLossIsIdle; without that line StopStops, without both FrameCompletedMeansRan,
\* and without the three FrameEnds and ResumedJobEnds, each alone too.
CONSTANTS
  Packets = 3
  UsesBeam = {TRUE, FALSE}
  checksum_attempts = 2
  TRANSFER_POLLS_PER_ADVANCE = 2
  Faults = {"checksum", "again", "timeout"}
  MaxFaults = 2
  MaxStarts = 2
  MaxPresses = 2
  MaxMoves = 0
SPECIFICATION FairSpec
INVARIANT IdleLossIsIdle
PROPERTIES
  StopStops
  FrameCompletedMeansRan
  ResumedJobEnds
  FrameEnds

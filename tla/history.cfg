\* A history of three documents and five bytes, edits of up to two snapshots.
CONSTANTS
  Ids = {p}
  Contents <- MCContents
  Storable <- MCStorable
  Bytes <- MCBytes
  MAX_HISTORY_DEPTH = 3
  MAX_HISTORY_BYTES = 5
  MaxSnapshots = 2
  p = p
SPECIFICATION HistorySpec
INVARIANTS
  DepthKept
PROPERTY
  TimelineKept

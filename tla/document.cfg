\* Two project ids and two files, two old contents, a history of one entry, one edit and one
\* save; two autosaves, two crashes and one I/O error as far as Bound lets them meet.
CONSTANTS
  Ids = {p, q}
  Paths = {f, g}
  NoPath = NoPath
  Migrated <- MCMigrated
  Retooled = {older}
  FirstFiles <- MCFirstFiles
  Contents = {older, old, new}
  Storable = {older, old, new}
  Bytes <- MCBytes
  MAX_HISTORY_DEPTH = 1
  MAX_HISTORY_BYTES = 1
  MaxSnapshots = 1
  MaxEpoch = 2
  MaxSaves = 1
  MaxAutosaves = 2
  MaxEdits = 1
  MaxCrashes = 2
  MaxFaults = 1
  older = older
  old = old
  new = new
  p = p
  q = q
  f = f
  g = g
SPECIFICATION Spec
INVARIANTS
  CleanMeansSaved
  RecoveryNotOutdated
  AutosavedWorkSurvives
PROPERTY
  ImportHitsItsDocument
CONSTRAINT Bound
SYMMETRY Symmetry

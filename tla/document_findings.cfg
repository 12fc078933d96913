\* As document.cfg with two saves, two autosaves and two crashes.  Violates OpenIsSaved,
\* ReportedWorkStays, CloseOffersNothing and RestoreGoesHome, each by itself.
CONSTANTS
  Ids = {p, q}
  Paths = {f, g}
  NoPath = NoPath
  Migrated <- MCMigrated
  Retooled = {}
  FirstFiles <- MCFirstFiles
  Contents = {old, new}
  Storable = {old, new}
  Bytes <- MCBytes
  MAX_HISTORY_DEPTH = 1
  MAX_HISTORY_BYTES = 1
  MaxSnapshots = 1
  MaxEpoch = 2
  MaxSaves = 2
  MaxAutosaves = 2
  MaxEdits = 1
  MaxCrashes = 2
  MaxFaults = 1
  older = older
  old = old
  new = new
  p = p
  q = q
  f = f
  g = g
SPECIFICATION Spec
INVARIANTS
  OpenIsSaved
  ReportedWorkStays
  CloseOffersNothing
  RestoreGoesHome
SYMMETRY Symmetry

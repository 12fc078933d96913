\* Violates, each when those before it are left out, UnownedIsReadOnly, SessionStaysUsable,
\* OverStaysOver, EmergencyStopRemovesFile, KeepsRunningIsTrue, DeletesOnlyOurs and
\* JobIsNotStranded.
CONSTANTS
  STOP_CONFIRM_ATTEMPTS = 2
  Faults = {"unanswered"}
  MaxMishaps = 2
  MaxStarts = 2
  MaxPresses = 3
SPECIFICATION Spec
INVARIANTS
  UnownedIsReadOnly
  SessionStaysUsable
  JobIsNotStranded
PROPERTIES
  OverStaysOver
  EmergencyStopRemovesFile
  KeepsRunningIsTrue
  DeletesOnlyOurs
CHECK_DEADLOCK FALSE

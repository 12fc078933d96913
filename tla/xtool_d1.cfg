CONSTANTS
  STOP_CONFIRM_ATTEMPTS = 2
  Faults = {"lost", "unanswered", "unstored", "closed"}
  MaxMishaps = 2
  MaxStarts = 2
  MaxPresses = 2
SPECIFICATION FairSpec
PROPERTIES CompletedMeansRan StopIsConfirmed EndIsNoticed
\* The bounds on presses and mishaps end every behaviour.
CHECK_DEADLOCK FALSE

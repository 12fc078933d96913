CONSTANTS
  STOP_CONFIRM_ATTEMPTS = 3
  Faults = {"lost", "unanswered", "refused", "Unknown", "Error"}
  MaxFaults = 2
  MaxStarts = 2
  MaxPresses = 5
  MaxHands = 3
SPECIFICATION FairSpec
PROPERTIES CompletedMeansRan StopIsConfirmed NoUploadOverJob EndIsNoticed
\* The bounds on presses and hands end every behaviour.
CHECK_DEADLOCK FALSE

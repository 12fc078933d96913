\* Violates StopIsAlwaysConfirmed; without that line StoppedIsNotCompleted, and without
\* both FailedJobIsStopped.
CONSTANTS
  STOP_CONFIRM_ATTEMPTS = 2
  Faults = {"lost"}
  MaxFaults = 2
  MaxStarts = 1
  MaxPresses = 2
  MaxHands = 1
SPECIFICATION Spec
PROPERTIES
  StopIsAlwaysConfirmed
  StoppedIsNotCompleted
  FailedJobIsStopped
CHECK_DEADLOCK FALSE

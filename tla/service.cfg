SPECIFICATION Spec
CONSTANTS
  u1 = u1
  u2 = u2
  u3 = u3
  l1 = l1
  l2 = l2
  d1 = d1
  d2 = d2
  NoThread = NoThread
  User <- MCUser
  Loop <- MCLoop
  Deadman <- MCDeadman
  Thread <- MCThread
  Ops = {"start", "frame", "status", "cancel", "connect", "disconnect", "estop", "fire", "release", "home"}
  MaxCalls = 3
  MaxFaults = 2
SYMMETRY MCSymmetry
INVARIANTS
  NoCircularWait
  ResourcesFollowJob
  JobExcludesFire
  JobIsDriven
PROPERTY PreparedJobIsCurrent

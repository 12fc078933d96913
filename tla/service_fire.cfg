\* Violates MotionExcludesFire; without that name, BeamIsWatched.
SPECIFICATION Spec
CONSTANTS
  u1 = u1
  u2 = u2
  u3 = u3
  l1 = l1
  l2 = l2
  d1 = d1
  d2 = d2
  NoThread = NoThread
  User <- MCUser
  Loop <- MCLoop
  Deadman <- MCDeadman
  Thread <- MCThread
  Ops = {"frame", "fire", "release"}
  MaxCalls = 3
  MaxFaults = 0
INVARIANTS MotionExcludesFire BeamIsWatched

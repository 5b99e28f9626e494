CONSTANTS
  NPROCS = 4
  Algorithms = {3}
  FirstPriority <- MCFirstPriority
  FirstShare <- MCEqualShare
  PriorityArgs <- MCNoArgs
  ShareArgs <- MCNoArgs
  FirstWords <- MCFirstWords
  MaxPrints = 1
SPECIFICATION Spec
INVARIANT RunsOnItsShare
\* schedule() spins for good, and an unknown interrupt hangs the machine.
CHECK_DEADLOCK FALSE

CONSTANTS
  NPROCS = 4
  Algorithms = {0, 1, 2, 3}
  FirstPriority <- MCFirstPriority
  FirstShare <- MCFirstShare
  PriorityArgs <- MCPriorityArgs
  ShareArgs <- MCShareArgs
  FirstWords <- MCFirstWords
  MaxPrints = 2
SPECIFICATION FairSpec
INVARIANTS
  TypeOK
  OutputSorted
  TopPriorityRuns
  RunsOnItsShare
  NeverGivesUpEarly
PROPERTIES
  CycleIsFair
  EntitledRuns
\* schedule() spins for good, and an unknown interrupt hangs the machine.
CHECK_DEADLOCK FALSE

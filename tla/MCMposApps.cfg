CONSTANTS
  NPROCS = 16
  Statuses <- MCStatuses
  Programs <- MCPrograms
  Total = 1025
  Yields = 20
SPECIFICATION AppSpec
INVARIANT ChildStatusArrives
INVARIANT RoundsLeaveOneZombie
PROPERTY MainFinishes
\* After the last exit schedule() spins for good.
CHECK_DEADLOCK FALSE

CONSTANTS
  NPROCS = 4
  Statuses = {0, 2}
  Programs <- MCPrograms
SPECIFICATION FairSpec
VIEW MCView
INVARIANT TypeOK
INVARIANT RunningEntry
INVARIANT NoLostWakeup
INVARIANT SpinMeansStuck
INVARIANT StacksPrivate
PROPERTY ReapedWithStatus
PROPERTY RunnableRuns
\* schedule() spins for good, and an unknown interrupt hangs the machine.
CHECK_DEADLOCK FALSE

CONSTANTS
  NPROCS = 4
  Statuses = {2}
  Programs <- MCWaitOnly
SPECIFICATION Spec
PROPERTY StatusGivenOnce
\* schedule() spins for good when nobody is runnable.
CHECK_DEADLOCK FALSE

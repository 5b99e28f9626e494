CONSTANTS
  t1 = t1
  t2 = t2
  t3 = t3
  Threads <- MCThreads
  Iterations = 1
  IntMax = 3
  Free = Free
SPECIFICATION LiveSpec
INVARIANT FitsInt
INVARIANT NothingLost
INVARIANT RaceBounded
PROPERTY ImplementsTally
PROPERTY AllThreadsEnd

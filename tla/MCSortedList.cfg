CONSTANTS
  t1 = t1
  t2 = t2
  Threads <- MCThreads
  Iterations = 2
  NLists = 2
  Key <- MCKey
  Hash <- MCHash
  Free = Free
  Null = Null
SPECIFICATION LiveSpec
INVARIANTS
  ListsSound
  LengthIsSnapshot
  ChecksPass
PROPERTIES
  ImplementsListPool
  AllThreadsEnd

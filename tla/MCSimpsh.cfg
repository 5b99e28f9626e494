CONSTANTS
  Fds = {3, 4, 5, 6, 7, 8, 9, 10}
  Lines <- MCLines
SPECIFICATION Spec
INVARIANTS
  StreamsAsTold
  PipeEndsLetGo
  ExitIsWorst
PROPERTY WaitReturns
\* The shell exits, is killed, or pauses for ever.
CHECK_DEADLOCK FALSE

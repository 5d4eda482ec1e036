SPECIFICATION FairSpec
CONSTANTS
  a = a
  b = b
  Nil = Nil
  Services <- OneService
  MaxFd = 2
  MaxChunks = 2
  MaxCalls = 1
INVARIANTS
  ConnectFirst
PROPERTIES
  CallsAndHandlersEnd
CHECK_DEADLOCK FALSE

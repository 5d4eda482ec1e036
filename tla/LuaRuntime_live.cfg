SPECIFICATION FairSpec
CONSTANTS
  a = a
  Nil = Nil
  Services <- OneService
  MaxCoros = 4
  MaxCalls = 2
  Senders = {2}
  callTimeout = 0
INVARIANTS
  CorosInPlace
PROPERTIES
  ReturnsOnce
  CallReturns
  CloseHonoured
CHECK_DEADLOCK FALSE

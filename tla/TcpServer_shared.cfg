SPECIFICATION Spec
CONSTANTS
  a = a
  b = b
  Nil = Nil
  Services <- TwoServices
  MaxFd = 1
  MaxChunks = 2
  MaxCalls = 1
SYMMETRY Swap
CONSTRAINT OneListens
INVARIANTS
  KeepsGoing
  CloseAnnounced
  OneMessageLate
CHECK_DEADLOCK FALSE

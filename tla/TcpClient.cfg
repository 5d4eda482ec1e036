SPECIFICATION FairSpec
CONSTANTS
  a = a
  Nil = Nil
  Clients <- OneClient
  MaxConnects = 3
  MaxChunks = 1
INVARIANTS
  SocketInOrder
  WellTold
PROPERTIES
  ConnectAnswered
  EndNoticed
CHECK_DEADLOCK FALSE

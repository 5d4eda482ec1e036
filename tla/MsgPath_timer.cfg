SPECIFICATION FairPathSpec
CONSTANTS
  a = a
  b = b
  main = main
  io = io
  Nil = Nil
  Main = main
  Services <- OneService
  Senders <- MainAndIo
  Kinds <- TimerOnly
  MaxPosts = 2
  PoolSize = 1
PROPERTIES
  TimerReachesLua
CHECK_DEADLOCK FALSE

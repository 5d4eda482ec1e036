SPECIFICATION PathSpec
CONSTANTS
  a = a
  b = b
  main = main
  io = io
  Nil = Nil
  Main = main
  Services <- OneService
  Senders <- MainAndIo
  Kinds <- TimerOnly
  MaxPosts = 2
  PoolSize = 1
INVARIANTS
  PathBlocked
  NeverExits
CHECK_DEADLOCK FALSE

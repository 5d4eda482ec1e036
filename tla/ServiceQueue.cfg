SPECIFICATION Spec
CONSTANTS
  a = a
  b = b
  io = io
  Nil = Nil
  Services <- TwoServices
  Senders <- NoSender
  Kinds <- LuaOnly
  MaxPosts = 2
SYMMETRY Swap
INVARIANTS
  TypeOK
  NothingLost
  QuietAfterClose
PROPERTIES
  ImplementsChannel
CHECK_DEADLOCK FALSE

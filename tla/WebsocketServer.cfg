SPECIFICATION FairSpec
CONSTANTS
  c1 = c1
  c2 = c2
  Lua = Lua
  Nil = Nil
  Conns = {c1, c2}
  MaxMsgs = 1
  MaxCalls = 2
INVARIANTS
  MapsAgree
  WellTold
PROPERTIES
  LockComesBack
  EndTold
CHECK_DEADLOCK FALSE

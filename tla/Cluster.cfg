SPECIFICATION Spec
CONSTANTS
  call = call
  send = send
  Users = {call, send}
  Sends = {send}
  MaxHttp = 1
  MaxLinks = 2
INVARIANTS
  ExclusiveClient
  PoolBounded
  ExecutedOnce
  StrayOnlyLate
  NoDeadEntry
CHECK_DEADLOCK FALSE

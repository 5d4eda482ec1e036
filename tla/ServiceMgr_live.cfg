SPECIFICATION FairSpec
CONSTANTS
  s1 = s1
  s2 = s2
  s3 = s3
  Start = Start
  Nil = Nil
  NumWorkers = 2
  Services <- TwoServices
  Destroys <- OwnDestroy
  Creators <- AnyContext
PROPERTIES
  CallsReturn
  Reclaimed
  JoinEnds
  FreeServicePolled
CHECK_DEADLOCK FALSE

SPECIFICATION Spec
CONSTANTS
  s1 = s1
  s2 = s2
  s3 = s3
  Start = Start
  Nil = Nil
  NumWorkers = 2
  Services <- ThreeServices
  Destroys <- AnyDestroy
  Creators <- AnyContext
INVARIANTS
  TypeOK
  WorkerBudget
  ExclusivePoll
  InRotationOnce
  PreDestroyOnce
  NeverEntersDeleted
CHECK_DEADLOCK FALSE

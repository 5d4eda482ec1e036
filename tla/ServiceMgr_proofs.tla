-------------------------- MODULE ServiceMgr_proofs --------------------------
(***************************************************************************)
(* Proofs about ServiceMgr, for any number of workers and services.        *)
(***************************************************************************)
EXTENDS ServiceMgr, FiniteSetTheorems, TLAPS

USE DEF registryVars, workerVars, objectVars, callVars, destroyVars,
        loopVars, queueVars, mainVars, threadVars, sharedVars

(* What a push leaves in the queue is again a queue of ids.                 *)
LEMMA EndPushType ==
  ASSUME TypeOK, NEW p \in Services \union Workers, NEW id \in Nat,
         EndPush(p, id)
  PROVE  /\ mFreeServices' \in Seq(Nat)
         /\ raced' \in BOOLEAN
         /\ overlapped' \subseteq Services \union Workers
<1>1. \A q \in Seq(Nat) : ReplaceLast(q, id) \in Seq(Nat)
  BY DEF ReplaceLast
<1>2. \A q \in Seq(Nat) : \A i \in Nat : Append(q, i) \in Seq(Nat)
  OBVIOUS
<1>3. Stale \subseteq Nat /\ Popped \subseteq Nat
  BY DEF Stale, Popped, TypeOK
<1>4. OverlappedPush(mFreeServices, id) \subseteq Seq(Nat)
  <2>1. OneKept(mFreeServices, id) \subseteq Seq(Nat)
    BY <1>1 DEF OneKept, TypeOK
  <2>2. StaleEnd(mFreeServices, id) \subseteq Seq(Nat)
    BY <1>2, <1>3, <2>1 DEF StaleEnd
  <2>3. Append(mFreeServices, id) \in Seq(Nat)
    BY <1>2 DEF TypeOK
  <2>4. FrontBack(mFreeServices, id) \subseteq Seq(Nat)
    <3>1. \A i \in Nat, q \in Seq(Nat) : <<i>> \o q \in Seq(Nat)
      OBVIOUS
    <3>2. QED
      BY <3>1, <2>3, <1>3 DEF FrontBack
  <2>5. QED
    BY <2>1, <2>2, <2>3, <2>4 DEF OverlappedPush
<1>5. mFreeServices' \in Seq(Nat)
  BY <1>2, <1>4 DEF EndPush, PushOutcomes, TypeOK
<1>6. raced' \in BOOLEAN /\ overlapped' \subseteq Services \union Workers
  BY DEF EndPush, Pushing, UnlockedPushes, TypeOK
<1>7. QED
  BY <1>5, <1>6

LEMMA TypeInit == Init => TypeOK
<1> SUFFICES ASSUME Init PROVE TypeOK
  OBVIOUS
<1>1. <<>> \in Seq(Nat) /\ <<>> \in Seq(Services)
  OBVIOUS
<1>2. \A s \in Services : stage[s] \in Stages
  BY DEF Init, Stages
<1>3. stage \in [Services -> Stages]
  BY <1>2 DEF Init
<1>4. joining \in 0..NumWorkers
  BY ConstantsAssumption DEF Init
<1>5. /\ mAutoId \in Nat \ {0}
      /\ mServices \subseteq Services
      /\ mServiceLock \in Contexts \union {Nil}
      /\ mFreeServices \in Seq(Nat)
      /\ mPreDestroyServices \in Seq(Services)
      /\ mFreeWorkers \subseteq Workers
      /\ mService \in [Workers -> Services \union {Nil}]
      /\ deleted \subseteq Services
  BY <1>1 DEF Init, FirstId
<1>6. /\ sid \in [Services -> Nat]
      /\ unique \in [Services -> BOOLEAN]
      /\ mIsInit \in [Services -> BOOLEAN]
      /\ caller \in [Services -> Contexts \union {Nil}]
      /\ claim \in [Services -> Workers \union {0}]
  BY DEF Init
<1>7. /\ dstep \in [Contexts -> {"none", "unpin", "close", "retire"}]
      /\ dsvc \in [Contexts -> Services \union {Nil}]
      /\ \A c \in Contexts : dstep[c] = "none"
      /\ foreign \in BOOLEAN
  BY DEF Init
<1>8. /\ wpc \in [Workers -> {"loop", "pop", "get", "poll", "lua", "requeue",
                              "pushing", "stopped"}]
      /\ wid \in [Workers -> Nat]
      /\ wsvc \in [Workers -> Services \union {Nil}]
  BY DEF Init
<1>9. QED
  BY <1>3, <1>4, <1>5, <1>6, <1>7, <1>8 DEF Init, TypeOK

(* A step of newService keeps the types.                                    *)
LEMMA TypeCreate ==
  ASSUME TypeOK, NEW s \in Services, CreateStep(s)
  PROVE  TypeOK'
<1> USE DEF TypeOK, Stages, Contexts
<1>1. CASE UseWorker(s)
  BY <1>1 DEF UseWorker, TakeWorker
<1>2. CASE ReadId(s)
  BY <1>2 DEF ReadId
<1>3. CASE BumpId(s)
  BY <1>3 DEF BumpId
<1>4. ASSUME NEW ok \in BOOLEAN, CtorReturn(s, ok) PROVE TypeOK'
  BY <1>4 DEF CtorReturn
<1>5. CASE Insert(s)
  BY <1>5 DEF Insert
<1>6. CASE SetService(s)
  BY <1>6 DEF SetService, Return
<1>7. CASE PushBegin(s)
  BY <1>7 DEF PushBegin
<1>8. CASE PushEnd(s)
  <2>1. sid[s] \in Nat
    OBVIOUS
  <2>2. EndPush(s, sid[s])
    BY <1>8 DEF PushEnd
  <2>3. /\ mFreeServices' \in Seq(Nat)
        /\ raced' \in BOOLEAN
        /\ overlapped' \subseteq Services \union Workers
    BY <2>1, <2>2, EndPushType
  <2>4. QED
    BY <1>8, <2>3 DEF PushEnd, Return
<1>9. QED
  BY <1>1, <1>2, <1>3, <1>4, <1>5, <1>6, <1>7, <1>8 DEF CreateStep

(* A step of destoryService keeps the types.                                *)
LEMMA TypeDestroy ==
  ASSUME TypeOK, NEW c \in Contexts, DestroyStep(c)
  PROVE  TypeOK'
<1> USE DEF TypeOK
<1>1. CASE DestroyUnpin(c)
  BY <1>1 DEF DestroyUnpin, Unpin
<1>2. CASE DestroyClose(c)
  BY <1>2 DEF DestroyClose, Erase
<1>3. CASE DestroyRetire(c)
  BY <1>3 DEF DestroyRetire, Unlock
<1>4. QED
  BY <1>1, <1>2, <1>3 DEF DestroyStep

(* A step of Worker::run keeps the types.                                   *)
LEMMA TypeWorker ==
  ASSUME TypeOK, NEW w \in Workers, WorkerStep(w)
  PROVE  TypeOK'
<1> USE DEF TypeOK
<1>1. CASE ReadService(w)
  BY <1>1 DEF ReadService
<1>2. CASE GetFreeServiceId(w)
  <2>1. mFreeServices # <<>> => Head(mFreeServices) \in Nat
    OBVIOUS
  <2>2. PopFront(mFreeServices) \in Seq(Nat)
    BY DEF PopFront
  <2>3. overlapped' \subseteq Services \union Workers /\ raced' \in BOOLEAN
    BY <1>2 DEF GetFreeServiceId, UnlockedPushes
  <2>4. QED
    BY <1>2, <2>1, <2>2, <2>3 DEF GetFreeServiceId
<1>3. CASE GetService(w)
  <2>1. /\ wsvc' \in [Workers -> Services \union {Nil}]
        /\ wid' \in [Workers -> Nat]
        /\ wpc' \in [Workers -> {"loop", "pop", "get", "poll", "lua", "requeue",
                                "pushing", "stopped"}]
    <3>1. /\ wsvc \in [Workers -> Services \union {Nil}]
          /\ wpc \in [Workers -> {"loop", "pop", "get", "poll", "lua", "requeue",
                                 "pushing", "stopped"}]
          /\ mServices \subseteq Services /\ wid \in [Workers -> Nat]
      OBVIOUS
    <3> HIDE DEF TypeOK
    <3>2. CASE \E s \in mServices : /\ wsvc' = [wsvc EXCEPT ![w] = s]
                                    /\ wpc' = [wpc EXCEPT ![w] = "poll"]
                                    /\ wid' = wid
      BY <3>1, <3>2
    <3>3. CASE /\ wsvc' = wsvc /\ wpc' = [wpc EXCEPT ![w] = "loop"]
               /\ wid' = [wid EXCEPT ![w] = 0]
      BY <3>1, <3>3
    <3>4. QED
      BY <1>3, <3>2, <3>3 DEF GetService
  <2>2. UNCHANGED <<queueVars, mainVars, sharedVars>>
    BY <1>3 DEF GetService
  <2>3. QED
    BY <2>1, <2>2
<1>4. CASE PollEnter(w)
  BY <1>4 DEF PollEnter, LeavePoll, AfterPoll
<1>5. CASE PollReturn(w)
  BY <1>5 DEF PollReturn, LeavePoll, AfterPoll
<1>6. CASE RequeueBegin(w)
  BY <1>6 DEF RequeueBegin
<1>7. CASE RequeueEnd(w)
  <2>1. wid[w] \in Nat
    OBVIOUS
  <2>2. EndPush(w, wid[w])
    BY <1>7 DEF RequeueEnd
  <2>3. /\ mFreeServices' \in Seq(Nat)
        /\ raced' \in BOOLEAN
        /\ overlapped' \subseteq Services \union Workers
    BY <2>1, <2>2, EndPushType
  <2>4. QED
    BY <1>7, <2>3 DEF RequeueEnd
<1>8. CASE WorkerStop(w)
  BY <1>8 DEF WorkerStop
<1>9. QED
  BY <1>1, <1>2, <1>3, <1>4, <1>5, <1>6, <1>7, <1>8 DEF WorkerStep

(* A step of main keeps the types.                                          *)
LEMMA TypeMain == TypeOK /\ MainStep => TypeOK'
<1> SUFFICES ASSUME TypeOK, MainStep PROVE TypeOK'
  OBVIOUS
<1> USE DEF TypeOK
<1>1. ASSUME NEW ok \in BOOLEAN, ScriptReturn(ok) PROVE TypeOK'
  BY <1>1 DEF ScriptReturn
<1>2. CASE MainPoll
  BY <1>2 DEF MainPoll
<1>3. CASE DeleteTop
  BY <1>3 DEF DeleteTop, Delete
<1>4. CASE PollDone
  BY <1>4 DEF PollDone
<1>5. CASE WaitAllServiceClose
  BY <1>5 DEF WaitAllServiceClose
<1>6. CASE AllClosed
  BY <1>6 DEF AllClosed
<1>7. CASE JoinWorker
  BY <1>7, ConstantsAssumption DEF JoinWorker
<1>8. CASE JoinedAll
  BY <1>8 DEF JoinedAll
<1>9. QED
  BY <1>1, <1>2, <1>3, <1>4, <1>5, <1>6, <1>7, <1>8 DEF MainStep

(* What a step of Lua is, whoever may destroy what.                         *)
LEMMA LuaStepCases ==
  ASSUME LuaStep
  PROVE  \/ \E c \in Creators, s \in Services, u \in BOOLEAN : NewService(c, s, u)
         \/ \E c \in Contexts, s \in Services : DestroyFind(c, s)
         \/ LuaExit
<1>1. \A d \in Destroys : d[1] \in Contexts /\ d[2] \in Services
  BY ConstantsAssumption
<1> QED
  BY <1>1 DEF LuaStep

(* A call Lua makes keeps the types.                                        *)
LEMMA TypeLua == TypeOK /\ LuaStep => TypeOK'
<1> SUFFICES ASSUME TypeOK, LuaStep PROVE TypeOK'
  OBVIOUS
<1> USE DEF TypeOK
<1>1. ASSUME NEW c \in Creators, NEW s \in Services, NEW u \in BOOLEAN,
             NewService(c, s, u)
      PROVE  TypeOK'
  BY <1>1, ConstantsAssumption DEF NewService, Stages
<1>2. ASSUME NEW c \in Contexts, NEW s \in Services, DestroyFind(c, s)
      PROVE  TypeOK'
  BY <1>2 DEF DestroyFind
<1>3. CASE LuaExit
  BY <1>3 DEF LuaExit
<1>4. QED
  BY <1>1, <1>2, <1>3, LuaStepCases

LEMMA TypeNext == TypeOK /\ [Next]_vars => TypeOK'
<1> SUFFICES ASSUME TypeOK, [Next]_vars PROVE TypeOK'
  OBVIOUS
<1>1. CASE UNCHANGED vars
  BY <1>1 DEF TypeOK, vars
<1>2. QED
  BY <1>1, TypeLua, TypeCreate, TypeDestroy, TypeWorker, TypeMain DEF Next

(* The type invariant holds in every reachable state.                       *)
THEOREM TypeCorrect == Spec => []TypeOK
BY TypeInit, TypeNext, PTL DEF Spec


-----------------------------------------------------------------------------
(* The part of WorkerBudget that is inductive: calls past useWorker hold    *)
(* workers that are not free, each its own.                                 *)
ClaimInv ==
  /\ \A s \in Claimed : claim[s] \in Workers \ mFreeWorkers
  /\ \A r, s \in Claimed : r # s => claim[r] # claim[s]

LEMMA ClaimInit == Init => ClaimInv
BY DEF Init, ClaimInv, Claimed

LEMMA ClaimNext == TypeOK /\ ClaimInv /\ [Next]_vars => ClaimInv'
<1> SUFFICES ASSUME TypeOK, ClaimInv, [Next]_vars PROVE ClaimInv'
  OBVIOUS
<1> USE DEF ClaimInv, Claimed
<1>1. ASSUME NEW s \in Services, UseWorker(s) PROVE ClaimInv'
  <2>1. PICK w \in mFreeWorkers : /\ claim' = [claim EXCEPT ![s] = w]
                                  /\ mFreeWorkers' = mFreeWorkers \ {w}
    BY <1>1 DEF UseWorker, TakeWorker
  <2>2. s \notin Claimed
    BY <1>1 DEF UseWorker
  <2>3. Claimed' = Claimed \union {s}
    BY <1>1 DEF UseWorker, TypeOK
  <2>4. \A r \in Claimed : claim'[r] = claim[r] /\ claim[r] # w
    BY <2>1, <2>2 DEF TypeOK
  <2>5. claim'[s] = w /\ w \in Workers
    BY <2>1 DEF TypeOK
  <2> HIDE DEF Claimed
  <2>6. QED
    BY <2>1, <2>3, <2>4, <2>5
<1>2. ASSUME claim' = claim, mFreeWorkers' = mFreeWorkers, Claimed' = Claimed
      PROVE  ClaimInv'
  <2> HIDE DEF Claimed
  <2>1. QED
    BY <1>2
<1>3. ASSUME NEW s \in Services, CreateStep(s), ~UseWorker(s) PROVE ClaimInv'
  <2>1. /\ claim' = claim
        /\ mFreeWorkers' = mFreeWorkers
        /\ Claimed' = Claimed
    BY <1>3 DEF CreateStep, ReadId, BumpId, CtorReturn, Insert, SetService,
                PushBegin, PushEnd, Return, TypeOK
  <2>2. QED
    BY <2>1, <1>2
<1>4. ASSUME NEW c \in Contexts, DestroyStep(c) PROVE ClaimInv'
  BY <1>2, <1>4 DEF DestroyStep, DestroyUnpin, DestroyClose, DestroyRetire
<1>5. ASSUME NEW w \in Workers, WorkerStep(w) PROVE ClaimInv'
  BY <1>2, <1>5 DEF WorkerStep, ReadService, GetFreeServiceId, GetService,
                    PollEnter, PollReturn, RequeueBegin, RequeueEnd, WorkerStop
<1>6. CASE MainStep
  BY <1>2, <1>6 DEF MainStep, ScriptReturn, MainPoll, DeleteTop, PollDone,
                    WaitAllServiceClose, AllClosed, JoinWorker, JoinedAll
<1>7. CASE LuaStep
  <2>1. /\ claim' = claim
        /\ mFreeWorkers' = mFreeWorkers
        /\ Claimed' = Claimed
    BY <1>7 DEF LuaStep, NewService, DestroyFind, LuaExit, TypeOK
  <2>2. QED
    BY <2>1, <1>2
<1>8. CASE UNCHANGED vars
  BY <1>2, <1>8 DEF vars
<1>9. QED
  BY <1>1, <1>3, <1>4, <1>5, <1>6, <1>7, <1>8 DEF Next

(* Distinct workers for distinct calls, so no more calls than workers.      *)
LEMMA BudgetFromClaims == TypeOK /\ ClaimInv => WorkerBudget
<1> SUFFICES ASSUME TypeOK, ClaimInv PROVE WorkerBudget
  OBVIOUS
<1> DEFINE f == [s \in Claimed |-> claim[s]]
<1>1. f \in Injection(Claimed, Workers)
  BY DEF ClaimInv, Injection, IsInjective
<1>2. IsFiniteSet(Workers) /\ Cardinality(Workers) = NumWorkers
  BY FS_Interval, ConstantsAssumption DEF Workers
<1>3. Cardinality(Claimed) <= NumWorkers
  <2> HIDE DEF f
  <2>1. QED
    BY <1>1, <1>2, FS_Injection
<1>4. QED
  BY <1>3 DEF ClaimInv, WorkerBudget

(* However many workers are configured, a process never creates more        *)
(* services than that, destroyed ones included: freeWorker has no caller.   *)
THEOREM WorkerBudgetHolds == Spec => []WorkerBudget
<1>1. Init => TypeOK /\ ClaimInv
  BY TypeInit, ClaimInit
<1>2. TypeOK /\ ClaimInv /\ [Next]_vars => TypeOK' /\ ClaimInv'
  BY TypeNext, ClaimNext
<1>3. TypeOK /\ ClaimInv => WorkerBudget
  BY BudgetFromClaims
<1>4. QED
  BY <1>1, <1>2, <1>3, PTL DEF Spec


-----------------------------------------------------------------------------
(* What Append and dropping the last element do to the elements of a        *)
(* sequence without repetitions.                                            *)
LEMMA RangeAppend ==
  ASSUME NEW S, NEW q \in Seq(S), NEW e \in S,
         IsInjective(q), e \notin Range(q)
  PROVE  /\ Range(Append(q, e)) = Range(q) \union {e}
         /\ IsInjective(Append(q, e))
<1> DEFINE r == Append(q, e)
<1>1. /\ DOMAIN q = 1..Len(q) /\ Len(q) \in Nat
      /\ DOMAIN r = 1..(Len(q) + 1)
      /\ \A i \in 1..Len(q) : r[i] = q[i]
      /\ r[Len(q) + 1] = e
  OBVIOUS
<1>2. \A i \in 1..Len(q) : q[i] # e
  BY <1>1 DEF Range
<1> HIDE DEF r
<1>3. Range(r) = Range(q) \union {e}
  <2>1. ASSUME NEW x \in Range(q) PROVE x \in Range(r)
    <3>1. PICK i \in 1..Len(q) : q[i] = x
      BY <1>1, <2>1 DEF Range
    <3>2. i \in DOMAIN r /\ r[i] = x
      BY <1>1, <3>1
    <3>3. QED
      BY <3>2 DEF Range
  <2>2. e \in Range(r)
    <3>1. Len(q) + 1 \in DOMAIN r
      BY <1>1
    <3>2. QED
      BY <1>1, <3>1 DEF Range
  <2>3. ASSUME NEW x \in Range(r) PROVE x \in Range(q) \union {e}
    <3>1. PICK i \in 1..(Len(q) + 1) : r[i] = x
      BY <1>1, <2>3 DEF Range
    <3>2. CASE i = Len(q) + 1
      BY <1>1, <3>1, <3>2
    <3>3. CASE i # Len(q) + 1
      <4>1. i \in 1..Len(q) /\ q[i] = x
        BY <1>1, <3>1, <3>3
      <4>2. QED
        BY <1>1, <4>1 DEF Range
    <3>4. QED
      BY <3>2, <3>3
  <2>4. QED
    BY <2>1, <2>2, <2>3
<1>4. IsInjective(r)
  <2>1. SUFFICES ASSUME NEW i \in 1..(Len(q) + 1), NEW j \in 1..(Len(q) + 1),
                        r[i] = r[j]
                 PROVE  i = j
    BY <1>1 DEF IsInjective
  <2>2. CASE i = Len(q) + 1
    BY <1>1, <1>2, <2>1, <2>2
  <2>3. CASE j = Len(q) + 1
    BY <1>1, <1>2, <2>1, <2>3
  <2>4. CASE i # Len(q) + 1 /\ j # Len(q) + 1
    <3>1. i \in 1..Len(q) /\ j \in 1..Len(q) /\ q[i] = q[j]
      BY <1>1, <2>1, <2>4
    <3>2. QED
      BY <1>1, <3>1 DEF IsInjective
  <2>5. QED
    BY <2>2, <2>3, <2>4
<1>5. QED
  BY <1>3, <1>4 DEF r

LEMMA RangeFront ==
  ASSUME NEW S, NEW q \in Seq(S), q # <<>>, IsInjective(q)
  PROVE  LET front == SubSeq(q, 1, Len(q) - 1) IN
         /\ Range(front) = Range(q) \ {q[Len(q)]}
         /\ IsInjective(front)
         /\ q[Len(q)] \in Range(q)
<1> DEFINE n == Len(q)
           r == SubSeq(q, 1, n - 1)
<1>1. /\ n \in Nat \ {0}
      /\ DOMAIN q = 1..n
      /\ DOMAIN r = 1..(n - 1)
      /\ \A i \in 1..(n - 1) : r[i] = q[i]
  OBVIOUS
<1> HIDE DEF n, r
<1>2. q[n] \in Range(q)
  BY <1>1 DEF Range
<1>3. Range(r) = Range(q) \ {q[n]}
  <2>1. ASSUME NEW x \in Range(r) PROVE x \in Range(q) /\ x # q[n]
    <3>1. PICK i \in 1..(n - 1) : r[i] = x
      BY <1>1, <2>1 DEF Range
    <3>2. i \in 1..n /\ i # n /\ q[i] = x
      BY <1>1, <3>1
    <3>3. QED
      BY <1>1, <3>2 DEF Range, IsInjective
  <2>2. ASSUME NEW x \in Range(q), x # q[n] PROVE x \in Range(r)
    <3>1. PICK i \in 1..n : q[i] = x
      BY <1>1, <2>2 DEF Range
    <3>2. i \in 1..(n - 1) /\ r[i] = x
      BY <1>1, <2>2, <3>1
    <3>3. QED
      BY <1>1, <3>2 DEF Range
  <2>3. QED
    BY <2>1, <2>2
<1>4. IsInjective(r)
  BY <1>1 DEF IsInjective
<1>5. QED
  BY <1>2, <1>3, <1>4 DEF n, r

(* Objects that left the registry.                                          *)
Gone == Range(mPreDestroyServices) \union deleted

NotInserted(s) ==
  stage[s] \in {"unborn", "useWorker", "readId", "bumpId", "ctor", "insert"}

(* The inductive form of PreDestroyOnce.  destoryService runs under         *)
(* mServiceLock, so its object is registered until it is erased, and from   *)
(* then until it is on the stack it is nowhere; an object that was not      *)
(* inserted yet is nowhere either.                                          *)
RegistryInv ==
  /\ \A c \in Contexts : dstep[c] # "none" => mServiceLock = c
  /\ \A c \in Contexts :
       dstep[c] \in {"unpin", "close"} => dsvc[c] \in mServices
  /\ \A c \in Contexts : dstep[c] = "retire" =>
       dsvc[c] \notin mServices \union Gone /\ ~NotInserted(dsvc[c])
  /\ \A s \in Services : NotInserted(s) => s \notin mServices \union Gone
  /\ PreDestroyOnce

LEMMA RegistryInit == Init => RegistryInv
BY DEF Init, RegistryInv, PreDestroyOnce, Gone, Range, IsInjective

(* A step that leaves the registry, the calls of destoryService, the stack  *)
(* and deleted alone, and moves no object back before its insert.           *)
LEMMA RegistryFrame ==
  ASSUME RegistryInv,
         mServices' = mServices, mServiceLock' = mServiceLock,
         mPreDestroyServices' = mPreDestroyServices, deleted' = deleted,
         dstep' = dstep, dsvc' = dsvc,
         \A s \in Services : NotInserted(s)' => NotInserted(s),
         \A c \in Contexts : dstep[c] # "none" => dsvc[c] \in Services
  PROVE  RegistryInv'
<1>1. Gone' = Gone
  BY DEF Gone
<1>2. PreDestroyOnce'
  BY DEF RegistryInv, PreDestroyOnce
<1>3. \A c \in Contexts : dstep'[c] = "retire" =>
        dsvc'[c] \notin mServices' \union Gone' /\ ~NotInserted(dsvc[c])'
  BY <1>1 DEF RegistryInv
<1>4. QED
  BY <1>1, <1>2, <1>3 DEF RegistryInv

LEMMA RegistryNext == TypeOK /\ RegistryInv /\ [Next]_vars => RegistryInv'
<1> SUFFICES ASSUME TypeOK, RegistryInv, [Next]_vars PROVE RegistryInv'
  OBVIOUS
<1>f. ASSUME mServices' = mServices, mServiceLock' = mServiceLock,
             mPreDestroyServices' = mPreDestroyServices, deleted' = deleted,
             dstep' = dstep, dsvc' = dsvc, stage' = stage
      PROVE  RegistryInv'
  <2>1. \A c \in Contexts : dstep[c] # "none" => dsvc[c] \in Services
    BY DEF TypeOK
  <2>2. \A s \in Services : NotInserted(s)' => NotInserted(s)
    BY <1>f DEF NotInserted
  <2>3. QED
    BY <1>f, <2>1, <2>2, RegistryFrame
<1>1. ASSUME NEW s \in Services, CreateStep(s), ~Insert(s) PROVE RegistryInv'
  <2>1. \A r \in Services : NotInserted(r)' => NotInserted(r)
    BY <1>1 DEF CreateStep, UseWorker, ReadId, BumpId, CtorReturn, SetService,
                PushBegin, PushEnd, Return, TypeOK, NotInserted
  <2>2. /\ mServices' = mServices /\ mServiceLock' = mServiceLock
        /\ mPreDestroyServices' = mPreDestroyServices /\ deleted' = deleted
        /\ dstep' = dstep /\ dsvc' = dsvc
    BY <1>1 DEF CreateStep, UseWorker, ReadId, BumpId, CtorReturn, SetService,
                PushBegin, PushEnd
  <2>3. \A c \in Contexts : dstep[c] # "none" => dsvc[c] \in Services
    BY DEF TypeOK
  <2>4. QED
    BY <2>1, <2>2, <2>3, RegistryFrame
<1>2. ASSUME NEW s \in Services, Insert(s) PROVE RegistryInv'
  <2>1. /\ NotInserted(s)
        /\ mServices' \subseteq mServices \union {s}
        /\ mServices \subseteq mServices'
        /\ UNCHANGED <<mServiceLock, mPreDestroyServices, deleted, dstep, dsvc>>
    BY <1>2 DEF Insert, NotInserted
  <2>2. \A r \in Services : NotInserted(r)' => NotInserted(r) /\ r # s
    BY <1>2 DEF Insert, NotInserted, TypeOK
  <2>3. Gone' = Gone
    BY <2>1 DEF Gone
  <2>4. \A c \in Contexts : dstep[c] = "none"
    BY <1>2, ConstantsAssumption DEF Insert, RegistryInv
  <2>5. PreDestroyOnce'
    BY <2>1, <2>3 DEF RegistryInv, PreDestroyOnce, Gone
  <2>6. QED
    BY <2>1, <2>2, <2>3, <2>4, <2>5 DEF RegistryInv
<1>3. ASSUME NEW c \in Contexts, DestroyUnpin(c) PROVE RegistryInv'
  <2>1. /\ UNCHANGED <<mServiceLock, mServices, mPreDestroyServices, deleted,
                       dsvc, stage>>
        /\ dstep[c] = "unpin"
        /\ dstep' = [dstep EXCEPT ![c] = "close"]
    BY <1>3 DEF DestroyUnpin
  <2>2. /\ dstep'[c] = "close" /\ dstep[c] # "none"
        /\ \A d \in Contexts \ {c} : dstep'[d] = dstep[d]
    BY <2>1 DEF TypeOK
  <2>3. Gone' = Gone /\ (PreDestroyOnce => PreDestroyOnce')
    BY <2>1 DEF Gone, PreDestroyOnce
  <2>4. \A x : NotInserted(x)' <=> NotInserted(x)
    BY <2>1 DEF NotInserted
  <2>5. QED
    BY <2>1, <2>2, <2>3, <2>4 DEF RegistryInv
<1>4. ASSUME NEW c \in Contexts, DestroyClose(c) PROVE RegistryInv'
  <2>1. /\ UNCHANGED <<mServiceLock, mPreDestroyServices, deleted, dsvc, stage>>
        /\ dstep[c] = "close"
        /\ dstep' = [dstep EXCEPT ![c] = "retire"]
        /\ mServices' = mServices \ {dsvc[c]}
    BY <1>4 DEF DestroyClose, Erase
  <2>2. /\ dstep'[c] = "retire" /\ dstep[c] # "none"
        /\ \A d \in Contexts \ {c} : dstep'[d] = dstep[d]
    BY <2>1 DEF TypeOK
  <2>3. \A d \in Contexts \ {c} : dstep[d] = "none"
    BY <2>2 DEF RegistryInv
  <2>4. Gone' = Gone /\ (PreDestroyOnce => PreDestroyOnce')
    BY <2>1 DEF Gone, PreDestroyOnce
  <2>5. \A x : NotInserted(x)' <=> NotInserted(x)
    BY <2>1 DEF NotInserted
  <2>6. dsvc[c] \in mServices /\ dsvc[c] \notin Gone /\ dsvc[c] \in Services
    BY <2>1 DEF RegistryInv, PreDestroyOnce, Gone, TypeOK
  <2>7. ~NotInserted(dsvc[c])
    BY <2>6 DEF RegistryInv
  <2>8. QED
    BY <2>1, <2>2, <2>3, <2>4, <2>5, <2>6, <2>7 DEF RegistryInv
<1>5. ASSUME NEW c \in Contexts, DestroyRetire(c) PROVE RegistryInv'
  <2>1. /\ UNCHANGED <<mServices, deleted, stage>>
        /\ dstep[c] = "retire"
        /\ dstep' = [dstep EXCEPT ![c] = "none"]
        /\ mPreDestroyServices' = Append(mPreDestroyServices, dsvc[c])
        /\ mServiceLock' = Nil
    BY <1>5 DEF DestroyRetire, Unlock
  <2>2. dstep'[c] = "none" /\ \A d \in Contexts \ {c} : dstep'[d] = dstep[d]
    BY <2>1 DEF TypeOK
  <2>3. \A d \in Contexts : dstep'[d] = "none"
    BY <2>1, <2>2 DEF RegistryInv
  <2>4. /\ dsvc[c] \in Services
        /\ dsvc[c] \notin mServices \union Gone
        /\ ~NotInserted(dsvc[c])
        /\ mPreDestroyServices \in Seq(Services)
    BY <2>1 DEF RegistryInv, TypeOK
  <2>5. /\ Range(mPreDestroyServices') = Range(mPreDestroyServices)
                                           \union {dsvc[c]}
        /\ IsInjective(mPreDestroyServices')
    BY <2>1, <2>4, RangeAppend DEF RegistryInv, PreDestroyOnce, Gone
  <2>6. Gone' = Gone \union {dsvc[c]}
    BY <2>1, <2>5 DEF Gone
  <2>7. PreDestroyOnce'
    BY <2>1, <2>4, <2>5 DEF PreDestroyOnce, RegistryInv, Gone
  <2>8. \A x : NotInserted(x)' <=> NotInserted(x)
    BY <2>1 DEF NotInserted
  <2>9. QED
    BY <2>1, <2>3, <2>4, <2>6, <2>7, <2>8 DEF RegistryInv
<1>6. ASSUME NEW c \in Contexts, NEW s \in Services, DestroyFind(c, s)
      PROVE  RegistryInv'
  <2>1. /\ UNCHANGED <<mServices, mPreDestroyServices, deleted, stage>>
        /\ mServiceLock = Nil /\ mServiceLock' = c
        /\ s \in mServices
        /\ dstep' = [dstep EXCEPT ![c] = "unpin"]
        /\ dsvc' = [dsvc EXCEPT ![c] = s]
    BY <1>6 DEF DestroyFind
  <2>2. \A d \in Contexts : dstep[d] = "none"
    BY <2>1, ConstantsAssumption DEF RegistryInv
  <2>3. /\ dstep'[c] = "unpin" /\ dsvc'[c] = s
        /\ \A d \in Contexts \ {c} : dstep'[d] = "none"
    BY <2>1, <2>2 DEF TypeOK
  <2>4. Gone' = Gone /\ (PreDestroyOnce => PreDestroyOnce')
    BY <2>1 DEF Gone, PreDestroyOnce
  <2>5. \A x : NotInserted(x)' <=> NotInserted(x)
    BY <2>1 DEF NotInserted
  <2>6. QED
    BY <2>1, <2>3, <2>4, <2>5 DEF RegistryInv
<1>7. CASE DeleteTop
  <2> DEFINE q == mPreDestroyServices
  <2>1. /\ UNCHANGED <<mServices, mServiceLock, dstep, dsvc, stage>>
        /\ q # <<>>
        /\ deleted' = deleted \union {q[Len(q)]}
        /\ q' = SubSeq(q, 1, Len(q) - 1)
    BY <1>7 DEF DeleteTop, Delete
  <2>2. /\ Range(q') = Range(q) \ {q[Len(q)]}
        /\ IsInjective(q')
        /\ q[Len(q)] \in Range(q)
    BY <2>1, RangeFront DEF TypeOK, RegistryInv, PreDestroyOnce
  <2>3. Gone' = Gone
    BY <2>1, <2>2 DEF Gone
  <2>4. PreDestroyOnce'
    BY <2>1, <2>2 DEF PreDestroyOnce, RegistryInv
  <2>5. \A x : NotInserted(x)' <=> NotInserted(x)
    BY <2>1 DEF NotInserted
  <2>6. QED
    BY <2>1, <2>3, <2>4, <2>5 DEF RegistryInv
<1>8. CASE MainStep /\ ~DeleteTop
  BY <1>f, <1>8 DEF MainStep, ScriptReturn, MainPoll, PollDone,
                    WaitAllServiceClose, AllClosed, JoinWorker, JoinedAll
<1>9. ASSUME NEW w \in Workers, WorkerStep(w) PROVE RegistryInv'
  BY <1>f, <1>9 DEF WorkerStep, ReadService, GetFreeServiceId, GetService,
                    PollEnter, PollReturn, RequeueBegin, RequeueEnd, WorkerStop
<1>10. ASSUME NEW c \in Creators, NEW s \in Services, NEW u \in BOOLEAN,
              NewService(c, s, u)
       PROVE  RegistryInv'
  <2>1. \A r \in Services : NotInserted(r)' => NotInserted(r)
    BY <1>10 DEF NewService, TypeOK, NotInserted
  <2>2. \A d \in Contexts : dstep[d] # "none" => dsvc[d] \in Services
    BY DEF TypeOK
  <2>3. QED
    BY <1>10, <2>1, <2>2, RegistryFrame DEF NewService
<1>11. CASE LuaExit
  BY <1>f, <1>11 DEF LuaExit
<1>12. CASE UNCHANGED vars
  BY <1>f, <1>12 DEF vars
<1>13. QED
  BY <1>1, <1>2, <1>3, <1>4, <1>5, <1>6, <1>7, <1>8, <1>9, <1>10, <1>11, <1>12,
     LuaStepCases DEF Next, DestroyStep

(* No service is deleted twice and every registered service is alive, for   *)
(* any number of threads and whatever Lua destroys.                         *)
THEOREM PreDestroyOnceHolds == Spec => []PreDestroyOnce
<1>1. Init => TypeOK /\ RegistryInv
  BY TypeInit, RegistryInit
<1>2. TypeOK /\ RegistryInv /\ [Next]_vars => TypeOK' /\ RegistryInv'
  BY TypeNext, RegistryNext
<1>3. RegistryInv => PreDestroyOnce
  BY DEF RegistryInv
<1>4. QED
  BY <1>1, <1>2, <1>3, PTL DEF Spec

-----------------------------------------------------------------------------
(***************************************************************************)
(* Who polls what, for any number of workers and services.  The id of a    *)
(* service that is not pinned is a token: newService puts it into the      *)
(* queue, a worker takes it out, keeps it while it polls and puts it back. *)
(* A token is in one place, unless two calls of newService drew one id or  *)
(* its unlocked push overlapped a pop or another push.                     *)
(***************************************************************************)

(* A service whose id goes round, and one that stays with its worker.       *)
Roams(s)     == stage[s] = "done" /\ ~unique[s]
Pinned(s, w) == stage[s] = "done" /\ unique[s] /\ claim[s] = w

(* Worker w has taken an id out of the queue and has it in hand.            *)
Holding(w) ==
  wid[w] # 0 /\ wpc[w] \in {"get", "poll", "lua", "requeue", "pushing"}

IsToken(i) == \E s \in Services : Roams(s) /\ sid[s] = i

(* What holds whether or not an access went wrong.                          *)
StageInv ==
  /\ \A s \in Services :
       sid[s] = 0 <=> stage[s] \in {"unborn", "useWorker", "readId"}
  /\ \A s \in mServices : stage[s] \in {"publish", "pushing", "done"}
  /\ \A s \in Services : stage[s] = "pushing" => ~unique[s]
  /\ \A w \in Workers : mService[w] # Nil => Pinned(mService[w], w)
  /\ \A w \in Workers : wpc[w] \in {"get", "requeue", "pushing"} => wid[w] # 0
  /\ \A w \in Workers : wpc[w] \in {"poll", "lua"} =>
       /\ wsvc[w] \in Services
       /\ wid[w] # 0 => sid[wsvc[w]] = wid[w]
       /\ wid[w] = 0 => Pinned(wsvc[w], w)

(* Where the tokens are.                                                    *)
TokenInv ==
  /\ \A i \in Range(mFreeServices) : IsToken(i)
  /\ \A w \in Workers : Holding(w) =>
       IsToken(wid[w]) /\ wid[w] \notin Range(mFreeServices)
  /\ IsInjective(mFreeServices)
  /\ \A v, w \in Workers :
       Holding(v) /\ Holding(w) /\ wid[v] = wid[w] => v = w
  /\ \A s \in mServices : Roams(s) =>
       \/ sid[s] \in Range(mFreeServices)
       \/ \E w \in Workers : Holding(w) /\ wid[w] = sid[s]

RotationInv == StageInv /\ (Calm => TokenInv)
-----------------------------------------------------------------------------
(* The head of a queue without repetitions.                                 *)
LEMMA RangeTail ==
  ASSUME NEW S, NEW q \in Seq(S), q # <<>>, IsInjective(q)
  PROVE  /\ Range(Tail(q)) = Range(q) \ {Head(q)}
         /\ IsInjective(Tail(q))
         /\ Head(q) \in Range(q)
<1> DEFINE n == Len(q)
           r == Tail(q)
<1>1. /\ n \in Nat \ {0}
      /\ DOMAIN q = 1..n /\ Head(q) = q[1]
      /\ DOMAIN r = 1..(n - 1)
      /\ \A i \in 1..(n - 1) : r[i] = q[i + 1]
  OBVIOUS
<1> HIDE DEF n, r
<1>2. 1 \in 1..n /\ \A i \in 1..(n - 1) : i + 1 \in 1..n /\ i + 1 # 1
  BY <1>1
<1>3. q[1] \in Range(q)
  BY <1>1, <1>2 DEF Range
<1>4. ASSUME NEW x \in Range(r) PROVE x \in Range(q) /\ x # q[1]
  <2>1. PICK i \in 1..(n - 1) : x = q[i + 1]
    BY <1>1, <1>4 DEF Range
  <2>2. i + 1 \in DOMAIN q /\ 1 \in DOMAIN q /\ i + 1 # 1
    BY <1>1, <1>2
  <2> QED
    BY <2>1, <2>2 DEF Range, IsInjective
<1>5. ASSUME NEW x \in Range(q), x # q[1] PROVE x \in Range(r)
  <2>1. PICK i \in 1..n : x = q[i]
    BY <1>1, <1>5 DEF Range
  <2>2. i - 1 \in 1..(n - 1) /\ (i - 1) + 1 = i
    BY <1>1, <1>5, <2>1
  <2>3. r[i - 1] = x
    BY <1>1, <2>1, <2>2
  <2> QED
    BY <1>1, <2>2, <2>3 DEF Range
<1>6. IsInjective(r)
  <2> SUFFICES ASSUME NEW i \in 1..(n - 1), NEW j \in 1..(n - 1), r[i] = r[j]
               PROVE  i = j
    BY <1>1 DEF IsInjective
  <2>1. q[i + 1] = q[j + 1] /\ i + 1 \in DOMAIN q /\ j + 1 \in DOMAIN q
    BY <1>1, <1>2
  <2>2. i + 1 = j + 1
    BY <2>1 DEF IsInjective
  <2> QED
    BY <2>2
<1> QED
  BY <1>1, <1>3, <1>4, <1>5, <1>6 DEF r

(* A push that no other push ended inside of appends.                       *)
LEMMA CalmPush ==
  ASSUME NEW p, NEW i, EndPush(p, i), ~raced'
  PROVE  mFreeServices' = Append(mFreeServices, i) /\ ~raced
BY DEF EndPush, PushOutcomes

(* Once two calls drew one id or a push went wrong, it stays so.            *)
LEMMA CalmBefore ==
  ASSUME TypeOK, StageInv, raced => raced',
         \A s \in Services : sid[s] # 0 => sid'[s] = sid[s]
  PROVE  Calm' => Calm
BY DEF Calm, IdsUnique, TypeOK
-----------------------------------------------------------------------------
(* The steps of newService up to the end of the push.                       *)

(* A call that is not done moves on; what is done stays as it is.           *)
LEMMA CreateFrame ==
  ASSUME TypeOK, RotationInv, NEW s \in Services, stage[s] # "done",
         \A r \in Services \ {s} :
           /\ stage'[r] = stage[r] /\ unique'[r] = unique[r]
           /\ claim'[r] = claim[r] /\ sid'[r] = sid[r],
         sid'[s] = sid[s] \/ sid[s] = 0
  PROVE  /\ \A r \in Services : Roams(r) => Roams(r)' /\ sid'[r] = sid[r]
         /\ \A r \in Services : \A w : Pinned(r, w) => Pinned(r, w)'
         /\ \A i : IsToken(i) => IsToken(i)'
         /\ (raced => raced') => (Calm' => Calm)
<1>1. \A r \in Services : stage[r] = "done" => r # s
  OBVIOUS
<1>2. \A r \in Services : Roams(r) => Roams(r)' /\ sid'[r] = sid[r]
  BY <1>1 DEF Roams
<1>3. \A r \in Services : \A w : Pinned(r, w) => Pinned(r, w)'
  BY <1>1 DEF Pinned
<1>4. \A i : IsToken(i) => IsToken(i)'
  BY <1>2 DEF IsToken
<1>5. \A r \in Services : sid[r] # 0 => sid'[r] = sid[r]
  OBVIOUS
<1>6. (raced => raced') => (Calm' => Calm)
  BY <1>5, CalmBefore DEF RotationInv
<1> QED
  BY <1>2, <1>3, <1>4, <1>6

(* ... and when it is not done after the step either, no token moves.       *)
LEMMA CreateMove ==
  ASSUME TypeOK, RotationInv, NEW s \in Services, stage[s] # "done",
         NEW l \in Stages \ {"done"}, stage' = [stage EXCEPT ![s] = l],
         \A r \in Services \ {s} :
           unique'[r] = unique[r] /\ claim'[r] = claim[r] /\ sid'[r] = sid[r],
         sid'[s] = sid[s] \/ sid[s] = 0,
         sid'[s] = 0 <=> l \in {"unborn", "useWorker", "readId"},
         l = "pushing" => ~unique'[s],
         mServices' \subseteq mServices \union {s},
         s \in mServices' => l \in {"publish", "pushing"},
         UNCHANGED <<mFreeServices, mService, wpc, wid, wsvc, raced>>
  PROVE  RotationInv'
<1>1. \A r \in Services : stage'[r] = IF r = s THEN l ELSE stage[r]
  BY DEF TypeOK
<1>2. /\ \A r \in Services : Roams(r) => Roams(r)' /\ sid'[r] = sid[r]
      /\ \A r \in Services : \A w : Pinned(r, w) => Pinned(r, w)'
      /\ \A i : IsToken(i) => IsToken(i)'
      /\ Calm' => Calm
  BY <1>1, CreateFrame
<1>3. StageInv'
  <2>1. \A r \in Services :
          sid'[r] = 0 <=> stage'[r] \in {"unborn", "useWorker", "readId"}
    BY <1>1 DEF RotationInv, StageInv
  <2>2. \A r \in mServices' : stage'[r] \in {"publish", "pushing", "done"}
    BY <1>1 DEF RotationInv, StageInv, TypeOK
  <2>3. \A r \in Services : stage'[r] = "pushing" => ~unique'[r]
    BY <1>1 DEF RotationInv, StageInv
  <2>4. \A w \in Workers : mService'[w] # Nil => Pinned(mService[w], w)'
    BY <1>2 DEF RotationInv, StageInv, TypeOK
  <2>5. \A w \in Workers : wpc'[w] \in {"get", "requeue", "pushing"} => wid'[w] # 0
    BY DEF RotationInv, StageInv
  <2>6. \A w \in Workers : wpc'[w] \in {"poll", "lua"} =>
          /\ wsvc'[w] \in Services
          /\ wid'[w] # 0 => sid'[wsvc'[w]] = wid'[w]
          /\ wid'[w] = 0 => Pinned(wsvc[w], w)'
    BY <1>2 DEF RotationInv, StageInv
  <2> QED
    BY <2>1, <2>2, <2>3, <2>4, <2>5, <2>6 DEF StageInv
<1>4. \A r \in Services : Roams(r)' => Roams(r) /\ r # s
  BY <1>1 DEF Roams
<1>5. \A w : Holding(w)' <=> Holding(w)
  BY DEF Holding
<1>6. ASSUME TokenInv PROVE TokenInv'
  <2>1. \A r \in mServices' : Roams(r)' => r \in mServices /\ Roams(r)
    BY <1>4 DEF TypeOK
  <2> QED
    BY <1>2, <1>5, <1>6, <2>1 DEF TokenInv, TypeOK
<1> QED
  BY <1>2, <1>3, <1>6 DEF RotationInv

LEMMA CreateStepMoves ==
  ASSUME TypeOK, RotationInv, NEW s \in Services,
         CreateStep(s), ~SetService(s), ~PushEnd(s)
  PROVE  RotationInv'
<1> USE DEF Stages
<1>0. /\ sid[s] = 0 <=> stage[s] \in {"unborn", "useWorker", "readId"}
      /\ s \in mServices => stage[s] \in {"publish", "pushing", "done"}
  BY DEF RotationInv, StageInv
<1>1. CASE UseWorker(s)
  <2>1. PICK w \in mFreeWorkers : claim' = [claim EXCEPT ![s] = w]
    BY <1>1 DEF UseWorker
  <2>2. /\ stage[s] = "useWorker" /\ stage' = [stage EXCEPT ![s] = "readId"]
        /\ \A r \in Services \ {s} : claim'[r] = claim[r]
        /\ UNCHANGED <<sid, unique, mServices, mFreeServices, mService, wpc, wid,
                       wsvc, raced>>
    BY <1>1, <2>1 DEF UseWorker, TypeOK
  <2> QED
    BY <1>0, <2>2, CreateMove
<1>2. CASE ReadId(s)
  <2>1. /\ stage[s] = "readId" /\ stage' = [stage EXCEPT ![s] = "bumpId"]
        /\ sid' = [sid EXCEPT ![s] = mAutoId] /\ mAutoId \in Nat \ {0}
        /\ UNCHANGED <<claim, unique, mServices, mFreeServices, mService, wpc, wid,
                       wsvc, raced>>
    BY <1>2 DEF ReadId, TypeOK
  <2>2. sid'[s] # 0 /\ \A r \in Services \ {s} : sid'[r] = sid[r]
    BY <2>1 DEF TypeOK
  <2> QED
    BY <1>0, <2>1, <2>2, CreateMove
<1>3. CASE BumpId(s)
  <2>1. /\ stage[s] = "bumpId" /\ stage' = [stage EXCEPT ![s] = "ctor"]
        /\ UNCHANGED <<claim, unique, sid, mServices, mFreeServices, mService, wpc,
                       wid, wsvc, raced>>
    BY <1>3 DEF BumpId
  <2> QED
    BY <1>0, <2>1, CreateMove
<1>4. ASSUME NEW ok \in BOOLEAN, CtorReturn(s, ok) PROVE RotationInv'
  <2>1. /\ stage[s] = "ctor" /\ stage' = [stage EXCEPT ![s] = "insert"]
        /\ UNCHANGED <<claim, unique, sid, mServices, mFreeServices, mService, wpc,
                       wid, wsvc, raced>>
    BY <1>4 DEF CtorReturn
  <2> QED
    BY <1>0, <2>1, CreateMove
<1>5. CASE Insert(s)
  <2>1. /\ stage[s] = "insert" /\ stage' = [stage EXCEPT ![s] = "publish"]
        /\ mServices' \subseteq mServices \union {s}
        /\ UNCHANGED <<claim, unique, sid, mFreeServices, mService, wpc, wid, wsvc,
                       raced>>
    BY <1>5 DEF Insert
  <2> QED
    BY <1>0, <2>1, CreateMove
<1>6. CASE PushBegin(s)
  <2>1. /\ stage[s] = "publish" /\ stage' = [stage EXCEPT ![s] = "pushing"]
        /\ ~unique[s]
        /\ UNCHANGED <<claim, unique, sid, mServices, mFreeServices, mService, wpc,
                       wid, wsvc, raced>>
    BY <1>6 DEF PushBegin
  <2> QED
    BY <1>0, <2>1, CreateMove
<1> QED
  BY <1>1, <1>2, <1>3, <1>4, <1>5, <1>6 DEF CreateStep

LEMMA NewServiceMoves ==
  ASSUME TypeOK, RotationInv, NEW c \in Creators, NEW s \in Services,
         NEW u \in BOOLEAN, NewService(c, s, u)
  PROVE  RotationInv'
<1>1. /\ stage[s] = "unborn" /\ stage' = [stage EXCEPT ![s] = "useWorker"]
      /\ \A r \in Services \ {s} : unique'[r] = unique[r]
      /\ UNCHANGED <<claim, sid, mServices, mFreeServices, mService, wpc, wid, wsvc,
                     raced>>
  BY DEF NewService, TypeOK
<1>2. sid[s] = 0 /\ s \notin mServices
  BY <1>1 DEF RotationInv, StageInv
<1> QED
  BY <1>1, <1>2, CreateMove DEF Stages

(* A service that is pinned gets no token.                                  *)
LEMMA SetServicePins ==
  ASSUME TypeOK, RotationInv, NEW s \in Services, SetService(s)
  PROVE  RotationInv'
<1>1. /\ stage[s] = "publish" /\ unique[s]
      /\ stage' = [stage EXCEPT ![s] = "done"]
      /\ mService' = [mService EXCEPT ![claim[s]] = s]
      /\ UNCHANGED <<claim, unique, sid, mServices, mFreeServices, wpc, wid, wsvc,
                     raced>>
  BY DEF SetService, Return
<1>2. \A r \in Services : stage'[r] = IF r = s THEN "done" ELSE stage[r]
  BY <1>1 DEF TypeOK
<1>3. /\ \A r \in Services : Roams(r) => Roams(r)' /\ sid'[r] = sid[r]
      /\ \A r \in Services : \A w : Pinned(r, w) => Pinned(r, w)'
      /\ \A i : IsToken(i) => IsToken(i)'
      /\ Calm' => Calm
  BY <1>1, <1>2, CreateFrame
<1>4. Pinned(s, claim[s])' /\ claim'[s] = claim[s]
  BY <1>1, <1>2 DEF Pinned
<1>5. \A w \in Workers : mService'[w] = IF w = claim[s] THEN s ELSE mService[w]
  BY <1>1 DEF TypeOK
<1>6. StageInv'
  <2>1. \A r \in Services :
          sid'[r] = 0 <=> stage'[r] \in {"unborn", "useWorker", "readId"}
    BY <1>1, <1>2 DEF RotationInv, StageInv
  <2>2. \A r \in mServices' : stage'[r] \in {"publish", "pushing", "done"}
    BY <1>1, <1>2 DEF RotationInv, StageInv, TypeOK
  <2>3. \A r \in Services : stage'[r] = "pushing" => ~unique'[r]
    BY <1>1, <1>2 DEF RotationInv, StageInv
  <2>4. \A w \in Workers : mService'[w] # Nil => Pinned(mService[w], w)'
    <3> SUFFICES ASSUME NEW w \in Workers, mService'[w] # Nil
                 PROVE  Pinned(mService[w], w)'
      OBVIOUS
    <3>1. CASE w = claim[s]
      BY <1>1, <1>4, <1>5, <3>1
    <3>2. CASE w # claim[s]
      <4>1. mService'[w] = mService[w] /\ Pinned(mService[w], w)
            /\ mService[w] \in Services
        BY <1>5, <3>2 DEF RotationInv, StageInv, TypeOK
      <4> QED
        BY <1>3, <4>1 DEF Pinned
    <3> QED
      BY <3>1, <3>2
  <2>5. \A w \in Workers : wpc'[w] \in {"get", "requeue", "pushing"} => wid'[w] # 0
    BY <1>1 DEF RotationInv, StageInv
  <2>6. \A w \in Workers : wpc'[w] \in {"poll", "lua"} =>
          /\ wsvc'[w] \in Services
          /\ wid'[w] # 0 => sid'[wsvc'[w]] = wid'[w]
          /\ wid'[w] = 0 => Pinned(wsvc[w], w)'
    BY <1>1, <1>3 DEF RotationInv, StageInv
  <2> QED
    BY <2>1, <2>2, <2>3, <2>4, <2>5, <2>6 DEF StageInv
<1>7. \A r \in Services : Roams(r)' => Roams(r)
  BY <1>1, <1>2 DEF Roams
<1>8. \A w : Holding(w)' <=> Holding(w)
  BY <1>1 DEF Holding
<1>9. ASSUME TokenInv PROVE TokenInv'
  BY <1>1, <1>3, <1>7, <1>8, <1>9 DEF TokenInv, TypeOK
<1> QED
  BY <1>3, <1>6, <1>9 DEF RotationInv

(* The end of a push makes a token of an id that was none.                  *)
LEMMA PushEndPuts ==
  ASSUME TypeOK, RotationInv, NEW s \in Services, PushEnd(s)
  PROVE  RotationInv'
<1>1. /\ stage[s] = "pushing" /\ EndPush(s, sid[s])
      /\ stage' = [stage EXCEPT ![s] = "done"]
      /\ UNCHANGED <<claim, unique, sid, mServices, mService, wpc, wid, wsvc>>
  BY DEF PushEnd, Return
<1>2. \A r \in Services : stage'[r] = IF r = s THEN "done" ELSE stage[r]
  BY <1>1 DEF TypeOK
<1>0. (raced => raced') /\ ~unique[s] /\ sid[s] # 0
  BY <1>1 DEF EndPush, RotationInv, StageInv
<1>3. /\ \A r \in Services : Roams(r) => Roams(r)' /\ sid'[r] = sid[r]
      /\ \A r \in Services : \A w : Pinned(r, w) => Pinned(r, w)'
      /\ \A i : IsToken(i) => IsToken(i)'
      /\ Calm' => Calm
  BY <1>0, <1>1, <1>2, CreateFrame
<1>4. StageInv'
  <2>1. \A r \in Services :
          sid'[r] = 0 <=> stage'[r] \in {"unborn", "useWorker", "readId"}
    BY <1>1, <1>2 DEF RotationInv, StageInv
  <2>2. \A r \in mServices' : stage'[r] \in {"publish", "pushing", "done"}
    BY <1>1, <1>2 DEF RotationInv, StageInv, TypeOK
  <2>3. \A r \in Services : stage'[r] = "pushing" => ~unique'[r]
    BY <1>1, <1>2 DEF RotationInv, StageInv
  <2>4. \A w \in Workers : mService'[w] # Nil => Pinned(mService[w], w)'
    BY <1>1, <1>3 DEF RotationInv, StageInv, TypeOK
  <2>5. \A w \in Workers : wpc'[w] \in {"get", "requeue", "pushing"} => wid'[w] # 0
    BY <1>1 DEF RotationInv, StageInv
  <2>6. \A w \in Workers : wpc'[w] \in {"poll", "lua"} =>
          /\ wsvc'[w] \in Services
          /\ wid'[w] # 0 => sid'[wsvc'[w]] = wid'[w]
          /\ wid'[w] = 0 => Pinned(wsvc[w], w)'
    BY <1>1, <1>3 DEF RotationInv, StageInv
  <2> QED
    BY <2>1, <2>2, <2>3, <2>4, <2>5, <2>6 DEF StageInv
<1>5. ASSUME Calm' PROVE TokenInv'
  <2>1. Calm /\ TokenInv /\ ~raced'
    BY <1>3, <1>5 DEF RotationInv, Calm
  <2>2. mFreeServices' = Append(mFreeServices, sid[s])
    BY <1>1, <2>1, CalmPush
  <2>3. ~IsToken(sid[s])
    BY <1>0, <1>1, <2>1 DEF Calm, IdsUnique, IsToken, Roams
  <2>4. sid[s] \in Nat /\ mFreeServices \in Seq(Nat)
    BY DEF TypeOK
  <2>5. sid[s] \notin Range(mFreeServices) /\ IsInjective(mFreeServices)
    BY <2>1, <2>3 DEF TokenInv
  <2>6. /\ Range(mFreeServices') = Range(mFreeServices) \union {sid[s]}
        /\ IsInjective(mFreeServices')
    BY <2>2, <2>4, <2>5, RangeAppend
  <2>7. IsToken(sid[s])'
    BY <1>0, <1>1, <1>2 DEF IsToken, Roams
  <2>8. \A w : Holding(w)' <=> Holding(w)
    BY <1>1 DEF Holding
  <2>9. \A r \in Services : Roams(r)' => Roams(r) \/ r = s
    BY <1>1, <1>2 DEF Roams
  <2>10. \A i \in Range(mFreeServices') : IsToken(i)'
    BY <1>1, <1>3, <2>1, <2>6, <2>7 DEF TokenInv
  <2>11. \A w \in Workers : Holding(w)' =>
           IsToken(wid[w])' /\ wid'[w] \notin Range(mFreeServices')
    BY <1>1, <1>3, <2>1, <2>3, <2>6, <2>8 DEF TokenInv
  <2>12. \A r \in mServices' : Roams(r)' =>
           \/ sid'[r] \in Range(mFreeServices')
           \/ \E w \in Workers : Holding(w)' /\ wid'[w] = sid'[r]
    BY <1>1, <2>1, <2>6, <2>8, <2>9 DEF TokenInv, TypeOK
  <2> QED
    BY <1>1, <2>1, <2>6, <2>8, <2>10, <2>11, <2>12 DEF TokenInv
<1> QED
  BY <1>4, <1>5 DEF RotationInv

-----------------------------------------------------------------------------
(* The steps of destoryService and of the threads.                          *)

(* A step that takes no id and moves no worker: it may take services out of *)
(* the registry and unpin them.                                             *)
LEMMA DestroyMoves ==
  ASSUME TypeOK, RotationInv,
         mServices' \subseteq mServices,
         mService' \in [Workers -> Services \union {Nil}],
         \A w \in Workers : mService'[w] # Nil => mService'[w] = mService[w],
         UNCHANGED <<stage, unique, claim, sid, mFreeServices, wpc, wid, wsvc,
                     raced>>
  PROVE  RotationInv'
<1>1. /\ \A r \in Services : Roams(r)' <=> Roams(r)
      /\ \A r \in Services \union {Nil} : \A w : Pinned(r, w)' <=> Pinned(r, w)
      /\ \A i : IsToken(i)' <=> IsToken(i)
      /\ \A w : Holding(w)' <=> Holding(w)
      /\ Calm' <=> Calm
  BY DEF Roams, Pinned, IsToken, Holding, Calm, IdsUnique
<1>2. StageInv'
  <2>1. \A w \in Workers : mService'[w] # Nil => Pinned(mService[w], w)'
    <3> SUFFICES ASSUME NEW w \in Workers, mService'[w] # Nil
                 PROVE  Pinned(mService[w], w)'
      OBVIOUS
    <3>1. mService'[w] = mService[w] /\ Pinned(mService[w], w)
      BY DEF RotationInv, StageInv
    <3> QED
      BY <3>1 DEF Pinned
  <2>2. \A w \in Workers : wpc'[w] \in {"poll", "lua"} =>
          /\ wsvc'[w] \in Services
          /\ wid'[w] # 0 => sid'[wsvc'[w]] = wid'[w]
          /\ wid'[w] = 0 => Pinned(wsvc[w], w)'
    BY DEF RotationInv, StageInv, Pinned
  <2> QED
    BY <2>1, <2>2 DEF RotationInv, StageInv
<1>3. TokenInv => TokenInv'
  BY <1>1 DEF TokenInv, TypeOK
<1> QED
  BY <1>1, <1>2, <1>3 DEF RotationInv

LEMMA DestroyStepMoves ==
  ASSUME TypeOK, RotationInv, NEW c \in Contexts, DestroyStep(c)
  PROVE  RotationInv'
<1>1. CASE DestroyUnpin(c)
  <2>1. /\ Unpin(dsvc[c])
        /\ UNCHANGED <<mServices, stage, unique, claim, sid, mFreeServices, wpc,
                       wid, wsvc, raced>>
    BY <1>1 DEF DestroyUnpin
  <2>2. /\ mService' \in [Workers -> Services \union {Nil}]
        /\ \A w \in Workers : mService'[w] # Nil => mService'[w] = mService[w]
    BY <2>1 DEF Unpin, TypeOK
  <2> QED
    BY <2>1, <2>2, DestroyMoves
<1>2. CASE DestroyClose(c)
  BY <1>2, DestroyMoves DEF DestroyClose, Erase, TypeOK
<1>3. CASE DestroyRetire(c)
  BY <1>3, DestroyMoves DEF DestroyRetire, TypeOK
<1> QED
  BY <1>1, <1>2, <1>3 DEF DestroyStep

LEMMA OtherStepMoves ==
  ASSUME TypeOK, RotationInv,
         \/ MainStep
         \/ LuaExit
         \/ \E c \in Contexts, s \in Services : DestroyFind(c, s)
         \/ UNCHANGED vars
  PROVE  RotationInv'
<1>1. UNCHANGED <<mServices, mService, stage, unique, claim, sid, mFreeServices,
                  wpc, wid, wsvc, raced>>
  <2>1. CASE MainStep
    BY <2>1 DEF MainStep, ScriptReturn, MainPoll, DeleteTop, PollDone,
                WaitAllServiceClose, AllClosed, JoinWorker, JoinedAll
  <2>2. CASE LuaExit
    BY <2>2 DEF LuaExit
  <2>3. CASE \E c \in Contexts, s \in Services : DestroyFind(c, s)
    BY <2>3 DEF DestroyFind
  <2>4. CASE UNCHANGED vars
    BY <2>4 DEF vars
  <2> QED
    BY <2>1, <2>2, <2>3, <2>4
<1> QED
  BY <1>1, DestroyMoves DEF TypeOK

(* A step of the loop of worker w that leaves the queue alone and either    *)
(* keeps the token the worker has or finds it is of no registered service.  *)
LEMMA WorkerMoves ==
  ASSUME TypeOK, RotationInv, NEW w \in Workers,
         \A v \in Workers \ {w} :
           wpc'[v] = wpc[v] /\ wid'[v] = wid[v] /\ wsvc'[v] = wsvc[v],
         wpc'[w] \in {"get", "requeue", "pushing"} => wid'[w] # 0,
         wpc'[w] \in {"poll", "lua"} =>
           /\ wsvc'[w] \in Services
           /\ wid'[w] # 0 => sid[wsvc'[w]] = wid'[w]
           /\ wid'[w] = 0 => Pinned(wsvc'[w], w),
         Holding(w)' => Holding(w) /\ wid'[w] = wid[w],
         Holding(w) /\ ~Holding(w)' => \A s \in mServices : sid[s] # wid[w],
         UNCHANGED <<sharedVars, queueVars>>
  PROVE  RotationInv'
<1>0. UNCHANGED <<mServices, mService, stage, unique, claim, sid, mFreeServices,
                  raced>>
  OBVIOUS
<1>1. /\ \A r : Roams(r)' <=> Roams(r)
      /\ \A r, v : Pinned(r, v) <=> stage'[r] = "done" /\ unique'[r] /\ claim'[r] = v
      /\ \A i : IsToken(i)' <=> IsToken(i)
      /\ Calm' <=> Calm
  BY <1>0 DEF Roams, Pinned, IsToken, Calm, IdsUnique
<1>2. StageInv'
  <2>1. \A v \in Workers : mService'[v] # Nil => Pinned(mService[v], v)'
    BY <1>0 DEF RotationInv, StageInv, Pinned
  <2>2. \A v \in Workers : wpc'[v] \in {"get", "requeue", "pushing"} => wid'[v] # 0
    BY DEF RotationInv, StageInv
  <2>3. \A v \in Workers : wpc'[v] \in {"poll", "lua"} =>
          /\ wsvc'[v] \in Services
          /\ wid'[v] # 0 => sid'[wsvc'[v]] = wid'[v]
          /\ wid'[v] = 0 => Pinned(wsvc[v], v)'
    <3> SUFFICES ASSUME NEW v \in Workers, wpc'[v] \in {"poll", "lua"}
                 PROVE  /\ wsvc'[v] \in Services
                        /\ wid'[v] # 0 => sid'[wsvc'[v]] = wid'[v]
                        /\ wid'[v] = 0 => Pinned(wsvc[v], v)'
      OBVIOUS
    <3>1. CASE v = w
      BY <1>0, <3>1 DEF Pinned
    <3>2. CASE v # w
      BY <1>0, <3>2 DEF RotationInv, StageInv, Pinned
    <3> QED
      BY <3>1, <3>2
  <2> QED
    BY <1>0, <2>1, <2>2, <2>3 DEF RotationInv, StageInv
<1>3. \A v \in Workers : Holding(v)' => Holding(v) /\ wid'[v] = wid[v]
  BY DEF Holding
<1>4. \A v \in Workers \ {w} : Holding(v)' <=> Holding(v)
  BY DEF Holding
<1>5. ASSUME TokenInv PROVE TokenInv'
  <2>1. \A s \in mServices' : Roams(s)' =>
          \/ sid'[s] \in Range(mFreeServices')
          \/ \E v \in Workers : Holding(v)' /\ wid'[v] = sid'[s]
    <3> SUFFICES ASSUME NEW s \in mServices, Roams(s),
                        sid[s] \notin Range(mFreeServices)
                 PROVE  \E v \in Workers : Holding(v)' /\ wid'[v] = sid[s]
      BY <1>0, <1>1
    <3>1. PICK v \in Workers : Holding(v) /\ wid[v] = sid[s]
      BY <1>5 DEF TokenInv
    <3>2. Holding(v)'
      BY <1>4, <3>1
    <3> QED
      BY <1>3, <3>1, <3>2
  <2>2. \A v \in Workers : Holding(v)' =>
          IsToken(wid[v])' /\ wid'[v] \notin Range(mFreeServices')
    BY <1>0, <1>1, <1>3, <1>5 DEF TokenInv, IsToken, Roams
  <2>3. \A u, v \in Workers :
          Holding(u)' /\ Holding(v)' /\ wid'[u] = wid'[v] => u = v
    BY <1>3, <1>5 DEF TokenInv
  <2> QED
    BY <1>0, <1>1, <1>5, <2>1, <2>2, <2>3 DEF TokenInv
<1> QED
  BY <1>1, <1>2, <1>5 DEF RotationInv

(* A worker takes the id at the head of the queue.                          *)
LEMMA PopMoves ==
  ASSUME TypeOK, RotationInv, NEW w \in Workers, GetFreeServiceId(w)
  PROVE  RotationInv'
<1> DEFINE id == IF mFreeServices = <<>> THEN 0 ELSE Head(mFreeServices)
<1>1. /\ wpc[w] = "pop"
      /\ wid' = [wid EXCEPT ![w] = id]
      /\ wpc' = [wpc EXCEPT ![w] = IF id = 0 THEN "loop" ELSE "get"]
      /\ mFreeServices' = PopFront(mFreeServices)
      /\ UNCHANGED <<mServices, mService, stage, unique, claim, sid, wsvc>>
      /\ raced => raced'
  BY DEF GetFreeServiceId
<1> HIDE DEF id
<1>2. /\ wid'[w] = id /\ wpc'[w] = (IF id = 0 THEN "loop" ELSE "get")
      /\ \A v \in Workers \ {w} : wid'[v] = wid[v] /\ wpc'[v] = wpc[v]
  BY <1>1 DEF TypeOK
<1>3. /\ \A r : Roams(r)' <=> Roams(r)
      /\ \A i : IsToken(i)' <=> IsToken(i)
      /\ Calm' => Calm
  BY <1>1 DEF Roams, IsToken, Calm, IdsUnique
<1>4. StageInv'
  <2>1. \A v \in Workers : mService'[v] # Nil => Pinned(mService[v], v)'
    BY <1>1 DEF RotationInv, StageInv, Pinned
  <2>2. \A v \in Workers : wpc'[v] \in {"get", "requeue", "pushing"} => wid'[v] # 0
    BY <1>2 DEF RotationInv, StageInv
  <2>3. \A v \in Workers : wpc'[v] \in {"poll", "lua"} =>
          /\ wsvc'[v] \in Services
          /\ wid'[v] # 0 => sid'[wsvc'[v]] = wid'[v]
          /\ wid'[v] = 0 => Pinned(wsvc[v], v)'
    BY <1>1, <1>2 DEF RotationInv, StageInv, Pinned
  <2> QED
    BY <1>1, <2>1, <2>2, <2>3 DEF RotationInv, StageInv
<1>5. Holding(w)' <=> id # 0
  BY <1>2 DEF Holding
<1>6. ~Holding(w) /\ \A v \in Workers \ {w} : Holding(v)' <=> Holding(v)
  BY <1>1, <1>2 DEF Holding
<1>7. ASSUME TokenInv PROVE TokenInv'
  <2>1. CASE mFreeServices = <<>>
    <3>1. mFreeServices' = mFreeServices /\ id = 0
      BY <1>1, <2>1 DEF PopFront, id
    <3>2. ~Holding(w)' /\ \A v \in Workers : Holding(v)' <=> Holding(v)
      BY <1>5, <1>6, <3>1
    <3>3. \A v \in Workers : Holding(v)' => wid'[v] = wid[v]
      BY <1>2, <3>2
    <3>4. \A s \in mServices' : Roams(s)' =>
            \/ sid'[s] \in Range(mFreeServices')
            \/ \E v \in Workers : Holding(v)' /\ wid'[v] = sid'[s]
      <4> SUFFICES ASSUME NEW s \in mServices, Roams(s),
                          sid[s] \notin Range(mFreeServices)
                   PROVE  \E v \in Workers : Holding(v)' /\ wid'[v] = sid[s]
        BY <1>1, <1>3, <3>1
      <4>1. PICK v \in Workers : Holding(v) /\ wid[v] = sid[s]
        BY <1>7 DEF TokenInv
      <4> QED
        BY <3>2, <3>3, <4>1
    <3> QED
      BY <1>3, <1>7, <3>1, <3>2, <3>3, <3>4 DEF TokenInv
  <2>2. CASE mFreeServices # <<>>
    <3>1. mFreeServices' = Tail(mFreeServices) /\ id = Head(mFreeServices)
      BY <1>1, <2>2 DEF PopFront, id
    <3>2. /\ Range(mFreeServices') = Range(mFreeServices) \ {id}
          /\ IsInjective(mFreeServices')
          /\ id \in Range(mFreeServices)
      BY <1>7, <2>2, <3>1, RangeTail DEF TokenInv, TypeOK
    <3>3. IsToken(id) /\ id # 0
      <4>1. IsToken(id)
        BY <1>7, <3>2 DEF TokenInv
      <4> QED
        BY <4>1 DEF IsToken, Roams, RotationInv, StageInv
    <3>4. \A v \in Workers : Holding(v) => wid[v] # id
      BY <1>7, <3>2 DEF TokenInv
    <3>5. \A v \in Workers : Holding(v)' =>
            IsToken(wid[v])' /\ wid'[v] \notin Range(mFreeServices')
      <4> SUFFICES ASSUME NEW v \in Workers, Holding(v)'
                   PROVE  IsToken(wid'[v]) /\ wid'[v] \notin Range(mFreeServices')
        BY <1>1, <1>3 DEF IsToken, Roams
      <4>1. CASE v = w
        BY <1>2, <3>2, <3>3, <4>1
      <4>2. CASE v # w
        BY <1>2, <1>6, <1>7, <3>2, <4>2 DEF TokenInv
      <4> QED
        BY <4>1, <4>2
    <3>6. \A u, v \in Workers :
            Holding(u)' /\ Holding(v)' /\ wid'[u] = wid'[v] => u = v
      BY <1>2, <1>6, <1>7, <3>4 DEF TokenInv
    <3>7. \A s \in mServices' : Roams(s)' =>
            \/ sid'[s] \in Range(mFreeServices')
            \/ \E v \in Workers : Holding(v)' /\ wid'[v] = sid'[s]
      <4> SUFFICES ASSUME NEW s \in mServices, Roams(s),
                          sid[s] \notin Range(mFreeServices')
                   PROVE  \E v \in Workers : Holding(v)' /\ wid'[v] = sid[s]
        BY <1>1, <1>3
      <4>1. CASE sid[s] = id
        BY <1>2, <1>5, <3>3, <4>1
      <4>2. CASE sid[s] # id
        <5>1. PICK v \in Workers : Holding(v) /\ wid[v] = sid[s]
          BY <1>7, <3>2, <4>2 DEF TokenInv
        <5> QED
          BY <1>2, <1>6, <5>1
      <4> QED
        BY <4>1, <4>2
    <3>8. \A i \in Range(mFreeServices') : IsToken(i)'
      BY <1>3, <1>7, <3>2 DEF TokenInv
    <3> QED
      BY <3>2, <3>5, <3>6, <3>7, <3>8 DEF TokenInv
  <2> QED
    BY <2>1, <2>2
<1> QED
  BY <1>3, <1>4, <1>7 DEF RotationInv

(* ... and puts it back.                                                    *)
LEMMA RequeueMoves ==
  ASSUME TypeOK, RotationInv, NEW w \in Workers, RequeueEnd(w)
  PROVE  RotationInv'
<1>1. /\ wpc[w] = "pushing" /\ EndPush(w, wid[w])
      /\ wpc' = [wpc EXCEPT ![w] = "loop"]
      /\ wid' = [wid EXCEPT ![w] = 0]
      /\ UNCHANGED <<mServices, mService, stage, unique, claim, sid, wsvc>>
  BY DEF RequeueEnd
<1>2. /\ wpc'[w] = "loop"
      /\ \A v \in Workers \ {w} : wpc'[v] = wpc[v] /\ wid'[v] = wid[v]
  BY <1>1 DEF TypeOK
<1>3. /\ \A r : Roams(r)' <=> Roams(r)
      /\ \A i : IsToken(i)' <=> IsToken(i)
      /\ Calm' => Calm
  BY <1>1 DEF Roams, IsToken, Calm, IdsUnique, EndPush
<1>4. StageInv'
  <2>1. \A v \in Workers : mService'[v] # Nil => Pinned(mService[v], v)'
    BY <1>1 DEF RotationInv, StageInv, Pinned
  <2>2. \A v \in Workers : wpc'[v] \in {"get", "requeue", "pushing"} => wid'[v] # 0
    BY <1>1, <1>2 DEF RotationInv, StageInv
  <2>3. \A v \in Workers : wpc'[v] \in {"poll", "lua"} =>
          /\ wsvc'[v] \in Services
          /\ wid'[v] # 0 => sid'[wsvc'[v]] = wid'[v]
          /\ wid'[v] = 0 => Pinned(wsvc[v], v)'
    BY <1>1, <1>2 DEF RotationInv, StageInv, Pinned
  <2> QED
    BY <1>1, <2>1, <2>2, <2>3 DEF RotationInv, StageInv
<1>5. Holding(w) /\ ~Holding(w)'
  BY <1>1, <1>2 DEF Holding, RotationInv, StageInv
<1>6. \A v \in Workers \ {w} : Holding(v)' <=> Holding(v)
  BY <1>1, <1>2 DEF Holding
<1>7. ASSUME Calm' PROVE TokenInv'
  <2>1. Calm /\ TokenInv /\ ~raced'
    BY <1>3, <1>7 DEF RotationInv, Calm
  <2>2. mFreeServices' = Append(mFreeServices, wid[w])
    BY <1>1, <2>1, CalmPush
  <2>3. /\ IsToken(wid[w]) /\ wid[w] \notin Range(mFreeServices)
        /\ IsInjective(mFreeServices)
    BY <1>5, <2>1 DEF TokenInv
  <2>4. /\ Range(mFreeServices') = Range(mFreeServices) \union {wid[w]}
        /\ IsInjective(mFreeServices')
    BY <2>2, <2>3, RangeAppend DEF TypeOK
  <2>5. \A i \in Range(mFreeServices') : IsToken(i)'
    BY <1>3, <2>1, <2>3, <2>4 DEF TokenInv
  <2>6. \A v \in Workers : Holding(v)' =>
          IsToken(wid[v])' /\ wid'[v] \notin Range(mFreeServices')
    <3> SUFFICES ASSUME NEW v \in Workers, Holding(v)'
                 PROVE  IsToken(wid'[v]) /\ wid'[v] \notin Range(mFreeServices')
      BY <1>1, <1>3 DEF IsToken, Roams
    <3>1. v # w /\ Holding(v) /\ wid'[v] = wid[v]
      BY <1>2, <1>5, <1>6
    <3> QED
      BY <1>5, <2>1, <2>4, <3>1 DEF TokenInv
  <2>7. \A u, v \in Workers :
          Holding(u)' /\ Holding(v)' /\ wid'[u] = wid'[v] => u = v
    BY <1>2, <1>5, <1>6, <2>1 DEF TokenInv
  <2>8. \A s \in mServices' : Roams(s)' =>
          \/ sid'[s] \in Range(mFreeServices')
          \/ \E v \in Workers : Holding(v)' /\ wid'[v] = sid'[s]
    <3> SUFFICES ASSUME NEW s \in mServices, Roams(s),
                        sid[s] \notin Range(mFreeServices')
                 PROVE  \E v \in Workers : Holding(v)' /\ wid'[v] = sid[s]
      BY <1>1, <1>3
    <3>1. PICK v \in Workers : Holding(v) /\ wid[v] = sid[s]
      BY <2>1, <2>4 DEF TokenInv
    <3>2. v # w
      BY <2>4, <3>1
    <3> QED
      BY <1>2, <1>6, <3>1, <3>2
  <2> QED
    BY <2>4, <2>5, <2>6, <2>7, <2>8 DEF TokenInv
<1> QED
  BY <1>4, <1>7 DEF RotationInv

LEMMA WorkerStepMoves ==
  ASSUME TypeOK, RotationInv, NEW w \in Workers, WorkerStep(w)
  PROVE  RotationInv'
<1>0. /\ wpc[w] \in {"get", "requeue", "pushing"} => wid[w] # 0
      /\ wpc[w] \in {"poll", "lua"} =>
           /\ wsvc[w] \in Services
           /\ wid[w] # 0 => sid[wsvc[w]] = wid[w]
           /\ wid[w] = 0 => Pinned(wsvc[w], w)
      /\ wid[w] \in Nat
  BY DEF RotationInv, StageInv, TypeOK
<1>1. CASE ReadService(w)
  <2>1. /\ wpc[w] = "loop"
        /\ wsvc' = [wsvc EXCEPT ![w] = mService[w]]
        /\ wid' = [wid EXCEPT ![w] = 0]
        /\ wpc' = [wpc EXCEPT ![w] = IF mService[w] = Nil THEN "pop" ELSE "poll"]
        /\ UNCHANGED <<sharedVars, queueVars>>
    BY <1>1 DEF ReadService
  <2>2. /\ wsvc'[w] = mService[w] /\ wid'[w] = 0
        /\ wpc'[w] = (IF mService[w] = Nil THEN "pop" ELSE "poll")
        /\ \A v \in Workers \ {w} :
             wpc'[v] = wpc[v] /\ wid'[v] = wid[v] /\ wsvc'[v] = wsvc[v]
    BY <2>1 DEF TypeOK
  <2>3. mService[w] # Nil => mService[w] \in Services /\ Pinned(mService[w], w)
    BY DEF RotationInv, StageInv, TypeOK
  <2>4. ~Holding(w) /\ ~Holding(w)'
    BY <2>1, <2>2 DEF Holding
  <2>5. UNCHANGED <<sharedVars, queueVars>>
    BY <2>1
  <2>6. /\ wpc'[w] \notin {"get", "requeue", "pushing"}
        /\ wpc'[w] \in {"poll", "lua"} => mService[w] # Nil
    BY <2>2
  <2> QED
    BY <2>2, <2>3, <2>4, <2>5, <2>6, WorkerMoves
<1>2. CASE GetFreeServiceId(w)
  BY <1>2, PopMoves
<1>3. CASE GetService(w)
  <2>1. /\ wpc[w] = "get"
        /\ UNCHANGED <<sharedVars, queueVars>>
    BY <1>3 DEF GetService
  <2>2. Holding(w)
    BY <1>0, <2>1 DEF Holding
  <2>3. ASSUME NEW s \in mServices, sid[s] = wid[w],
               wsvc' = [wsvc EXCEPT ![w] = s], wpc' = [wpc EXCEPT ![w] = "poll"],
               UNCHANGED wid
        PROVE  RotationInv'
    <3>1. /\ wsvc'[w] = s /\ wpc'[w] = "poll" /\ wid'[w] = wid[w] /\ s \in Services
          /\ \A v \in Workers \ {w} :
               wpc'[v] = wpc[v] /\ wid'[v] = wid[v] /\ wsvc'[v] = wsvc[v]
      BY <2>1, <2>3 DEF TypeOK
    <3>2. Holding(w)'
      BY <1>0, <2>1, <3>1 DEF Holding
    <3>3. UNCHANGED <<sharedVars, queueVars>>
      BY <2>1
    <3> QED
      BY <1>0, <2>1, <2>2, <2>3, <3>1, <3>2, <3>3, WorkerMoves
  <2>4. ASSUME \A s \in mServices : sid[s] # wid[w],
               wpc' = [wpc EXCEPT ![w] = "loop"],
               wid' = [wid EXCEPT ![w] = 0], UNCHANGED wsvc
        PROVE  RotationInv'
    <3>1. /\ wpc'[w] = "loop"
          /\ \A v \in Workers \ {w} :
               wpc'[v] = wpc[v] /\ wid'[v] = wid[v] /\ wsvc'[v] = wsvc[v]
      BY <2>1, <2>4 DEF TypeOK
    <3>2. ~Holding(w)'
      BY <3>1 DEF Holding
    <3>3. UNCHANGED <<sharedVars, queueVars>>
      BY <2>1
    <3> QED
      BY <2>4, <3>1, <3>2, <3>3, WorkerMoves
  <2> QED
    BY <1>3, <2>3, <2>4 DEF GetService
<1>4. CASE PollEnter(w) \/ PollReturn(w)
  <2>1. /\ wpc[w] \in {"poll", "lua"}
        /\ \/ wpc' = [wpc EXCEPT ![w] = "lua"] /\ UNCHANGED wsvc
           \/ /\ wpc' = [wpc EXCEPT ![w] = AfterPoll(w)]
              /\ wsvc' = [wsvc EXCEPT ![w] = Nil]
        /\ UNCHANGED <<wid, sharedVars, queueVars>>
    BY <1>4 DEF PollEnter, PollReturn, LeavePoll
  <2>2. /\ wid'[w] = wid[w]
        /\ \A v \in Workers \ {w} :
             wpc'[v] = wpc[v] /\ wid'[v] = wid[v] /\ wsvc'[v] = wsvc[v]
        /\ \/ wpc'[w] = "lua" /\ wsvc'[w] = wsvc[w]
           \/ wpc'[w] = "requeue" /\ wid[w] # 0
           \/ wpc'[w] = "loop" /\ wid[w] = 0
    BY <1>0, <2>1 DEF AfterPoll, TypeOK
  <2>3. Holding(w)' <=> Holding(w)
    BY <2>1, <2>2 DEF Holding
  <2>4. UNCHANGED <<sharedVars, queueVars>>
    BY <2>1
  <2> QED
    BY <1>0, <2>1, <2>2, <2>3, <2>4, WorkerMoves
<1>5. CASE RequeueBegin(w)
  <2>1. /\ wpc[w] = "requeue"
        /\ wpc' = [wpc EXCEPT ![w] = "pushing"]
        /\ UNCHANGED <<wid, wsvc, sharedVars, queueVars>>
    BY <1>5 DEF RequeueBegin
  <2>2. /\ wpc'[w] = "pushing" /\ wid'[w] = wid[w] /\ wid[w] # 0
        /\ \A v \in Workers \ {w} :
             wpc'[v] = wpc[v] /\ wid'[v] = wid[v] /\ wsvc'[v] = wsvc[v]
    BY <1>0, <2>1 DEF TypeOK
  <2>3. Holding(w)' /\ Holding(w)
    BY <2>1, <2>2 DEF Holding
  <2>4. UNCHANGED <<sharedVars, queueVars>>
    BY <2>1
  <2> QED
    BY <2>2, <2>3, <2>4, WorkerMoves
<1>6. CASE RequeueEnd(w)
  BY <1>6, RequeueMoves
<1>7. CASE WorkerStop(w)
  <2>1. /\ wpc[w] = "loop"
        /\ wpc' = [wpc EXCEPT ![w] = "stopped"]
        /\ UNCHANGED <<wid, wsvc, sharedVars, queueVars>>
    BY <1>7 DEF WorkerStop
  <2>2. /\ wpc'[w] = "stopped"
        /\ \A v \in Workers \ {w} :
             wpc'[v] = wpc[v] /\ wid'[v] = wid[v] /\ wsvc'[v] = wsvc[v]
    BY <2>1 DEF TypeOK
  <2>3. ~Holding(w) /\ ~Holding(w)'
    BY <2>1, <2>2 DEF Holding
  <2>4. UNCHANGED <<sharedVars, queueVars>>
    BY <2>1
  <2> QED
    BY <2>2, <2>3, <2>4, WorkerMoves
<1> QED
  BY <1>1, <1>2, <1>3, <1>4, <1>5, <1>6, <1>7 DEF WorkerStep

LEMMA RotationInit == Init => RotationInv
<1> SUFFICES ASSUME Init PROVE RotationInv
  OBVIOUS
<1>1. StageInv
  BY DEF Init, StageInv
<1>2. mFreeServices = <<>> /\ DOMAIN mFreeServices = {} /\ mServices = {}
  BY DEF Init
<1>3. Range(mFreeServices) = {} /\ IsInjective(mFreeServices)
  BY <1>2 DEF Range, IsInjective
<1>4. \A w \in Workers : ~Holding(w)
  BY DEF Init, Holding
<1>5. TokenInv
  BY <1>2, <1>3, <1>4 DEF TokenInv
<1> QED
  BY <1>1, <1>5 DEF RotationInv

LEMMA RotationStep ==
  ASSUME TypeOK, RotationInv, [Next]_vars
  PROVE  RotationInv'
<1>1. ASSUME NEW c \in Creators, NEW s \in Services, NEW u \in BOOLEAN,
             NewService(c, s, u)
      PROVE  RotationInv'
  BY <1>1, NewServiceMoves
<1>2. ASSUME NEW s \in Services, CreateStep(s) PROVE RotationInv'
  BY <1>2, CreateStepMoves, SetServicePins, PushEndPuts
<1>3. ASSUME NEW c \in Contexts, DestroyStep(c) PROVE RotationInv'
  BY <1>3, DestroyStepMoves
<1>4. ASSUME NEW w \in Workers, WorkerStep(w) PROVE RotationInv'
  BY <1>4, WorkerStepMoves
<1>5. CASE \/ MainStep
           \/ LuaExit
           \/ \E c \in Contexts, s \in Services : DestroyFind(c, s)
           \/ UNCHANGED vars
  BY <1>5, OtherStepMoves
<1> QED
  BY <1>1, <1>2, <1>3, <1>4, <1>5, LuaStepCases DEF Next

(* In every behaviour an id that goes round is in one place, and a service  *)
(* a worker polls is one it is pinned to or holds the id of.                *)
THEOREM RotationHolds == Spec => []RotationInv
<1>1. TypeOK /\ RotationInv /\ [Next]_vars => RotationInv'
  BY RotationStep
<1> QED
  BY RotationInit, <1>1, TypeCorrect, PTL DEF Spec

-----------------------------------------------------------------------------
LEMMA ExclusivePollFromInv ==
  ASSUME TypeOK, RotationInv
  PROVE  ExclusivePoll
<1> SUFFICES ASSUME Calm, NEW v \in Workers, wpc[v] \in {"poll", "lua"}
             PROVE  /\ stage[wsvc[v]] \in {"publish", "pushing", "done"}
                    /\ \A w \in Workers \ {v} :
                         wpc[w] \in {"poll", "lua"} => wsvc[v] # wsvc[w]
  BY DEF ExclusivePoll
<1>1. TokenInv
  BY DEF RotationInv
<1>2. ASSUME NEW w \in Workers, wpc[w] \in {"poll", "lua"}
      PROVE  /\ wsvc[w] \in Services
             /\ \/ wid[w] = 0 /\ Pinned(wsvc[w], w)
                \/ Holding(w) /\ Roams(wsvc[w]) /\ sid[wsvc[w]] = wid[w]
  <2>1. /\ wsvc[w] \in Services
        /\ wid[w] # 0 => sid[wsvc[w]] = wid[w]
        /\ wid[w] = 0 => Pinned(wsvc[w], w)
    BY <1>2 DEF RotationInv, StageInv
  <2>2. CASE wid[w] # 0
    <3>1. Holding(w) /\ sid[wsvc[w]] = wid[w]
      BY <1>2, <2>1, <2>2 DEF Holding
    <3>2. PICK s \in Services : Roams(s) /\ sid[s] = wid[w]
      BY <1>1, <3>1 DEF TokenInv, IsToken
    <3>3. s = wsvc[w]
      BY <2>1, <2>2, <3>1, <3>2 DEF Calm, IdsUnique
    <3> QED
      BY <2>1, <3>1, <3>2, <3>3
  <2> QED
    BY <2>1, <2>2
<1>3. stage[wsvc[v]] \in {"publish", "pushing", "done"}
  BY <1>2 DEF Pinned, Roams
<1>4. ASSUME NEW w \in Workers \ {v}, wpc[w] \in {"poll", "lua"},
             wsvc[v] = wsvc[w]
      PROVE  FALSE
  <2>1. CASE unique[wsvc[v]]
    <3>1. Pinned(wsvc[v], v) /\ Pinned(wsvc[w], w)
      BY <1>2, <1>4, <2>1 DEF Roams
    <3> QED
      BY <1>4, <3>1 DEF Pinned
  <2>2. CASE ~unique[wsvc[v]]
    <3>1. /\ Holding(v) /\ sid[wsvc[v]] = wid[v]
          /\ Holding(w) /\ sid[wsvc[w]] = wid[w]
      BY <1>2, <1>4, <2>2 DEF Pinned
    <3> QED
      BY <1>1, <1>4, <3>1 DEF TokenInv
  <2> QED
    BY <2>1, <2>2
<1> QED
  BY <1>3, <1>4

(* Two workers never run the Lua state of one service at the same time, and *)
(* none polls a service under construction, unless two calls of newService  *)
(* drew one id or a push or a pop ran inside its unlocked push.             *)
THEOREM ExclusivePollHolds == Spec => []ExclusivePoll
<1>1. TypeOK /\ RotationInv => ExclusivePoll
  BY ExclusivePollFromInv
<1> QED
  BY <1>1, TypeCorrect, RotationHolds, PTL

LEMMA InRotationFromInv ==
  ASSUME TypeOK, RotationInv
  PROVE  InRotationOnce
<1> SUFFICES ASSUME Calm, NEW s \in mServices, ~unique[s], stage[s] = "done"
             PROVE  Cardinality(Queued(sid[s])) + Cardinality(Holders(sid[s])) = 1
  BY DEF InRotationOnce
<1> DEFINE id == sid[s]
           q  == mFreeServices
<1>1. TokenInv /\ Roams(s) /\ id # 0
  BY DEF RotationInv, StageInv, Roams, TypeOK
<1>2. \A w \in Workers : w \in Holders(id) <=> Holding(w) /\ wid[w] = id
  BY <1>1 DEF Holders, Holding, TypeOK
<1>3. Holders(id) \subseteq Workers
  BY DEF Holders
<1>4. CASE id \in Range(q)
  <2>1. PICK i \in DOMAIN q : q[i] = id
    BY <1>4 DEF Range
  <2>2. Queued(id) = {i}
    BY <1>1, <2>1 DEF TokenInv, IsInjective, Queued
  <2>3. Holders(id) = {}
    BY <1>1, <1>2, <1>3, <1>4 DEF TokenInv
  <2>4. Cardinality(Queued(id)) = 1 /\ Cardinality(Holders(id)) = 0
    BY <2>2, <2>3, FS_EmptySet, FS_Singleton
  <2> QED
    BY <2>4
<1>5. CASE id \notin Range(q)
  <2>1. PICK w \in Workers : Holding(w) /\ wid[w] = id
    BY <1>1, <1>5 DEF TokenInv
  <2>2. Queued(id) = {}
    BY <1>5 DEF Range, Queued
  <2>3. Holders(id) = {w}
    BY <1>1, <1>2, <1>3, <2>1 DEF TokenInv
  <2>4. Cardinality(Queued(id)) = 0 /\ Cardinality(Holders(id)) = 1
    BY <2>2, <2>3, FS_EmptySet, FS_Singleton
  <2> QED
    BY <2>4
<1> QED
  BY <1>4, <1>5

(* A registered service that is not pinned is never lost to the workers and *)
(* never handed to two of them, under the same proviso.                     *)
THEOREM InRotationOnceHolds == Spec => []InRotationOnce
<1>1. TypeOK /\ RotationInv => InRotationOnce
  BY InRotationFromInv
<1> QED
  BY <1>1, TypeCorrect, RotationHolds, PTL

-----------------------------------------------------------------------------
(* A service that destroys itself.  The worker that runs it holds it until  *)
(* destoryService returned, and by then nothing leads another one to it.    *)
Leaving(s) == s \in Gone \/ dstep[s] \in {"close", "retire"}

LeaveInv ==
  /\ \A c \in Contexts : dstep[c] # "none" =>
       /\ c \in Services /\ dsvc[c] = c /\ stage[c] = "done"
       /\ \E w \in Workers : wpc[w] = "lua" /\ wsvc[w] = c
  /\ \A s \in Services : Leaving(s) =>
       stage[s] = "done" /\ \A w \in Workers : mService[w] # s
  /\ \A s \in Services \intersect Gone :
       \A w \in Workers : wpc[w] = "poll" => wsvc[w] # s

(* The service a worker polls is done, whatever its kind.                   *)
LEMMA PolledDone ==
  ASSUME TypeOK, RotationInv, Calm, NEW w \in Workers, wpc[w] \in {"poll", "lua"}
  PROVE  wsvc[w] \in Services /\ stage[wsvc[w]] = "done"
<1>1. /\ wsvc[w] \in Services
      /\ wid[w] # 0 => sid[wsvc[w]] = wid[w]
      /\ wid[w] = 0 => Pinned(wsvc[w], w)
  BY DEF RotationInv, StageInv
<1>2. CASE wid[w] # 0
  <2>1. Holding(w)
    BY <1>2 DEF Holding
  <2>2. PICK s \in Services : Roams(s) /\ sid[s] = wid[w]
    BY <2>1 DEF RotationInv, TokenInv, IsToken
  <2>3. s = wsvc[w]
    BY <1>1, <1>2, <2>2 DEF Calm, IdsUnique
  <2> QED
    BY <1>1, <2>2, <2>3 DEF Roams
<1> QED
  BY <1>1, <1>2 DEF Pinned

LEMMA LeaveFrame ==
  ASSUME TypeOK, LeaveInv, Gone' \subseteq Gone, dstep' = dstep, dsvc' = dsvc,
         \A s \in Services : stage[s] = "done" => stage'[s] = "done",
         \A w \in Workers : \A s \in Services :
           mService'[w] = s => mService[w] = s \/ stage[s] # "done",
         \A w \in Workers : wpc[w] = "lua" =>
           \/ wpc'[w] = "lua" /\ wsvc'[w] = wsvc[w]
           \/ dstep[wsvc[w]] = "none",
         \A w \in Workers : wpc'[w] = "poll" =>
           \/ wpc[w] = "poll" /\ wsvc'[w] = wsvc[w]
           \/ wsvc'[w] \notin Gone
  PROVE  LeaveInv'
<1>1. ASSUME NEW c \in Contexts, dstep[c] # "none"
      PROVE  /\ c \in Services /\ dsvc[c] = c /\ stage'[c] = "done"
             /\ \E w \in Workers : wpc'[w] = "lua" /\ wsvc'[w] = c
  <2>1. c \in Services /\ dsvc[c] = c /\ stage[c] = "done"
    BY <1>1 DEF LeaveInv
  <2>2. PICK w \in Workers : wpc[w] = "lua" /\ wsvc[w] = c
    BY <1>1 DEF LeaveInv
  <2>3. wpc'[w] = "lua" /\ wsvc'[w] = c
    BY <1>1, <2>2
  <2> QED
    BY <2>1, <2>3
<1>2. ASSUME NEW s \in Services, Leaving(s)'
      PROVE  stage'[s] = "done" /\ \A w \in Workers : mService'[w] # s
  <2>1. Leaving(s)
    BY <1>2 DEF Leaving
  <2> QED
    BY <2>1 DEF LeaveInv
<1>3. ASSUME NEW s \in Services \intersect Gone', NEW w \in Workers,
             wpc'[w] = "poll"
      PROVE  wsvc'[w] # s
  BY <1>3 DEF LeaveInv
<1> QED
  BY <1>1, <1>2, <1>3 DEF LeaveInv

LEMMA GoneTop ==
  ASSUME TypeOK, RegistryInv, DeleteTop
  PROVE  Gone' = Gone
<1> DEFINE q == mPreDestroyServices
<1>1. /\ q # <<>> /\ deleted' = deleted \union {q[Len(q)]}
      /\ q' = SubSeq(q, 1, Len(q) - 1)
  BY DEF DeleteTop, Delete
<1>2. Range(q') = Range(q) \ {q[Len(q)]} /\ q[Len(q)] \in Range(q)
  BY <1>1, RangeFront DEF TypeOK, RegistryInv, PreDestroyOnce
<1> QED
  BY <1>1, <1>2 DEF Gone

(* The steps of destoryService, while every service destroys only itself.   *)
LEMMA LeaveDestroy ==
  ASSUME TypeOK, RegistryInv, RotationInv, ExclusivePoll, LeaveInv, Calm,
         NEW c \in Contexts,
         DestroyStep(c) \/ \E s \in Services : DestroyFind(c, s) /\ ~foreign'
  PROVE  LeaveInv'
<1>1. CASE \E s \in Services : DestroyFind(c, s) /\ ~foreign'
  <2>1. /\ c \in mServices /\ Running(c) /\ mServiceLock = Nil
        /\ dstep' = [dstep EXCEPT ![c] = "unpin"]
        /\ dsvc' = [dsvc EXCEPT ![c] = c]
        /\ UNCHANGED <<mPreDestroyServices, deleted, stage, mService, wpc, wsvc>>
    BY <1>1 DEF DestroyFind
  <2>2. c \in Services /\ stage[c] # "ctor" /\ c # Start
    <3>1. c \in Services /\ c \in mServices
      BY <2>1 DEF TypeOK
    <3>2. stage[c] \in {"publish", "pushing", "done"}
      BY <3>1 DEF RotationInv, StageInv
    <3>3. c # Start
      BY <3>1, ConstantsAssumption
    <3> QED
      BY <3>1, <3>2, <3>3
  <2>3. PICK w \in Workers : wpc[w] = "lua" /\ wsvc[w] = c
    BY <2>1, <2>2 DEF Running
  <2>4. stage[c] = "done"
    BY <2>3, PolledDone
  <2>5. /\ dstep'[c] = "unpin" /\ dsvc'[c] = c
        /\ \A d \in Contexts \ {c} : dstep'[d] = dstep[d] /\ dsvc'[d] = dsvc[d]
    BY <2>1 DEF TypeOK
  <2>6. Gone' = Gone
    BY <2>1 DEF Gone
  <2>7. \A s \in Services : Leaving(s)' => Leaving(s)
    BY <2>5, <2>6 DEF Leaving, Contexts
  <2> QED
    BY <2>1, <2>2, <2>3, <2>4, <2>5, <2>6, <2>7 DEF LeaveInv
<1>2. CASE DestroyUnpin(c)
  <2>1. /\ dstep[c] = "unpin" /\ Unpin(dsvc[c])
        /\ dstep' = [dstep EXCEPT ![c] = "close"]
        /\ UNCHANGED <<dsvc, mPreDestroyServices, deleted, stage, wpc, wsvc>>
    BY <1>2 DEF DestroyUnpin
  <2>2. c \in Services /\ dsvc[c] = c /\ stage[c] = "done"
    BY <2>1 DEF LeaveInv
  <2>3. /\ dstep'[c] = "close"
        /\ \A d \in Contexts \ {c} : dstep'[d] = dstep[d]
    BY <2>1 DEF TypeOK
  <2>4. \A w \in Workers : mService[w] = c => w = claim[c]
    BY <2>2, ConstantsAssumption DEF RotationInv, StageInv, Pinned, Contexts
  <2>5. /\ \A w \in Workers : mService'[w] # c
        /\ \A w \in Workers : \A s \in Services : mService'[w] = s => mService[w] = s
    <3>1. Nil \notin Services
      BY ConstantsAssumption DEF Contexts
    <3>2. CASE \E w \in Workers : mService[w] = c
      <4>1. PICK w \in Workers : mService[w] = c /\ mService' = [mService EXCEPT ![w] = Nil]
        BY <2>1, <2>2, <3>2 DEF Unpin
      <4> QED
        BY <2>2, <2>4, <3>1, <4>1 DEF TypeOK
    <3>3. CASE ~\E w \in Workers : mService[w] = c
      BY <2>1, <2>2, <3>3 DEF Unpin
    <3> QED
      BY <3>2, <3>3
  <2>6. Gone' = Gone
    BY <2>1 DEF Gone
  <2>7. \A s \in Services : Leaving(s)' => Leaving(s) \/ s = c
    BY <2>3, <2>6 DEF Leaving, Contexts
  <2>8. \A d \in Contexts : dstep'[d] # "none" => dstep[d] # "none"
    BY <2>1, <2>3
  <2> QED
    BY <2>1, <2>2, <2>5, <2>6, <2>7, <2>8 DEF LeaveInv
<1>3. CASE DestroyClose(c)
  <2>1. /\ dstep[c] = "close"
        /\ dstep' = [dstep EXCEPT ![c] = "retire"]
        /\ UNCHANGED <<dsvc, mPreDestroyServices, deleted, stage, mService, wpc,
                       wsvc>>
    BY <1>3 DEF DestroyClose
  <2>2. /\ dstep'[c] = "retire"
        /\ \A d \in Contexts \ {c} : dstep'[d] = dstep[d]
    BY <2>1 DEF TypeOK
  <2>3. Gone' = Gone
    BY <2>1 DEF Gone
  <2>4. \A s \in Services : Leaving(s)' => Leaving(s)
    BY <2>1, <2>2, <2>3 DEF Leaving, Contexts
  <2>5. \A d \in Contexts : dstep'[d] # "none" => dstep[d] # "none"
    BY <2>1, <2>2
  <2> QED
    BY <2>1, <2>3, <2>4, <2>5 DEF LeaveInv
<1>4. CASE DestroyRetire(c)
  <2>1. /\ dstep[c] = "retire"
        /\ dstep' = [dstep EXCEPT ![c] = "none"]
        /\ dsvc' = [dsvc EXCEPT ![c] = Nil]
        /\ mPreDestroyServices' = Append(mPreDestroyServices, dsvc[c])
        /\ UNCHANGED <<deleted, stage, mService, wpc, wsvc>>
    BY <1>4 DEF DestroyRetire
  <2>2. c \in Services /\ dsvc[c] = c
    BY <2>1 DEF LeaveInv
  <2>3. PICK w \in Workers : wpc[w] = "lua" /\ wsvc[w] = c
    BY <2>1 DEF LeaveInv
  <2>4. \A v \in Workers : wpc[v] = "poll" => wsvc[v] # c
    BY <2>3 DEF ExclusivePoll
  <2>5. Gone' = Gone \union {c}
    <3>1. /\ mPreDestroyServices \in Seq(Services)
          /\ c \notin Range(mPreDestroyServices) /\ IsInjective(mPreDestroyServices)
      BY <2>1, <2>2 DEF RegistryInv, PreDestroyOnce, Gone, TypeOK
    <3>2. Range(mPreDestroyServices') = Range(mPreDestroyServices) \union {c}
      BY <2>1, <2>2, <3>1, RangeAppend
    <3> QED
      BY <2>1, <3>2 DEF Gone
  <2>6. /\ dstep'[c] = "none"
        /\ \A d \in Contexts \ {c} : dstep'[d] = dstep[d] /\ dsvc'[d] = dsvc[d]
    BY <2>1 DEF TypeOK
  <2>7. \A s \in Services : Leaving(s)' => Leaving(s)
    BY <2>1, <2>5, <2>6 DEF Leaving, Contexts
  <2> QED
    BY <2>1, <2>4, <2>5, <2>6, <2>7 DEF LeaveInv
<1> QED
  BY <1>1, <1>2, <1>3, <1>4 DEF DestroyStep

LEMMA LeaveCreate ==
  ASSUME TypeOK, LeaveInv,
         \/ \E s \in Services : CreateStep(s)
         \/ \E c \in Creators, s \in Services, u \in BOOLEAN : NewService(c, s, u)
  PROVE  LeaveInv'
<1>1. UNCHANGED <<mPreDestroyServices, deleted, dstep, dsvc, wpc, wsvc>>
  BY DEF CreateStep, UseWorker, ReadId, BumpId, CtorReturn, Insert, SetService,
         PushBegin, PushEnd, NewService
<1>2. Gone' = Gone
  BY <1>1 DEF Gone
<1>3. \A s \in Services : stage[s] = "done" => stage'[s] = "done"
  BY DEF CreateStep, UseWorker, ReadId, BumpId, CtorReturn, Insert, SetService,
         PushBegin, PushEnd, Return, NewService, TypeOK
<1>4. \A w \in Workers : \A s \in Services :
        mService'[w] = s => mService[w] = s \/ stage[s] # "done"
  <2>1. ASSUME NEW r \in Services, SetService(r)
        PROVE  \A w \in Workers : \A s \in Services :
                 mService'[w] = s => mService[w] = s \/ stage[s] # "done"
    BY <2>1 DEF SetService, TypeOK
  <2>2. ASSUME ~\E r \in Services : SetService(r) PROVE mService' = mService
    BY <2>2 DEF CreateStep, UseWorker, ReadId, BumpId, CtorReturn, Insert,
                PushBegin, PushEnd, NewService
  <2> QED
    BY <2>1, <2>2
<1> QED
  BY <1>1, <1>2, <1>3, <1>4, LeaveFrame

LEMMA LeaveWorker ==
  ASSUME TypeOK, RegistryInv, LeaveInv, NEW w \in Workers, WorkerStep(w)
  PROVE  LeaveInv'
<1>1. UNCHANGED <<mPreDestroyServices, deleted, dstep, dsvc, stage, mService>>
  BY DEF WorkerStep, ReadService, GetFreeServiceId, GetService, PollEnter,
         PollReturn, RequeueBegin, RequeueEnd, WorkerStop
<1>2. Gone' = Gone
  BY <1>1 DEF Gone
<1>3. \A v \in Workers \ {w} : wpc'[v] = wpc[v] /\ wsvc'[v] = wsvc[v]
  BY DEF WorkerStep, ReadService, GetFreeServiceId, GetService, PollEnter,
         PollReturn, LeavePoll, RequeueBegin, RequeueEnd, WorkerStop, TypeOK
<1>4. wpc[w] = "lua" => dstep[wsvc[w]] = "none"
  BY DEF WorkerStep, ReadService, GetFreeServiceId, GetService, PollEnter,
         PollReturn, RequeueBegin, RequeueEnd, WorkerStop, Running
<1>5. wpc'[w] = "poll" => wsvc'[w] \notin Gone
  <2>1. CASE ReadService(w)
    <3>1. /\ wsvc'[w] = mService[w]
          /\ wpc'[w] = "poll" => mService[w] # Nil
      BY <2>1 DEF ReadService, TypeOK
    <3>2. mService[w] # Nil => mService[w] \in Services
      BY DEF TypeOK
    <3>3. mService[w] \in Services => ~Leaving(mService[w])
      BY DEF LeaveInv
    <3> QED
      BY <3>1, <3>2, <3>3 DEF Leaving
  <2>2. CASE GetService(w)
    <3>1. wpc'[w] = "poll" => wsvc'[w] \in mServices
      BY <2>2 DEF GetService, TypeOK
    <3> QED
      BY <3>1 DEF RegistryInv, PreDestroyOnce, Gone
  <2>3. CASE ~ReadService(w) /\ ~GetService(w)
    BY <2>3 DEF WorkerStep, GetFreeServiceId, PollEnter, PollReturn, LeavePoll,
                AfterPoll, RequeueBegin, RequeueEnd, WorkerStop, TypeOK
  <2> QED
    BY <2>1, <2>2, <2>3
<1> QED
  BY <1>1, <1>2, <1>3, <1>4, <1>5, LeaveFrame

LEMMA LeaveOther ==
  ASSUME TypeOK, RegistryInv, LeaveInv, MainStep \/ LuaExit \/ UNCHANGED vars
  PROVE  LeaveInv'
<1>1. UNCHANGED <<dstep, dsvc, stage, mService, wpc, wsvc>>
  BY DEF MainStep, ScriptReturn, MainPoll, DeleteTop, PollDone,
         WaitAllServiceClose, AllClosed, JoinWorker, JoinedAll, LuaExit, vars
<1>2. Gone' = Gone
  <2>1. CASE ~DeleteTop
    <3>1. UNCHANGED <<mPreDestroyServices, deleted>>
      BY <2>1 DEF MainStep, ScriptReturn, MainPoll, PollDone,
                  WaitAllServiceClose, AllClosed, JoinWorker, JoinedAll, LuaExit,
                  vars
    <3> QED
      BY <3>1 DEF Gone
  <2> QED
    BY <2>1, GoneTop
<1> QED
  BY <1>1, <1>2, LeaveFrame

(* What went wrong stays wrong.                                             *)
LEMMA CalmStays ==
  ASSUME TypeOK, RotationInv, [Next]_vars
  PROVE  /\ Calm' => Calm
         /\ ~foreign' => ~foreign
<1>1. \A s \in Services : sid[s] # 0 => sid'[s] = sid[s]
  <2>1. ASSUME NEW r \in Services, ReadId(r)
        PROVE  \A s \in Services : sid[s] # 0 => sid'[s] = sid[s]
    <3>1. sid[r] = 0 /\ sid' = [sid EXCEPT ![r] = mAutoId]
      BY <2>1 DEF ReadId, RotationInv, StageInv
    <3> QED
      BY <3>1 DEF TypeOK
  <2>2. ASSUME ~\E r \in Services : ReadId(r) PROVE sid' = sid
    BY <2>2 DEF Next, LuaStep, CreateStep, DestroyStep, WorkerStep, MainStep,
         UseWorker, BumpId, CtorReturn, Insert, SetService, PushBegin, PushEnd,
         NewService, DestroyFind, DestroyUnpin, DestroyClose, DestroyRetire,
         LuaExit, ReadService, GetFreeServiceId, GetService, PollEnter,
         PollReturn, RequeueBegin, RequeueEnd, WorkerStop, ScriptReturn, MainPoll,
         DeleteTop, PollDone, WaitAllServiceClose, AllClosed, JoinWorker,
         JoinedAll, vars
  <2> QED
    BY <2>1, <2>2
<1>2. raced => raced'
  BY DEF Next, LuaStep, CreateStep, DestroyStep, WorkerStep, MainStep, EndPush,
         UseWorker, ReadId, BumpId, CtorReturn, Insert, SetService, PushBegin,
         PushEnd, NewService, DestroyFind, DestroyUnpin, DestroyClose,
         DestroyRetire, LuaExit, ReadService, GetFreeServiceId, GetService,
         PollEnter, PollReturn, RequeueBegin, RequeueEnd, WorkerStop,
         ScriptReturn, MainPoll, DeleteTop, PollDone, WaitAllServiceClose,
         AllClosed, JoinWorker, JoinedAll, vars
<1>3. foreign => foreign'
  BY DEF Next, LuaStep, CreateStep, DestroyStep, WorkerStep, MainStep,
         UseWorker, ReadId, BumpId, CtorReturn, Insert, SetService, PushBegin,
         PushEnd, NewService, DestroyFind, DestroyUnpin, DestroyClose,
         DestroyRetire, LuaExit, ReadService, GetFreeServiceId, GetService,
         PollEnter, PollReturn, RequeueBegin, RequeueEnd, WorkerStop,
         ScriptReturn, MainPoll, DeleteTop, PollDone, WaitAllServiceClose,
         AllClosed, JoinWorker, JoinedAll, vars
<1> QED
  BY <1>1, <1>2, <1>3, CalmBefore DEF RotationInv

StillInv == Calm /\ ~foreign => LeaveInv

LEMMA StillStep ==
  ASSUME TypeOK, RegistryInv, RotationInv, ExclusivePoll, StillInv, [Next]_vars
  PROVE  StillInv'
<1> SUFFICES ASSUME Calm', ~foreign' PROVE LeaveInv'
  BY DEF StillInv
<1>1. Calm /\ LeaveInv
  BY CalmStays DEF StillInv
<1>2. ASSUME NEW c \in Contexts,
             DestroyStep(c) \/ \E s \in Services : DestroyFind(c, s)
      PROVE  LeaveInv'
  BY <1>1, <1>2, LeaveDestroy
<1>3. ASSUME NEW w \in Workers, WorkerStep(w) PROVE LeaveInv'
  BY <1>1, <1>3, LeaveWorker
<1>4. CASE \/ \E s \in Services : CreateStep(s)
           \/ \E c \in Creators, s \in Services, u \in BOOLEAN : NewService(c, s, u)
  BY <1>1, <1>4, LeaveCreate
<1>5. CASE MainStep \/ LuaExit \/ UNCHANGED vars
  BY <1>1, <1>5, LeaveOther
<1> QED
  BY <1>2, <1>3, <1>4, <1>5, LuaStepCases DEF Next

LEMMA NeverEntersFromInv ==
  ASSUME TypeOK, StillInv
  PROVE  NeverEntersDeleted
<1> SUFFICES ASSUME Calm, ~foreign, NEW w \in Workers
             PROVE  /\ mService[w] \notin deleted
                    /\ wpc[w] = "poll" => wsvc[w] \notin deleted
  BY DEF NeverEntersDeleted
<1>1. \A s \in deleted : s \in Services /\ s \in Gone
  BY DEF Gone, TypeOK
<1> QED
  BY <1>1 DEF StillInv, LeaveInv, Leaving

(* As long as ids and pushes are in order and services only destroy         *)
(* themselves, no worker enters the poll of a service that main deleted.    *)
THEOREM NeverEntersDeletedHolds == Spec => []NeverEntersDeleted
<1>1. Init => RegistryInv /\ StillInv
  <2>1. Init => LeaveInv
    <3> SUFFICES ASSUME Init PROVE LeaveInv
      OBVIOUS
    <3>1. Range(mPreDestroyServices) = {}
      BY DEF Init, Range
    <3>2. Gone = {}
      BY <3>1 DEF Init, Gone
    <3>3. \A c \in Contexts : dstep[c] = "none"
      BY DEF Init
    <3>4. \A s \in Services : ~Leaving(s)
      BY <3>2, <3>3 DEF Leaving, Contexts
    <3> QED
      BY <3>2, <3>3, <3>4 DEF LeaveInv
  <2> QED
    BY <2>1, RegistryInit DEF StillInv
<1>2. TypeOK /\ RegistryInv /\ [Next]_vars => RegistryInv'
  BY RegistryNext
<1>3. TypeOK /\ RegistryInv /\ RotationInv /\ ExclusivePoll /\ StillInv /\ [Next]_vars
        => StillInv'
  BY StillStep
<1>4. TypeOK /\ StillInv => NeverEntersDeleted
  BY NeverEntersFromInv
<1> QED
  BY <1>1, <1>2, <1>3, <1>4, TypeCorrect, RotationHolds, ExclusivePollHolds, PTL
     DEF Spec
=============================================================================

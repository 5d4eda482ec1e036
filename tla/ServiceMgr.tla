----------------------------- MODULE ServiceMgr -----------------------------
(***************************************************************************)
(* The service registry and its scheduling: src/service/serviceMgr.cpp     *)
(* with the parts of service.cpp, worker.cpp, workerMgr.cpp and main.cpp   *)
(* that create, poll, destroy and delete services.                         *)
(*                                                                         *)
(* A service is an object (an element of Services) with its own Lua state. *)
(* Lua runs in one of three places: the start script on the main thread,   *)
(* the script a constructor loads on the thread that called newService,    *)
(* and the onPoll of a service on the worker that polls it.  So a step of  *)
(* Lua is a step of a context, an element of Contexts, and the environment *)
(* of this module is what Lua chooses to call.                             *)
(*                                                                         *)
(* An operator whose name extends the name of the one right below it is a  *)
(* mutant: what that operator would be if the code had a plausible slip.   *)
(*                                                                         *)
(* Every try_lock loop is an action guarded by the lock being free: the    *)
(* sleep between two tries changes nothing.  A critical section that holds *)
(* no second lock is one step.  Messages are the subject of MsgPath.       *)
(***************************************************************************)
EXTENDS Naturals, Sequences, FiniteSets, Functions

CONSTANTS
  Services,    (* the Service objects a run may construct (bounds the runs) *)
  NumWorkers,  (* Config.thread: the workers initWorker starts              *)
  Start,       (* the Lua state of the start script                         *)
  Nil,         (* nullptr, and a mutex nobody holds                         *)
  Creators,    (* the contexts whose Lua calls newService                   *)
  Destroys     (* whose Lua calls destoryService, and for which services:   *)
               (* pairs of a context and a service                          *)

Workers  == 1..NumWorkers
Contexts == Services \union {Start}

ASSUME ConstantsAssumption ==
  /\ NumWorkers \in Nat
  /\ Start \notin Services
  /\ Nil \notin Contexts
  /\ Services \intersect Workers = {}
  /\ Creators \subseteq Contexts
  /\ Destroys \subseteq Contexts \X Services

VARIABLES
  mAutoId,             (* ServiceMgr::mAutoId                                *)
  mServices,           (* the objects in the map ServiceMgr::mServices; the  *)
                       (* key of s is sid[s]                                 *)
  mServiceLock,        (* the context inside destoryService's critical       *)
                       (* section, or Nil                                    *)
  mFreeServices,       (* the queue of ids no worker holds                   *)
  mPreDestroyServices, (* the stack of services waiting for their delete     *)
  mFreeWorkers,        (* WorkerMgr::mFreeWorkers                            *)
  mService,            (* Worker::mService                                   *)
  deleted,             (* objects whose destructor has run                   *)
  sid, unique, mIsInit,(* per object: its id, isUnique, Service::mIsInit     *)
  stage, caller, claim,(* per object: where the newService call that makes   *)
                       (* it stands, who called, the worker it took          *)
  dstep, dsvc,         (* per context: where its destoryService call stands  *)
  foreign,             (* history: Lua has destroyed a service not its own   *)
  wpc, wid, wsvc,      (* per worker: program counter and the locals         *)
                       (* serviceId and service of Worker::run               *)
  overlapped, raced,   (* history: the pushes another access ended inside    *)
                       (* of; was there ever one, a pop or a push            *)
  mainPc, failed,      (* the main thread; did its start script fail         *)
  isRun, joining       (* luaIsRun(); the worker ~WorkerMgr is at, 0 before  *)

registryVars == <<mAutoId, mServices, mServiceLock, mPreDestroyServices>>
workerVars   == <<mFreeWorkers, mService>>
objectVars   == <<deleted, sid, unique, mIsInit>>
callVars     == <<stage, caller, claim>>
destroyVars  == <<dstep, dsvc, foreign>>
loopVars     == <<wpc, wid, wsvc>>
queueVars    == <<mFreeServices, overlapped, raced>>
mainVars     == <<mainPc, failed, isRun, joining>>

(* What a call of newService or destoryService leaves to the loops of the   *)
(* threads, and the other way round.                                        *)
threadVars == <<loopVars, queueVars, mainVars>>
sharedVars == <<registryVars, workerVars, objectVars, callVars, destroyVars>>

vars == <<sharedVars, threadVars>>

FirstIdZero == 0
FirstId == 1

Stages == {"unborn", "useWorker", "readId", "bumpId", "ctor", "insert",
           "publish", "pushing", "done"}

(* The call that makes s holds worker claim[s] once useWorker returned.     *)
Claimed == {s \in Services : stage[s] \notin {"unborn", "useWorker"}}

(* The call that makes s has not returned yet.                              *)
InCall(s) == stage[s] \notin {"unborn", "done"}

(* Lua of context c has control: c is not inside a call into C++.           *)
Running(c) ==
  /\ \/ c = Start /\ mainPc = "script"
     \/ c \in Services /\ stage[c] = "ctor"
     \/ c \in Services /\ \E w \in Workers : wpc[w] = "lua" /\ wsvc[w] = c
  /\ dstep[c] = "none"
  /\ ~\E s \in Services : caller[s] = c /\ InCall(s)

Init ==
  /\ mAutoId = FirstId
  /\ mServices = {}
  /\ mServiceLock = Nil
  /\ mFreeServices = <<>>
  /\ mPreDestroyServices = <<>>
  /\ mFreeWorkers = Workers
  /\ mService = [w \in Workers |-> Nil]
  /\ deleted = {}
  /\ sid = [s \in Services |-> 0]
  /\ unique = [s \in Services |-> FALSE]
  /\ mIsInit = [s \in Services |-> FALSE]
  /\ stage = [s \in Services |-> "unborn"]
  /\ caller = [s \in Services |-> Nil]
  /\ claim = [s \in Services |-> 0]
  /\ dstep = [c \in Contexts |-> "none"]
  /\ dsvc = [c \in Contexts |-> Nil]
  /\ foreign = FALSE
  /\ wpc = [w \in Workers |-> "loop"]
  /\ wid = [w \in Workers |-> 0]
  /\ wsvc = [w \in Workers |-> Nil]
  /\ overlapped = {}
  /\ raced = FALSE
  /\ mainPc = "script"
  /\ failed = FALSE
  /\ isRun = TRUE
  /\ joining = 0

-----------------------------------------------------------------------------
(* mFreeServices is a std::queue.  getFreeServiceId and pushFreeServiceId   *)
(* hold mFreeServiceLock; newService pushes without it.  A push reads the   *)
(* bounds of the queue and later stores the element and new bounds, so it   *)
(* is a window with a beginning and an end; a pop is one step, which may    *)
(* fall into the window of an unlocked push.  Of two accesses that overlap  *)
(* the one that ends later, always a push, is the one that goes wrong: what *)
(* a pop that read half a push would take, a later pop finds in the queue.  *)

UnlockedPushes == {s \in Services : stage[s] = "pushing"}
Pushing == UnlockedPushes \union {w \in Workers : wpc[w] = "pushing"}

mFreeServiceLockFree == \A w \in Workers : wpc[w] # "pushing"

ReplaceLast(q, id) == IF q = <<>> THEN q ELSE [q EXCEPT ![Len(q)] = id]

(* What a slot of the queue may hold that nobody wrote since: a former id.  *)
Stale == 0..(mAutoId - 1)

(* The ids workers have popped and not put back.                            *)
Popped == {wid[w] : w \in Workers} \ {0}

(* What std::queue::push(id) can leave behind when another access completed *)
(* inside it: both elements, one of the two, a slot with stale contents at  *)
(* the end, which was advanced over a slot nobody wrote, or the front set   *)
(* back over a slot that was popped, whose id is then there twice.          *)
OneKept(q, id)   == {q, ReplaceLast(q, id)}
StaleEnd(q, id)  == {Append(r, stale) : r \in OneKept(q, id), stale \in Stale}
FrontBack(q, id) == {<<popped>> \o Append(q, id) : popped \in Popped}

OverlappedPush(q, id) ==
  {Append(q, id)} \union OneKept(q, id) \union StaleEnd(q, id)
                  \union FrontBack(q, id)

PushOutcomes(p, id) ==
  IF p \in overlapped THEN OverlappedPush(mFreeServices, id)
                      ELSE {Append(mFreeServices, id)}

EndPush(p, id) ==
  /\ mFreeServices' \in PushOutcomes(p, id)
  /\ raced' = (raced \/ p \in overlapped)
  /\ overlapped' = (overlapped \union Pushing) \ {p}

PopFrontKept(q) == q
PopFront(q) == IF q = <<>> THEN q ELSE Tail(q)

-----------------------------------------------------------------------------
(* ServiceMgr::newService, called by Lua of context c.                      *)

(* Objects differ by what happens to them, not by name: a call makes the    *)
(* first that is left.                                                      *)
Fresh == CHOOSE s \in Services : stage[s] = "unborn"

NewService(c, s, isUnique) ==
  /\ Running(c)
  /\ stage[s] = "unborn" /\ s = Fresh
  /\ stage' = [stage EXCEPT ![s] = "useWorker"]
  /\ caller' = [caller EXCEPT ![s] = c]
  /\ unique' = [unique EXCEPT ![s] = isUnique]
  /\ UNCHANGED <<claim, registryVars, workerVars, deleted, sid, mIsInit,
                 destroyVars, threadVars>>

(* WorkerMgr::useWorker: begin() of the map, erased from it.                *)
HasFreeWorker == mFreeWorkers # {}

TakeWorkerKept(w) == UNCHANGED mFreeWorkers
TakeWorker(w) == mFreeWorkers' = mFreeWorkers \ {w}

(* The call spins while there is no free worker.                            *)
UseWorker(s) ==
  /\ stage[s] = "useWorker"
  /\ HasFreeWorker
  /\ \E w \in mFreeWorkers :
       /\ \A v \in mFreeWorkers : w <= v
       /\ claim' = [claim EXCEPT ![s] = w]
       /\ TakeWorker(w)
  /\ stage' = [stage EXCEPT ![s] = "readId"]
  /\ UNCHANGED <<caller, mService, registryVars, objectVars, destroyVars,
                 threadVars>>

ReadId(s) ==
  /\ stage[s] = "readId"
  /\ sid' = [sid EXCEPT ![s] = mAutoId]
  /\ stage' = [stage EXCEPT ![s] = "bumpId"]
  /\ UNCHANGED <<caller, claim, deleted, unique, mIsInit, registryVars,
                 workerVars, destroyVars, threadVars>>

(* mAutoId++ without a lock: a build that keeps the value it read stores    *)
(* that plus one, one that reads it again stores the current value plus one.*)
BumpId(s) ==
  /\ stage[s] = "bumpId"
  /\ mAutoId' \in {sid[s] + 1, mAutoId + 1}
  /\ stage' = [stage EXCEPT ![s] = "ctor"]
  /\ UNCHANGED <<caller, claim, mServices, mServiceLock,
                 mPreDestroyServices, workerVars, objectVars, destroyVars,
                 threadVars>>

(* Service::Service returns.  A missing file or a Lua error calls luaExit() *)
(* and leaves mIsInit false; newService does not look at it.                *)
CtorReturn(s, ok) ==
  /\ stage[s] = "ctor" /\ Running(s)
  /\ mIsInit' = [mIsInit EXCEPT ![s] = ok]
  /\ isRun' = (isRun /\ ok)
  /\ stage' = [stage EXCEPT ![s] = "insert"]
  /\ UNCHANGED <<caller, claim, deleted, sid, unique, registryVars,
                 workerVars, destroyVars, loopVars, queueVars, mainPc,
                 failed, joining>>

(* std::map::insert keeps the old value when the key is already there.      *)
Insert(s) ==
  /\ stage[s] = "insert"
  /\ mServiceLock = Nil
  /\ mServices' = IF \E r \in mServices : sid[r] = sid[s]
                  THEN mServices
                  ELSE mServices \union {s}
  /\ stage' = [stage EXCEPT ![s] = "publish"]
  /\ UNCHANGED <<caller, claim, mAutoId, mServiceLock, mPreDestroyServices,
                 workerVars, objectVars, destroyVars, threadVars>>

(* The call that makes s returns.                                           *)
Return(s) ==
  /\ stage' = [stage EXCEPT ![s] = "done"]
  /\ caller' = [caller EXCEPT ![s] = Nil]

SetService(s) ==
  /\ stage[s] = "publish" /\ unique[s]
  /\ mService' = [mService EXCEPT ![claim[s]] = s]
  /\ Return(s)
  /\ UNCHANGED <<claim, mFreeWorkers, registryVars, objectVars,
                 destroyVars, threadVars>>

PushBegin(s) ==
  /\ stage[s] = "publish" /\ ~unique[s]
  /\ stage' = [stage EXCEPT ![s] = "pushing"]
  /\ UNCHANGED <<caller, claim, registryVars, workerVars, objectVars,
                 destroyVars, threadVars>>

PushEnd(s) ==
  /\ stage[s] = "pushing"
  /\ EndPush(s, sid[s])
  /\ Return(s)
  /\ UNCHANGED <<claim, registryVars, workerVars, objectVars,
                 destroyVars, loopVars, mainVars>>

-----------------------------------------------------------------------------
(* ServiceMgr::destoryService, called by Lua of context c.  A key that is   *)
(* not in the map makes the call return with nothing changed.  Lua may pass *)
(* any id; lualib/api.lua only ever passes its own SERVICE_ID.              *)

DestroyFind(c, s) ==
  /\ Running(c)
  /\ mServiceLock = Nil
  /\ s \in mServices
  /\ mServiceLock' = c
  /\ dstep' = [dstep EXCEPT ![c] = "unpin"]
  /\ dsvc' = [dsvc EXCEPT ![c] = s]
  /\ foreign' = (foreign \/ c # s)
  /\ UNCHANGED <<mAutoId, mServices, mPreDestroyServices, workerVars,
                 objectVars, callVars, threadVars>>

(* WorkerMgr::getServiceWorker, then setService(nullptr).                   *)
UnpinNone(s) == UNCHANGED mService
Unpin(s) ==
  LET pins == {w \in Workers : mService[w] = s}
  IN  \/ \E w \in pins : /\ \A v \in pins : w <= v
                         /\ mService' = [mService EXCEPT ![w] = Nil]
      \/ pins = {} /\ UNCHANGED mService

DestroyUnpin(c) ==
  /\ dstep[c] = "unpin"
  /\ Unpin(dsvc[c])
  /\ dstep' = [dstep EXCEPT ![c] = "close"]
  /\ UNCHANGED <<dsvc, foreign, mFreeWorkers, registryVars, objectVars, callVars,
                 threadVars>>

(* Service::close, then the erase from the map.  close also waits for the   *)
(* lock of the service's own queue, which is a subject of ServiceQueue.     *)
EraseNone(s) == UNCHANGED mServices
Erase(s) == mServices' = mServices \ {s}

DestroyClose(c) ==
  /\ dstep[c] = "close"
  /\ mIsInit' = [mIsInit EXCEPT ![dsvc[c]] = FALSE]
  /\ Erase(dsvc[c])
  /\ dstep' = [dstep EXCEPT ![c] = "retire"]
  /\ UNCHANGED <<dsvc, foreign, mAutoId, mServiceLock, mPreDestroyServices,
                 deleted, sid, unique, workerVars, callVars, threadVars>>

(* Forgotten, it stops the next newService at its insert.                   *)
UnlockNone == UNCHANGED mServiceLock
Unlock == mServiceLock' = Nil

(* mPreDestroyServiceLock is held by main while it deletes.                 *)
DestroyRetire(c) ==
  /\ dstep[c] = "retire"
  /\ mainPc \notin {"deleting", "final"}
  /\ mPreDestroyServices' = Append(mPreDestroyServices, dsvc[c])
  /\ Unlock
  /\ dstep' = [dstep EXCEPT ![c] = "none"]
  /\ dsvc' = [dsvc EXCEPT ![c] = Nil]
  /\ UNCHANGED <<foreign, mAutoId, mServices, workerVars, objectVars,
                 callVars, threadVars>>

-----------------------------------------------------------------------------
(* Worker::run.                                                             *)

(* ~WorkerMgr clears mIsRun of the worker it is about to join.              *)
mIsRunLate(w) == joining <= w
mIsRun(w) == joining < w

(* while (mIsRun) { auto service = mService; ...                            *)
ReadService(w) ==
  /\ wpc[w] = "loop" /\ mIsRun(w)
  /\ wsvc' = [wsvc EXCEPT ![w] = mService[w]]
  /\ wid' = [wid EXCEPT ![w] = 0]
  /\ wpc' = [wpc EXCEPT ![w] = IF mService[w] = Nil THEN "pop" ELSE "poll"]
  /\ UNCHANGED <<queueVars, mainVars, sharedVars>>

(* getFreeServiceId, whose lock does not keep newService out; 0 sends the   *)
(* worker back to the head of its loop, be it because the queue is empty or *)
(* because the queue held a zero.                                           *)
GetFreeServiceId(w) ==
  /\ wpc[w] = "pop"
  /\ mFreeServiceLockFree
  /\ LET id == IF mFreeServices = <<>> THEN 0 ELSE Head(mFreeServices)
     IN  /\ wid' = [wid EXCEPT ![w] = id]
         /\ wpc' = [wpc EXCEPT ![w] = IF id = 0 THEN "loop" ELSE "get"]
  /\ mFreeServices' = PopFront(mFreeServices)
  /\ overlapped' = overlapped \union UnlockedPushes
  /\ raced' = (raced \/ UnlockedPushes # {})
  /\ UNCHANGED <<wsvc, mainVars, sharedVars>>

(* getService(serviceId); an id that is not in the map is dropped.          *)
GetService(w) ==
  /\ wpc[w] = "get"
  /\ mServiceLock = Nil
  /\ \/ \E s \in mServices :
          /\ sid[s] = wid[w]
          /\ wsvc' = [wsvc EXCEPT ![w] = s]
          /\ wpc' = [wpc EXCEPT ![w] = "poll"]
          /\ UNCHANGED wid
     \/ /\ \A s \in mServices : sid[s] # wid[w]
        /\ wpc' = [wpc EXCEPT ![w] = "loop"]
        /\ wid' = [wid EXCEPT ![w] = 0]
        /\ UNCHANGED wsvc
  /\ UNCHANGED <<queueVars, mainVars, sharedVars>>

(* if (serviceId > 0) pushFreeServiceId(serviceId)                          *)
AfterPollDropped(w) == "loop"
AfterPoll(w) == IF wid[w] > 0 THEN "requeue" ELSE "loop"

LeavePoll(w) ==
  /\ wpc' = [wpc EXCEPT ![w] = AfterPoll(w)]
  /\ wsvc' = [wsvc EXCEPT ![w] = Nil]

(* Service::poll reads mIsInit without a lock and returns, or runs onPoll.  *)
(* A read of an object already deleted is undefined behaviour, of which the *)
(* model keeps the outcome that goes on: the stale mIsInit is false.        *)
PollEnter(w) ==
  /\ wpc[w] = "poll"
  /\ \/ /\ mIsInit[wsvc[w]]
        /\ wpc' = [wpc EXCEPT ![w] = "lua"]
        /\ UNCHANGED wsvc
     \/ ~mIsInit[wsvc[w]] /\ LeavePoll(w)
  /\ UNCHANGED <<wid, queueVars, mainVars, sharedVars>>

(* lua_pcall of onPoll returns.                                             *)
PollReturn(w) ==
  /\ wpc[w] = "lua" /\ Running(wsvc[w])
  /\ LeavePoll(w)
  /\ UNCHANGED <<wid, queueVars, mainVars, sharedVars>>

(* pushFreeServiceId.                                                       *)
RequeueBegin(w) ==
  /\ wpc[w] = "requeue"
  /\ mFreeServiceLockFree
  /\ wpc' = [wpc EXCEPT ![w] = "pushing"]
  /\ UNCHANGED <<wid, wsvc, queueVars, mainVars, sharedVars>>

RequeueEnd(w) ==
  /\ wpc[w] = "pushing"
  /\ EndPush(w, wid[w])
  /\ wpc' = [wpc EXCEPT ![w] = "loop"]
  /\ wid' = [wid EXCEPT ![w] = 0]
  /\ UNCHANGED <<wsvc, mainVars, sharedVars>>

(* The worker finds mIsRun false and its thread ends.                       *)
WorkerStop(w) ==
  /\ wpc[w] = "loop" /\ ~mIsRun(w)
  /\ wpc' = [wpc EXCEPT ![w] = "stopped"]
  /\ UNCHANGED <<wid, wsvc, queueVars, mainVars, sharedVars>>

-----------------------------------------------------------------------------
(* The main thread.                                                         *)

(* The lua_pcall of the start script returns; on an error main goes         *)
(* straight to WorkerMgr::destroy.                                          *)
ScriptReturn(ok) ==
  /\ mainPc = "script" /\ Running(Start)
  /\ mainPc' = IF ok THEN "run" ELSE "join"
  /\ failed' = ~ok
  /\ UNCHANGED <<isRun, joining, loopVars, queueVars, sharedVars>>

(* core.exit from any Lua, or SIGINT.                                       *)
LuaExit ==
  /\ mainPc \notin {"join", "final", "exit"}
  /\ isRun
  /\ isRun' = FALSE
  /\ UNCHANGED <<mainPc, failed, joining, loopVars, queueVars, sharedVars>>

(* ServiceMgr::poll from the main loop, under mPreDestroyServiceLock.       *)
MainPoll ==
  /\ mainPc = "run" /\ isRun
  /\ mainPc' = "deleting"
  /\ UNCHANGED <<failed, isRun, joining, loopVars, queueVars, sharedVars>>

DeleteNone(s) == UNCHANGED deleted
Delete(s) == deleted' = deleted \union {s}

DeleteTop ==
  /\ mainPc \in {"deleting", "final"}
  /\ mPreDestroyServices # <<>>
  /\ LET n == Len(mPreDestroyServices) IN
       /\ Delete(mPreDestroyServices[n])
       /\ mPreDestroyServices' = SubSeq(mPreDestroyServices, 1, n - 1)
  /\ UNCHANGED <<mAutoId, mServices, mServiceLock, sid, unique, mIsInit,
                 workerVars, callVars, destroyVars, threadVars>>

PollDone ==
  /\ mainPc \in {"deleting", "final"}
  /\ mPreDestroyServices = <<>>
  /\ mainPc' = IF mainPc = "deleting" THEN "run" ELSE "exit"
  /\ UNCHANGED <<failed, isRun, joining, loopVars, queueVars, sharedVars>>

(* The loop ends and waitAllServiceClose sends its Close messages; what a   *)
(* service does with one, it may do at any time in this module.             *)
WaitAllServiceClose ==
  /\ mainPc = "run" /\ ~isRun
  /\ mServiceLock = Nil
  /\ mainPc' = "waitEmpty"
  /\ UNCHANGED <<failed, isRun, joining, loopVars, queueVars, sharedVars>>

(* while (!mServices.empty()), read without the lock.                       *)
AllClosed ==
  /\ mainPc = "waitEmpty"
  /\ mServices = {}
  /\ mainPc' = "join"
  /\ UNCHANGED <<failed, isRun, joining, loopVars, queueVars, sharedVars>>

(* ~WorkerMgr deletes one worker after the other: clear its mIsRun, join.   *)
(* That a Lua of a worker still to be joined may walk mWorkers meanwhile    *)
(* (getServiceWorker) is not modelled: Worker objects live on here.         *)
JoinWorker ==
  /\ mainPc = "join"
  /\ joining < NumWorkers
  /\ joining # 0 => wpc[joining] = "stopped"
  /\ joining' = joining + 1
  /\ UNCHANGED <<mainPc, failed, isRun, loopVars, queueVars, sharedVars>>

(* After the last join: ServiceMgr::destroy, unless the start script failed *)
(* and main returned without it.                                            *)
JoinedAll ==
  /\ mainPc = "join"
  /\ joining = NumWorkers
  /\ joining # 0 => wpc[joining] = "stopped"
  /\ mainPc' = IF failed THEN "exit" ELSE "final"
  /\ UNCHANGED <<failed, isRun, joining, loopVars, queueVars, sharedVars>>

-----------------------------------------------------------------------------
CreateStep(s) ==
  \/ UseWorker(s) \/ ReadId(s) \/ BumpId(s)
  \/ \E ok \in BOOLEAN : CtorReturn(s, ok)
  \/ Insert(s) \/ SetService(s) \/ PushBegin(s) \/ PushEnd(s)

DestroyStep(c) == DestroyUnpin(c) \/ DestroyClose(c) \/ DestroyRetire(c)

WorkerStep(w) ==
  \/ ReadService(w) \/ GetFreeServiceId(w) \/ GetService(w)
  \/ PollEnter(w) \/ PollReturn(w)
  \/ RequeueBegin(w) \/ RequeueEnd(w) \/ WorkerStop(w)

MainStep ==
  \/ \E ok \in BOOLEAN : ScriptReturn(ok)
  \/ MainPoll \/ DeleteTop \/ PollDone
  \/ WaitAllServiceClose \/ AllClosed \/ JoinWorker \/ JoinedAll

(* What Lua chooses to call, and when the process is told to exit.          *)
LuaStep ==
  \/ \E c \in Creators, s \in Services, u \in BOOLEAN : NewService(c, s, u)
  \/ \E d \in Destroys : DestroyFind(d[1], d[2])
  \/ LuaExit

Next ==
  \/ LuaStep
  \/ \E s \in Services : CreateStep(s)
  \/ \E c \in Contexts : DestroyStep(c)
  \/ \E w \in Workers : WorkerStep(w)
  \/ MainStep

Spec == Init /\ [][Next]_vars

(* Every thread keeps running: the scheduler is fair, scripts and onPoll    *)
(* return, and a thread that retries a lock every 10 or 100 ms gets it in   *)
(* the end although others take it in between (strong fairness).  One       *)
(* destoryService at a time is past its lock, so fairness to them together  *)
(* is fairness to each.  What Lua calls is not fair: it need not call       *)
(* anything.                                                                *)
FairSpec ==
  /\ Spec
  /\ \A s \in Services : WF_vars(CreateStep(s))
  /\ SF_vars(\E c \in Contexts : DestroyStep(c))
  /\ \A w \in Workers : SF_vars(WorkerStep(w))
  /\ WF_vars(MainStep)

-----------------------------------------------------------------------------
TypeOK ==
  /\ mAutoId \in Nat \ {0}
  /\ mServices \subseteq Services
  /\ mServiceLock \in Contexts \union {Nil}
  /\ mFreeServices \in Seq(Nat)
  /\ mPreDestroyServices \in Seq(Services)
  /\ mFreeWorkers \subseteq Workers
  /\ mService \in [Workers -> Services \union {Nil}]
  /\ deleted \subseteq Services
  /\ sid \in [Services -> Nat]
  /\ unique \in [Services -> BOOLEAN]
  /\ mIsInit \in [Services -> BOOLEAN]
  /\ stage \in [Services -> Stages]
  /\ caller \in [Services -> Contexts \union {Nil}]
  /\ claim \in [Services -> Workers \union {0}]
  /\ dstep \in [Contexts -> {"none", "unpin", "close", "retire"}]
  /\ dsvc \in [Contexts -> Services \union {Nil}]
  /\ \A c \in Contexts : dstep[c] # "none" => dsvc[c] \in Services
  /\ foreign \in BOOLEAN
  /\ wpc \in [Workers -> {"loop", "pop", "get", "poll", "lua", "requeue",
                          "pushing", "stopped"}]
  /\ wid \in [Workers -> Nat]
  /\ wsvc \in [Workers -> Services \union {Nil}]
  /\ overlapped \subseteq Services \union Workers
  /\ raced \in BOOLEAN
  /\ mainPc \in {"script", "run", "deleting", "waitEmpty", "join", "final",
                 "exit"}
  /\ failed \in BOOLEAN
  /\ isRun \in BOOLEAN
  /\ joining \in 0..NumWorkers

(* Neither unlocked access has gone wrong: no two calls of newService drew  *)
(* the same id, no push of newService overlapped another push or a pop.     *)
IdsUnique ==
  \A r, s \in Services : r # s /\ sid[r] # 0 => sid[r] # sid[s]

Calm == IdsUnique /\ ~raced

(* Each newService call that got past useWorker holds a worker of its own   *)
(* for good, whether the service is pinned to it or not: nothing calls      *)
(* freeWorker.  So the configured number of workers bounds the services a   *)
(* process can ever create, destroyed ones included.                        *)
WorkerBudget ==
  /\ \A s \in Claimed : claim[s] \in Workers \ mFreeWorkers
  /\ \A r, s \in Claimed : r # s => claim[r] # claim[s]
  /\ Cardinality(Claimed) <= NumWorkers

(* A Lua state is not thread safe: two workers never have the same service  *)
(* between the check at the head of Service::poll and its return, and none  *)
(* polls a service whose constructor is still running.                      *)
ExclusivePoll ==
  Calm =>
    \A v \in Workers : wpc[v] \in {"poll", "lua"} =>
      /\ stage[wsvc[v]] \in {"publish", "pushing", "done"}
      /\ \A w \in Workers \ {v} :
           wpc[w] \in {"poll", "lua"} => wsvc[v] # wsvc[w]

(* Workers that took id out of the queue and have yet to put it back.       *)
Holders(id) ==
  {w \in Workers : wid[w] = id /\ wpc[w] \notin {"loop", "pop", "stopped"}}

Queued(id) == {i \in DOMAIN mFreeServices : mFreeServices[i] = id}

(* A registered service that is not pinned is never lost and never doubled: *)
(* its id is in the queue once, or with one worker that will put it back.   *)
InRotationOnce ==
  Calm =>
    \A s \in mServices : ~unique[s] /\ stage[s] = "done" =>
      Cardinality(Queued(sid[s])) + Cardinality(Holders(sid[s])) = 1

(* A service waits for its delete once, after it left the registry and      *)
(* before its destructor runs: no double delete, and getService, send and   *)
(* queryService, which only reach registered services, find live objects.   *)
PreDestroyOnce ==
  /\ IsInjective(mPreDestroyServices)
  /\ Range(mPreDestroyServices) \intersect (mServices \union deleted) = {}
  /\ mServices \intersect deleted = {}

(* As long as no service was destroyed by another, main may delete one      *)
(* whose onPoll is still returning, but no worker goes into a poll of a     *)
(* deleted one and none keeps a pointer to it for its next round.           *)
NeverEntersDeleted ==
  Calm /\ ~foreign =>
    \A w \in Workers :
      /\ mService[w] \notin deleted
      /\ wpc[w] = "poll" => wsvc[w] \notin deleted

-----------------------------------------------------------------------------
(* Every worker is taken and a call waits for one.                          *)
Starving == mFreeWorkers = {} /\ \E s \in Services : stage[s] = "useWorker"

(* A registered service that is not pinned is polled again and again until  *)
(* it is destroyed or the workers stop: every creation, pinned or not, uses *)
(* up one worker, so one is always left to roam.                            *)
FreeServicePolled ==
  [](Calm /\ ~Starving) =>
    \A s \in Services :
      [](s \in mServices /\ ~unique[s] /\ stage[s] = "done" =>
           <>(\/ s \notin mServices
              \/ mainPc \in {"join", "final", "exit"}
              \/ \E w \in Workers : wpc[w] = "poll" /\ wsvc[w] = s))

(* The calls of newService that run inside the one that makes s: this call  *)
(* itself, and the calls of constructors it waits for.                      *)
Inside(s) ==
  {t \in Services :
     \E n \in 1..Cardinality(Services) : \E path \in [1..n -> Services] :
       /\ path[1] = s /\ path[n] = t
       /\ \A k \in 1..(n - 1) :
            stage[path[k]] = "ctor" /\ caller[path[k + 1]] = path[k]}

(* newService returns unless it, or a constructor inside it, asks for a     *)
(* worker when they are used up; and every destoryService ends and gives    *)
(* the lock back, whatever main is doing.                                   *)
CallsReturn ==
  /\ \A s \in Services :
       stage[s] = "useWorker" ~>
         \/ stage[s] = "done"
         \/ mFreeWorkers = {} /\ \E t \in Inside(s) : stage[t] = "useWorker"
  /\ []<>(mServiceLock = Nil)

(* A destroyed service is deleted as long as main is in its loop; from      *)
(* waitAllServiceClose on, main deletes nothing until every worker is gone. *)
Reclaimed ==
  \A s \in Services :
    s \in Range(mPreDestroyServices) ~>
      (s \in deleted \/ mainPc \in {"waitEmpty", "join", "exit"} \/ Starving)

(* Once main starts joining the workers the process ends, unless a worker   *)
(* sits in a newService that waits for a worker.                            *)
JoinEnds == mainPc = "join" ~> (mainPc = "exit" \/ Starving)

=============================================================================

------------------------------ MODULE MsgPath ------------------------------
(***************************************************************************)
(* The message path with the pool it really has: ServiceQueue with         *)
(* ServiceMsgPool (src/service/msg/serviceMsgPool.cpp) in the place of the *)
(* two calls ServiceQueue leaves open, and with the shutdown of main.      *)
(*                                                                         *)
(* ServiceMsgPool::pop takes mLock and returns without giving it back: the *)
(* lock, once taken, is free again only when a push has got hold of it,    *)
(* which it cannot.  What follows for the services and for main is what    *)
(* this module states.                                                     *)
(*                                                                         *)
(* An operator whose name extends the name of the one right below it is a  *)
(* mutant: what that operator would be if the code had a plausible slip.   *)
(*                                                                         *)
(* A thread that waits for the pool is a step that tries and, when the     *)
(* lock is taken, sleeps: it changes nothing.  Scripts use lualib/api.lua: *)
(* only a Close message makes a service destroy itself.                    *)
(***************************************************************************)
EXTENDS ServiceQueue

CONSTANTS
  Main,        (* the main thread: posts timers, socket events, then Close  *)
  PoolSize     (* ServiceMsgPool::newInst(10)                               *)

ASSUME PathAssumption ==
  /\ Main \in Senders
  /\ PoolSize \in Nat
  /\ "Close" \in Kinds

VARIABLES
  poolLock,    (* the thread whose try_lock of ServiceMsgPool::mLock        *)
               (* succeeded last, or Nil when it is free                    *)
  spare,       (* how many messages mPool holds                             *)
  isRun,       (* luaIsRun()                                                *)
  mainPc,      (* the main thread: run, closing, waitEmpty, exit            *)
  ids          (* waitAllServiceClose: services still to be sent a Close    *)

poolVars == <<poolLock, spare>>
mainVars == <<isRun, mainPc, ids>>
pathVars == <<vars, poolVars, mainVars>>

PathInit ==
  /\ Init
  /\ poolLock = Nil
  /\ spare = PoolSize
  /\ isRun = TRUE
  /\ mainPc = "run"
  /\ ids = {}

-----------------------------------------------------------------------------
(* ServiceMsgPool.                                                          *)

CanLockIgnored == TRUE
CanLock == poolLock = Nil

(* pop: the front of mPool, or a new message when it is empty; no unlock.   *)
PopMsg(t) ==
  /\ pc[t] = "pop"
  /\ IF CanLock
     THEN /\ Popped(t)
          /\ poolLock' = t
          /\ spare' = IF spare = 0 THEN 0 ELSE spare - 1
     ELSE UNCHANGED <<vars, poolVars>>
  /\ UNCHANGED mainVars

RecycleGiveUp(s) ==
  /\ pc[s] = "recycle"
  /\ Recycled(s)
  /\ UNCHANGED <<poolVars, mainVars>>
(* push: lock, put the message back, unlock.  Service::poll calls it with   *)
(* mMsgLock held.                                                           *)
Recycle(s) ==
  /\ pc[s] = "recycle"
  /\ IF poolLock = Nil
     THEN Recycled(s) /\ spare' = spare + 1 /\ UNCHANGED poolLock
     ELSE UNCHANGED <<vars, poolVars>>
  /\ UNCHANGED mainVars

-----------------------------------------------------------------------------
(* Lua: a post, or the end of onPoll.  A service that was given a Close     *)
(* destroys itself in a coroutine of its next onPoll.                       *)

LuaPost(s, r, kind) == BeginPost(s, r, kind) /\ UNCHANGED <<poolVars, mainVars>>

CloseSeen(s) == \E i \in DOMAIN log[s] : log[s][i].kind = "Close"

LuaGoOn(s) ==
  /\ IF pc[s] = "close" THEN FinishDestroy(s)
     ELSE IF CloseSeen(s) /\ s \in mServices THEN BeginDestroy(s, s)
     ELSE LuaReturn(s)
  /\ UNCHANGED <<poolVars, mainVars>>

-----------------------------------------------------------------------------
(* The other threads.  Main posts from the handlers IoContext.poll runs;    *)
(* the others (websocket connections, http requests) post at any time.      *)

Event(t, s, kind) ==
  /\ kind # "Close"
  /\ t = Main => mainPc = "run" /\ isRun
  /\ BeginPost(t, s, kind)
  /\ UNCHANGED <<poolVars, mainVars>>

(* core.exit, or SIGINT.                                                    *)
LuaExit ==
  /\ isRun
  /\ isRun' = FALSE
  /\ UNCHANGED <<mainPc, ids, vars, poolVars>>

(* waitAllServiceClose: the ids of the registered services, under           *)
(* mServiceLock; a Close for each; the wait until the map is empty.         *)
BeginClose ==
  /\ mainPc = "run" /\ ~isRun /\ pc[Main] = "idle"
  /\ mServiceLock = Nil
  /\ ids' = mServices
  /\ mainPc' = "closing"
  /\ UNCHANGED <<isRun, vars, poolVars>>

SendClose(s) ==
  /\ mainPc = "closing" /\ s \in ids
  /\ BeginPost(Main, s, "Close")
  /\ ids' = ids \ {s}
  /\ UNCHANGED <<isRun, mainPc, poolVars>>

WaitEmpty ==
  /\ mainPc = "closing" /\ ids = {} /\ pc[Main] = "idle"
  /\ mainPc' = IF mServices = {} THEN "exit" ELSE mainPc
  /\ UNCHANGED <<isRun, ids, vars, poolVars>>

-----------------------------------------------------------------------------
SendStep(t) ==
  \/ PopMsg(t)
  \/ (Find(t) \/ Check(t) \/ Push(t)) /\ UNCHANGED <<poolVars, mainVars>>

PollStep(s) ==
  \/ /\ PollEnter(s) \/ LockQueue(s) \/ TakeFront(s) \/ HandOver(s)
     /\ UNCHANGED <<poolVars, mainVars>>
  \/ Recycle(s) \/ LuaGoOn(s)

ShutdownStep == BeginClose \/ (\E s \in Services : SendClose(s)) \/ WaitEmpty

PathNext ==
  \/ \E t \in Threads : SendStep(t)
  \/ \E s \in Services : PollStep(s)
  \/ ShutdownStep
  \/ \E r, s \in Services, k \in Kinds : LuaPost(s, r, k)
  \/ \E t \in Senders, s \in Services, k \in Kinds : Event(t, s, k)
  \/ LuaExit

PathSpec == PathInit /\ [][PathNext]_pathVars

(* Every thread keeps running and gets a lock it retries for if the lock is *)
(* free again and again.  Nobody has to post anything or to exit.           *)
FairPathSpec ==
  /\ PathSpec
  /\ \A t \in Threads : SF_pathVars(SendStep(t))
  /\ \A s \in Services : SF_pathVars(PollStep(s))
  /\ WF_pathVars(ShutdownStep)

-----------------------------------------------------------------------------
PathTypeOK ==
  /\ TypeOK
  /\ poolLock \in Threads \union {Nil}
  /\ spare \in Nat
  /\ isRun \in BOOLEAN
  /\ mainPc \in {"run", "closing", "exit"}
  /\ ids \subseteq Services

(* A message is in its queue or in the table of the poll that took it.      *)
Held(s) == table[s] \o mMsgs[s]

(* The first call of pop is the last that returns, so one message at most   *)
(* ever reaches a queue, whoever sent it and whatever service it is for.    *)
OneMessageEver ==
  /\ \A s \in Services : Len(Held(s)) <= 1
  /\ \A r, s \in Services : Held(r) # <<>> /\ Held(s) # <<>> => r = s

(* No onPoll is ever given a message: the poll that takes the only one from *)
(* its queue never gets past ServiceMsgPool::push.                          *)
NothingDelivered == \A s \in Services : log[s] = <<>>

(* What is left of the message path.                                        *)
PathBlocked == PathTypeOK /\ OneMessageEver /\ NothingDelivered

(* That poll holds mMsgLock of its service, and the worker, for good.       *)
ReceiverStuck ==
  [][\A s \in Services : pc[s] = "recycle" =>
       pc'[s] = "recycle" /\ mMsgLock'[s] = s]_pathVars

(* The process does not exit once a service is registered: main waits in    *)
(* waitAllServiceClose for services that are never told to close.           *)
NeverExits == Services # {} => mainPc # "exit"

-----------------------------------------------------------------------------
Posting(t, s, kind) == hand[t] # Nil /\ hand[t].to = s /\ hand[t].kind = kind

(* A timer that fires for a registered, initialised service reaches the     *)
(* onPoll of that service, unless the service is destroyed before.          *)
TimerReachesLua ==
  \A s \in Services :
    Posting(Main, s, "Timer") /\ mIsInit[s] ~>
      (\/ s \notin mServices
       \/ \E i \in DOMAIN log[s] : log[s][i].kind = "Timer")

=============================================================================

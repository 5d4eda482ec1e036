---------------------------- MODULE ServiceQueue ----------------------------
(***************************************************************************)
(* The message queue of each service: Service::pushMsg, poll and close of  *)
(* src/service/service.cpp, reached through ServiceMgr::send, and the      *)
(* removal of a service by ServiceMgr::destoryService.                     *)
(*                                                                         *)
(* A service is polled by one thread at a time (ServiceMgr, ExclusivePoll),*)
(* so that thread is named by the service.  Senders are the other threads  *)
(* that post messages: main (timers, accepted connections, Close), the     *)
(* connection threads of the websocket server, the http client threads.    *)
(*                                                                         *)
(* A post first takes a message object from ServiceMsgPool and a poll      *)
(* gives each one back.  Here those two calls return after any time, or    *)
(* never; MsgPath puts the pool in their place.                            *)
(*                                                                         *)
(* An operator whose name extends the name of the one right below it is a  *)
(* mutant: what that operator would be if the code had a plausible slip.   *)
(***************************************************************************)
EXTENDS Naturals, Sequences, Functions

CONSTANTS
  Services,    (* the registered services                                   *)
  Senders,     (* threads outside the workers that post                     *)
  Kinds,       (* ServiceMsgType, as far as it matters                      *)
  MaxPosts,    (* bound: posts one thread begins to one service             *)
  Nil          (* a mutex nobody holds; no message; no victim               *)

Threads == Services \union Senders

Messages == [from : Threads, to : Services, n : 1..MaxPosts, kind : Kinds]

ASSUME QueueAssumption ==
  /\ Services \intersect Senders = {}
  /\ Nil \notin Threads \union Messages
  /\ MaxPosts \in Nat

VARIABLES
  mServices,     (* the services in ServiceMgr::mServices                   *)
  mServiceLock,  (* the thread inside destoryService, or Nil                *)
  mIsInit,       (* Service::mIsInit                                        *)
  mMsgs,         (* Service::mMsgs                                          *)
  mMsgLock,      (* the thread that drains the queue, or Nil                *)
  table,         (* the Lua table poll is filling                           *)
  log,           (* history: what the onPoll of a service has been given    *)
  pc,            (* where each thread is                                    *)
  hand,          (* the message a thread is posting                         *)
  victim,        (* the service a thread is destroying                      *)
  foreign,       (* history: Lua has destroyed a service not its own        *)
  posts          (* history: posts begun, per thread and service            *)

registryVars == <<mServices, mServiceLock, victim, foreign>>
queueVars    == <<mIsInit, mMsgs, mMsgLock, table, log>>
vars         == <<registryVars, queueVars, pc, hand, posts>>

Init ==
  /\ mServices = Services
  /\ mServiceLock = Nil
  /\ mIsInit \in [Services -> BOOLEAN]   (* false: its constructor failed *)
  /\ mMsgs = [s \in Services |-> <<>>]
  /\ mMsgLock = [s \in Services |-> Nil]
  /\ table = [s \in Services |-> <<>>]
  /\ log = [s \in Services |-> <<>>]
  /\ pc = [t \in Threads |-> "idle"]
  /\ hand = [t \in Threads |-> Nil]
  /\ victim = [t \in Threads |-> Nil]
  /\ foreign = FALSE
  /\ posts = [t \in Threads |-> [s \in Services |-> 0]]

Goto(t, l) == pc' = [pc EXCEPT ![t] = l]

(* Lua posts from within onPoll, the other threads from their callbacks.    *)
Home(t) == IF t \in Services THEN "lua" ELSE "idle"

-----------------------------------------------------------------------------
(* A post: core.send, a timer or socket handler, waitAllServiceClose.       *)

BeginPost(t, s, kind) ==
  /\ pc[t] = Home(t)
  /\ posts[t][s] < MaxPosts
  /\ posts' = [posts EXCEPT ![t][s] = @ + 1]
  /\ hand' = [hand EXCEPT ![t] = [from |-> t, to |-> s,
                                  n |-> posts[t][s] + 1, kind |-> kind]]
  /\ Goto(t, "pop")
  /\ UNCHANGED <<registryVars, queueVars>>

(* ServiceMsgPool::pop has returned.                                        *)
Popped(t) ==
  /\ pc[t] = "pop"
  /\ Goto(t, "find")
  /\ UNCHANGED <<registryVars, queueVars, hand, posts>>

EndPost(t) ==
  /\ Goto(t, Home(t))
  /\ hand' = [hand EXCEPT ![t] = Nil]

(* ServiceMgr::send: getService, under mServiceLock.                        *)
Find(t) ==
  /\ pc[t] = "find"
  /\ mServiceLock = Nil
  /\ IF hand[t].to \in mServices THEN Goto(t, "check") /\ UNCHANGED hand
                                 ELSE EndPost(t)
  /\ UNCHANGED <<registryVars, queueVars, posts>>

(* pushMsg: if (!mIsInit) return, read without the lock.                    *)
Check(t) ==
  /\ pc[t] = "check"
  /\ IF mIsInit[hand[t].to] THEN Goto(t, "push") /\ UNCHANGED hand
                            ELSE EndPost(t)
  /\ UNCHANGED <<registryVars, queueVars, posts>>

PushOrGiveUp(t) ==
  /\ pc[t] = "push"
  /\ mMsgs' = IF mMsgLock[hand[t].to] = Nil
              THEN [mMsgs EXCEPT ![hand[t].to] = Append(@, hand[t])]
              ELSE mMsgs
  /\ EndPost(t)
  /\ UNCHANGED <<registryVars, mIsInit, mMsgLock, table, log, posts>>
(* pushMsg: lock, push, unlock.                                             *)
Push(t) ==
  /\ pc[t] = "push"
  /\ mMsgLock[hand[t].to] = Nil
  /\ mMsgs' = [mMsgs EXCEPT ![hand[t].to] = Append(@, hand[t])]
  /\ EndPost(t)
  /\ UNCHANGED <<registryVars, mIsInit, mMsgLock, table, log, posts>>

-----------------------------------------------------------------------------
(* Service::poll.                                                           *)

PollEnter(s) ==
  /\ pc[s] = "idle"
  /\ mIsInit[s]
  /\ Goto(s, "lock")
  /\ UNCHANGED <<registryVars, queueVars, hand, posts>>

LockQueue(s) ==
  /\ pc[s] = "lock"
  /\ mMsgLock[s] = Nil
  /\ mMsgLock' = [mMsgLock EXCEPT ![s] = s]
  /\ Goto(s, "drain")
  /\ UNCHANGED <<registryVars, mIsInit, mMsgs, table, log, hand, posts>>

(* front() and pop() of the queue.                                          *)
NextMessageBack(q) == q[Len(q)]
NextMessageReset(q) == [Head(q) EXCEPT !.kind = "reset"]
NextMessage(q) == Head(q)

(* One round of the loop: copy the front into the table and call            *)
(* ServiceMsgPool::push with it, mMsgLock still held.                       *)
TakeFront(s) ==
  /\ pc[s] = "drain"
  /\ mMsgs[s] # <<>>
  /\ table' = [table EXCEPT ![s] = Append(@, NextMessage(mMsgs[s]))]
  /\ mMsgs' = [mMsgs EXCEPT ![s] = Tail(@)]
  /\ Goto(s, "recycle")
  /\ UNCHANGED <<registryVars, mIsInit, mMsgLock, log, hand, posts>>

(* ServiceMsgPool::push has returned.                                       *)
Recycled(s) ==
  /\ pc[s] = "recycle"
  /\ Goto(s, "drain")
  /\ UNCHANGED <<registryVars, queueVars, hand, posts>>

(* The queue is empty: unlock, and lua_pcall of onPoll with the table.      *)
HandOver(s) ==
  /\ pc[s] = "drain"
  /\ mMsgs[s] = <<>>
  /\ mMsgLock' = [mMsgLock EXCEPT ![s] = Nil]
  /\ log' = [log EXCEPT ![s] = @ \o table[s]]
  /\ table' = [table EXCEPT ![s] = <<>>]
  /\ Goto(s, "lua")
  /\ UNCHANGED <<registryVars, mIsInit, mMsgs, hand, posts>>

LuaReturn(s) ==
  /\ pc[s] = "lua"
  /\ Goto(s, "idle")
  /\ UNCHANGED <<registryVars, queueVars, hand, posts>>

-----------------------------------------------------------------------------
(* destoryService, called by the onPoll of t.                               *)

BeginDestroy(t, s) ==
  /\ pc[t] = "lua"
  /\ mServiceLock = Nil
  /\ s \in mServices
  /\ mServiceLock' = t
  /\ victim' = [victim EXCEPT ![t] = s]
  /\ foreign' = (foreign \/ s # t)
  /\ Goto(t, "close")
  /\ UNCHANGED <<mServices, queueVars, hand, posts>>

ClearInitNot(s) == UNCHANGED mIsInit
ClearInit(s) == mIsInit' = [mIsInit EXCEPT ![s] = FALSE]

(* Service::close waits for mMsgLock unless the service never was           *)
(* initialised; then the erase and the unlock of mServiceLock.              *)
FinishDestroy(t) ==
  /\ pc[t] = "close"
  /\ mIsInit[victim[t]] => mMsgLock[victim[t]] = Nil
  /\ ClearInit(victim[t])
  /\ mServices' = mServices \ {victim[t]}
  /\ mServiceLock' = Nil
  /\ victim' = [victim EXCEPT ![t] = Nil]
  /\ Goto(t, "lua")
  /\ UNCHANGED <<foreign, mMsgs, mMsgLock, table, log, hand, posts>>

-----------------------------------------------------------------------------
Next ==
  \/ \E t \in Threads : \/ \E s \in Services, k \in Kinds : BeginPost(t, s, k)
                        \/ Popped(t) \/ Find(t) \/ Check(t) \/ Push(t)
  \/ \E s \in Services : \/ PollEnter(s) \/ LockQueue(s) \/ TakeFront(s)
                         \/ Recycled(s) \/ HandOver(s) \/ LuaReturn(s)
                         \/ FinishDestroy(s)
                         \/ \E r \in Services : BeginDestroy(s, r)

Spec == Init /\ [][Next]_vars

-----------------------------------------------------------------------------
TypeOK ==
  /\ mServices \subseteq Services
  /\ mServiceLock \in Services \union {Nil}
  /\ mIsInit \in [Services -> BOOLEAN]
  /\ mMsgs \in [Services -> Seq(Messages)]
  /\ mMsgLock \in [Services -> Services \union {Nil}]
  /\ table \in [Services -> Seq(Messages)]
  /\ log \in [Services -> Seq(Messages)]
  /\ pc \in [Threads -> {"idle", "pop", "find", "check", "push", "lock",
                         "drain", "recycle", "lua", "close"}]
  /\ hand \in [Threads -> Messages \union {Nil}]
  /\ victim \in [Threads -> Services \union {Nil}]
  /\ foreign \in BOOLEAN
  /\ posts \in [Threads -> [Services -> 0..MaxPosts]]

(* Everything that ever entered the queue of s, oldest first.               *)
Taken(s) == log[s] \o table[s] \o mMsgs[s]

(* Where the messages of t are in q, and their numbers.                     *)
From(q, t)    == {k \in DOMAIN q : q[k].from = t}
Numbers(q, t) == {q[k].n : k \in From(q, t)}

(* Increasing and without a gap: 1, 2, 3, ... of each sender.               *)
InOrder(q, t) ==
  /\ \A j, k \in From(q, t) : j < k => q[j].n < q[k].n
  /\ \A n \in Numbers(q, t) : 1..n \subseteq Numbers(q, t)

(* The messages one thread sends to one service arrive in the order sent,   *)
(* none twice and none overtaken or skipped, also when some are dropped in  *)
(* the end because the service closed.                                      *)
SenderOrder == \A s \in Services, t \in Threads : InOrder(Taken(s), t)

(* The number of the post to s that t is in the middle of.                  *)
InHandOf(s, t) == IF hand[t] # Nil /\ hand[t].to = s THEN {hand[t].n} ELSE {}

(* A post to a service that is registered and initialised is never lost:    *)
(* each is still in the hand of its sender or, in its turn, in the queue,   *)
(* table or log, and in one of these only.                                  *)
NothingLost ==
  /\ SenderOrder
  /\ \A s \in mServices, t \in Threads : mIsInit[s] =>
       Numbers(Taken(s), t) = (1..posts[t][s]) \ InHandOf(s, t)

(* As long as no service was destroyed by another, a service that left the  *)
(* registry is not polled again: its onPoll is given nothing more.          *)
QuietAfterClose ==
  ~foreign =>
    \A s \in Services \ mServices : pc[s] \notin {"lock", "drain", "recycle"}

(* The queue of each service implements Channel.                            *)
AbstractChannel == INSTANCE Channel WITH
  accepted <- [s \in Services |-> Taken(s)],
  seen <- [s \in Services |-> Len(log[s])]

ImplementsChannel == AbstractChannel!Spec

=============================================================================

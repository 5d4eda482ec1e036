--------------------------- MODULE MsgPath_proofs ---------------------------
(***************************************************************************)
(* Theorems about ServiceQueue, for any services, senders and posts, and   *)
(* about MsgPath, which implements it, for any pool size besides.          *)
(***************************************************************************)
EXTENDS MsgPath, SequenceTheorems, TLAPS

USE DEF registryVars, queueVars, vars, Goto, EndPost, Threads

(* A thread inside a post carries a message, one inside destoryService has  *)
(* a service to destroy.                                                    *)
InHand ==
  /\ \A t \in Threads :
       pc[t] \in {"pop", "find", "check", "push"} => hand[t] \in Messages
  /\ \A t \in Services : pc[t] = "close" => victim[t] \in Services

TypeInv == TypeOK /\ InHand

LEMMA HandTo == ASSUME NEW m \in Messages
                PROVE  m.to \in Services /\ m.from \in Threads
BY DEF Messages

(* Back in Lua or in its own loop, a thread has nothing in hand.            *)
LEMMA PostEnds ==
  ASSUME TypeInv, NEW t \in Threads, EndPost(t)
  PROVE  /\ pc' \in [Threads -> {"idle", "pop", "find", "check", "push", "lock",
                                "drain", "recycle", "lua", "close"}]
         /\ hand' \in [Threads -> Messages \union {Nil}]
         /\ pc'[t] \in {"idle", "lua"}
         /\ \A u \in Threads \ {t} : pc'[u] = pc[u] /\ hand'[u] = hand[u]
BY DEF TypeInv, TypeOK, Home

LEMMA PostEndTypes ==
  ASSUME TypeInv, NEW t \in Threads, EndPost(t),
         UNCHANGED <<registryVars, queueVars, posts>>
  PROVE  TypeInv'
<1> USE PostEnds DEF TypeInv
<1>1. TypeOK'
  BY DEF TypeOK
<1>2. InHand'
  BY DEF InHand
<1> HIDE DEF TypeInv
<1> QED
  BY <1>1, <1>2 DEF TypeInv

LEMMA QueueInit == Init => TypeInv
<1> SUFFICES ASSUME Init PROVE TypeInv
  OBVIOUS
<1>1. foreign \in BOOLEAN /\ mIsInit \in [Services -> BOOLEAN]
  BY DEF Init
<1>2. InHand
  BY DEF Init, InHand
<1>3. mServiceLock \in Services \union {Nil} /\ mServices \subseteq Services
  BY DEF Init
<1>4. /\ mMsgs \in [Services -> Seq(Messages)]
      /\ mMsgLock \in [Services -> Services \union {Nil}]
      /\ table \in [Services -> Seq(Messages)]
      /\ log \in [Services -> Seq(Messages)]
  BY DEF Init
<1>5. /\ pc \in [Threads -> {"idle", "pop", "find", "check", "push", "lock",
                              "drain", "recycle", "lua", "close"}]
      /\ hand \in [Threads -> Messages \union {Nil}]
      /\ victim \in [Threads -> Services \union {Nil}]
  BY DEF Init
<1>6. posts \in [Threads -> [Services -> 0..MaxPosts]]
  BY QueueAssumption DEF Init
<1> QED
  BY <1>1, <1>2, <1>3, <1>4, <1>5, <1>6 DEF TypeInv, TypeOK

LEMMA QueueStep == TypeInv /\ [Next]_vars => TypeInv'
<1> SUFFICES ASSUME TypeInv, [Next]_vars PROVE TypeInv'
  OBVIOUS
<1> USE QueueAssumption DEF TypeInv, TypeOK, InHand
<1>1. ASSUME NEW t \in Threads, NEW s \in Services, NEW k \in Kinds,
             BeginPost(t, s, k)
      PROVE  TypeInv'
  <2>0. posts[t] \in [Services -> 0..MaxPosts] /\ posts[t][s] \in 0..MaxPosts
    OBVIOUS
  <2>1. posts[t][s] + 1 \in 1..MaxPosts
    <3> HIDE DEF TypeInv, TypeOK, InHand
    <3> QED  BY <1>1, <2>0 DEF BeginPost
  <2>2. [from |-> t, to |-> s, n |-> posts[t][s] + 1, kind |-> k] \in Messages
    BY <2>1 DEF Messages
  <2>3. hand' \in [Threads -> Messages \union {Nil}] /\ hand'[t] \in Messages
    BY <1>1, <2>2 DEF BeginPost
  <2>4. posts' \in [Threads -> [Services -> 0..MaxPosts]]
    <3>1. posts' = [posts EXCEPT ![t] = [posts[t] EXCEPT ![s] = @ + 1]]
      BY <1>1 DEF BeginPost
    <3>2. posts \in [Threads -> [Services -> 0..MaxPosts]]
      OBVIOUS
    <3> HIDE DEF TypeInv, TypeOK, InHand
    <3>3. posts[t][s] + 1 \in 0..MaxPosts
      BY <2>0, <2>1
    <3>4. [posts[t] EXCEPT ![s] = @ + 1] \in [Services -> 0..MaxPosts]
      BY <2>0, <3>3
    <3> HIDE DEF Threads
    <3> QED
      BY <3>1, <3>2, <3>4
  <2> QED
    BY <1>1, <2>3, <2>4 DEF BeginPost
<1>2. ASSUME NEW t \in Threads, Popped(t) PROVE TypeInv'
  BY <1>2 DEF Popped
<1>3. ASSUME NEW t \in Threads, Find(t) PROVE TypeInv'
  <2>1. CASE hand[t].to \in mServices
    <3>1. /\ pc[t] = "find" /\ pc' = [pc EXCEPT ![t] = "check"] /\ hand' = hand
          /\ UNCHANGED <<registryVars, queueVars, posts>>
      BY <1>3, <2>1 DEF Find
    <3> QED
      BY <3>1
  <2>2. CASE hand[t].to \notin mServices
    <3>1. EndPost(t) /\ UNCHANGED <<registryVars, queueVars, posts>>
      BY <1>3, <2>2 DEF Find
    <3> QED
      BY <3>1, PostEndTypes
  <2> QED
    BY <2>1, <2>2
<1>4. ASSUME NEW t \in Threads, Check(t) PROVE TypeInv'
  <2>1. CASE mIsInit[hand[t].to]
    <3>1. /\ pc[t] = "check" /\ pc' = [pc EXCEPT ![t] = "push"] /\ hand' = hand
          /\ UNCHANGED <<registryVars, queueVars, posts>>
      BY <1>4, <2>1 DEF Check
    <3> QED
      BY <3>1
  <2>2. CASE ~mIsInit[hand[t].to]
    <3>1. EndPost(t) /\ UNCHANGED <<registryVars, queueVars, posts>>
      BY <1>4, <2>2 DEF Check
    <3> QED
      BY <3>1, PostEndTypes
  <2> QED
    BY <2>1, <2>2
<1>5. ASSUME NEW t \in Threads, Push(t) PROVE TypeInv'
  <2>1. hand[t] \in Messages /\ hand[t].to \in Services
    BY <1>5, HandTo DEF Push
  <2>2. mMsgs' \in [Services -> Seq(Messages)]
    <3>1. mMsgs \in [Services -> Seq(Messages)]
      OBVIOUS
    <3>2. mMsgs' = [mMsgs EXCEPT ![hand[t].to] =
                                 Append(mMsgs[hand[t].to], hand[t])]
      BY <1>5 DEF Push
    <3> HIDE DEF TypeInv, TypeOK, InHand
    <3> QED
      BY <2>1, <3>1, <3>2
  <2> QED
    BY <1>5, <2>2, PostEnds DEF Push
<1>6. ASSUME NEW s \in Services, PollEnter(s) PROVE TypeInv'
  BY <1>6 DEF PollEnter
<1>7. ASSUME NEW s \in Services, LockQueue(s) PROVE TypeInv'
  BY <1>7 DEF LockQueue
<1>8. ASSUME NEW s \in Services, TakeFront(s) PROVE TypeInv'
  <2>1. Head(mMsgs[s]) \in Messages /\ Tail(mMsgs[s]) \in Seq(Messages)
    BY <1>8 DEF TakeFront
  <2>2. mMsgs' \in [Services -> Seq(Messages)]
    BY <1>8, <2>1 DEF TakeFront
  <2>3. table' \in [Services -> Seq(Messages)]
    BY <1>8, <2>1 DEF TakeFront, NextMessage
  <2> QED
    BY <1>8, <2>2, <2>3 DEF TakeFront
<1>9. ASSUME NEW s \in Services, Recycled(s) PROVE TypeInv'
  BY <1>9 DEF Recycled
<1>10. ASSUME NEW s \in Services, HandOver(s) PROVE TypeInv'
  <2>1. log[s] \o table[s] \in Seq(Messages) /\ <<>> \in Seq(Messages)
    OBVIOUS
  <2>2. log' \in [Services -> Seq(Messages)]
        /\ table' \in [Services -> Seq(Messages)]
    BY <1>10, <2>1 DEF HandOver
  <2> QED
    BY <1>10, <2>2 DEF HandOver
<1>11. ASSUME NEW s \in Services, LuaReturn(s) PROVE TypeInv'
  BY <1>11 DEF LuaReturn
<1>12. ASSUME NEW s \in Services, NEW r \in Services, BeginDestroy(s, r)
       PROVE  TypeInv'
  BY <1>12 DEF BeginDestroy
<1>13. ASSUME NEW s \in Services, FinishDestroy(s) PROVE TypeInv'
  BY <1>13 DEF FinishDestroy, ClearInit
<1>14. CASE UNCHANGED vars
  BY <1>14
<1> QED
  BY <1>1, <1>2, <1>3, <1>4, <1>5, <1>6, <1>7, <1>8, <1>9, <1>10, <1>11,
     <1>12, <1>13, <1>14 DEF Next

LEMMA TypeInvHolds == Spec => []TypeInv
BY QueueInit, QueueStep, PTL DEF Spec

(* Type correctness of the queue module: in particular a post always has a  *)
(* message in hand where pushMsg reads its receiver, and a queue, a table   *)
(* and a log only ever hold messages.                                       *)
THEOREM QueueTypeCorrect == Spec => []TypeOK
<1>1. TypeInv => TypeOK
  BY DEF TypeInv
<1> QED
  BY <1>1, TypeInvHolds, PTL


-----------------------------------------------------------------------------
(* The poll that drains a queue holds its lock.                             *)
LockInv == \A s \in Services : pc[s] \in {"drain", "recycle"} => mMsgLock[s] = s

LEMMA LockStep == ASSUME TypeInv, LockInv, [Next]_vars PROVE LockInv'
<1> USE QueueAssumption DEF LockInv
<1>0. /\ pc \in [Threads -> {"idle", "pop", "find", "check", "push", "lock",
                              "drain", "recycle", "lua", "close"}]
      /\ mMsgLock \in [Services -> Services \union {Nil}]
  BY DEF TypeInv, TypeOK
<1> USE <1>0
<1>1. ASSUME NEW t \in Threads, NEW s \in Services, NEW k \in Kinds,
             BeginPost(t, s, k)
      PROVE  LockInv'
  BY <1>1 DEF BeginPost
<1>2. ASSUME NEW t \in Threads, Popped(t) \/ Find(t) \/ Check(t) \/ Push(t)
      PROVE  LockInv'
  <2>1. UNCHANGED mMsgLock
    BY <1>2 DEF Popped, Find, Check, Push
  <2>2. /\ pc'[t] \notin {"drain", "recycle"}
        /\ \A u \in Threads \ {t} : pc'[u] = pc[u]
    <3>1. CASE Popped(t)
      BY <3>1 DEF Popped
    <3>2. CASE Find(t)
      <4>1. \/ pc' = [pc EXCEPT ![t] = "check"]
            \/ pc' = [pc EXCEPT ![t] = Home(t)]
        BY <3>2 DEF Find
      <4> QED
        BY <4>1 DEF Home
    <3>3. CASE Check(t)
      <4>1. \/ pc' = [pc EXCEPT ![t] = "push"]
            \/ pc' = [pc EXCEPT ![t] = Home(t)]
        BY <3>3 DEF Check
      <4> QED
        BY <4>1 DEF Home
    <3>4. CASE Push(t)
      BY <3>4 DEF Push, Home
    <3> QED
      BY <1>2, <3>1, <3>2, <3>3, <3>4
  <2> QED
    BY <2>1, <2>2
<1>3. ASSUME NEW s \in Services, PollEnter(s) \/ LuaReturn(s) PROVE LockInv'
  BY <1>3 DEF PollEnter, LuaReturn
<1>4. ASSUME NEW s \in Services, LockQueue(s) \/ HandOver(s) PROVE LockInv'
  <2>1. CASE LockQueue(s)
    BY <2>1 DEF LockQueue
  <2>2. CASE HandOver(s)
    BY <2>2 DEF HandOver
  <2> QED
    BY <1>4, <2>1, <2>2
<1>5. ASSUME NEW s \in Services, TakeFront(s) \/ Recycled(s) PROVE LockInv'
  BY <1>5 DEF TakeFront, Recycled
<1>6. ASSUME NEW s \in Services, NEW r \in Services, BeginDestroy(s, r)
      PROVE  LockInv'
  BY <1>6 DEF BeginDestroy
<1>7. ASSUME NEW s \in Services, FinishDestroy(s) PROVE LockInv'
  BY <1>7 DEF FinishDestroy
<1>8. CASE UNCHANGED vars
  BY <1>8
<1> QED
  BY <1>1, <1>2, <1>3, <1>4, <1>5, <1>6, <1>7, <1>8 DEF Next

LEMMA LockInvHolds == Spec => []LockInv
<1>1. Init => LockInv
  BY QueueAssumption DEF Init, LockInv
<1>2. TypeInv /\ LockInv /\ [Next]_vars => LockInv'
  BY LockStep
<1> QED
  BY <1>1, <1>2, TypeInvHolds, PTL DEF Spec

-----------------------------------------------------------------------------
(* What keeps a destroyed service quiet: it left the registry in the middle *)
(* of its own onPoll, and mIsInit, false from then on, stops the next poll. *)
QuietInv ==
  ~foreign =>
    /\ \A s \in Services \ mServices :
         ~mIsInit[s] /\ pc[s] \notin {"lock", "drain", "recycle"}
    /\ \A t \in Services : pc[t] = "close" => victim[t] = t

LEMMA QuietStep ==
  ASSUME TypeInv, QuietInv, [Next]_vars
  PROVE  QuietInv'
<1> USE QueueAssumption DEF QuietInv, TypeInv, TypeOK, InHand
<1>1. ASSUME NEW t \in Threads, NEW s \in Services, NEW k \in Kinds,
             BeginPost(t, s, k)
      PROVE  QuietInv'
  BY <1>1 DEF BeginPost
<1>2. ASSUME NEW t \in Threads, Popped(t) PROVE QuietInv'
  BY <1>2 DEF Popped
<1>3. ASSUME NEW t \in Threads, Find(t) PROVE QuietInv'
  <2>1. pc'[t] \in {"check", "idle", "lua"}
        /\ \A u \in Threads \ {t} : pc'[u] = pc[u]
    <3>1. \/ pc' = [pc EXCEPT ![t] = "check"]
          \/ pc' = [pc EXCEPT ![t] = Home(t)]
      BY <1>3 DEF Find
    <3> QED
      BY <3>1 DEF Home
  <2> QED
    BY <1>3, <2>1 DEF Find
<1>4. ASSUME NEW t \in Threads, Check(t) PROVE QuietInv'
  <2>1. pc'[t] \in {"push", "idle", "lua"}
        /\ \A u \in Threads \ {t} : pc'[u] = pc[u]
    <3>1. \/ pc' = [pc EXCEPT ![t] = "push"]
          \/ pc' = [pc EXCEPT ![t] = Home(t)]
      BY <1>4 DEF Check
    <3> QED
      BY <3>1 DEF Home
  <2> QED
    BY <1>4, <2>1 DEF Check
<1>5. ASSUME NEW t \in Threads, Push(t) PROVE QuietInv'
  BY <1>5 DEF Push, Home
<1>6. ASSUME NEW s \in Services, PollEnter(s) PROVE QuietInv'
  BY <1>6 DEF PollEnter
<1>7. ASSUME NEW s \in Services,
             LockQueue(s) \/ TakeFront(s) \/ Recycled(s) \/ HandOver(s)
               \/ LuaReturn(s)
      PROVE  QuietInv'
  <2>1. UNCHANGED <<mServices, mIsInit, victim, foreign>>
    BY <1>7 DEF LockQueue, TakeFront, Recycled, HandOver, LuaReturn
  <2>2. /\ pc[s] \in {"lock", "drain", "recycle", "lua"}
        /\ pc'[s] \in {"drain", "recycle", "lua", "idle"}
        /\ pc[s] = "lua" => pc'[s] = "idle"
        /\ \A u \in Threads \ {s} : pc'[u] = pc[u]
    <3>1. CASE LockQueue(s) \/ TakeFront(s)
      BY <3>1 DEF LockQueue, TakeFront
    <3>2. CASE Recycled(s) \/ HandOver(s)
      BY <3>2 DEF Recycled, HandOver
    <3>3. CASE LuaReturn(s)
      BY <3>3 DEF LuaReturn
    <3> QED
      BY <1>7, <3>1, <3>2, <3>3
  <2> QED
    BY <2>1, <2>2
<1>8. ASSUME NEW s \in Services, NEW r \in Services, BeginDestroy(s, r)
      PROVE  QuietInv'
  BY <1>8 DEF BeginDestroy
<1>9. ASSUME NEW s \in Services, FinishDestroy(s) PROVE QuietInv'
  <2>1. /\ mIsInit' = [mIsInit EXCEPT ![victim[s]] = FALSE]
        /\ mServices' = mServices \ {victim[s]}
        /\ victim' = [victim EXCEPT ![s] = Nil]
        /\ pc[s] = "close" /\ pc' = [pc EXCEPT ![s] = "lua"]
        /\ foreign' = foreign
    BY <1>9 DEF FinishDestroy, ClearInit
  <2>2. /\ mIsInit \in [Services -> BOOLEAN]
        /\ victim \in [Threads -> Services \union {Nil}]
        /\ s \in Threads
    OBVIOUS
  <2>3. pc'[s] = "lua" /\ \A u \in Threads \ {s} : pc'[u] = pc[u]
    BY <2>1
  <2> HIDE DEF TypeInv, TypeOK, InHand, Threads
  <2>4. ~foreign => victim[s] = s
    BY <2>1
  <2>5. ASSUME ~foreign, NEW r \in Services \ mServices'
        PROVE  ~mIsInit'[r] /\ pc'[r] \notin {"lock", "drain", "recycle"}
    BY <2>1, <2>2, <2>3, <2>4, <2>5 DEF Threads
  <2>6. ASSUME ~foreign, NEW t \in Services, pc'[t] = "close"
        PROVE  victim'[t] = t
    BY <2>1, <2>2, <2>3, <2>6 DEF Threads
  <2> QED
    BY <2>1, <2>5, <2>6
<1>10. CASE UNCHANGED vars
  BY <1>10
<1> QED
  BY <1>1, <1>2, <1>3, <1>4, <1>5, <1>6, <1>7, <1>8, <1>9, <1>10 DEF Next

(* While services only destroy themselves, a service that left the registry *)
(* is not polled again.                                                     *)
THEOREM QuietAfterCloseHolds == Spec => []QuietAfterClose
<1>1. Init => QuietInv
  BY DEF Init, QuietInv
<1>2. TypeInv /\ QuietInv /\ [Next]_vars => QuietInv'
  BY QuietStep
<1>3. QuietInv => QuietAfterClose
  BY DEF QuietInv, QuietAfterClose
<1> QED
  BY <1>1, <1>2, <1>3, TypeInvHolds, PTL DEF Spec

-----------------------------------------------------------------------------
(* What a message appended to a queue does to the numbers of its sender.    *)

LEMMA AppendIsOne ==
  ASSUME NEW q \in Seq(Messages), NEW m \in Messages
  PROVE  /\ Append(q, m) \in Seq(Messages)
         /\ DOMAIN q = 1..Len(q) /\ Len(q) \in Nat
         /\ DOMAIN Append(q, m) = 1..(Len(q) + 1)
         /\ \A k \in 1..Len(q) : Append(q, m)[k] = q[k]
         /\ Append(q, m)[Len(q) + 1] = m
OBVIOUS

LEMMA AppendNumbers ==
  ASSUME NEW q \in Seq(Messages), NEW m \in Messages, NEW t \in Threads
  PROVE  /\ From(Append(q, m), t) = From(q, t) \union
                                    (IF m.from = t THEN {Len(q) + 1} ELSE {})
         /\ Numbers(Append(q, m), t) = Numbers(q, t) \union
                                       (IF m.from = t THEN {m.n} ELSE {})
<1>1. From(Append(q, m), t) = From(q, t) \union
                              (IF m.from = t THEN {Len(q) + 1} ELSE {})
  BY AppendIsOne DEF From
<1>2. \A k \in From(q, t) : Append(q, m)[k] = q[k]
  BY AppendIsOne DEF From
<1>3. Append(q, m)[Len(q) + 1] = m
  BY AppendIsOne
<1> QED
  BY <1>1, <1>2, <1>3 DEF Numbers

LEMMA NumbersAreNat ==
  ASSUME NEW q \in Seq(Messages), NEW t \in Threads
  PROVE  Numbers(q, t) \subseteq Nat
<1>1. \A k \in From(q, t) : q[k] \in Messages
  BY AppendIsOne DEF From
<1>2. \A m \in Messages : m.n \in Nat
  BY QueueAssumption DEF Messages
<1> QED
  BY <1>1, <1>2 DEF Numbers

(* A message with the next number keeps the order.                          *)
LEMMA AppendInOrder ==
  ASSUME NEW q \in Seq(Messages), NEW m \in Messages, NEW t \in Threads,
         InOrder(q, t), m.from = t => Numbers(q, t) = 1..(m.n - 1)
  PROVE  InOrder(Append(q, m), t)
<1> DEFINE p == Append(q, m)
<1>0. m.n \in Nat /\ m.n >= 1
  BY QueueAssumption DEF Messages
<1>1. CASE m.from # t
  <2>0. /\ From(p, t) = From(q, t) \union {}
        /\ Numbers(p, t) = Numbers(q, t) \union {}
    BY <1>1, AppendNumbers, Zenon
  <2>1. From(p, t) = From(q, t) /\ Numbers(p, t) = Numbers(q, t)
    BY <2>0
  <2>2. \A k \in From(q, t) : p[k] = q[k]
    BY AppendIsOne DEF From
  <2> HIDE DEF p
  <2>3. \A j, k \in From(p, t) : j < k => p[j].n < p[k].n
    BY <2>1, <2>2 DEF InOrder
  <2>4. \A n \in Numbers(p, t) : 1..n \subseteq Numbers(p, t)
    BY <2>1 DEF InOrder
  <2>5. InOrder(p, t)
    BY <2>3, <2>4 DEF InOrder
  <2> QED
    BY <2>5 DEF p
<1>2. CASE m.from = t
  <2>1. /\ From(p, t) = From(q, t) \union {Len(q) + 1}
        /\ Numbers(p, t) = Numbers(q, t) \union {m.n}
    BY <1>2, AppendNumbers
  <2>2. /\ \A k \in From(q, t) : p[k] = q[k] /\ k \in 1..Len(q)
        /\ p[Len(q) + 1] = m
        /\ Len(q) \in Nat
    BY AppendIsOne DEF From
  <2>3. \A k \in From(q, t) : q[k].n \in 1..(m.n - 1)
    BY <1>2 DEF Numbers
  <2> HIDE DEF p
  <2>4. ASSUME NEW j \in From(p, t), NEW k \in From(p, t), j < k
        PROVE  p[j].n < p[k].n
    <3>1. j \in From(q, t)
      BY <2>1, <2>2, <2>4
    <3>2. CASE k \in From(q, t)
      BY <2>2, <2>4, <3>1, <3>2 DEF InOrder
    <3>3. CASE k = Len(q) + 1
      <4>1. p[k].n = m.n /\ p[j].n = q[j].n
        BY <2>2, <3>1, <3>3
      <4>2. q[j].n \in 1..(m.n - 1)
        BY <2>3, <3>1
      <4> QED
        BY <1>0, <4>1, <4>2
    <3> QED
      BY <2>1, <3>2, <3>3
  <2>5. Numbers(p, t) = 1..m.n
    BY <1>0, <1>2, <2>1
  <2>6. \A n \in Numbers(p, t) : 1..n \subseteq Numbers(p, t)
    BY <1>0, <2>5
  <2>7. InOrder(p, t)
    BY <2>4, <2>6 DEF InOrder
  <2> QED
    BY <2>7 DEF p
<1> QED
  BY <1>1, <1>2

LEMMA EmptyInOrder ==
  ASSUME NEW t \in Threads
  PROVE  InOrder(<<>>, t) /\ Numbers(<<>>, t) = {}
BY DEF InOrder, Numbers, From

-----------------------------------------------------------------------------
(* Only a push changes what was taken: the poll moves it from the queue to  *)
(* the table and from there to the log, in order.                           *)

LEMMA TakenType == ASSUME TypeInv, NEW s \in Services
                   PROVE  Taken(s) \in Seq(Messages)
<1>1. log[s] \in Seq(Messages) /\ table[s] \in Seq(Messages)
      /\ mMsgs[s] \in Seq(Messages)
  BY DEF TypeInv, TypeOK
<1> HIDE DEF Threads
<1> QED
  BY <1>1 DEF Taken

LEMMA ConcatHere ==
  ASSUME NEW q \in Seq(Messages), NEW p \in Seq(Messages)
  PROVE  /\ q \o p \in Seq(Messages)
         /\ Len(q \o p) = Len(q) + Len(p)
         /\ \A i \in 1..(Len(q) + Len(p)) :
              (q \o p)[i] = IF i <= Len(q) THEN q[i] ELSE p[i - Len(q)]
         /\ Len(q) \in Nat /\ Len(p) \in Nat
OBVIOUS

LEMMA MoveFront ==
  ASSUME NEW l \in Seq(Messages), NEW b \in Seq(Messages),
         NEW q \in Seq(Messages), q # <<>>
  PROVE  (l \o Append(b, Head(q))) \o Tail(q) = (l \o b) \o q
<1>1. /\ Len(q) \in Nat /\ Len(q) > 0 /\ Head(q) = q[1] /\ Head(q) \in Messages
      /\ Tail(q) \in Seq(Messages) /\ Len(Tail(q)) = Len(q) - 1
      /\ \A i \in 1..(Len(q) - 1) : Tail(q)[i] = q[i + 1]
  OBVIOUS
<1>2. /\ Append(b, Head(q)) \in Seq(Messages)
      /\ Len(Append(b, Head(q))) = Len(b) + 1 /\ Len(b) \in Nat
      /\ \A i \in 1..Len(b) : Append(b, Head(q))[i] = b[i]
      /\ Append(b, Head(q))[Len(b) + 1] = q[1]
  BY <1>1
<1> DEFINE c == Append(b, Head(q))
           u == Tail(q)
<1>3. /\ l \o c \in Seq(Messages) /\ Len(l \o c) = Len(l) + Len(b) + 1
      /\ \A i \in 1..(Len(l) + Len(b) + 1) :
           (l \o c)[i] = IF i <= Len(l) THEN l[i] ELSE c[i - Len(l)]
      /\ Len(l) \in Nat
  BY <1>2
<1>4. /\ l \o b \in Seq(Messages) /\ Len(l \o b) = Len(l) + Len(b)
      /\ \A i \in 1..(Len(l) + Len(b)) :
           (l \o b)[i] = IF i <= Len(l) THEN l[i] ELSE b[i - Len(l)]
  OBVIOUS
<1> DEFINE lc == l \o c
           lb == l \o b
           N  == Len(l) + Len(b)
<1>5. N \in Nat
  BY <1>2, <1>3
<1>6. /\ lc \in Seq(Messages) /\ Len(lc) = N + 1
      /\ \A i \in 1..N : lc[i] = lb[i]
      /\ lc[N + 1] = q[1]
  BY <1>2, <1>3, <1>4
<1>7. lb \in Seq(Messages) /\ Len(lb) = N
  BY <1>4
<1> HIDE DEF c, u, lc, lb, N
<1>8. /\ u \in Seq(Messages) /\ Len(u) = Len(q) - 1
      /\ \A i \in 1..(Len(q) - 1) : u[i] = q[i + 1]
  BY <1>1 DEF u
<1>9. /\ lc \o u \in Seq(Messages) /\ Len(lc \o u) = N + Len(q)
      /\ \A i \in 1..(N + Len(q)) :
           (lc \o u)[i] = IF i <= N + 1 THEN lc[i] ELSE u[i - (N + 1)]
  <2>1. Len(lc) + Len(u) = N + Len(q) /\ Len(lc) = N + 1
    BY <1>1, <1>5, <1>6, <1>8
  <2> QED
    <3>1. /\ lc \o u \in Seq(Messages) /\ Len(lc \o u) = Len(lc) + Len(u)
          /\ \A i \in 1..(Len(lc) + Len(u)) :
               (lc \o u)[i] = IF i <= Len(lc) THEN lc[i] ELSE u[i - Len(lc)]
      BY <1>6, <1>8, ConcatHere, Zenon
    <3> QED
      BY <2>1, <3>1
<1>10. /\ lb \o q \in Seq(Messages) /\ Len(lb \o q) = N + Len(q)
       /\ \A i \in 1..(N + Len(q)) :
            (lb \o q)[i] = IF i <= N THEN lb[i] ELSE q[i - N]
  BY <1>5, <1>7, ConcatHere
<1>11. ASSUME NEW i \in 1..(N + Len(q)) PROVE (lc \o u)[i] = (lb \o q)[i]
  <2>1. CASE i <= N
    BY <1>5, <1>6, <1>9, <1>10, <2>1
  <2>2. CASE i = N + 1
    BY <1>5, <1>6, <1>9, <1>10, <2>2
  <2>3. CASE i > N + 1
    <3>1. i - (N + 1) \in 1..(Len(q) - 1)
      BY <1>1, <1>5, <2>3
    <3>2. u[i - (N + 1)] = q[i - (N + 1) + 1] /\ i - (N + 1) + 1 = i - N
      BY <1>5, <1>8, <3>1
    <3> QED
      BY <1>5, <1>9, <1>10, <2>3, <3>2
  <2>4. i \in Int /\ N \in Int
    BY <1>1, <1>5
  <2>5. i <= N \/ i = N + 1 \/ i > N + 1
    BY <2>4
  <2> QED
    BY <2>1, <2>2, <2>3, <2>5
<1>12. lc \o u = lb \o q
  BY <1>9, <1>10, <1>11, SeqEqual
<1> QED
  BY <1>12 DEF lc, lb, c, u

LEMMA TakenByPush ==
  ASSUME TypeInv, NEW t \in Threads, Push(t)
  PROVE  /\ hand[t] \in Messages
         /\ \A s \in Services :
              /\ s = hand[t].to => Taken(s)' = Append(Taken(s), hand[t])
              /\ s # hand[t].to => Taken(s)' = Taken(s)
<1>1. hand[t] \in Messages /\ hand[t].to \in Services
  BY HandTo DEF Push, TypeInv, InHand
<1>2. /\ mMsgs \in [Services -> Seq(Messages)]
      /\ table \in [Services -> Seq(Messages)]
      /\ log \in [Services -> Seq(Messages)]
  BY DEF TypeInv, TypeOK
<1>3. /\ mMsgs' = [mMsgs EXCEPT ![hand[t].to] =
                                Append(mMsgs[hand[t].to], hand[t])]
      /\ table' = table /\ log' = log
  BY DEF Push
<1>4. ASSUME NEW s \in Services, s = hand[t].to
      PROVE  Taken(s)' = Append(Taken(s), hand[t])
  <2>1. mMsgs'[s] = Append(mMsgs[s], hand[t]) /\ log'[s] = log[s]
        /\ table'[s] = table[s]
    BY <1>2, <1>3, <1>4
  <2>2. /\ log[s] \o table[s] \in Seq(Messages) /\ mMsgs[s] \in Seq(Messages)
        /\ hand[t] \in Messages
    <3> HIDE DEF Threads
    <3> QED  BY <1>1, <1>2
  <2>3. Taken(s)' = (log[s] \o table[s]) \o Append(mMsgs[s], hand[t])
    BY <2>1 DEF Taken
  <2> DEFINE b == log[s] \o table[s]
             q == mMsgs[s]
             m == hand[t]
  <2> HIDE DEF b, q, m
  <2>4. b \in Seq(Messages) /\ q \in Seq(Messages) /\ m \in Messages
    BY <2>2 DEF b, q, m
  <2>5. b \o Append(q, m) = Append(b \o q, m)
    BY <2>4
  <2> QED
    BY <2>3, <2>5 DEF Taken, b, q, m
<1>5. ASSUME NEW s \in Services, s # hand[t].to PROVE Taken(s)' = Taken(s)
  <2>1. mMsgs'[s] = mMsgs[s] /\ log' = log /\ table' = table
    BY <1>2, <1>3, <1>5
  <2> QED
    BY <2>1 DEF Taken
<1> QED
  BY <1>1, <1>4, <1>5

LEMMA TakenByPoll ==
  ASSUME TypeInv, NEW r \in Services, TakeFront(r) \/ HandOver(r)
  PROVE  \A s \in Services : Taken(s)' = Taken(s)
<1>1. /\ mMsgs \in [Services -> Seq(Messages)]
      /\ table \in [Services -> Seq(Messages)]
      /\ log \in [Services -> Seq(Messages)]
  BY DEF TypeInv, TypeOK
<1>2. CASE TakeFront(r)
  <2>1. /\ table' = [table EXCEPT ![r] = Append(table[r], Head(mMsgs[r]))]
        /\ mMsgs' = [mMsgs EXCEPT ![r] = Tail(mMsgs[r])]
        /\ log' = log /\ mMsgs[r] # <<>>
    BY <1>2 DEF TakeFront, NextMessage
  <2>2. (log[r] \o Append(table[r], Head(mMsgs[r]))) \o Tail(mMsgs[r])
           = (log[r] \o table[r]) \o mMsgs[r]
    <3>1. /\ log[r] \in Seq(Messages) /\ table[r] \in Seq(Messages)
          /\ mMsgs[r] \in Seq(Messages) /\ mMsgs[r] # <<>>
      BY <1>1, <2>1
    <3> QED
      BY <3>1, MoveFront, Zenon
  <2> HIDE DEF Threads
  <2> QED
    BY <1>1, <2>1, <2>2 DEF Taken
<1>3. CASE HandOver(r)
  <2>1. /\ log' = [log EXCEPT ![r] = log[r] \o table[r]]
        /\ table' = [table EXCEPT ![r] = <<>>]
        /\ mMsgs' = mMsgs
    BY <1>3 DEF HandOver
  <2>2. log[r] \o table[r] \in Seq(Messages)
    <3> HIDE DEF Threads
    <3> QED  BY <1>1
  <2>3. (log[r] \o table[r]) \o <<>> = log[r] \o table[r]
    BY <2>2, ConcatEmptySeq
  <2> HIDE DEF Threads
  <2> QED
    BY <1>1, <2>1, <2>3 DEF Taken
<1> QED
  BY <1>2, <1>3

LEMMA TakenElse ==
  ASSUME [Next]_vars, \A t \in Threads : ~Push(t),
         \A s \in Services : ~(TakeFront(s) \/ HandOver(s))
  PROVE  UNCHANGED <<mMsgs, table, log>>
BY DEF Next, BeginPost, Popped, Find, Check, PollEnter, LockQueue, Recycled,
       LuaReturn, BeginDestroy, FinishDestroy

-----------------------------------------------------------------------------
(* Why nothing is lost.  A thread posts one message at a time; it carries   *)
(* the number of the last post it began, and every earlier one to that      *)
(* service is taken if the service was initialised, for mIsInit is never    *)
(* set again and a service that is not registered has it cleared.           *)

InPost(t) == pc[t] \in {"pop", "find", "check", "push"}

HandInv == \A t \in Threads :
  /\ hand[t] # Nil <=> InPost(t)
  /\ InPost(t) => hand[t].from = t /\ hand[t].n = posts[t][hand[t].to]

ClosedInv == \A s \in Services \ mServices : ~mIsInit[s]

Due(s, t) == mIsInit[s] \/ (pc[t] = "push" /\ hand[t].to = s)

CountInv == \A s \in Services, t \in Threads :
  /\ InOrder(Taken(s), t)
  /\ Numbers(Taken(s), t) \subseteq (1..posts[t][s]) \ InHandOf(s, t)
  /\ Due(s, t) => Numbers(Taken(s), t) = (1..posts[t][s]) \ InHandOf(s, t)

AddressInv == \A s \in Services : \A k \in DOMAIN Taken(s) : Taken(s)[k].to = s

LostInv == HandInv /\ ClosedInv /\ CountInv /\ AddressInv

LEMMA LostInit == Init => LostInv
<1> SUFFICES ASSUME Init PROVE LostInv
  OBVIOUS
<1>1. HandInv
  BY DEF Init, HandInv, InPost
<1>2. ClosedInv
  BY DEF Init, ClosedInv
<1>3. \A s \in Services : Taken(s) = <<>>
  <2>1. <<>> \o <<>> \o <<>> = <<>>
    BY EmptySeq, ConcatEmptySeq
  <2> QED
    BY <2>1 DEF Init, Taken
<1>4. CountInv
  <2> SUFFICES ASSUME NEW s \in Services, NEW t \in Threads
               PROVE  /\ InOrder(Taken(s), t)
                      /\ Numbers(Taken(s), t) = (1..posts[t][s]) \ InHandOf(s, t)
    BY DEF CountInv
  <2>1. posts[t][s] = 0
    BY DEF Init
  <2>2. (1..posts[t][s]) \ InHandOf(s, t) = {}
    BY <2>1
  <2> QED
    BY <1>3, <2>2, EmptyInOrder
<1>5. AddressInv
  BY <1>3 DEF AddressInv
<1> QED
  BY <1>1, <1>2, <1>4, <1>5 DEF LostInv

(* A step that takes nothing and moves no thread into or out of a post.     *)
LEMMA CountStays ==
  ASSUME TypeInv, CountInv,
         \A s \in Services : Taken(s)' = Taken(s),
         \A t \in Threads : hand'[t] = hand[t] /\ posts'[t] = posts[t],
         \A s \in Services : mIsInit'[s] => mIsInit[s],
         \A t \in Threads : pc'[t] = "push" =>
            pc[t] = "push" \/ mIsInit[hand[t].to]
  PROVE  CountInv'
<1> SUFFICES ASSUME NEW s \in Services, NEW t \in Threads
             PROVE  /\ InOrder(Taken(s), t)'
                    /\ (Numbers(Taken(s), t) \subseteq
                           (1..posts[t][s]) \ InHandOf(s, t))'
                    /\ Due(s, t)' => (Numbers(Taken(s), t) =
                                        (1..posts[t][s]) \ InHandOf(s, t))'
  BY DEF CountInv
<1>1. Taken(s)' = Taken(s) /\ posts'[t] = posts[t] /\ hand'[t] = hand[t]
  OBVIOUS
<1>2. InHandOf(s, t)' = InHandOf(s, t)
  BY <1>1 DEF InHandOf
<1>3. InOrder(Taken(s), t)' = InOrder(Taken(s), t)
  BY <1>1 DEF InOrder, Numbers, From
<1>4. Numbers(Taken(s), t)' = Numbers(Taken(s), t)
  BY <1>1 DEF Numbers, From
<1>5. Due(s, t)' => Due(s, t)
  BY <1>1 DEF Due
<1> QED
  BY <1>1, <1>2, <1>3, <1>4, <1>5 DEF CountInv

LEMMA AddressStays ==
  ASSUME AddressInv, \A s \in Services : Taken(s)' = Taken(s)
  PROVE  AddressInv'
BY DEF AddressInv

LEMMA BeginFacts ==
  ASSUME TypeInv, NEW t \in Threads, NEW s \in Services, NEW k \in Kinds,
         BeginPost(t, s, k)
  PROVE  /\ hand'[t] = [from |-> t, to |-> s, n |-> posts[t][s] + 1, kind |-> k]
         /\ hand'[t] # Nil
         /\ posts'[t][s] = posts[t][s] + 1
         /\ posts[t][s] \in Nat
         /\ \A r \in Services \ {s} : posts'[t][r] = posts[t][r]
         /\ pc[t] = Home(t) /\ pc'[t] = "pop"
         /\ \A u \in Threads \ {t} :
              hand'[u] = hand[u] /\ posts'[u] = posts[u] /\ pc'[u] = pc[u]
         /\ UNCHANGED <<mIsInit, mServices, mMsgs, table, log>>
<1>1. /\ posts \in [Threads -> [Services -> 0..MaxPosts]]
      /\ hand \in [Threads -> Messages \union {Nil}]
      /\ pc \in [Threads -> {"idle", "pop", "find", "check", "push", "lock",
                              "drain", "recycle", "lua", "close"}]
  BY DEF TypeInv, TypeOK
<1>2. /\ posts[t] \in [Services -> 0..MaxPosts] /\ posts[t][s] \in 0..MaxPosts
      /\ posts[t][s] < MaxPosts
      /\ posts' = [posts EXCEPT ![t] = [posts[t] EXCEPT ![s] = posts[t][s] + 1]]
      /\ hand' = [hand EXCEPT ![t] = [from |-> t, to |-> s,
                                      n |-> posts[t][s] + 1, kind |-> k]]
      /\ pc' = [pc EXCEPT ![t] = "pop"] /\ pc[t] = Home(t)
      /\ UNCHANGED <<mIsInit, mServices, mMsgs, table, log>>
  BY <1>1 DEF BeginPost
<1>3. posts[t][s] + 1 \in 1..MaxPosts /\ posts[t][s] \in Nat
  BY <1>2, QueueAssumption
<1>4. [from |-> t, to |-> s, n |-> posts[t][s] + 1, kind |-> k] \in Messages
  BY <1>3 DEF Messages
<1>5. [from |-> t, to |-> s, n |-> posts[t][s] + 1, kind |-> k] # Nil
  BY <1>4, QueueAssumption
<1> HIDE DEF Threads
<1>6. /\ posts'[t] = [posts[t] EXCEPT ![s] = posts[t][s] + 1]
      /\ \A u \in Threads \ {t} : posts'[u] = posts[u]
  BY <1>1, <1>2
<1>7. /\ posts'[t][s] = posts[t][s] + 1
      /\ \A r \in Services \ {s} : posts'[t][r] = posts[t][r]
  BY <1>2, <1>6
<1>8. /\ hand'[t] = [from |-> t, to |-> s, n |-> posts[t][s] + 1, kind |-> k]
      /\ pc'[t] = "pop"
      /\ \A u \in Threads \ {t} : hand'[u] = hand[u] /\ pc'[u] = pc[u]
  BY <1>1, <1>2
<1> QED
  BY <1>2, <1>3, <1>5, <1>6, <1>7, <1>8

(* A post ends for a thread that was in one.                                *)
LEMMA EndFacts ==
  ASSUME TypeInv, NEW t \in Threads, EndPost(t)
  PROVE  /\ hand'[t] = Nil /\ ~InPost(t)' /\ pc'[t] # "push"
         /\ \A u \in Threads \ {t} : pc'[u] = pc[u] /\ hand'[u] = hand[u]
<1>1. hand \in [Threads -> Messages \union {Nil}]
  BY DEF TypeInv, TypeOK
<1>2. hand'[t] = Nil
  BY <1>1
<1> QED
  BY <1>2, PostEnds DEF InPost

(* What Find and Check do: go on, or end the post.                          *)
LEMMA LookFacts ==
  ASSUME TypeInv, NEW t \in Threads, Find(t) \/ Check(t)
  PROVE  /\ InPost(t)
         /\ UNCHANGED <<mServices, mIsInit, mMsgs, table, log, posts>>
         /\ \A u \in Threads \ {t} : pc'[u] = pc[u] /\ hand'[u] = hand[u]
         /\ \/ /\ EndPost(t)
               /\ hand[t].to \in mServices => ~mIsInit[hand[t].to]
            \/ /\ hand' = hand /\ InPost(t)'
               /\ pc'[t] = "push" => mIsInit[hand[t].to]
<1>1. pc \in [Threads -> {"idle", "pop", "find", "check", "push", "lock",
                           "drain", "recycle", "lua", "close"}]
  BY DEF TypeInv, TypeOK
<1>2. CASE Find(t)
  <2>1. CASE hand[t].to \in mServices
    <3>1. /\ pc[t] = "find" /\ pc' = [pc EXCEPT ![t] = "check"] /\ hand' = hand
          /\ UNCHANGED <<mServices, mIsInit, mMsgs, table, log, posts>>
      BY <1>2, <2>1 DEF Find
    <3> QED
      BY <1>1, <3>1 DEF InPost
  <2>2. CASE hand[t].to \notin mServices
    <3>1. /\ pc[t] = "find" /\ EndPost(t)
          /\ UNCHANGED <<mServices, mIsInit, mMsgs, table, log, posts>>
      BY <1>2, <2>2 DEF Find
    <3> QED
      BY <2>2, <3>1, EndFacts DEF InPost
  <2> QED
    BY <2>1, <2>2
<1>3. CASE Check(t)
  <2>1. CASE mIsInit[hand[t].to]
    <3>1. /\ pc[t] = "check" /\ pc' = [pc EXCEPT ![t] = "push"] /\ hand' = hand
          /\ UNCHANGED <<mServices, mIsInit, mMsgs, table, log, posts>>
      BY <1>3, <2>1 DEF Check
    <3> QED
      BY <1>1, <2>1, <3>1 DEF InPost
  <2>2. CASE ~mIsInit[hand[t].to]
    <3>1. /\ pc[t] = "check" /\ EndPost(t)
          /\ UNCHANGED <<mServices, mIsInit, mMsgs, table, log, posts>>
      BY <1>3, <2>2 DEF Check
    <3> QED
      BY <2>2, <3>1, EndFacts DEF InPost
  <2> QED
    BY <2>1, <2>2
<1> QED
  BY <1>2, <1>3

(* The steps of a thread that is not in a post, or waits in pop.            *)
LEMMA OtherFacts ==
  ASSUME TypeInv, [Next]_vars,
         \A t \in Threads : ~(Find(t) \/ Check(t) \/ Push(t)),
         \A t \in Threads, s \in Services, k \in Kinds : ~BeginPost(t, s, k)
  PROVE  /\ UNCHANGED <<hand, posts>>
         /\ \A t \in Threads : /\ InPost(t)' <=> InPost(t)
                               /\ pc'[t] = "push" => pc[t] = "push"
<1>1. pc \in [Threads -> {"idle", "pop", "find", "check", "push", "lock",
                           "drain", "recycle", "lua", "close"}]
  BY DEF TypeInv, TypeOK
<1>2. ASSUME NEW t \in Threads, Popped(t)
      PROVE  /\ UNCHANGED <<hand, posts>>
             /\ \A u \in Threads : /\ InPost(u)' <=> InPost(u)
                                   /\ pc'[u] = "push" => pc[u] = "push"
  BY <1>1, <1>2 DEF Popped, InPost
<1>3. ASSUME NEW s \in Services,
             \/ PollEnter(s) \/ LockQueue(s) \/ TakeFront(s) \/ Recycled(s)
             \/ HandOver(s) \/ LuaReturn(s) \/ FinishDestroy(s)
             \/ \E r \in Services : BeginDestroy(s, r)
      PROVE  /\ UNCHANGED <<hand, posts>>
             /\ \A u \in Threads : /\ InPost(u)' <=> InPost(u)
                                   /\ pc'[u] = "push" => pc[u] = "push"
  <2>1. UNCHANGED <<hand, posts>>
    BY <1>3 DEF PollEnter, LockQueue, TakeFront, Recycled, HandOver, LuaReturn,
                FinishDestroy, BeginDestroy
  <2>2. \E l \in {"lock", "drain", "recycle", "lua", "idle", "close"} :
          pc' = [pc EXCEPT ![s] = l]
    BY <1>3 DEF PollEnter, LockQueue, TakeFront, Recycled, HandOver, LuaReturn,
                FinishDestroy, BeginDestroy
  <2>3. pc[s] \in {"lock", "drain", "recycle", "lua", "idle", "close"}
    BY <1>3 DEF PollEnter, LockQueue, TakeFront, Recycled, HandOver, LuaReturn,
                FinishDestroy, BeginDestroy
  <2>4. /\ pc'[s] \in {"lock", "drain", "recycle", "lua", "idle", "close"}
        /\ \A u \in Threads \ {s} : pc'[u] = pc[u]
    BY <1>1, <2>2
  <2> QED
    BY <2>1, <2>3, <2>4 DEF InPost
<1>4. CASE UNCHANGED vars
  BY <1>4 DEF InPost
<1> QED
  BY <1>2, <1>3, <1>4 DEF Next

LEMMA HandStep == ASSUME TypeInv, HandInv, [Next]_vars PROVE HandInv'
<1> USE DEF HandInv
<1>1. ASSUME NEW t \in Threads, NEW s \in Services, NEW k \in Kinds,
             BeginPost(t, s, k)
      PROVE  HandInv'
  <2>0. /\ hand'[t] = [from |-> t, to |-> s, n |-> posts[t][s] + 1, kind |-> k]
        /\ posts'[t][s] = posts[t][s] + 1
        /\ \A u \in Threads \ {t} :
             hand'[u] = hand[u] /\ posts'[u] = posts[u] /\ pc'[u] = pc[u]
    BY <1>1, BeginFacts
  <2>1. hand'[t].from = t /\ hand'[t].to = s /\ hand'[t].n = posts'[t][s]
    BY <2>0
  <2>2. hand'[t] # Nil /\ InPost(t)'
    BY <1>1, BeginFacts DEF InPost
  <2>3. ASSUME NEW u \in Threads \ {t}
        PROVE  /\ hand'[u] = hand[u] /\ posts'[u] = posts[u]
               /\ InPost(u)' = InPost(u)
    BY <2>0 DEF InPost
  <2> QED
    BY <2>1, <2>2, <2>3
<1>2. ASSUME NEW t \in Threads, Find(t) \/ Check(t) PROVE HandInv'
  <2>1. ASSUME NEW u \in Threads \ {t}
        PROVE  hand'[u] = hand[u] /\ InPost(u)' = InPost(u)
    BY <1>2, LookFacts DEF InPost
  <2>2. posts' = posts
    BY <1>2, LookFacts
  <2>3. \/ hand'[t] = Nil /\ ~InPost(t)'
        \/ hand' = hand /\ InPost(t)' /\ InPost(t)
    BY <1>2, LookFacts, EndFacts
  <2> QED
    BY <2>1, <2>2, <2>3
<1>3. ASSUME NEW t \in Threads, Push(t) PROVE HandInv'
  <2>1. EndPost(t) /\ posts' = posts
    BY <1>3 DEF Push
  <2>2. hand'[t] = Nil /\ ~InPost(t)'
    BY <2>1, EndFacts
  <2>3. ASSUME NEW u \in Threads \ {t}
        PROVE  hand'[u] = hand[u] /\ InPost(u)' = InPost(u)
    BY <2>1, EndFacts DEF InPost
  <2> QED
    BY <2>1, <2>2, <2>3
<1>4. CASE /\ \A t \in Threads : ~(Find(t) \/ Check(t) \/ Push(t))
           /\ \A t \in Threads, s \in Services, k \in Kinds : ~BeginPost(t, s, k)
  BY <1>4, OtherFacts
<1> QED
  BY <1>1, <1>2, <1>3, <1>4

LEMMA ClosedStep == ASSUME TypeInv, ClosedInv, [Next]_vars PROVE ClosedInv'
<1>1. CASE \E t \in Services : FinishDestroy(t)
  <2>1. PICK t \in Services : FinishDestroy(t)
    BY <1>1
  <2>2. /\ mIsInit' = [mIsInit EXCEPT ![victim[t]] = FALSE]
        /\ mServices' = mServices \ {victim[t]}
    BY <2>1 DEF FinishDestroy, ClearInit
  <2>3. mIsInit \in [Services -> BOOLEAN]
    BY DEF TypeInv, TypeOK
  <2> QED
    BY <2>2, <2>3 DEF ClosedInv
<1>2. CASE \A t \in Services : ~FinishDestroy(t)
  <2>1. UNCHANGED <<mIsInit, mServices>>
    BY <1>2 DEF Next, BeginPost, Popped, Find, Check, Push, PollEnter,
                LockQueue, TakeFront, Recycled, HandOver, LuaReturn, BeginDestroy
  <2> QED
    BY <2>1 DEF ClosedInv
<1> QED
  BY <1>1, <1>2

(* Cleared stays cleared.                                                   *)
LEMMA InitFalls ==
  ASSUME TypeInv, [Next]_vars
  PROVE  \A s \in Services : mIsInit'[s] => mIsInit[s]
<1>1. CASE \E t \in Services : FinishDestroy(t)
  <2>1. PICK t \in Services : FinishDestroy(t)
    BY <1>1
  <2>2. mIsInit' = [mIsInit EXCEPT ![victim[t]] = FALSE]
    BY <2>1 DEF FinishDestroy, ClearInit
  <2>3. mIsInit \in [Services -> BOOLEAN]
    BY DEF TypeInv, TypeOK
  <2> QED
    BY <2>2, <2>3
<1>2. CASE \A t \in Services : ~FinishDestroy(t)
  BY <1>2 DEF Next, BeginPost, Popped, Find, Check, Push, PollEnter,
              LockQueue, TakeFront, Recycled, HandOver, LuaReturn, BeginDestroy
<1> QED
  BY <1>1, <1>2

(* One thread posts: the others, and what they sent, are left alone.        *)
LEMMA CountElse ==
  ASSUME TypeInv, CountInv, NEW s \in Services, NEW u \in Threads,
         From(Taken(s), u)' = From(Taken(s), u),
         \A k \in From(Taken(s), u) : Taken(s)'[k] = Taken(s)[k],
         hand'[u] = hand[u], posts'[u] = posts[u], pc'[u] = pc[u],
         mIsInit'[s] => mIsInit[s]
  PROVE  /\ InOrder(Taken(s), u)'
         /\ (Numbers(Taken(s), u) \subseteq
                 (1..posts[u][s]) \ InHandOf(s, u))'
         /\ Due(s, u)' => (Numbers(Taken(s), u) =
                             (1..posts[u][s]) \ InHandOf(s, u))'
<1>1. InHandOf(s, u)' = InHandOf(s, u)
  BY DEF InHandOf
<1>2. Numbers(Taken(s), u)' = Numbers(Taken(s), u)
  BY DEF Numbers
<1>3. InOrder(Taken(s), u)'
  <2>1. InOrder(Taken(s), u)
    BY DEF CountInv
  <2> QED
    BY <1>2, <2>1 DEF InOrder
<1>4. Due(s, u)' => Due(s, u)
  BY DEF Due
<1> QED
  BY <1>1, <1>2, <1>3, <1>4 DEF CountInv

LEMMA TakenSame ==
  ASSUME UNCHANGED <<mMsgs, table, log>>
  PROVE  \A s \in Services : Taken(s)' = Taken(s)
BY DEF Taken

LEMMA CountByBegin ==
  ASSUME TypeInv, LostInv, NEW t \in Threads, NEW r \in Services, NEW k \in Kinds,
         BeginPost(t, r, k)
  PROVE  CountInv'
<1>0. /\ hand'[t] = [from |-> t, to |-> r, n |-> posts[t][r] + 1, kind |-> k]
      /\ hand'[t] # Nil
      /\ posts'[t][r] = posts[t][r] + 1
      /\ posts[t][r] \in Nat
      /\ \A s \in Services \ {r} : posts'[t][s] = posts[t][s]
      /\ mIsInit' = mIsInit
  BY BeginFacts, Zenon
<1>1. \A s \in Services : Taken(s)' = Taken(s)
  BY BeginFacts, TakenSame
<1>2. CountInv /\ HandInv
  BY DEF LostInv
<1>3. hand[t] = Nil
  BY <1>2, BeginFacts DEF HandInv, InPost, Home
<1>4. ASSUME NEW s \in Services, NEW u \in Threads
      PROVE  /\ InOrder(Taken(s), u)'
             /\ (Numbers(Taken(s), u) \subseteq
                     (1..posts[u][s]) \ InHandOf(s, u))'
             /\ Due(s, u)' => (Numbers(Taken(s), u) =
                                 (1..posts[u][s]) \ InHandOf(s, u))'
  <2>1. /\ Taken(s)' = Taken(s) /\ mIsInit' = mIsInit
        /\ From(Taken(s), u)' = From(Taken(s), u)
        /\ \A j \in From(Taken(s), u) : Taken(s)'[j] = Taken(s)[j]
    BY <1>1, <1>0 DEF From
  <2>2. CASE u # t
    <3>1. hand'[u] = hand[u] /\ posts'[u] = posts[u] /\ pc'[u] = pc[u]
      BY <2>2, BeginFacts
    <3> QED
      BY <1>2, <2>1, <3>1, CountElse
  <2>3. CASE u = t
    <3>1. InHandOf(s, t) = {}
      BY <1>3 DEF InHandOf
    <3>2. /\ InOrder(Taken(s), t)
          /\ Numbers(Taken(s), t) \subseteq 1..posts[t][s]
          /\ mIsInit[s] => Numbers(Taken(s), t) = 1..posts[t][s]
      BY <1>2, <3>1 DEF CountInv, Due
    <3>3. /\ InOrder(Taken(s), t)'
          /\ Numbers(Taken(s), t)' = Numbers(Taken(s), t)
      BY <2>1, <3>2 DEF InOrder, Numbers, From
    <3>4. Due(s, t)' => mIsInit[s]
      <4>1. pc'[t] = "pop" /\ mIsInit' = mIsInit
        BY BeginFacts
      <4> QED
        BY <4>1 DEF Due
    <3>5. (1..posts'[t][s]) \ InHandOf(s, t)' = 1..posts[t][s]
      <4>1. CASE s = r
        <5>1. posts'[t][s] = posts[t][s] + 1 /\ posts[t][s] \in Nat
          BY <4>1, BeginFacts
        <5>2. InHandOf(s, t)' = {posts[t][s] + 1}
          BY <4>1, <1>0 DEF InHandOf
        <5> QED
          BY <5>1, <5>2
      <4>2. CASE s # r
        <5>1. posts'[t][s] = posts[t][s]
          BY <4>2, <1>0
        <5>2. InHandOf(s, t)' = {}
          BY <4>2, <1>0 DEF InHandOf
        <5> QED
          BY <5>1, <5>2
      <4> QED
        BY <4>1, <4>2
    <3> QED
      BY <2>3, <3>2, <3>3, <3>4, <3>5
  <2> QED
    BY <2>2, <2>3
<1> QED
  BY <1>4 DEF CountInv

LEMMA CountByLook ==
  ASSUME TypeInv, LostInv, NEW t \in Threads, Find(t) \/ Check(t)
  PROVE  CountInv'
<1>1. \A s \in Services : Taken(s)' = Taken(s)
  BY LookFacts, TakenSame
<1>2. CountInv /\ HandInv /\ ClosedInv
  BY DEF LostInv
<1>3. /\ UNCHANGED <<mIsInit, posts>>
      /\ \A u \in Threads \ {t} : pc'[u] = pc[u] /\ hand'[u] = hand[u]
  BY LookFacts
<1>4. CASE hand' = hand /\ (pc'[t] = "push" => mIsInit[hand[t].to])
  <2>1. \A u \in Threads : pc'[u] = "push" =>
           pc[u] = "push" \/ mIsInit[hand[u].to]
    BY <1>3, <1>4
  <2> QED
    BY <1>1, <1>2, <1>3, <1>4, <2>1, CountStays
<1>5. CASE EndPost(t) /\ (hand[t].to \in mServices => ~mIsInit[hand[t].to])
  <2>1. hand[t] \in Messages /\ hand[t].to \in Services
    BY LookFacts, HandTo DEF TypeInv, InHand, InPost
  <2>2. ~mIsInit[hand[t].to]
    BY <1>2, <1>5, <2>1 DEF ClosedInv
  <2>3. hand'[t] = Nil /\ pc'[t] # "push"
    BY <1>5, EndFacts
  <2>4. ASSUME NEW s \in Services, NEW u \in Threads
        PROVE  /\ InOrder(Taken(s), u)'
               /\ (Numbers(Taken(s), u) \subseteq
                       (1..posts[u][s]) \ InHandOf(s, u))'
               /\ Due(s, u)' => (Numbers(Taken(s), u) =
                                   (1..posts[u][s]) \ InHandOf(s, u))'
    <3>1. /\ Taken(s)' = Taken(s) /\ mIsInit' = mIsInit
          /\ From(Taken(s), u)' = From(Taken(s), u)
          /\ \A j \in From(Taken(s), u) : Taken(s)'[j] = Taken(s)[j]
      BY <1>1, <1>3 DEF From
    <3>2. CASE u # t
      <4>1. hand'[u] = hand[u] /\ posts'[u] = posts[u] /\ pc'[u] = pc[u]
        BY <1>3, <3>2
      <4> QED
        BY <1>2, <3>1, <4>1, CountElse
    <3>3. CASE u = t
      <4>1. InHandOf(s, t)' = {}
        BY <2>3 DEF InHandOf
      <4>2. Due(s, t)' => mIsInit[s] /\ s # hand[t].to
        BY <2>2, <2>3, <3>1 DEF Due
      <4>3. s # hand[t].to => InHandOf(s, t) = {}
        BY DEF InHandOf
      <4>4. /\ InOrder(Taken(s), t)
            /\ Numbers(Taken(s), t) \subseteq 1..posts[t][s]
            /\ mIsInit[s] => Numbers(Taken(s), t) =
                               (1..posts[t][s]) \ InHandOf(s, t)
        BY <1>2 DEF CountInv, Due
      <4>5. /\ InOrder(Taken(s), t)'
            /\ Numbers(Taken(s), t)' = Numbers(Taken(s), t)
            /\ posts' = posts
        BY <1>3, <3>1, <4>4 DEF InOrder, Numbers, From
      <4> QED
        BY <3>3, <4>1, <4>2, <4>3, <4>4, <4>5
    <3> QED
      BY <3>2, <3>3
  <2> QED
    BY <2>4 DEF CountInv
<1> QED
  BY <1>4, <1>5, LookFacts

LEMMA CountByPush ==
  ASSUME TypeInv, LostInv, NEW t \in Threads, Push(t)
  PROVE  CountInv'
<1> DEFINE r == hand[t].to
<1>1. CountInv /\ HandInv
  BY DEF LostInv
<1>2. /\ EndPost(t) /\ UNCHANGED <<mIsInit, posts>> /\ pc[t] = "push"
  BY DEF Push
<1>3. hand'[t] = Nil /\ pc'[t] # "push"
  BY <1>2, EndFacts
<1>4. /\ hand[t] \in Messages /\ r \in Services
      /\ \A s \in Services :
           /\ s = r => Taken(s)' = Append(Taken(s), hand[t])
           /\ s # r => Taken(s)' = Taken(s)
  BY TakenByPush, HandTo
<1>5. hand[t].from = t /\ hand[t].n = posts[t][r] /\ hand[t] # Nil
  BY <1>1, <1>2 DEF HandInv, InPost
<1>6. posts[t][r] \in Nat
  <2>1. posts[t] \in [Services -> 0..MaxPosts]
    BY DEF TypeInv, TypeOK
  <2> QED
    BY <1>4, <2>1, QueueAssumption
<1>7. Numbers(Taken(r), t) = 1..(posts[t][r] - 1) /\ posts[t][r] >= 1
  <2>1. InHandOf(r, t) = {posts[t][r]}
    BY <1>5 DEF InHandOf
  <2>2. Numbers(Taken(r), t) = (1..posts[t][r]) \ {posts[t][r]}
    BY <1>1, <1>2, <1>4, <2>1 DEF CountInv, Due
  <2>3. posts[t][r] >= 1
    BY <1>4, <1>5, QueueAssumption DEF Messages
  <2> QED
    BY <1>6, <2>2, <2>3
<1> HIDE DEF r
<1>8. ASSUME NEW s \in Services, NEW u \in Threads
      PROVE  /\ InOrder(Taken(s), u)'
             /\ (Numbers(Taken(s), u) \subseteq
                     (1..posts[u][s]) \ InHandOf(s, u))'
             /\ Due(s, u)' => (Numbers(Taken(s), u) =
                                 (1..posts[u][s]) \ InHandOf(s, u))'
  <2>0. Taken(s) \in Seq(Messages)
    BY TakenType
  <2>1. CASE u # t
    <3>1. hand'[u] = hand[u] /\ posts'[u] = posts[u] /\ pc'[u] = pc[u]
      BY <1>2, <2>1, EndFacts
    <3>2. /\ From(Taken(s), u)' = From(Taken(s), u)
          /\ \A j \in From(Taken(s), u) : Taken(s)'[j] = Taken(s)[j]
      <4>1. CASE s = r
        <5>1. Taken(s)' = Append(Taken(s), hand[t])
          BY <1>4, <4>1
        <5>2. From(Append(Taken(s), hand[t]), u) = From(Taken(s), u)
          <6>1. hand[t].from # u
            BY <1>5, <2>1
          <6>2. From(Append(Taken(s), hand[t]), u) = From(Taken(s), u) \union {}
            BY <1>4, <2>0, <6>1, AppendNumbers, Zenon
          <6> QED
            BY <6>2
        <5>3. \A j \in From(Taken(s), u) :
                 Append(Taken(s), hand[t])[j] = Taken(s)[j]
          BY <1>4, <2>0, AppendIsOne DEF From
        <5>4. From(Taken(s), u)' = From(Append(Taken(s), hand[t]), u)
          BY <5>1 DEF From
        <5> QED
          BY <5>1, <5>2, <5>3, <5>4
      <4>2. CASE s # r
        BY <1>4, <4>2 DEF From
      <4> QED
        BY <4>1, <4>2
    <3> QED
      BY <1>1, <1>2, <3>1, <3>2, CountElse
  <2>2. CASE u = t /\ s # r
    <3>1. Taken(s)' = Taken(s)
      BY <1>4, <2>2
    <3>2. InHandOf(s, t) = {} /\ InHandOf(s, t)' = {}
      BY <1>3, <2>2 DEF InHandOf, r
    <3>3. /\ InOrder(Taken(s), t)
          /\ Numbers(Taken(s), t) \subseteq 1..posts[t][s]
          /\ mIsInit[s] => Numbers(Taken(s), t) = 1..posts[t][s]
      BY <1>1, <3>2 DEF CountInv, Due
    <3>4. /\ InOrder(Taken(s), t)'
          /\ Numbers(Taken(s), t)' = Numbers(Taken(s), t)
      BY <3>1, <3>3 DEF InOrder, Numbers, From
    <3>5. Due(s, t)' => mIsInit[s]
      BY <1>2, <1>3 DEF Due
    <3> QED
      BY <1>2, <2>2, <3>2, <3>3, <3>4, <3>5
  <2>3. CASE u = t /\ s = r
    <3>1. Taken(s)' = Append(Taken(s), hand[t])
      BY <1>4, <2>3
    <3>2. Numbers(Append(Taken(s), hand[t]), t) = 1..posts[t][s]
      <4>1. Numbers(Append(Taken(s), hand[t]), t) =
              (1..(posts[t][s] - 1)) \union {posts[t][s]}
        <5>1. Numbers(Append(Taken(s), hand[t]), t) =
                Numbers(Taken(s), t) \union {hand[t].n}
          BY <1>4, <1>5, <2>0, AppendNumbers
        <5> QED
          BY <1>5, <1>7, <2>3, <5>1
      <4> QED
        BY <1>6, <1>7, <2>3, <4>1
    <3>3. InOrder(Append(Taken(s), hand[t]), t)
      <4>1. InOrder(Taken(s), t)
        BY <1>1 DEF CountInv
      <4>2. Numbers(Taken(s), t) = 1..(hand[t].n - 1)
        BY <1>5, <1>7, <2>3
      <4> QED
        BY <1>4, <2>0, <4>1, <4>2, AppendInOrder
    <3>4. /\ InOrder(Taken(s), t)'
          /\ Numbers(Taken(s), t)' = 1..posts[t][s]
      BY <3>1, <3>2, <3>3 DEF InOrder, Numbers, From
    <3>5. InHandOf(s, t)' = {}
      BY <1>3 DEF InHandOf
    <3> QED
      BY <1>2, <2>3, <3>4, <3>5
  <2> QED
    BY <2>1, <2>2, <2>3
<1> QED
  BY <1>8 DEF CountInv

LEMMA AddressByPush ==
  ASSUME TypeInv, AddressInv, NEW t \in Threads, Push(t)
  PROVE  AddressInv'
<1> SUFFICES ASSUME NEW s \in Services, NEW k \in DOMAIN Taken(s)'
             PROVE  Taken(s)'[k].to = s
  BY DEF AddressInv
<1>1. /\ hand[t] \in Messages
      /\ s = hand[t].to => Taken(s)' = Append(Taken(s), hand[t])
      /\ s # hand[t].to => Taken(s)' = Taken(s)
  BY TakenByPush
<1>2. CASE s = hand[t].to
  <2>1. Taken(s) \in Seq(Messages)
    BY TakenType
  <2> DEFINE q == Taken(s)
             p == Append(q, hand[t])
  <2>0. Taken(s)' = p
    BY <1>1, <1>2
  <2>2. /\ DOMAIN p = 1..(Len(q) + 1) /\ Len(q) \in Nat /\ DOMAIN q = 1..Len(q)
        /\ \A j \in 1..Len(q) : p[j] = q[j]
        /\ p[Len(q) + 1] = hand[t]
    BY <1>1, <2>1, AppendIsOne, Zenon
  <2>5. \A j \in DOMAIN q : q[j].to = s
    BY DEF AddressInv
  <2> HIDE DEF p, q
  <2>6. k \in 1..(Len(q) + 1)
    BY <2>0, <2>2
  <2>3. CASE k \in 1..Len(q)
    BY <2>0, <2>2, <2>3, <2>5
  <2>4. CASE k = Len(q) + 1
    BY <1>2, <2>0, <2>2, <2>4
  <2> QED
    BY <2>2, <2>3, <2>4, <2>6
<1>3. CASE s # hand[t].to
  BY <1>1, <1>3 DEF AddressInv
<1> QED
  BY <1>2, <1>3

LEMMA LostStep == TypeInv /\ LostInv /\ [Next]_vars => LostInv'
<1> SUFFICES ASSUME TypeInv, LostInv, [Next]_vars
             PROVE  CountInv' /\ AddressInv'
  BY HandStep, ClosedStep DEF LostInv
<1>1. CountInv /\ HandInv /\ AddressInv
  BY DEF LostInv
<1>2. ASSUME NEW t \in Threads, NEW s \in Services, NEW k \in Kinds,
             BeginPost(t, s, k)
      PROVE  CountInv' /\ AddressInv'
  <2>1. \A r \in Services : Taken(r)' = Taken(r)
    BY <1>2, BeginFacts, TakenSame
  <2> QED
    BY <1>1, <1>2, <2>1, CountByBegin, AddressStays
<1>3. ASSUME NEW t \in Threads, Find(t) \/ Check(t)
      PROVE  CountInv' /\ AddressInv'
  <2>1. \A r \in Services : Taken(r)' = Taken(r)
    BY <1>3, LookFacts, TakenSame
  <2> QED
    BY <1>1, <1>3, <2>1, CountByLook, AddressStays
<1>4. ASSUME NEW t \in Threads, Push(t) PROVE CountInv' /\ AddressInv'
  BY <1>1, <1>4, CountByPush, AddressByPush
<1>5. CASE /\ \A t \in Threads : ~(Find(t) \/ Check(t) \/ Push(t))
           /\ \A t \in Threads, s \in Services, k \in Kinds : ~BeginPost(t, s, k)
  <2>1. \A s \in Services : Taken(s)' = Taken(s)
    <3>1. CASE \A s \in Services : ~(TakeFront(s) \/ HandOver(s))
      BY <1>5, <3>1, TakenElse, TakenSame
    <3>2. CASE \E s \in Services : TakeFront(s) \/ HandOver(s)
      BY <3>2, TakenByPoll
    <3> QED
      BY <3>1, <3>2
  <2>2. /\ UNCHANGED <<hand, posts>>
        /\ \A t \in Threads : pc'[t] = "push" => pc[t] = "push"
    BY <1>5, OtherFacts
  <2>3. CountInv'
    BY <1>1, <2>1, <2>2, InitFalls, CountStays
  <2> QED
    BY <1>1, <2>1, <2>3, AddressStays
<1> QED
  BY <1>2, <1>3, <1>4, <1>5

LEMMA LostInvHolds == Spec => []LostInv
BY LostInit, LostStep, TypeInvHolds, PTL DEF Spec

(* What a thread posts to a service that is registered and initialised is   *)
(* never lost, doubled or overtaken: it is in the hand of the thread or, in *)
(* its turn, in the queue, the table or the log.                            *)
THEOREM NothingLostHolds == Spec => []NothingLost
<1>1. TypeInv /\ LostInv => NothingLost
  BY DEF LostInv, CountInv, Due, NothingLost, SenderOrder, TypeInv, TypeOK
<1> QED
  BY <1>1, TypeInvHolds, LostInvHolds, PTL

-----------------------------------------------------------------------------
(* The refinement: a push is Accept, the call of onPoll is Deliver, every   *)
(* other step leaves what Channel sees.                                     *)

accepted == [s \in Services |-> Taken(s)]
seen     == [s \in Services |-> Len(log[s])]

LEMMA LogType == ASSUME TypeInv, NEW s \in Services
                 PROVE  /\ log[s] \in Seq(Messages)
                        /\ table[s] \in Seq(Messages)
                        /\ mMsgs[s] \in Seq(Messages)
BY DEF TypeInv, TypeOK

(* The message in hand has not been taken before, by this or another queue. *)
LEMMA FreshMessage ==
  ASSUME TypeInv, LostInv, NEW t \in Threads, Push(t), NEW r \in Services
  PROVE  hand[t] \notin Range(Taken(r))
<1> SUFFICES ASSUME NEW k \in DOMAIN Taken(r), Taken(r)[k] = hand[t]
             PROVE  FALSE
  BY DEF Range
<1>1. hand[t].to = r
  BY DEF LostInv, AddressInv
<1>2. hand[t] # Nil /\ hand[t].from = t
  BY DEF LostInv, HandInv, InPost, Push
<1>3. k \in From(Taken(r), t)
  BY <1>2 DEF From
<1>4. hand[t].n \in Numbers(Taken(r), t)
  BY <1>3 DEF Numbers
<1>5. InHandOf(r, t) = {hand[t].n}
  BY <1>1, <1>2 DEF InHandOf
<1> QED
  BY <1>4, <1>5 DEF LostInv, CountInv

LEMMA PushAccepts ==
  ASSUME TypeInv, LostInv, NEW t \in Threads, Push(t)
  PROVE  AbstractChannel!Accept(hand[t].to, hand[t])
<1> DEFINE r == hand[t].to
           m == hand[t]
<1>1. m \in Messages /\ r \in Services
  BY TakenByPush, HandTo
<1>2. \A s \in Services : /\ s = r => Taken(s)' = Append(Taken(s), m)
                          /\ s # r => Taken(s)' = Taken(s)
  BY TakenByPush
<1>3. \A s \in Services : m \notin Range(Taken(s))
  BY FreshMessage
<1> HIDE DEF r, m
<1>4. accepted' = [accepted EXCEPT ![r] = Append(accepted[r], m)]
  BY <1>1, <1>2 DEF accepted
<1>5. seen' = seen
  BY DEF seen, Push
<1>6. \A s \in Services : m \notin Range(accepted[s])
  BY <1>3 DEF accepted
<1> QED
  <2>1. AbstractChannel!Accept(r, m)
    BY <1>4, <1>5, <1>6
    DEF AbstractChannel!Accept, AbstractChannel!Range, Range, accepted, seen
  <2> QED
    BY <2>1 DEF r, m

LEMMA HandOverDelivers ==
  ASSUME TypeInv, NEW r \in Services, HandOver(r)
  PROVE  AbstractChannel!Deliver(r)
<1>1. \A s \in Services : Taken(s)' = Taken(s)
  BY TakenByPoll
<1>2. accepted' = accepted
  BY <1>1 DEF accepted
<1>3. log' = [log EXCEPT ![r] = log[r] \o table[r]] /\ mMsgs[r] = <<>>
  BY DEF HandOver
<1>4. log[r] \o table[r] \in Seq(Messages)
  BY LogType, ConcatProperties
<1>5. Taken(r) = log[r] \o table[r]
  BY <1>3, <1>4, ConcatEmptySeq DEF Taken
<1>6. log \in [Services -> Seq(Messages)]
  BY DEF TypeInv, TypeOK
<1>7. seen' = [seen EXCEPT ![r] = Len(accepted[r])]
  BY <1>3, <1>5, <1>6 DEF seen, accepted
<1> QED
  BY <1>2, <1>7 DEF AbstractChannel!Deliver, accepted, seen

LEMMA ChannelStep ==
  ASSUME TypeInv, LostInv, [Next]_vars
  PROVE  AbstractChannel!Next \/ UNCHANGED <<accepted, seen>>
<1>1. ASSUME NEW t \in Threads, Push(t) PROVE AbstractChannel!Next
  <2>1. hand[t] \in Messages /\ hand[t].to \in Services
    BY <1>1, TakenByPush, HandTo
  <2>2. AbstractChannel!Accept(hand[t].to, hand[t])
    BY <1>1, PushAccepts
  <2> QED
    BY <2>1, <2>2 DEF AbstractChannel!Next
<1>2. ASSUME NEW r \in Services, HandOver(r) PROVE AbstractChannel!Next
  BY <1>2, HandOverDelivers DEF AbstractChannel!Next
<1>3. ASSUME NEW r \in Services, TakeFront(r)
      PROVE  UNCHANGED <<accepted, seen>>
  <2>1. \A s \in Services : Taken(s)' = Taken(s)
    BY <1>3, TakenByPoll
  <2>2. log' = log
    BY <1>3 DEF TakeFront
  <2> QED
    BY <2>1, <2>2 DEF accepted, seen
<1>4. CASE /\ \A t \in Threads : ~Push(t)
           /\ \A s \in Services : ~(TakeFront(s) \/ HandOver(s))
  <2>1. UNCHANGED <<mMsgs, table, log>>
    BY <1>4, TakenElse
  <2> QED
    BY <2>1 DEF accepted, seen, Taken
<1> QED
  BY <1>1, <1>2, <1>3, <1>4

(* The message queue of each service implements Channel: a message is       *)
(* accepted once and by the queue it was sent to, and an onPoll is given    *)
(* all that was accepted so far, in order.                                  *)
THEOREM ImplementsChannelHolds == Spec => ImplementsChannel
<1>1. Init => AbstractChannel!Init
  <2> SUFFICES ASSUME Init PROVE AbstractChannel!Init
    OBVIOUS
  <2>1. \A s \in Services : Taken(s) = <<>> /\ Len(log[s]) = 0
    <3>1. <<>> \o <<>> \o <<>> = <<>>
      BY EmptySeq, ConcatEmptySeq
    <3> QED
      BY <3>1 DEF Init, Taken
  <2> QED
    BY <2>1 DEF AbstractChannel!Init
<1>2. TypeInv /\ LostInv /\ [Next]_vars =>
        [AbstractChannel!Next]_<<accepted, seen>>
  BY ChannelStep
<1>3. Spec => AbstractChannel!Init /\ [][AbstractChannel!Next]_<<accepted, seen>>
  BY <1>1, <1>2, TypeInvHolds, LostInvHolds, PTL DEF Spec
<1> QED
  BY <1>3, PTL DEF ImplementsChannel, AbstractChannel!Spec, accepted, seen
-----------------------------------------------------------------------------
(* The message path with the real pool.                                     *)

USE DEF poolVars, mainVars, pathVars

-----------------------------------------------------------------------------
(* Every step of MsgPath is a step of ServiceQueue or leaves it unchanged.  *)

LEMMA PathStepIsQueueStep == [PathNext]_pathVars => [Next]_vars
<1> SUFFICES ASSUME [PathNext]_pathVars PROVE [Next]_vars
  OBVIOUS
<1> USE PathAssumption
<1> HIDE DEF registryVars, queueVars, vars, Goto, EndPost
<1>1. ASSUME NEW t \in Threads, SendStep(t) PROVE [Next]_vars
  BY <1>1 DEF SendStep, PopMsg, Next
<1>2. ASSUME NEW s \in Services, PollStep(s) PROVE [Next]_vars
  <2>1. CASE PollEnter(s) \/ LockQueue(s) \/ TakeFront(s) \/ HandOver(s)
    BY <2>1 DEF Next
  <2>2. CASE Recycle(s)
    BY <2>2 DEF Recycle, Next
  <2>3. CASE LuaGoOn(s)
    BY <2>3 DEF LuaGoOn, Next
  <2> QED
    BY <1>2, <2>1, <2>2, <2>3 DEF PollStep
<1>3. CASE ShutdownStep
  BY <1>3 DEF ShutdownStep, BeginClose, SendClose, WaitEmpty, Next, Threads
<1>4. ASSUME NEW r \in Services, NEW s \in Services, NEW k \in Kinds,
             LuaPost(s, r, k)
      PROVE  [Next]_vars
  BY <1>4 DEF LuaPost, Next, Threads
<1>5. ASSUME NEW t \in Senders, NEW s \in Services, NEW k \in Kinds,
             Event(t, s, k)
      PROVE  [Next]_vars
  BY <1>5 DEF Event, Next, Threads
<1>6. CASE LuaExit
  BY <1>6 DEF LuaExit
<1>7. CASE UNCHANGED pathVars
  BY <1>7
<1> QED
  BY <1>1, <1>2, <1>3, <1>4, <1>5, <1>6, <1>7 DEF PathNext

(* With its real pool the message path is one of the behaviours ServiceQueue*)
(* allows, so everything shown of ServiceQueue holds of it.                 *)
THEOREM ImplementsServiceQueue == PathSpec => Spec
<1>1. PathInit => Init
  BY DEF PathInit
<1> QED
  BY <1>1, PathStepIsQueueStep, PTL DEF PathSpec, Spec

LEMMA PathTypeInv == PathSpec => []TypeInv
BY ImplementsServiceQueue, TypeInvHolds, PTL

LEMMA PathLockInv == PathSpec => []LockInv
BY ImplementsServiceQueue, LockInvHolds, PTL

-----------------------------------------------------------------------------
(* The inductive invariant behind the theorems below: before the first pop  *)
(* returns there is no message anywhere past pop, a table only holds a      *)
(* message while its poll is in ServiceMsgPool::push, and since no poll     *)
(* returns from there, no log and no registry ever changes.                 *)
PoolInv ==
  /\ mServices = Services
  /\ mainPc # "exit" \/ Services = {}
  /\ \A t \in Threads : pc[t] \in {"find", "check", "push"} => poolLock # Nil
  /\ \A s \in Services :
       /\ mMsgs[s] # <<>> => poolLock # Nil
       /\ pc[s] = "recycle" => poolLock # Nil
       /\ pc[s] # "recycle" => table[s] = <<>>
       /\ log[s] = <<>>
       /\ pc[s] # "close"

LEMMA PoolInvInit == PathInit => PoolInv
BY PathAssumption DEF PathInit, Init, PoolInv

(* A thread moves and nothing else the invariant speaks of changes.         *)
LEMMA PoolMove ==
  ASSUME PoolInv, NEW t \in Threads, NEW l,
         pc[t] # "recycle", l \notin {"recycle", "close"},
         \A u \in Threads : pc'[u] = IF u = t THEN l ELSE pc[u],
         poolLock # Nil => poolLock' # Nil,
         l \in {"find", "check", "push"} => poolLock' # Nil,
         UNCHANGED <<mServices, mainPc, mMsgs>>,
         \A s \in Services : log'[s] = log[s] /\ table'[s] = table[s]
  PROVE  PoolInv'
<1> USE DEF PoolInv
<1>1. \A u \in Threads : pc'[u] \in {"find", "check", "push"} => poolLock' # Nil
  OBVIOUS
<1> QED
  BY <1>1

LEMMA PcIs == TypeInv => \A t \in Threads : \A l :
        [pc EXCEPT ![t] = l][t] = l
     /\ \A u \in Threads \ {t} : [pc EXCEPT ![t] = l][u] = pc[u]
BY DEF TypeInv, TypeOK

LEMMA PoolInvStep == TypeInv /\ PoolInv /\ [PathNext]_pathVars => PoolInv'
<1> SUFFICES ASSUME TypeInv, PoolInv, [PathNext]_pathVars PROVE PoolInv'
  OBVIOUS
<1> USE PathAssumption, QueueAssumption
<1>1. ASSUME NEW t \in Threads, PopMsg(t) PROVE PoolInv'
  <2>1. CASE CanLock
    <3>1. /\ pc[t] = "pop" /\ pc' = [pc EXCEPT ![t] = "find"] /\ poolLock' = t
          /\ UNCHANGED <<mServices, mainPc, mMsgs, table, log>>
      BY <1>1, <2>1 DEF PopMsg, Popped
    <3>2. t # Nil
      BY <1>1
    <3> QED
      BY <3>1, <3>2, PcIs, PoolMove
  <2>2. CASE ~CanLock
    BY <1>1, <2>2 DEF PopMsg, PoolInv
  <2> QED
    BY <2>1, <2>2
<1>2. ASSUME NEW t \in Threads, Find(t) \/ Check(t),
             UNCHANGED <<poolVars, mainVars>>
      PROVE  PoolInv'
  <2>1. /\ pc[t] \in {"find", "check"}
        /\ UNCHANGED <<mServices, mainPc, mMsgs, table, log, poolLock>>
    BY <1>2 DEF Find, Check
  <2>2. PICK l \in {"check", "push", "lua", "idle"} : pc' = [pc EXCEPT ![t] = l]
    BY <1>2 DEF Find, Check, Home
  <2>3. poolLock # Nil
    BY <2>1 DEF PoolInv
  <2> QED
    BY <2>1, <2>2, <2>3, PcIs, PoolMove
<1>4. ASSUME NEW t \in Threads, Push(t), UNCHANGED <<poolVars, mainVars>>
      PROVE  PoolInv'
  <2>1. /\ pc[t] = "push"
        /\ UNCHANGED <<mServices, mainPc, table, log, poolLock>>
    BY <1>4 DEF Push
  <2>2. PICK l \in {"lua", "idle"} : pc' = [pc EXCEPT ![t] = l]
    BY <1>4 DEF Push, Home
  <2>3. poolLock # Nil
    BY <2>1 DEF PoolInv
  <2> QED
    BY <2>1, <2>2, <2>3, PcIs DEF PoolInv
<1>5. ASSUME NEW s \in Services,
             PollEnter(s) \/ LockQueue(s), UNCHANGED <<poolVars, mainVars>>
      PROVE  PoolInv'
  <2>1. /\ pc[s] \in {"idle", "lock"}
        /\ UNCHANGED <<mServices, mainPc, mMsgs, table, log, poolLock>>
    BY <1>5 DEF PollEnter, LockQueue
  <2>2. PICK l \in {"lock", "drain"} : pc' = [pc EXCEPT ![s] = l]
    BY <1>5 DEF PollEnter, LockQueue
  <2> QED
    BY <2>1, <2>2, PcIs, PoolMove
<1>6. ASSUME NEW s \in Services, TakeFront(s), UNCHANGED <<poolVars, mainVars>>
      PROVE  PoolInv'
  <2>1. poolLock # Nil /\ poolLock' = poolLock
    BY <1>6 DEF TakeFront, PoolInv
  <2>2. /\ pc[s] = "drain" /\ pc' = [pc EXCEPT ![s] = "recycle"]
        /\ UNCHANGED <<mServices, mainPc, log>>
    BY <1>6 DEF TakeFront
  <2>3. \A r \in Services \ {s} : table'[r] = table[r]
    BY <1>6 DEF TakeFront, TypeInv, TypeOK
  <2>4. pc'[s] = "recycle" /\ \A u \in Threads \ {s} : pc'[u] = pc[u]
    BY <2>2, PcIs
  <2>5. \A r \in Services :
          /\ log'[r] = <<>> /\ pc'[r] # "close"
          /\ pc'[r] # "recycle" => table'[r] = <<>>
    BY <2>2, <2>3, <2>4 DEF PoolInv
  <2> HIDE DEF Threads
  <2> QED
    BY <2>1, <2>2, <2>5 DEF PoolInv
<1>7. ASSUME NEW s \in Services, HandOver(s), UNCHANGED <<poolVars, mainVars>>
      PROVE  PoolInv'
  <2>1. table[s] = <<>> /\ log[s] = <<>>
    BY <1>7 DEF HandOver, PoolInv
  <2>2. <<>> \o <<>> = <<>>
    OBVIOUS
  <2>3. /\ log' = [log EXCEPT ![s] = log[s] \o table[s]]
        /\ table' = [table EXCEPT ![s] = <<>>]
        /\ pc[s] = "drain" /\ pc' = [pc EXCEPT ![s] = "lua"]
        /\ UNCHANGED <<mServices, mainPc, mMsgs, poolLock>>
    BY <1>7 DEF HandOver
  <2>0. table \in [Services -> Seq(Messages)] /\ log \in [Services -> Seq(Messages)]
    BY DEF TypeInv, TypeOK
  <2>4. \A r \in Services : log'[r] = log[r]
    <3>1. log' = [log EXCEPT ![s] = <<>>]
      BY <2>1, <2>2, <2>3
    <3> QED
      BY <2>0, <2>1, <3>1
  <2>5. \A r \in Services : table'[r] = table[r]
    BY <2>0, <2>1, <2>3
  <2>6. \A u \in Threads : pc'[u] = IF u = s THEN "lua" ELSE pc[u]
    BY <2>3, PcIs
  <2>7. s \in Threads /\ pc[s] # "recycle"
    BY <2>3
  <2>8. UNCHANGED <<mServices, mainPc, mMsgs, poolLock>>
    BY <2>3
  <2> HIDE DEF Threads
  <2> QED
    BY <2>4, <2>5, <2>6, <2>7, <2>8, PoolMove
<1>8. ASSUME NEW s \in Services, Recycle(s) PROVE PoolInv'
  <2>1. poolLock # Nil
    BY <1>8 DEF Recycle, PoolInv
  <2> QED
    BY <1>8, <2>1 DEF Recycle, PoolInv
<1>9. ASSUME NEW s \in Services, LuaGoOn(s) PROVE PoolInv'
  <2>1. ~CloseSeen(s) /\ pc[s] # "close"
    BY DEF CloseSeen, PoolInv
  <2>2. LuaReturn(s) /\ UNCHANGED <<poolVars, mainVars>>
    BY <1>9, <2>1 DEF LuaGoOn
  <2>3. /\ pc[s] = "lua" /\ pc' = [pc EXCEPT ![s] = "idle"]
        /\ UNCHANGED <<mServices, mainPc, mMsgs, table, log, poolLock>>
    BY <2>2 DEF LuaReturn
  <2> QED
    BY <2>3, PcIs, PoolMove
<1>10. ASSUME NEW t \in Threads, NEW s \in Services, NEW k \in Kinds,
              BeginPost(t, s, k), UNCHANGED <<poolVars, mainPc>>
       PROVE  PoolInv'
  <2>1. pc[t] \in {"idle", "lua"} /\ pc' = [pc EXCEPT ![t] = "pop"]
    BY <1>10 DEF BeginPost, Home
  <2>2. UNCHANGED <<mServices, mainPc, mMsgs, table, log, poolLock>>
    BY <1>10 DEF BeginPost
  <2> QED
    BY <2>1, <2>2, PcIs, PoolMove
<1>11. CASE LuaExit \/ BeginClose
  BY <1>11 DEF LuaExit, BeginClose, PoolInv
<1>12. CASE WaitEmpty
  BY <1>12 DEF WaitEmpty, PoolInv
<1>13. CASE UNCHANGED pathVars
  BY <1>13 DEF PoolInv
<1>14. ASSUME NEW s \in Services, SendClose(s) PROVE PoolInv'
  BY <1>14, <1>10 DEF SendClose
<1>15. ASSUME NEW t \in Threads, NEW s \in Services, NEW k \in Kinds,
              LuaPost(t, s, k) \/ Event(t, s, k)
       PROVE  PoolInv'
  BY <1>15, <1>10 DEF LuaPost, Event
<1> HIDE DEF registryVars, queueVars, vars,
            Goto, EndPost, poolVars, mainVars
<1>16. ASSUME NEW t \in Threads, SendStep(t) PROVE PoolInv'
  BY <1>16, <1>1, <1>2, <1>4 DEF SendStep
<1>17. ASSUME NEW s \in Services, PollStep(s) PROVE PoolInv'
  BY <1>17, <1>5, <1>6, <1>7, <1>8, <1>9 DEF PollStep
<1> QED
  BY <1>11, <1>12, <1>13, <1>14, <1>15, <1>16, <1>17
  DEF PathNext, ShutdownStep, Threads

LEMMA PoolInvHolds == PathSpec => []PoolInv
BY PoolInvInit, PoolInvStep, PathTypeInv, PTL DEF PathSpec

-----------------------------------------------------------------------------
(* With ServiceMsgPool::pop as it is, no onPoll is ever given a message:    *)
(* no timer, no call, no response, no socket event, no Close.               *)
THEOREM NothingDeliveredHolds == PathSpec => []NothingDelivered
<1>1. PoolInv => NothingDelivered
  BY DEF PoolInv, NothingDelivered
<1> QED
  BY <1>1, PoolInvHolds, PTL

(* ... and a process with a registered service never gets past              *)
(* waitAllServiceClose.                                                     *)
THEOREM NeverExitsHolds == PathSpec => []NeverExits
<1>1. PoolInv => NeverExits
  BY DEF PoolInv, NeverExits
<1> QED
  BY <1>1, PoolInvHolds, PTL

(* The poll that takes the one message ends in ServiceMsgPool::push, with   *)
(* mMsgLock held: its worker and every later post to its service are lost.  *)
THEOREM ReceiverStuckHolds == PathSpec => ReceiverStuck
<1> DEFINE Stuck == \A s \in Services :
             pc[s] = "recycle" => pc'[s] = "recycle" /\ mMsgLock'[s] = s
<1>1. ASSUME TypeInv, PoolInv, LockInv', [PathNext]_pathVars PROVE Stuck
  <2> SUFFICES ASSUME NEW s \in Services, pc[s] = "recycle"
               PROVE  pc'[s] = "recycle"
    BY <1>1 DEF LockInv
  <2> USE <1>1 DEF TypeInv, TypeOK
  <2>1. poolLock # Nil
    BY DEF PoolInv
  <2>2. ASSUME NEW t \in Threads, SendStep(t) PROVE pc'[s] = "recycle"
    BY <2>2 DEF SendStep, PopMsg, Popped, Find, Check, Push
  <2>3. ASSUME NEW r \in Services, Recycle(r) PROVE pc'[s] = "recycle"
    BY <2>1, <2>3 DEF Recycle
  <2>4. ASSUME NEW r \in Services,
               PollEnter(r) \/ LockQueue(r) \/ TakeFront(r) \/ HandOver(r)
        PROVE  pc'[s] = "recycle"
    BY <2>4 DEF PollEnter, LockQueue, TakeFront, HandOver
  <2>5. ASSUME NEW r \in Services, LuaGoOn(r) PROVE pc'[s] = "recycle"
    BY <2>5 DEF LuaGoOn, FinishDestroy, BeginDestroy, LuaReturn
  <2>6. ASSUME NEW t \in Threads, NEW r \in Services, NEW k \in Kinds,
               BeginPost(t, r, k)
        PROVE  pc'[s] = "recycle"
    BY <2>6 DEF BeginPost, Home
  <2>7. CASE LuaExit \/ BeginClose \/ WaitEmpty \/ UNCHANGED pathVars
    BY <2>7 DEF LuaExit, BeginClose, WaitEmpty
  <2> HIDE DEF TypeInv, TypeOK, registryVars, queueVars, vars, Goto, EndPost
  <2> QED
    BY <2>2, <2>3, <2>4, <2>5, <2>6, <2>7, PathAssumption
    DEF PathNext, PollStep, ShutdownStep, SendClose, LuaPost, Event, Threads
<1>2. TypeInv /\ PoolInv /\ LockInv' /\ [PathNext]_pathVars => [Stuck]_pathVars
  BY <1>1
<1> QED
  BY <1>2, PathTypeInv, PoolInvHolds, PathLockInv, PTL DEF PathSpec, ReceiverStuck

-----------------------------------------------------------------------------
(* Why one message at most is past pop: the thread that carries it holds    *)
(* the pool lock, and while it carries it no queue and no table has one.    *)
OneInv ==
  /\ \A t \in Threads : pc[t] \in {"find", "check", "push"} =>
       poolLock = t /\ \A s \in Services : mMsgs[s] = <<>> /\ table[s] = <<>>
  /\ \A s \in Services :
       /\ mMsgs[s] = <<>> \/ \E m \in Messages : mMsgs[s] = <<m>>
       /\ table[s] = <<>> \/ \E m \in Messages : table[s] = <<m>>
       /\ mMsgs[s] = <<>> \/ table[s] = <<>>
  /\ \A s \in Services :
       mMsgs[s] # <<>> \/ table[s] # <<>> =>
         /\ poolLock # Nil
         /\ \A r \in Services \ {s} : mMsgs[r] = <<>> /\ table[r] = <<>>

(* A thread moves and no message does.                                      *)
LEMMA OneMove ==
  ASSUME OneInv, UNCHANGED <<mMsgs, table, poolLock>>, NEW t \in Threads,
         \A u \in Threads \ {t} : pc'[u] = pc[u],
         pc'[t] \in {"find", "check", "push"} =>
           pc[t] \in {"find", "check", "push"}
  PROVE  OneInv'
<1>1. \A u \in Threads : pc'[u] \in {"find", "check", "push"} =>
                           pc[u] \in {"find", "check", "push"}
  OBVIOUS
<1> HIDE DEF Threads
<1> QED
  BY <1>1 DEF OneInv

LEMMA OneStep ==
  ASSUME TypeInv, PoolInv, OneInv, [PathNext]_pathVars
  PROVE  OneInv'
<1> USE PathAssumption, QueueAssumption
<1>1. ASSUME NEW t \in Threads, PopMsg(t) PROVE OneInv'
  <2>1. CASE poolLock = Nil
    <3>1. /\ pc' = [pc EXCEPT ![t] = "find"] /\ poolLock' = t
          /\ UNCHANGED <<mMsgs, table>>
      BY <1>1, <2>1 DEF PopMsg, Popped, CanLock
    <3>2. \A s \in Services : mMsgs[s] = <<>> /\ table[s] = <<>>
      BY <2>1 DEF OneInv
    <3>3. \A u \in Threads \ {t} : pc[u] \notin {"find", "check", "push"}
      BY <2>1 DEF PoolInv
    <3>4. \A u \in Threads : pc'[u] \in {"find", "check", "push"} => u = t
      BY <3>1, <3>3, PcIs
    <3> HIDE DEF Threads
    <3> QED
      BY <3>1, <3>2, <3>4 DEF OneInv
  <2>2. CASE poolLock # Nil
    BY <1>1, <2>2 DEF PopMsg, CanLock, OneInv
  <2> QED
    BY <2>1, <2>2
<1>2. ASSUME NEW t \in Threads, Find(t) \/ Check(t),
             UNCHANGED <<poolVars, mainVars>>
      PROVE  OneInv'
  <2>1. /\ pc[t] \in {"find", "check"}
        /\ UNCHANGED <<mMsgs, table, poolLock>>
    BY <1>2 DEF Find, Check
  <2>2. PICK l : pc' = [pc EXCEPT ![t] = l]
    BY <1>2 DEF Find, Check
  <2> QED
    BY <2>1, <2>2, PcIs, OneMove
<1>3. ASSUME NEW t \in Threads, Push(t), UNCHANGED <<poolVars, mainVars>>
      PROVE  OneInv'
  <2> DEFINE r == hand[t].to
  <2>1. /\ pc[t] = "push" /\ poolLock = t /\ poolLock' = t /\ t # Nil
        /\ \A s \in Services : mMsgs[s] = <<>> /\ table[s] = <<>>
        /\ r \in Services
    <3>1. pc[t] = "push" /\ poolLock' = poolLock
      BY <1>3 DEF Push
    <3>2. poolLock = t /\ \A s \in Services : mMsgs[s] = <<>> /\ table[s] = <<>>
      BY <3>1 DEF OneInv
    <3>3. r \in Services
      BY <3>1, HandTo DEF TypeInv, InHand
    <3> QED
      BY <3>1, <3>2, <3>3
  <2>2. /\ table' = table
        /\ mMsgs'[r] = Append(<<>>, hand[t])
        /\ \A s \in Services \ {r} : mMsgs'[s] = <<>>
    <3>1. mMsgs' = [mMsgs EXCEPT ![r] = Append(mMsgs[r], hand[t])]
          /\ table' = table
      BY <1>3 DEF Push
    <3> HIDE DEF r
    <3> QED
      BY <2>1, <3>1 DEF TypeInv, TypeOK
  <2>3. hand[t] \in Messages /\ mMsgs'[r] = <<hand[t]>>
    BY <1>3, <2>2 DEF Push, TypeInv, InHand
  <2>4. \A u \in Threads : pc'[u] \notin {"find", "check", "push"}
    <3>1. pc' = [pc EXCEPT ![t] = Home(t)]
      BY <1>3 DEF Push
    <3>2. \A u \in Threads \ {t} : pc[u] \notin {"find", "check", "push"}
      BY <2>1 DEF OneInv
    <3>3. Home(t) \in {"lua", "idle"}
      BY DEF Home
    <3> QED
      BY <3>1, <3>2, <3>3, PcIs
  <2> HIDE DEF r, Threads
  <2> QED
    BY <2>1, <2>2, <2>3, <2>4 DEF OneInv
<1>4. ASSUME NEW s \in Services, PollEnter(s) \/ LockQueue(s),
             UNCHANGED <<poolVars, mainVars>>
      PROVE  OneInv'
  <2>1. UNCHANGED <<mMsgs, table, poolLock>>
    BY <1>4 DEF PollEnter, LockQueue
  <2>2. PICK l \in {"lock", "drain"} : pc' = [pc EXCEPT ![s] = l]
    BY <1>4 DEF PollEnter, LockQueue
  <2> QED
    BY <2>1, <2>2, PcIs, OneMove
<1>5. ASSUME NEW s \in Services, TakeFront(s), UNCHANGED <<poolVars, mainVars>>
      PROVE  OneInv'
  <2>1. /\ mMsgs[s] # <<>> /\ poolLock' = poolLock
        /\ mMsgs' = [mMsgs EXCEPT ![s] = Tail(mMsgs[s])]
        /\ table' = [table EXCEPT ![s] = Append(table[s], Head(mMsgs[s]))]
        /\ pc' = [pc EXCEPT ![s] = "recycle"]
    BY <1>5 DEF TakeFront, NextMessage
  <2>2. /\ table[s] = <<>> /\ poolLock # Nil
        /\ \A r \in Services \ {s} : mMsgs[r] = <<>> /\ table[r] = <<>>
        /\ \A u \in Threads : pc[u] \notin {"find", "check", "push"}
    BY <2>1 DEF OneInv
  <2>3. PICK m \in Messages : mMsgs[s] = <<m>>
    BY <2>1 DEF OneInv
  <2>4. Append(<<>>, Head(<<m>>)) = <<m>> /\ Tail(<<m>>) = <<>>
    OBVIOUS
  <2>5. /\ mMsgs'[s] = <<>> /\ table'[s] = <<m>>
        /\ \A r \in Services \ {s} : mMsgs'[r] = <<>> /\ table'[r] = <<>>
    BY <2>1, <2>2, <2>3, <2>4 DEF TypeInv, TypeOK
  <2>6. \A u \in Threads : pc'[u] \notin {"find", "check", "push"}
    BY <2>1, <2>2, PcIs
  <2> HIDE DEF Threads
  <2> QED
    BY <2>1, <2>2, <2>5, <2>6 DEF OneInv
<1>6. ASSUME NEW s \in Services, HandOver(s), UNCHANGED <<poolVars, mainVars>>
      PROVE  OneInv'
  <2>1. /\ pc[s] = "drain" /\ pc' = [pc EXCEPT ![s] = "lua"]
        /\ table' = [table EXCEPT ![s] = <<>>]
        /\ UNCHANGED <<mMsgs, poolLock>>
    BY <1>6 DEF HandOver
  <2>2. table' = table
    BY <2>1 DEF PoolInv, TypeInv, TypeOK
  <2> QED
    BY <2>1, <2>2, PcIs, OneMove
<1>7. ASSUME NEW s \in Services, Recycle(s) PROVE OneInv'
  <2>1. poolLock # Nil
    BY <1>7 DEF Recycle, PoolInv
  <2> QED
    BY <1>7, <2>1 DEF Recycle, OneInv
<1>8. ASSUME NEW s \in Services, LuaGoOn(s) PROVE OneInv'
  <2>1. UNCHANGED <<mMsgs, table, poolLock>>
    BY <1>8 DEF LuaGoOn, FinishDestroy, BeginDestroy, LuaReturn
  <2>2. PICK l \in {"lua", "close", "idle"} : pc' = [pc EXCEPT ![s] = l]
    BY <1>8 DEF LuaGoOn, FinishDestroy, BeginDestroy, LuaReturn
  <2> QED
    BY <2>1, <2>2, PcIs, OneMove
<1>9. ASSUME NEW t \in Threads, NEW s \in Services, NEW k \in Kinds,
             BeginPost(t, s, k), UNCHANGED poolVars
      PROVE  OneInv'
  <2>1. UNCHANGED <<mMsgs, table, poolLock>> /\ pc' = [pc EXCEPT ![t] = "pop"]
    BY <1>9 DEF BeginPost
  <2> QED
    BY <2>1, PcIs, OneMove
<1>10. CASE LuaExit \/ BeginClose \/ WaitEmpty \/ UNCHANGED pathVars
  BY <1>10 DEF LuaExit, BeginClose, WaitEmpty, OneInv
<1> HIDE DEF registryVars, queueVars, vars, Goto, EndPost
<1>11. ASSUME NEW t \in Threads, SendStep(t) PROVE OneInv'
  BY <1>11, <1>1, <1>2, <1>3 DEF SendStep
<1>12. ASSUME NEW s \in Services, PollStep(s) PROVE OneInv'
  BY <1>12, <1>4, <1>5, <1>6, <1>7, <1>8 DEF PollStep
<1> QED
  BY <1>9, <1>10, <1>11, <1>12
  DEF PathNext, ShutdownStep, SendClose, LuaPost, Event, Threads

(* The first pop that returns is the last, so one message at most is ever   *)
(* past it, however many threads post and however large the pool is.        *)
THEOREM OneMessageEverHolds == PathSpec => []OneMessageEver
<1>1. PathInit => OneInv
  BY DEF PathInit, Init, OneInv
<1>2. TypeInv /\ PoolInv /\ OneInv /\ [PathNext]_pathVars => OneInv'
  BY OneStep
<1>3. TypeInv /\ OneInv => OneMessageEver
  <2> SUFFICES ASSUME TypeInv, OneInv PROVE OneMessageEver
    OBVIOUS
  <2>1. \A m : <<m>> \o <<>> = <<m>> /\ <<>> \o <<m>> = <<m>> /\ Len(<<m>>) = 1
    OBVIOUS
  <2>2. <<>> \o <<>> = <<>> /\ Len(<<>>) = 0
    OBVIOUS
  <2>3. \A s \in Services :
          /\ Held(s) = <<>> \/ \E m \in Messages : Held(s) = <<m>>
          /\ Held(s) # <<>> => mMsgs[s] # <<>> \/ table[s] # <<>>
    BY <2>1, <2>2 DEF Held, OneInv
  <2>4. \A r, s \in Services : Held(r) # <<>> /\ Held(s) # <<>> => r = s
    BY <2>3 DEF OneInv
  <2>5. \A s \in Services : Len(Held(s)) <= 1
    <3> SUFFICES ASSUME NEW s \in Services PROVE Len(Held(s)) <= 1
      OBVIOUS
    <3>1. CASE Held(s) = <<>>
      BY <3>1
    <3>2. ASSUME NEW m \in Messages, Held(s) = <<m>> PROVE Len(Held(s)) <= 1
      BY <3>2
    <3> QED
      BY <2>3, <3>1, <3>2
  <2> QED
    BY <2>4, <2>5 DEF OneMessageEver
<1> QED
  BY <1>1, <1>2, <1>3, PathTypeInv, PoolInvHolds, PTL DEF PathSpec

-----------------------------------------------------------------------------
(* What the pool and the shutdown keep, types only.                         *)
OwnTypes ==
  /\ poolLock \in Threads \union {Nil}
  /\ spare \in Nat
  /\ isRun \in BOOLEAN
  /\ mainPc \in {"run", "closing", "exit"}
  /\ ids \subseteq Services

LEMMA OwnTypesStep == PoolInv /\ OwnTypes /\ [PathNext]_pathVars => OwnTypes'
<1> SUFFICES ASSUME PoolInv, OwnTypes, [PathNext]_pathVars PROVE OwnTypes'
  OBVIOUS
<1> HIDE DEF Threads, vars, registryVars, queueVars, Goto, EndPost
<1> USE DEF OwnTypes
<1>1. ASSUME NEW t \in Threads, SendStep(t) PROVE OwnTypes'
  <2>1. CASE PopMsg(t)
    BY <1>1, <2>1 DEF PopMsg
  <2>2. CASE UNCHANGED <<poolVars, mainVars>>
    BY <2>2
  <2> QED
    BY <1>1, <2>1, <2>2 DEF SendStep
<1>2. ASSUME NEW s \in Services, PollStep(s) PROVE OwnTypes'
  BY <1>2 DEF PollStep, Recycle, LuaGoOn
<1>3. CASE ShutdownStep
  <2>1. mServices \subseteq Services
    BY DEF PoolInv
  <2> QED
    BY <1>3, <2>1 DEF ShutdownStep, BeginClose, SendClose, WaitEmpty
<1>4. CASE LuaExit \/ UNCHANGED pathVars
  BY <1>4 DEF LuaExit
<1>5. ASSUME NEW t \in Threads \union Services, NEW s \in Services, NEW k \in Kinds,
             LuaPost(t, s, k) \/ Event(t, s, k)
      PROVE  OwnTypes'
  BY <1>5 DEF LuaPost, Event
<1> QED
  BY <1>1, <1>2, <1>3, <1>4, <1>5 DEF PathNext, Threads

(* What is left of the message path, for any services, threads and pool:    *)
(* one message past pop, and none delivered.                                *)
THEOREM PathBlockedHolds == PathSpec => []PathBlocked
<1>1. PathInit => OwnTypes
  BY PathAssumption DEF PathInit, OwnTypes
<1>2. PoolInv /\ OwnTypes /\ [PathNext]_pathVars => OwnTypes'
  BY OwnTypesStep
<1>3. TypeInv /\ OwnTypes => PathTypeOK
  BY DEF TypeInv, OwnTypes, PathTypeOK
<1>4. PathTypeOK /\ OneMessageEver /\ NothingDelivered => PathBlocked
  BY DEF PathBlocked
<1> QED
  BY <1>1, <1>2, <1>3, <1>4, PathTypeInv, PoolInvHolds, OneMessageEverHolds,
     NothingDeliveredHolds, PTL DEF PathSpec

=============================================================================

----------------------- MODULE WebsocketServer_proofs -----------------------
(* Theorems about WebsocketServer, for any connections, messages and calls. *)
EXTENDS WebsocketServer, FiniteSetTheorems, TLAPS

USE BoundAssumption, NameAssumption

(* The connections whose Open has drawn its fd and raised mAutoId.          *)
Raised == {c \in Conns : pc[c] \notin {"none", "drawn"}}

(* Each raise of mAutoId is that of one Open, so however the raises of two  *)
(* threads overlap, mAutoId never gets ahead of their number.               *)
FdInv ==
  /\ mAutoId \in Nat /\ 1 <= mAutoId /\ mAutoId <= Cardinality(Raised) + 1
  /\ \A c \in Conns : fdOf[c] = 0 <=> pc[c] = "none"
  /\ \A c \in Conns : pc[c] = "drawn" => fdOf[c] <= Cardinality(Raised) + 1

TypeInv == TypeOK /\ FdInv
-----------------------------------------------------------------------------
(* Types.                                                                   *)

LEMMA RaisedSize ==
  /\ IsFiniteSet(Raised) /\ Cardinality(Raised) \in Nat
  /\ Cardinality(Conns) \in Nat /\ Cardinality(Raised) <= Cardinality(Conns)
  /\ \A c \in Conns : pc[c] \in {"none", "drawn"} =>
       Cardinality(Raised) + 1 <= Cardinality(Conns)
<1>1. Raised \subseteq Conns /\ IsFiniteSet(Conns)
  BY DEF Raised
<1>2. /\ IsFiniteSet(Raised) /\ Cardinality(Raised) <= Cardinality(Conns)
      /\ Cardinality(Conns) = Cardinality(Raised) => Conns = Raised
  BY <1>1, FS_Subset
<1>3. Cardinality(Raised) \in Nat /\ Cardinality(Conns) \in Nat
  BY <1>1, <1>2, FS_CardinalityType
<1>4. \A c \in Conns : pc[c] \in {"none", "drawn"} => Conns # Raised
  BY DEF Raised
<1> QED
  BY <1>2, <1>3, <1>4

(* A connection that moves on and raises nothing.                           *)
LEMMA FdMove ==
  ASSUME TypeInv, NEW c \in Conns, NEW l \in ConnPcs \ {"none", "drawn"},
         pc[c] \notin {"none", "drawn"}, pc' = [pc EXCEPT ![c] = l],
         UNCHANGED <<mAutoId, fdOf>>
  PROVE  FdInv'
<1>1. Raised' = Raised
  BY DEF TypeInv, TypeOK, Raised
<1> QED
  BY <1>1 DEF TypeInv, TypeOK, FdInv

LEMMA FdSame == TypeInv /\ UNCHANGED <<mAutoId, fdOf, pc>> => FdInv'
<1> SUFFICES ASSUME TypeInv, UNCHANGED <<mAutoId, fdOf, pc>> PROVE FdInv'
  OBVIOUS
<1>1. Raised' = Raised
  BY DEF Raised
<1> QED
  BY <1>1 DEF TypeInv, FdInv

(* The fd of a connection past its Open, and the next fd, are numbers of    *)
(* Fds and right behind them.                                               *)
LEMMA FdRange ==
  ASSUME TypeInv
  PROVE  /\ \A c \in Conns : pc[c] # "none" => fdOf[c] \in Fds
         /\ \A c \in Conns : pc[c] = "none" => mAutoId \in Fds
         /\ \A k \in Nat : 1 <= k /\ k <= Cardinality(Raised) + 1 =>
              k \in Fds \union {Cardinality(Conns) + 1}
<1>1. \A c \in Conns : pc[c] # "none" => fdOf[c] \in Fds
  BY DEF TypeInv, TypeOK, FdInv
<1>2. \A c \in Conns : pc[c] = "none" => mAutoId \in Fds
  BY RaisedSize DEF TypeInv, FdInv, Fds
<1>3. \A k \in Nat : 1 <= k /\ k <= Cardinality(Raised) + 1 =>
        k \in Fds \union {Cardinality(Conns) + 1}
  BY RaisedSize DEF Fds
<1> QED
  BY <1>1, <1>2, <1>3

LEMMA TypeInit == Init => TypeInv
<1> SUFFICES ASSUME Init PROVE TypeInv
  OBVIOUS
<1>1. Raised = {} /\ Cardinality(Raised) = 0
  BY FS_EmptySet DEF Init, Raised
<1>2. 1 \in Fds \union {Cardinality(Conns) + 1}
  BY RaisedSize DEF Fds
<1>3. TypeOK
  <2>1. /\ pc \in [Conns -> ConnPcs] /\ fdOf \in [Conns -> {0} \union Fds]
        /\ msgs \in [Conns -> 0..MaxMsgs] /\ calls \in 0..MaxCalls
    BY DEF Init, ConnPcs
  <2>2. broken \in [Conns -> BOOLEAN]
    BY Zenon DEF Init
  <2>3. /\ mSessions \in [Fds -> Conns \union {Nil}]
        /\ mReverseSessions \in [Conns -> {0} \union Fds]
        /\ posted \in Seq([event : Events, fd : Fds, conn : Conns])
        /\ early \subseteq Conns /\ callback \subseteq Events
    BY DEF Init
  <2> QED
    BY <1>2, <2>1, <2>2, <2>3 DEF Init, TypeOK, LuaPcs
<1>4. FdInv
  BY <1>1 DEF Init, FdInv
<1> QED
  BY <1>3, <1>4 DEF TypeInv

(* What a post leaves in the queue of the service.                          *)
LEMMA PostTypes ==
  ASSUME TypeOK, NEW c \in Conns, NEW e \in Events, NEW fd \in Fds,
         Post(c, e, fd)
  PROVE  /\ posted' \in Seq([event : Events, fd : Fds, conn : Conns])
         /\ early' \subseteq Conns /\ crashed' \in BOOLEAN
<1>1. [event |-> e, fd |-> fd, conn |-> c]
        \in [event : Events, fd : Fds, conn : Conns]
  OBVIOUS
<1>2. posted' \in Seq([event : Events, fd : Fds, conn : Conns])
  <2> DEFINE told == [event |-> e, fd |-> fd, conn |-> c]
             Told == [event : Events, fd : Fds, conn : Conns]
  <2>1. posted \in Seq(Told) /\ told \in Told
    BY <1>1 DEF TypeOK
  <2>2. posted' = posted \/ posted' = Append(posted, told)
    BY DEF Post
  <2> HIDE DEF told, Told
  <2>3. posted' \in Seq(Told)
    BY <2>1, <2>2
  <2> QED
    BY <2>3 DEF Told
<1>3. early' \subseteq Conns
  BY DEF TypeOK, Post
<1>4. crashed' \in {FALSE, luaPc = SetPc[e]}
  BY DEF Post
<1>5. (luaPc = SetPc[e]) \in BOOLEAN
  OBVIOUS
<1>6. crashed' \in BOOLEAN
  BY <1>4, <1>5, Zenon
<1> QED
  BY <1>2, <1>3, <1>6

LEMMA OpenDrawTypes ==
  ASSUME TypeInv, NEW c \in Conns, OpenDraw(c) PROVE TypeInv'
<1>1. /\ pc[c] = "none" /\ pc' = [pc EXCEPT ![c] = "drawn"]
      /\ fdOf' = [fdOf EXCEPT ![c] = mAutoId] /\ mAutoId \in Fds
      /\ UNCHANGED <<serverVars, mapVars, msgs, broken, luaVars, posted, early,
                     crashed>>
  BY FdRange DEF OpenDraw, ConnGoto
<1>2. TypeOK'
  BY <1>1 DEF TypeInv, TypeOK, serverVars, mapVars, luaVars, ConnPcs
<1>3. Raised' = Raised
  BY <1>1 DEF TypeInv, TypeOK, Raised
<1>4. FdInv'
  BY <1>1, <1>3 DEF TypeInv, TypeOK, FdInv, mapVars
<1> QED
  BY <1>2, <1>4 DEF TypeInv

LEMMA OpenRaiseTypes ==
  ASSUME TypeInv, NEW c \in Conns, OpenRaise(c) PROVE TypeInv'
<1> DEFINE fd == fdOf[c]
<1>1. /\ pc[c] = "drawn" /\ pc' = [pc EXCEPT ![c] = "raised"]
      /\ mAutoId' \in {fd + 1, mAutoId + 1} /\ fd \in Fds
      /\ UNCHANGED <<serverVars, mSessions, mReverseSessions, mLock, fdOf, msgs,
                     broken, luaVars, posted, early, crashed>>
  BY FdRange DEF OpenRaise, ConnGoto, NextFd
<1>2. Raised' = Raised \union {c} /\ c \notin Raised
  BY <1>1 DEF TypeInv, TypeOK, Raised
<1>3. /\ Cardinality(Raised') = Cardinality(Raised) + 1
      /\ Cardinality(Raised) \in Nat
      /\ Cardinality(Raised) + 1 <= Cardinality(Conns)
      /\ Cardinality(Conns) \in Nat
  BY <1>1, <1>2, RaisedSize, FS_AddElement
<1>4. /\ fd \in Nat /\ fd >= 1 /\ fd <= Cardinality(Raised) + 1
      /\ mAutoId \in Nat /\ mAutoId >= 1 /\ mAutoId <= Cardinality(Raised) + 1
  BY <1>1, <1>3 DEF TypeInv, FdInv, Fds
<1>5. mAutoId' \in Nat /\ 1 <= mAutoId' /\ mAutoId' <= Cardinality(Raised') + 1
  BY <1>1, <1>3, <1>4
<1>6. mAutoId' \in Fds \union {Cardinality(Conns) + 1}
  BY <1>1, <1>3, <1>4 DEF Fds
<1>7. TypeOK'
  <2>1. pc' \in [Conns -> ConnPcs]
    BY <1>1 DEF TypeInv, TypeOK, ConnPcs
  <2> QED
    BY <1>1, <1>6, <2>1 DEF TypeInv, TypeOK, serverVars, luaVars
<1>8. \A d \in Conns : fdOf'[d] = 0 <=> pc'[d] = "none"
  BY <1>1 DEF TypeInv, TypeOK, FdInv
<1>9. \A d \in Conns : pc'[d] = "drawn" => fdOf'[d] <= Cardinality(Raised') + 1
  <2> SUFFICES ASSUME NEW d \in Conns, pc'[d] = "drawn"
               PROVE  fdOf'[d] <= Cardinality(Raised') + 1
    OBVIOUS
  <2>1. pc[d] = "drawn" /\ fdOf'[d] = fdOf[d]
    BY <1>1 DEF TypeInv, TypeOK
  <2>2. fdOf[d] <= Cardinality(Raised) + 1 /\ fdOf[d] \in Nat
    BY <2>1, FdRange DEF TypeInv, FdInv, Fds
  <2> QED
    BY <1>3, <2>1, <2>2
<1> QED
  BY <1>5, <1>7, <1>8, <1>9 DEF TypeInv, FdInv

LEMMA OpenInsertTypes ==
  ASSUME TypeInv, NEW c \in Conns, OpenInsert(c) PROVE TypeInv'
<1> DEFINE fd == fdOf[c]
<1>1. /\ pc[c] = "raised" /\ pc' = [pc EXCEPT ![c] = "open"]
      /\ mSessions' = [mSessions EXCEPT ![fd] = IF @ = Nil THEN c ELSE @]
      /\ mReverseSessions' = [mReverseSessions EXCEPT ![c] = fd]
      /\ fd \in Fds
      /\ UNCHANGED <<serverVars, mAutoId, mLock, fdOf, msgs, broken, luaVars,
                     posted, early, crashed>>
  BY FdRange DEF OpenInsert, ConnGoto, AfterInsert
<1>2. FdInv'
  BY <1>1, FdMove DEF ConnPcs
<1>3. TypeOK'
  <2>1. mSessions' \in [Fds -> Conns \union {Nil}]
    BY <1>1 DEF TypeInv, TypeOK
  <2>2. mReverseSessions' \in [Conns -> {0} \union Fds]
    BY <1>1 DEF TypeInv, TypeOK
  <2>3. pc' \in [Conns -> ConnPcs]
    BY <1>1 DEF TypeInv, TypeOK, ConnPcs
  <2> QED
    BY <1>1, <2>1, <2>2, <2>3 DEF TypeInv, TypeOK, serverVars, luaVars
<1> QED
  BY <1>2, <1>3 DEF TypeInv

LEMMA CloseBeginTypes ==
  ASSUME TypeInv, NEW c \in Conns, NEW t \in Conns \union {Lua},
         CloseBegin(c, t)
  PROVE  /\ posted' \in Seq([event : Events, fd : Fds, conn : Conns])
         /\ early' \subseteq Conns /\ crashed' \in BOOLEAN
         /\ mLock' \in Conns \union {Lua, Nil}
<1>1. mReverseSessions[c] \in Fds /\ "close" \in Events
  BY DEF CloseBegin, TypeInv, TypeOK, Events
<1> QED
  BY <1>1, PostTypes DEF CloseBegin, TypeInv

LEMMA CloseEndTypes ==
  ASSUME TypeInv, NEW c \in Conns, NEW t \in Conns \union {Lua},
         CloseEnd(c, t)
  PROVE  /\ mSessions' \in [Fds -> Conns \union {Nil}]
         /\ mReverseSessions' \in [Conns -> {0} \union Fds]
         /\ mLock' \in Conns \union {Lua, Nil}
BY DEF CloseEnd, Erased, Unlocked, TypeInv, TypeOK

(* The steps of a connection past its Open.                                 *)
LEMMA ConnTypes ==
  ASSUME TypeInv, NEW c \in Conns,
         \/ OpenPost(c) \/ MessageFind(c) \/ MessagePost(c) \/ End(c)
         \/ ConnClose(c) \/ Free(c)
  PROVE  TypeInv'
<1>0. FdInv'
  <2>1. /\ pc[c] \notin {"none", "drawn"} /\ UNCHANGED <<mAutoId, fdOf>>
        /\ \E l \in ConnPcs \ {"none", "drawn"} : pc' = [pc EXCEPT ![c] = l]
    BY DEF OpenPost, MessageFind, MessagePost, End, ConnClose, Free, CloseBegin,
           CloseEnd, ConnGoto, ConnPcs, mapVars
  <2> QED
    BY <2>1, FdMove
<1> SUFFICES TypeOK'
  BY <1>0 DEF TypeInv
<1> USE DEF ConnGoto, ConnPcs, TypeInv, TypeOK, serverVars, mapVars, luaVars
<1>1. CASE OpenPost(c) \/ MessagePost(c)
  <2>1. PICK e \in Events : Post(c, e, fdOf[c])
    BY <1>1 DEF OpenPost, MessagePost, Events
  <2>2. /\ pc[c] \in {"open", "msg"} /\ pc' = [pc EXCEPT ![c] = "idle"]
        /\ UNCHANGED <<serverVars, mapVars, fdOf, msgs, broken, luaVars>>
    BY <1>1 DEF OpenPost, MessagePost
  <2>3. fdOf[c] \in Fds
    BY <2>2, FdRange
  <2>4. /\ posted' \in Seq([event : Events, fd : Fds, conn : Conns])
        /\ early' \subseteq Conns /\ crashed' \in BOOLEAN
    BY <2>1, <2>3, PostTypes
  <2> QED
    BY <2>2, <2>4
<1>2. CASE MessageFind(c)
  <2>1. PICK l \in {"idle", "msg"} : pc' = [pc EXCEPT ![c] = l]
    BY <1>2 DEF MessageFind
  <2>2. /\ pc[c] = "idle" /\ msgs[c] < MaxMsgs
        /\ msgs' = [msgs EXCEPT ![c] = @ + 1]
        /\ UNCHANGED <<serverVars, mapVars, fdOf, broken, luaVars, posted, early,
                       crashed>>
    BY <1>2 DEF MessageFind
  <2>3. msgs' \in [Conns -> 0..MaxMsgs]
    BY <2>2
  <2> QED
    BY <2>1, <2>2, <2>3
<1>3. CASE End(c) \/ Free(c)
  <2>1. PICK l \in {"close", "freed"} : pc' = [pc EXCEPT ![c] = l]
    BY <1>3 DEF End, Free
  <2>2. /\ pc[c] \in {"idle", "left"}
        /\ UNCHANGED <<serverVars, mapVars, fdOf, msgs, broken, luaVars, posted,
                       early, crashed>>
    BY <1>3 DEF End, Free
  <2> QED
    BY <2>1, <2>2
<1>4. CASE pc[c] = "close" /\ CloseBegin(c, c) /\ ConnGoto(c, "erase")
             /\ UNCHANGED <<luaPc, luaOn>>
  <2>1. UNCHANGED <<serverVars, mAutoId, mSessions, mReverseSessions, fdOf, msgs,
                    broken, calls>>
    BY <1>4 DEF CloseBegin
  <2> QED
    BY <1>4, <2>1, CloseBeginTypes
<1>5. CASE pc[c] = "erase" /\ CloseEnd(c, c) /\ ConnGoto(c, "left")
             /\ UNCHANGED <<luaPc, luaOn>>
  <2>1. UNCHANGED <<serverVars, mAutoId, fdOf, msgs, broken, calls, posted, early,
                    crashed>>
    BY <1>5 DEF CloseEnd
  <2> QED
    BY <1>5, <2>1, CloseEndTypes
<1> QED
  BY <1>1, <1>2, <1>3, <1>4, <1>5 DEF ConnClose

(* A call knows its connection until it is over.                            *)
OnInv == luaPc \in {"send", "stuck", "closeSocket", "close", "erase"} =>
           luaOn \in Conns

LEMMA LuaTypes ==
  ASSUME TypeInv, OnInv,
         \/ NewServer \/ DestroyServer \/ Listen \/ InCall
         \/ \E fd \in Fds : Send(fd) \/ Close(fd)
  PROVE  TypeInv' /\ OnInv'
<1> USE DEF LuaGoto, LuaPcs, TypeInv, TypeOK, OnInv,
            serverVars, mapVars, connVars, luaVars
<1>1. CASE NewServer \/ DestroyServer \/ Listen
  BY <1>1, FdSame DEF NewServer, DestroyServer, Listen
<1>2. ASSUME NEW e \in Events, SetCallback(e) PROVE TypeInv' /\ OnInv'
  <2>1. PICK l \in {"setMsg", "setClose", "idle"} : luaPc' = l /\ luaOn' = Nil
    BY <1>2 DEF SetCallback, Events
  <2>2. /\ callback' = callback \union {e}
        /\ UNCHANGED <<registered, mServer, started, mapVars, connVars, calls,
                       posted, early, crashed>>
    BY <1>2 DEF SetCallback
  <2> QED
    BY <2>1, <2>2, FdSame
<1>3. ASSUME NEW fd \in Fds, Send(fd) \/ Close(fd) PROVE TypeInv' /\ OnInv'
  <2>1. PICK l \in {"send", "closeSocket"} : BeginOn(fd, l)
    BY <1>3 DEF Send, Close
  <2>2. mLock' \in {Lua, mLock}
    BY <1>3 DEF Send, Close
  <2>3. /\ mSessions[fd] \in Conns /\ calls' \in 0..MaxCalls
        /\ luaPc' = l /\ luaOn' = mSessions[fd]
        /\ UNCHANGED <<serverVars, mAutoId, mSessions, mReverseSessions, connVars,
                       posted, early, crashed>>
    BY <2>1 DEF BeginOn
  <2> QED
    BY <2>2, <2>3, FdSame
<1>4. CASE SendEnd \/ CloseSocket
  BY <1>4, FdSame DEF SendEnd, CloseSocket, Unlocked
<1>5. CASE SendBreaks \/ CloseBreaks
  BY <1>5, FdSame DEF SendBreaks, CloseBreaks, BreaksUnder
<1>6. CASE luaPc = "close" /\ CloseBegin(luaOn, Lua) /\ LuaGoto("erase", luaOn)
             /\ UNCHANGED pc
  <2>1. UNCHANGED <<serverVars, mAutoId, mSessions, mReverseSessions, fdOf, msgs,
                    broken, calls>>
    BY <1>6 DEF CloseBegin
  <2> QED
    BY <1>6, <2>1, CloseBeginTypes, FdSame
<1>7. CASE luaPc = "erase" /\ CloseEnd(luaOn, Lua) /\ LuaGoto("idle", Nil)
             /\ UNCHANGED pc
  <2>1. UNCHANGED <<serverVars, mAutoId, fdOf, msgs, broken, calls, posted, early,
                    crashed>>
    BY <1>7 DEF CloseEnd
  <2> QED
    BY <1>7, <2>1, CloseEndTypes, FdSame
<1> QED
  BY <1>1, <1>2, <1>3, <1>4, <1>5, <1>6, <1>7 DEF InCall, LuaClose

LEMMA OnSame == OnInv /\ UNCHANGED <<luaPc, luaOn>> => OnInv'
BY DEF OnInv

LEMMA TypeStep == TypeInv /\ OnInv /\ [Next]_vars => TypeInv' /\ OnInv'
<1> SUFFICES ASSUME TypeInv, OnInv, [Next]_vars PROVE TypeInv' /\ OnInv'
  OBVIOUS
<1>1. ASSUME NEW c \in Conns,
             OpenDraw(c) \/ Handler(c) \/ MessageFind(c) \/ End(c) \/ Free(c)
      PROVE  TypeInv' /\ OnInv'
  <2>1. TypeInv'
    BY <1>1, OpenDrawTypes, OpenRaiseTypes, OpenInsertTypes, ConnTypes DEF Handler
  <2>2. UNCHANGED <<luaPc, luaOn>>
    BY <1>1 DEF OpenDraw, Handler, MessageFind, End, Free, OpenRaise, OpenInsert,
                OpenPost, MessagePost, ConnClose, luaVars
  <2> QED
    BY <2>1, <2>2, OnSame
<1>2. CASE UNCHANGED vars
  BY <1>2, FdSame, OnSame
     DEF TypeInv, TypeOK, vars, serverVars, mapVars, connVars, luaVars
<1> QED
  BY <1>1, <1>2, LuaTypes DEF Next

LEMMA TypeInvHolds == Spec => [](TypeInv /\ OnInv)
<1>1. Init => TypeInv /\ OnInv
  BY TypeInit DEF Init, OnInv
<1> QED
  BY <1>1, TypeStep, PTL DEF Spec
-----------------------------------------------------------------------------
(* The maps.  mSessions never has a connection mReverseSessions has not;    *)
(* the other way needs that no fd was drawn twice.                          *)
MapInv ==
  /\ \A fd \in Fds, c \in Conns :
       mSessions[fd] = c => mReverseSessions[c] = fd
  /\ \A c \in Conns : mReverseSessions[c] # 0 =>
       mReverseSessions[c] = fdOf[c] /\ pc[c] \notin {"none", "drawn", "raised"}
  /\ Distinct => \A fd \in Fds, c \in Conns :
       mReverseSessions[c] = fd => mSessions[fd] = c

(* A connection that is over is in no map, but while the Close that Lua     *)
(* came upon still has to erase it; and a send has the lock.                *)
Erasing(c) == luaOn = c /\ luaPc \in {"stuck", "close", "erase"}

OverInv ==
  /\ \A c \in Conns : pc[c] \in {"none", "drawn", "raised"} => ~broken[c]
  /\ \A c \in Conns : broken[c] \/ pc[c] \in {"left", "freed"} =>
       mReverseSessions[c] = 0 \/ Erasing(c)
  /\ luaPc = "send" => mLock = Lua /\ mReverseSessions[luaOn] # 0

LEMMA SessionHere ==
  ASSUME TypeInv
  PROVE  /\ 0 \notin Fds
         /\ \A fd \in Fds : mSessions[fd] # Nil => mSessions[fd] \in Conns
<1>1. 0 \notin Fds
  BY RaisedSize DEF Fds
<1>2. \A fd \in Fds : mSessions[fd] \in Conns \union {Nil}
  BY DEF TypeInv, TypeOK
<1> QED
  BY <1>1, <1>2

LEMMA OpenDrawMaps ==
  ASSUME TypeInv, MapInv, OverInv, NEW c \in Conns, OpenDraw(c)
  PROVE  MapInv' /\ OverInv'
<1>1. /\ pc[c] = "none" /\ pc' = [pc EXCEPT ![c] = "drawn"]
      /\ fdOf' = [fdOf EXCEPT ![c] = mAutoId] /\ fdOf[c] = 0
      /\ UNCHANGED <<mSessions, mReverseSessions, mLock, broken, luaPc, luaOn>>
  BY DEF OpenDraw, ConnGoto, TypeInv, FdInv, mapVars, luaVars
<1>2. /\ \A d \in Conns : pc'[d] = IF d = c THEN "drawn" ELSE pc[d]
      /\ \A d \in Conns \ {c} : fdOf'[d] = fdOf[d]
  BY <1>1 DEF TypeInv, TypeOK
<1>3. Distinct' => Distinct
  BY <1>1, <1>2 DEF Distinct
<1>4. mReverseSessions[c] = 0
  BY <1>1 DEF MapInv
<1>5. MapInv'
  BY <1>1, <1>2, <1>3, <1>4 DEF MapInv
<1>6. OverInv'
  BY <1>1, <1>2 DEF OverInv, Erasing
<1> QED
  BY <1>5, <1>6

LEMMA OpenInsertMaps ==
  ASSUME TypeInv, MapInv, OverInv, NEW c \in Conns, OpenInsert(c)
  PROVE  MapInv' /\ OverInv'
<1> DEFINE fd == fdOf[c]
<1>1. /\ pc[c] = "raised" /\ pc' = [pc EXCEPT ![c] = "open"] /\ mLock = Nil
      /\ mSessions' = [mSessions EXCEPT ![fd] = IF @ = Nil THEN c ELSE @]
      /\ mReverseSessions' = [mReverseSessions EXCEPT ![c] = fd]
      /\ UNCHANGED <<mLock, fdOf, broken, luaPc, luaOn>>
  BY DEF OpenInsert, ConnGoto, AfterInsert, luaVars
<1>2. fd \in Fds /\ fd # 0 /\ 0 \notin Fds
  BY <1>1, FdRange DEF Fds
<1>3. /\ \A d \in Conns : pc'[d] = IF d = c THEN "open" ELSE pc[d]
      /\ \A d \in Conns : mReverseSessions'[d] =
                            IF d = c THEN fd ELSE mReverseSessions[d]
      /\ \A f \in Fds : mSessions'[f] =
           IF f = fd /\ mSessions[f] = Nil THEN c ELSE mSessions[f]
  BY <1>1, <1>2 DEF TypeInv, TypeOK
<1>4. mReverseSessions[c] = 0 /\ ~broken[c]
  BY <1>1 DEF MapInv, OverInv
<1>5. \A f \in Fds : mSessions[f] \in Conns \union {Nil}
  BY DEF TypeInv, TypeOK
<1>6. \A f \in Fds, d \in Conns : mSessions'[f] = d => mReverseSessions'[d] = f
  BY <1>2, <1>3, <1>4 DEF MapInv
<1>7. \A d \in Conns : mReverseSessions'[d] # 0 =>
        mReverseSessions'[d] = fdOf'[d] /\ pc'[d] \notin {"none", "drawn", "raised"}
  BY <1>1, <1>3 DEF MapInv
<1>8. Distinct' => \A f \in Fds, d \in Conns :
        mReverseSessions'[d] = f => mSessions'[f] = d
  <2> SUFFICES ASSUME Distinct, NEW f \in Fds, NEW d \in Conns,
                      mReverseSessions'[d] = f
               PROVE  mSessions'[f] = d
    BY <1>1 DEF Distinct
  <2>1. CASE d # c
    <3>1. mReverseSessions[d] = f /\ mSessions[f] = d
      BY <1>3, <2>1 DEF MapInv
    <3>2. mSessions[f] # Nil
      BY <3>1
    <3> QED
      BY <1>3, <3>1, <3>2
  <2>2. CASE d = c
    <3>1. f = fd
      BY <1>3, <2>2
    <3>2. mSessions[fd] = Nil
      <4> SUFFICES ASSUME mSessions[fd] # Nil PROVE FALSE
        OBVIOUS
      <4>1. PICK e \in Conns : mSessions[fd] = e
        BY <1>2, <1>5
      <4>2. mReverseSessions[e] = fd /\ fdOf[e] = fd
        BY <1>2, <4>1 DEF MapInv
      <4>3. e = c
        BY <1>2, <4>2 DEF Distinct
      <4> QED
        BY <1>2, <1>4, <4>2, <4>3
    <3> QED
      BY <1>3, <2>2, <3>1, <3>2
  <2> QED
    BY <2>1, <2>2
<1>9. OverInv'
  BY <1>1, <1>3, <1>4 DEF OverInv, Erasing
<1> QED
  BY <1>6, <1>7, <1>8, <1>9 DEF MapInv

(* A raise leaves the maps.                                                 *)
LEMMA OpenRaiseMaps ==
  ASSUME TypeInv, MapInv, OverInv, NEW c \in Conns, OpenRaise(c)
  PROVE  MapInv' /\ OverInv'
<1>1. /\ pc[c] = "drawn" /\ pc' = [pc EXCEPT ![c] = "raised"]
      /\ UNCHANGED <<mSessions, mReverseSessions, mLock, fdOf, broken, luaPc,
                     luaOn>>
  BY DEF OpenRaise, ConnGoto, luaVars
<1>2. \A d \in Conns : pc'[d] = IF d = c THEN "raised" ELSE pc[d]
  BY <1>1 DEF TypeInv, TypeOK
<1>3. MapInv'
  BY <1>1, <1>2 DEF MapInv, Distinct
<1>4. OverInv'
  BY <1>1, <1>2 DEF OverInv, Erasing
<1> QED
  BY <1>3, <1>4

(* Close has erased c from both maps.                                       *)
LEMMA CloseEndMaps ==
  ASSUME TypeInv, MapInv, NEW c \in Conns, NEW t, CloseEnd(c, t),
         \A d \in Conns \ {c} : pc'[d] = pc[d]
  PROVE  /\ MapInv'
         /\ mReverseSessions' = [mReverseSessions EXCEPT ![c] = 0]
         /\ mLock = t
<1> DEFINE fd == mReverseSessions[c]
<1>1. /\ mSessions' = [mSessions EXCEPT ![fd] = Nil]
      /\ mReverseSessions' = [mReverseSessions EXCEPT ![c] = 0]
      /\ mLock = t /\ UNCHANGED fdOf
  BY DEF CloseEnd, Erased
<1>2. /\ \A d \in Conns : mReverseSessions'[d] =
                            IF d = c THEN 0 ELSE mReverseSessions[d]
      /\ \A f \in Fds : mSessions'[f] = IF f = fd THEN Nil ELSE mSessions[f]
      /\ 0 \notin Fds
  BY <1>1 DEF TypeInv, TypeOK, Fds
<1>3. \A f \in Fds, d \in Conns : mSessions'[f] = d => mReverseSessions'[d] = f
  BY <1>2 DEF MapInv
<1>4. \A d \in Conns : mReverseSessions'[d] # 0 =>
        mReverseSessions'[d] = fdOf'[d] /\ pc'[d] \notin {"none", "drawn", "raised"}
  BY <1>1, <1>2 DEF MapInv
<1>5. Distinct' => \A f \in Fds, d \in Conns :
        mReverseSessions'[d] = f => mSessions'[f] = d
  <2> SUFFICES ASSUME Distinct, NEW f \in Fds, NEW d \in Conns,
                      mReverseSessions'[d] = f
               PROVE  mSessions'[f] = d
    BY <1>1 DEF Distinct
  <2>1. d # c /\ mReverseSessions[d] = f /\ mSessions[f] = d
    BY <1>2 DEF MapInv
  <2>2. f # fd
    BY <1>2, <2>1 DEF MapInv
  <2> QED
    BY <1>2, <2>1, <2>2
<1> QED
  BY <1>1, <1>3, <1>4, <1>5 DEF MapInv

(* A connection past its Open moves on and the maps stay.                   *)
LEMMA MapsMove ==
  ASSUME TypeInv, MapInv, NEW c \in Conns,
         NEW l \in ConnPcs \ {"none", "drawn", "raised"},
         pc[c] \notin {"none", "drawn", "raised"},
         pc' = [pc EXCEPT ![c] = l],
         UNCHANGED <<mSessions, mReverseSessions, fdOf>>
  PROVE  MapInv'
<1>1. \A d \in Conns : pc'[d] = IF d = c THEN l ELSE pc[d]
  BY DEF TypeInv, TypeOK
<1> QED
  BY <1>1 DEF MapInv, Distinct

LEMMA MapsSame ==
  MapInv /\ UNCHANGED <<mSessions, mReverseSessions, fdOf, pc>> => MapInv'
BY DEF MapInv, Distinct

LEMMA ConnMaps ==
  ASSUME TypeInv, MapInv, OverInv, NEW c \in Conns,
         \/ OpenPost(c) \/ MessageFind(c) \/ MessagePost(c) \/ End(c)
         \/ ConnClose(c) \/ Free(c)
  PROVE  MapInv' /\ OverInv'
<1> USE DEF ConnGoto, mapVars, luaVars
<1>0. pc \in [Conns -> ConnPcs]
  BY DEF TypeInv, TypeOK
<1>1. CASE OpenPost(c) \/ MessageFind(c) \/ MessagePost(c) \/ End(c)
  <2>1. PICK l \in {"idle", "msg", "close"} :
          /\ pc' = [pc EXCEPT ![c] = l]
          /\ pc[c] \in {"open", "idle", "msg"}
          /\ UNCHANGED <<mSessions, mReverseSessions, mLock, fdOf, broken, luaPc,
                         luaOn>>
    BY <1>1 DEF OpenPost, MessageFind, MessagePost, End
  <2>2. \A d \in Conns : pc'[d] = IF d = c THEN l ELSE pc[d]
    BY <1>0, <2>1
  <2> QED
    BY <2>1, <2>2, MapsMove DEF ConnPcs, OverInv, Erasing
<1>2. CASE Free(c)
  <2>1. /\ pc[c] \in {"idle", "left"} /\ (pc[c] = "left" \/ broken[c])
        /\ pc' = [pc EXCEPT ![c] = "freed"]
        /\ UNCHANGED <<mSessions, mReverseSessions, mLock, fdOf, broken, luaPc,
                       luaOn>>
    BY <1>2 DEF Free
  <2>2. \A d \in Conns : pc'[d] = IF d = c THEN "freed" ELSE pc[d]
    BY <1>0, <2>1
  <2> QED
    <3>1. MapInv'
      BY <2>1, MapsMove DEF ConnPcs
    <3>2. mReverseSessions[c] = 0 \/ Erasing(c)
      BY <2>1 DEF OverInv
    <3>3. OverInv'
      BY <2>1, <2>2, <3>2 DEF OverInv, Erasing
    <3> QED
      BY <3>1, <3>3
<1>3. CASE pc[c] = "close" /\ CloseBegin(c, c) /\ ConnGoto(c, "erase")
             /\ UNCHANGED <<luaPc, luaOn>>
  <2>1. /\ mLock = Nil /\ pc' = [pc EXCEPT ![c] = "erase"]
        /\ UNCHANGED <<mSessions, mReverseSessions, fdOf, broken, luaPc, luaOn>>
    BY <1>3 DEF CloseBegin
  <2>2. \A d \in Conns : pc'[d] = IF d = c THEN "erase" ELSE pc[d]
    BY <1>0, <2>1
  <2> QED
    BY <1>3, <2>1, <2>2, MapsMove DEF ConnPcs, OverInv, Erasing
<1>4. CASE pc[c] = "erase" /\ CloseEnd(c, c) /\ ConnGoto(c, "left")
             /\ UNCHANGED <<luaPc, luaOn>>
  <2>1. \A d \in Conns : pc'[d] = IF d = c THEN "left" ELSE pc[d]
    BY <1>0, <1>4
  <2>2. /\ MapInv' /\ mLock = c
        /\ mReverseSessions' = [mReverseSessions EXCEPT ![c] = 0]
    BY <1>4, <2>1, CloseEndMaps
  <2>3. \A d \in Conns : mReverseSessions'[d] =
                           IF d = c THEN 0 ELSE mReverseSessions[d]
    BY <2>2 DEF TypeInv, TypeOK
  <2>4. UNCHANGED <<broken, luaPc, luaOn>> /\ luaPc # "send"
    BY <1>4, <2>2 DEF CloseEnd, OverInv
  <2> QED
    BY <2>1, <2>2, <2>3, <2>4 DEF OverInv, Erasing
<1> QED
  BY <1>1, <1>2, <1>3, <1>4 DEF ConnClose

LEMMA LuaMaps ==
  ASSUME TypeInv, OnInv, MapInv, OverInv,
         \/ NewServer \/ DestroyServer \/ Listen \/ InCall
         \/ \E fd \in Fds : Send(fd) \/ Close(fd)
  PROVE  MapInv' /\ OverInv'
<1> USE DEF LuaGoto, serverVars, mapVars, connVars, luaVars
<1>1. CASE NewServer \/ DestroyServer
  BY <1>1, MapsSame DEF NewServer, DestroyServer, OverInv, Erasing
<1>2. CASE Listen
  <2>1. /\ luaPc = "idle" /\ luaPc' \in {"idle", "setOpen"}
        /\ UNCHANGED <<mapVars, connVars>>
    BY <1>2 DEF Listen
  <2> QED
    BY <2>1, MapsSame DEF OverInv, Erasing
<1>3. ASSUME NEW e \in Events, SetCallback(e) PROVE MapInv' /\ OverInv'
  <2>1. /\ luaPc \in {"setOpen", "setMsg", "setClose"}
        /\ luaPc' \in {"setMsg", "setClose", "idle"}
        /\ UNCHANGED <<mapVars, connVars>>
    BY <1>3 DEF SetCallback, Events, SetPc
  <2> QED
    BY <2>1, MapsSame DEF OverInv, Erasing
<1>4. ASSUME NEW fd \in Fds, Send(fd) \/ Close(fd) PROVE MapInv' /\ OverInv'
  <2>1. /\ luaPc = "idle" /\ mSessions[fd] # Nil /\ luaOn' = mSessions[fd]
        /\ \/ luaPc' = "send" /\ mLock' = Lua
           \/ luaPc' = "closeSocket" /\ UNCHANGED mLock
        /\ UNCHANGED <<mSessions, mReverseSessions, connVars>>
    BY <1>4 DEF Send, Close, BeginOn
  <2>2. mSessions[fd] \in Conns /\ 0 \notin Fds
    BY <2>1, SessionHere
  <2>3. mReverseSessions[luaOn'] # 0
    BY <2>1, <2>2 DEF MapInv
  <2> QED
    BY <2>1, <2>3, MapsSame DEF OverInv, Erasing
<1>5. CASE SendEnd \/ CloseSocket
  <2>1. /\ luaPc \in {"send", "closeSocket"} /\ luaPc' = "idle"
        /\ UNCHANGED <<mSessions, mReverseSessions, connVars>>
    BY <1>5 DEF SendEnd, CloseSocket
  <2> QED
    BY <2>1, MapsSame DEF OverInv, Erasing
<1>6. CASE SendBreaks \/ CloseBreaks
  <2>1. /\ luaPc \in {"send", "closeSocket"} /\ luaPc' \in {"stuck", "close"}
        /\ luaOn' = luaOn /\ luaOn \in Conns
        /\ pc[luaOn] \in {"open", "idle", "msg"}
        /\ broken' = [broken EXCEPT ![luaOn] = TRUE]
        /\ UNCHANGED <<mapVars, pc, fdOf>>
    BY <1>6 DEF SendBreaks, CloseBreaks, BreaksUnder, OnInv
  <2>2. \A c \in Conns \ {luaOn} : broken'[c] = broken[c]
    BY <2>1 DEF TypeInv, TypeOK
  <2> QED
    BY <2>1, <2>2, MapsSame DEF OverInv, Erasing
<1>7. CASE luaPc = "close" /\ CloseBegin(luaOn, Lua) /\ LuaGoto("erase", luaOn)
             /\ UNCHANGED pc
  <2>1. UNCHANGED <<mSessions, mReverseSessions, fdOf, broken>>
    BY <1>7 DEF CloseBegin
  <2> QED
    BY <1>7, <2>1, MapsSame DEF OverInv, Erasing
<1>8. CASE luaPc = "erase" /\ CloseEnd(luaOn, Lua) /\ LuaGoto("idle", Nil)
             /\ UNCHANGED pc
  <2>1. luaOn \in Conns
    BY <1>8 DEF OnInv
  <2>2. MapInv' /\ mReverseSessions' = [mReverseSessions EXCEPT ![luaOn] = 0]
    BY <1>8, <2>1, CloseEndMaps
  <2>3. \A c \in Conns : mReverseSessions'[c] =
                           IF c = luaOn THEN 0 ELSE mReverseSessions[c]
    BY <2>1, <2>2 DEF TypeInv, TypeOK
  <2>4. UNCHANGED broken
    BY <1>8 DEF CloseEnd
  <2> QED
    BY <1>8, <2>2, <2>3, <2>4 DEF OverInv, Erasing
<1> QED
  BY <1>1, <1>2, <1>3, <1>4, <1>5, <1>6, <1>7, <1>8 DEF InCall, LuaClose

LEMMA MapStep ==
  TypeInv /\ OnInv /\ MapInv /\ OverInv /\ [Next]_vars => MapInv' /\ OverInv'
<1> SUFFICES ASSUME TypeInv, OnInv, MapInv, OverInv, [Next]_vars
             PROVE  MapInv' /\ OverInv'
  OBVIOUS
<1>1. CASE UNCHANGED vars
  BY <1>1, MapsSame DEF vars, mapVars, connVars, luaVars, OverInv, Erasing
<1> QED
  BY <1>1, OpenDrawMaps, OpenRaiseMaps, OpenInsertMaps, ConnMaps, LuaMaps
     DEF Next, Handler

LEMMA MapInit == Init => MapInv /\ OverInv
<1> SUFFICES ASSUME Init PROVE MapInv /\ OverInv
  OBVIOUS
<1>1. /\ \A fd \in Fds : mSessions[fd] = Nil /\ fd # 0
      /\ \A c \in Conns : /\ c # Nil /\ mReverseSessions[c] = 0
                          /\ ~broken[c] /\ pc[c] = "none"
      /\ luaPc = "idle"
  BY DEF Init, Fds
<1> QED
  BY <1>1 DEF MapInv, OverInv

(* The maps agree and what they point to is alive, for any number of        *)
(* connections, messages and calls.                                         *)
THEOREM MapsAgreeHolds == Spec => []MapsAgree
<1>1. Init => MapInv /\ OverInv
  BY MapInit
<1>2. TypeInv /\ OnInv /\ MapInv /\ OverInv => MapsAgree
  <2> SUFFICES ASSUME TypeInv, OnInv, MapInv, OverInv PROVE MapsAgree
    OBVIOUS
  <2>1. MapsInverse
    <3>1. Distinct => \A fd \in Fds, c \in Conns :
            mReverseSessions[c] = fd => mSessions[fd] = c
      BY DEF MapInv
    <3>2. \A fd \in Fds, c \in Conns :
            mSessions[fd] = c => mReverseSessions[c] = fd
      BY DEF MapInv
    <3> QED
      BY <3>1, <3>2 DEF MapsInverse
  <2>2. ASSUME luaPc = "idle", NEW fd \in Fds, mSessions[fd] # Nil
        PROVE  pc[mSessions[fd]] # "freed"
    <3>1. mSessions[fd] \in Conns /\ fd # 0
      BY <2>2, SessionHere
    <3>2. mReverseSessions[mSessions[fd]] # 0
      BY <3>1 DEF MapInv
    <3> QED
      BY <2>2, <3>1, <3>2 DEF OverInv, Erasing
  <2>3. luaPc = "send" => pc[luaOn] # "freed"
    BY DEF OverInv, Erasing, OnInv
  <2>4. SendSafe
    BY <2>2, <2>3 DEF SendSafe
  <2> QED
    BY <2>1, <2>4 DEF MapsAgree, TypeInv
<1> QED
  BY <1>1, <1>2, MapStep, TypeInvHolds, PTL DEF Spec

-----------------------------------------------------------------------------
(* What a script is told.                                                   *)

Told == [event : Events, fd : Fds, conn : Conns]

(* What is posted has the fd of its connection.                             *)
FdTold == \A k \in DOMAIN posted : posted[k].fd = fdOf[posted[k].conn]

(* Lua calls on a connection of which it was told.                          *)
InCallOn == luaPc \in {"send", "stuck", "closeSocket", "close", "erase"}
Known == InCallOn => About(luaOn) # {}

LuaCloses(c) == luaOn = c /\ luaPc = "close"

(* Where a connection is and what was told of it.                           *)
TellHere(c) ==
  /\ pc[c] \notin {"none", "drawn", "raised", "open"} => About(c) # {}
  /\ ToldInOrder(c)
  /\ Closes(c) # {} /\ ~broken[c] => pc[c] \in {"erase", "left", "freed"}
  /\ LuaCloses(c) => Closes(c) = {}
  /\ pc[c] = "msg" => \A k \in Closes(c), j \in About(c) : j <= k

TellOk(c) ==
  /\ pc[c] \in {"none", "drawn", "raised", "open"} => About(c) = {}
  /\ broken[c] => pc[c] \in {"idle", "msg", "freed"}
  /\ LuaCloses(c) => broken[c]
  /\ c \notin early => TellHere(c)

TellInv ==
  /\ FdTold
  /\ Distinct => Known /\ \A c \in Conns : TellOk(c)

LEMMA DistinctBefore ==
  ASSUME TypeInv, [Next]_vars, Distinct'
  PROVE  Distinct
<1>1. \/ UNCHANGED fdOf
      \/ \E c \in Conns : pc[c] = "none" /\ fdOf' = [fdOf EXCEPT ![c] = mAutoId]
  BY DEF Next, vars, mapVars, connVars, luaVars, OpenDraw, Handler, OpenRaise,
         OpenInsert, OpenPost, MessageFind, MessagePost, End, ConnClose, CloseBegin, CloseEnd,
         Free, NewServer, DestroyServer, Listen, InCall, SetCallback, Send, Close,
         BeginOn, SendEnd, SendBreaks, BreaksUnder, CloseSocket, CloseBreaks,
         LuaClose
<1>2. ASSUME NEW c \in Conns, pc[c] = "none", fdOf' = [fdOf EXCEPT ![c] = mAutoId]
      PROVE  Distinct
  <2>1. fdOf[c] = 0 /\ \A d \in Conns \ {c} : fdOf'[d] = fdOf[d]
    BY <1>2 DEF TypeInv, TypeOK, FdInv
  <2> QED
    BY <2>1 DEF Distinct
<1> QED
  BY <1>1, <1>2 DEF Distinct

LEMMA ToldType ==
  ASSUME TypeInv
  PROVE  \A k \in DOMAIN posted : posted[k].fd \in Fds /\ posted[k].conn \in Conns
<1>1. posted \in Seq(Told)
  BY DEF TypeInv, TypeOK, Told
<1>2. \A k \in DOMAIN posted : posted[k] \in Told
  BY <1>1
<1> QED
  BY <1>2 DEF Told

LEMMA ToldSame ==
  ASSUME NEW c, posted' = posted
  PROVE  /\ About(c)' = About(c) /\ Closes(c)' = Closes(c)
         /\ (broken[c] => broken'[c]) /\ ToldInOrder(c) => ToldInOrder(c)'
BY DEF About, Closes, ToldInOrder

(* One more is told of c, the last one.                                     *)
LEMMA ToldMore ==
  ASSUME TypeInv, NEW c, NEW event, NEW fd, NEW d,
         posted' = Append(posted, [event |-> event, fd |-> fd, conn |-> c])
  PROVE  /\ About(d) \subseteq 1..Len(posted) /\ Len(posted) \in Nat
         /\ \A k \in About(d) : posted'[k] = posted[k]
         /\ posted'[Len(posted) + 1] = [event |-> event, fd |-> fd, conn |-> c]
         /\ DOMAIN posted' = DOMAIN posted \union {Len(posted) + 1}
         /\ \A k \in DOMAIN posted : posted'[k] = posted[k]
         /\ About(d)' = IF d = c THEN About(d) \union {Len(posted) + 1}
                                 ELSE About(d)
         /\ Closes(d)' = IF d = c /\ event = "close"
                         THEN Closes(d) \union {Len(posted) + 1} ELSE Closes(d)
<1> DEFINE m == [event |-> event, fd |-> fd, conn |-> c]
           l == Len(posted) + 1
<1>1. m.event = event /\ m.conn = c
  OBVIOUS
<1>2. posted \in Seq(Told) /\ posted' = Append(posted, m)
  BY DEF TypeInv, TypeOK, Told
<1> HIDE DEF m
<1>3. /\ DOMAIN posted = 1..Len(posted) /\ Len(posted) \in Nat
      /\ DOMAIN posted' = 1..l /\ posted'[l] = m
      /\ \A k \in DOMAIN posted : posted'[k] = posted[k]
  BY <1>2
<1>4. 1..l = (1..Len(posted)) \union {l} /\ l \notin 1..Len(posted)
  BY <1>3
<1> HIDE DEF l
<1>5. /\ About(d) = {k \in 1..Len(posted) : posted[k].conn = d}
      /\ About(d)' = {k \in 1..l : posted'[k].conn = d}
  BY <1>3 DEF About
<1>6. About(d)' = IF d = c THEN About(d) \union {l} ELSE About(d)
  BY <1>1, <1>3, <1>4, <1>5
<1>7. /\ Closes(d) = {k \in About(d) : posted[k].event = "close"}
      /\ Closes(d)' = {k \in About(d)' : posted'[k].event = "close"}
  BY DEF Closes
<1>8. Closes(d)' = IF d = c /\ event = "close" THEN Closes(d) \union {l}
                                               ELSE Closes(d)
  BY <1>1, <1>3, <1>4, <1>5, <1>6, <1>7
<1> QED
  BY <1>3, <1>4, <1>5, <1>6, <1>8 DEF l, m

(* ... Open, first of all ...                                               *)
LEMMA ToldOpen ==
  ASSUME TypeInv, NEW c, NEW fd, About(c) = {},
         posted' = Append(posted, [event |-> "open", fd |-> fd, conn |-> c])
  PROVE  ToldInOrder(c)' /\ Closes(c)' = {}
<1> DEFINE l == Len(posted) + 1
<1>1. /\ About(c)' = {l} /\ Closes(c)' = Closes(c) /\ l \in Nat
      /\ posted'[l] = [event |-> "open", fd |-> fd, conn |-> c]
  BY ToldMore
<1>2. Closes(c) = {}
  BY DEF Closes
<1>3. l \in Nat /\ posted'[l].event = "open"
  BY <1>1
<1> HIDE DEF l
<1>4. l <= l
  BY <1>1
<1> QED
  BY <1>1, <1>2, <1>3, <1>4 DEF ToldInOrder

(* ... or a message or Close, later.                                        *)
LEMMA ToldLater ==
  ASSUME TypeInv, NEW c, NEW event \in {"msg", "close"}, NEW fd,
         About(c) # {}, ToldInOrder(c), broken[c] => broken'[c],
         \A k \in Closes(c), j \in About(c) : j <= k,
         Closes(c) # {} => event = "msg" /\ broken[c],
         posted' = Append(posted, [event |-> event, fd |-> fd, conn |-> c])
  PROVE  /\ ToldInOrder(c)'
         /\ event = "close" => \A k \in Closes(c)', j \in About(c)' : j <= k
<1> DEFINE l == Len(posted) + 1
<1>1. /\ About(c) \subseteq 1..Len(posted) /\ Len(posted) \in Nat
      /\ \A k \in About(c) : posted'[k] = posted[k]
      /\ posted'[l] = [event |-> event, fd |-> fd, conn |-> c]
      /\ About(c)' = About(c) \union {l}
      /\ Closes(c)' = IF event = "close" THEN Closes(c) \union {l} ELSE Closes(c)
  BY ToldMore
<1>2. /\ l \in Nat /\ posted'[l].event = event
      /\ \A j \in About(c) : j \in Nat /\ j < l
  BY <1>1
<1> HIDE DEF l
<1>3. Closes(c) \subseteq About(c)
  BY DEF Closes
<1>4. \A k \in About(c)' : posted'[k].event = "open" <=> \A j \in About(c)' : k <= j
  <2> SUFFICES ASSUME NEW k \in About(c)'
               PROVE  posted'[k].event = "open" <=> \A j \in About(c)' : k <= j
    OBVIOUS
  <2>1. CASE k = l
    <3>1. PICK j \in About(c) : TRUE
      OBVIOUS
    <3>2. j \in About(c)' /\ ~(l <= j)
      BY <1>1, <1>2, <3>1
    <3> QED
      BY <1>2, <2>1, <3>2
  <2>2. CASE k \in About(c)
    <3>1. posted'[k] = posted[k] /\ k <= l
      BY <1>1, <1>2, <2>2
    <3>2. (\A j \in About(c)' : k <= j) <=> (\A j \in About(c) : k <= j)
      BY <1>1, <3>1
    <3>3. posted[k].event = "open" <=> \A j \in About(c) : k <= j
      BY <2>2 DEF ToldInOrder
    <3> QED
      BY <3>1, <3>2, <3>3
  <2> QED
    BY <1>1, <2>1, <2>2
<1>5. ASSUME NEW k \in Closes(c)', NEW j \in About(c)', j > k
      PROVE  /\ broken'[c] /\ posted'[j].event = "msg"
             /\ \A i \in About(c)' : i > k => i = j
  <2>1. \A i \in About(c) : ~(i > l)
    BY <1>2
  <2>2. k \in Closes(c)
    BY <1>1, <1>2, <1>5, <2>1
  <2>3. \A i \in About(c) : ~(i > k)
    BY <1>2, <1>3, <2>2
  <2>4. j = l /\ event = "msg" /\ broken[c]
    BY <1>1, <1>5, <2>2, <2>3
  <2> QED
    BY <1>1, <1>2, <2>3, <2>4
<1>6. event = "close" => \A k \in Closes(c)', j \in About(c)' : j <= k
  <2>1. ASSUME event = "close" PROVE Closes(c)' = {l}
    BY <1>1, <2>1
  <2>2. \A j \in About(c)' : j <= l
    BY <1>1, <1>2
  <2> QED
    BY <2>1, <2>2
<1> QED
  BY <1>4, <1>5, <1>6 DEF ToldInOrder

(* Nothing is told: a connection moves on.                                  *)
LEMMA TellMove ==
  ASSUME TypeInv, NEW c \in Conns, TellOk(c), posted' = posted,
         UNCHANGED <<early, broken, luaPc, luaOn>>,
         \/ pc'[c] = pc[c]
         \/ /\ pc[c] \in {"none", "drawn", "raised"}
            /\ pc'[c] \in {"drawn", "raised", "open"}
         \/ pc[c] = "idle" /\ ~broken[c] /\ pc'[c] \in {"idle", "msg", "close"}
         \/ pc[c] = "idle" /\ broken[c] /\ pc'[c] = "freed"
         \/ pc[c] = "erase" /\ pc'[c] = "left"
         \/ pc[c] = "left" /\ pc'[c] = "freed"
  PROVE  TellOk(c)'
<1>1. /\ About(c)' = About(c) /\ Closes(c)' = Closes(c)
      /\ ToldInOrder(c) => ToldInOrder(c)'
  BY ToldSame
<1>2. LuaCloses(c)' <=> LuaCloses(c)
  BY DEF LuaCloses
<1>3. ASSUME TellHere(c) PROVE TellHere(c)'
  BY <1>1, <1>2, <1>3 DEF TellOk, TellHere
<1> QED
  BY <1>1, <1>2, <1>3 DEF TellOk

LEMMA ConnSilent ==
  ASSUME TypeInv, TellInv, Distinct' => Distinct, NEW c \in Conns,
         \/ OpenDraw(c) \/ OpenRaise(c) \/ OpenInsert(c) \/ MessageFind(c)
         \/ End(c) \/ Free(c)
         \/ pc[c] = "erase" /\ CloseEnd(c, c) /\ ConnGoto(c, "left")
              /\ UNCHANGED <<luaPc, luaOn>>
  PROVE  TellInv'
<1>1. /\ UNCHANGED <<posted, early, broken, luaPc, luaOn>>
      /\ \/ /\ pc[c] \in {"none", "drawn", "raised"}
            /\ pc'[c] \in {"drawn", "raised", "open"}
         \/ pc[c] = "idle" /\ ~broken[c] /\ pc'[c] \in {"idle", "msg", "close"}
         \/ pc[c] = "idle" /\ broken[c] /\ pc'[c] = "freed"
         \/ pc[c] = "erase" /\ pc'[c] = "left"
         \/ pc[c] = "left" /\ pc'[c] = "freed"
      /\ \A d \in Conns \ {c} : pc'[d] = pc[d]
  BY DEF OpenDraw, OpenRaise, OpenInsert, MessageFind, End, Free, CloseEnd,
         ConnGoto, AfterInsert, mapVars, luaVars, TypeInv, TypeOK
<1>2. FdTold'
  <2>1. \A k \in DOMAIN posted : posted[k].fd \in Fds /\ posted[k].conn \in Conns
    BY ToldType
  <2>2. \A d \in Conns : fdOf[d] # 0 => fdOf'[d] = fdOf[d]
    BY DEF OpenDraw, OpenRaise, OpenInsert, MessageFind, End, Free, CloseEnd,
           TypeInv, TypeOK, FdInv
  <2>3. 0 \notin Fds
    BY SessionHere
  <2> QED
    BY <1>1, <2>1, <2>2, <2>3 DEF TellInv, FdTold
<1>3. ASSUME Distinct' PROVE Known'
  <2>1. \A x : About(x)' = About(x)
    BY <1>1, ToldSame
  <2> QED
    BY <1>1, <1>3, <2>1 DEF TellInv, Known, InCallOn
<1>4. ASSUME Distinct', NEW d \in Conns PROVE TellOk(d)'
  BY <1>1, <1>4, TellMove DEF TellInv
<1> QED
  BY <1>2, <1>3, <1>4 DEF TellInv

(* Nothing is told: Lua moves on.                                           *)
LEMMA LuaSilent ==
  ASSUME TypeInv, OnInv, MapInv, TellInv, Distinct' => Distinct,
         \/ NewServer \/ DestroyServer \/ Listen
         \/ \E e \in Events : SetCallback(e)
         \/ SendEnd \/ SendBreaks \/ CloseSocket \/ CloseBreaks
         \/ \E fd \in Fds : Send(fd) \/ Close(fd)
         \/ luaPc = "erase" /\ CloseEnd(luaOn, Lua) /\ LuaGoto("idle", Nil)
              /\ UNCHANGED pc
  PROVE  TellInv'
<1>1. UNCHANGED <<posted, early, fdOf, pc>>
  BY DEF NewServer, DestroyServer, Listen, SetCallback, SendEnd, SendBreaks, CloseSocket,
         CloseBreaks, BreaksUnder, Send, Close, BeginOn, CloseEnd, connVars, luaVars
<1>2. \A x : /\ About(x)' = About(x) /\ Closes(x)' = Closes(x)
             /\ (broken[x] => broken'[x]) /\ ToldInOrder(x) => ToldInOrder(x)'
  BY <1>1, ToldSame
<1>3. FdTold'
  BY <1>1 DEF TellInv, FdTold
<1>q. ASSUME Distinct', broken' = broken, \A c \in Conns : ~LuaCloses(c)',
             InCallOn' => About(luaOn') # {}
      PROVE  TellInv'
  <2>1. Known'
    BY <1>2, <1>q DEF Known, InCallOn
  <2>2. ASSUME NEW c \in Conns PROVE TellOk(c)'
    <3>1. TellOk(c)
      BY <1>q DEF TellInv
    <3> QED
      BY <1>1, <1>2, <1>q, <3>1 DEF TellOk, TellHere
  <2> QED
    BY <1>3, <2>1, <2>2 DEF TellInv
<1> SUFFICES ASSUME Distinct' PROVE TellInv'
  BY <1>3 DEF TellInv
<1>4. CASE NewServer \/ DestroyServer \/ Listen \/ SendEnd \/ CloseSocket
           \/ (\E e \in Events : SetCallback(e))
           \/ (luaPc = "erase" /\ CloseEnd(luaOn, Lua) /\ LuaGoto("idle", Nil))
  <2>1. \/ luaPc' \in {"idle", "setOpen", "setMsg", "setClose"}
        \/ UNCHANGED <<luaPc, luaOn>> /\ luaPc = "idle"
    <3>1. \A e \in Events : [open |-> "setMsg", msg |-> "setClose", close |-> "idle"][e]
                              \in {"setMsg", "setClose", "idle"}
      BY DEF Events
    <3> QED
      BY <1>4, <3>1 DEF NewServer, DestroyServer, Listen, SendEnd, CloseSocket,
                        SetCallback, LuaGoto, luaVars
  <2>2. broken' = broken
    BY <1>4 DEF NewServer, DestroyServer, Listen, SendEnd, CloseSocket, SetCallback,
                CloseEnd, connVars
  <2> QED
    BY <1>q, <2>1, <2>2 DEF LuaCloses, InCallOn
<1>5. ASSUME NEW fd \in Fds, Send(fd) \/ Close(fd) PROVE TellInv'
  <2>1. /\ luaPc' \in {"send", "closeSocket"} /\ luaOn' = mSessions[fd]
        /\ mSessions[fd] # Nil /\ broken' = broken
        /\ \E k \in DOMAIN posted : posted[k].fd = fd
    BY <1>5 DEF Send, Close, BeginOn, LuaGoto, connVars
  <2>2. PICK k \in DOMAIN posted : posted[k].fd = fd
    BY <2>1
  <2>3. luaOn' \in Conns /\ fd # 0
    BY <2>1, SessionHere
  <2>4. fdOf[luaOn'] = fd
    BY <2>1, <2>3 DEF MapInv
  <2>5. posted[k].conn \in Conns /\ fdOf[posted[k].conn] = fd
    BY <2>2, ToldType DEF TellInv, FdTold
  <2>6. posted[k].conn = luaOn'
    BY <2>3, <2>4, <2>5 DEF Distinct
  <2>7. About(luaOn') # {}
    BY <2>6 DEF About
  <2> QED
    BY <1>q, <2>1, <2>7 DEF LuaCloses
<1>6. CASE SendBreaks \/ CloseBreaks
  <2> SUFFICES ASSUME NEW o \in Conns, luaOn = o PROVE TellInv'
    BY <1>6 DEF SendBreaks, CloseBreaks, BreaksUnder, OnInv
  <2>1. /\ luaPc \in {"send", "closeSocket"} /\ luaPc' \in {"stuck", "close"}
        /\ luaOn = o /\ luaOn' = o
        /\ pc[o] \in {"open", "idle", "msg"} /\ ~broken[o]
        /\ broken' = [broken EXCEPT ![o] = TRUE]
    BY <1>6 DEF SendBreaks, CloseBreaks, BreaksUnder, LuaGoto
  <2>2. About(o) # {} /\ TellOk(o)
    BY <2>1 DEF TellInv, Known, InCallOn
  <2>3. pc[o] \in {"idle", "msg"} /\ (o \notin early => Closes(o) = {})
    BY <2>1, <2>2 DEF TellOk, TellHere
  <2>4. /\ broken'[o] /\ \A c \in Conns \ {o} : broken'[c] = broken[c] /\ ~LuaCloses(c)'
    BY <2>1 DEF TypeInv, TypeOK, LuaCloses
  <2>5. Known'
    BY <1>2, <2>1, <2>2 DEF Known
  <2>6. TellOk(o)'
    BY <1>1, <1>2, <2>2, <2>3, <2>4 DEF TellOk, TellHere
  <2>7. ASSUME NEW c \in Conns \ {o} PROVE TellOk(c)'
    <3>1. TellOk(c)
      BY DEF TellInv
    <3> QED
      BY <1>1, <1>2, <2>4, <3>1 DEF TellOk, TellHere
  <2> QED
    BY <1>3, <2>5, <2>6, <2>7 DEF TellInv
<1> QED
  BY <1>4, <1>5, <1>6

(* What a post says of the others, and of c.                                *)
LEMMA PostMore ==
  ASSUME TypeInv, NEW c \in Conns, NEW event \in Events, NEW fd,
         Post(c, event, fd)
  PROVE  /\ \A x : About(x) \subseteq About(x)'
         /\ \A d \in Conns \ {c} : /\ About(d)' = About(d) /\ Closes(d)' = Closes(d)
                                   /\ \A k \in About(d) : posted'[k] = posted[k]
                                   /\ d \in early' <=> d \in early
         /\ c \notin early' =>
              /\ c \notin early
              /\ posted' = Append(posted, [event |-> event, fd |-> fd, conn |-> c])
<1> DEFINE m == [event |-> event, fd |-> fd, conn |-> c]
<1>1. /\ posted' = IF event \in callback THEN Append(posted, m) ELSE posted
      /\ early' = IF event \in callback THEN early ELSE early \union {c}
  BY DEF Post
<1>2. ASSUME NEW x, event \in callback
      PROVE  /\ About(x) \subseteq About(x)'
             /\ x # c => About(x)' = About(x) /\ Closes(x)' = Closes(x)
             /\ \A k \in About(x) : posted'[k] = posted[k]
  <2>1. /\ About(x)' = IF x = c THEN About(x) \union {Len(posted) + 1} ELSE About(x)
        /\ Closes(x)' = IF x = c /\ event = "close"
                        THEN Closes(x) \union {Len(posted) + 1} ELSE Closes(x)
        /\ \A k \in About(x) : posted'[k] = posted[k]
    BY <1>1, <1>2, ToldMore
  <2> QED
    BY <2>1
<1>3. ASSUME NEW x, event \notin callback
      PROVE  /\ About(x)' = About(x) /\ Closes(x)' = Closes(x)
             /\ \A k \in About(x) : posted'[k] = posted[k]
  BY <1>1, <1>3, ToldSame
<1> HIDE DEF m
<1> QED
  BY <1>1, <1>2, <1>3 DEF m

LEMMA PostFd ==
  ASSUME TypeInv, FdTold, NEW c \in Conns, NEW event \in Events,
         Post(c, event, fdOf[c]), fdOf' = fdOf
  PROVE  FdTold'
<1> DEFINE m == [event |-> event, fd |-> fdOf[c], conn |-> c]
<1>1. posted' = Append(posted, m) \/ posted' = posted
  BY DEF Post
<1>2. m.fd = fdOf[c] /\ m.conn = c
  OBVIOUS
<1>3. CASE posted' = posted
  BY <1>3 DEF FdTold
<1>4. CASE posted' = Append(posted, m)
  <2>1. /\ DOMAIN posted' = DOMAIN posted \union {Len(posted) + 1}
        /\ \A k \in DOMAIN posted : posted'[k] = posted[k]
        /\ posted'[Len(posted) + 1] = m
    BY <1>4, ToldMore
  <2> HIDE DEF m
  <2> QED
    BY <1>2, <2>1 DEF FdTold
<1> QED
  BY <1>1, <1>3, <1>4

(* Something is told of c: all the rest stays.                              *)
LEMMA TellPost ==
  ASSUME TypeInv, TellInv, Distinct' => Distinct, NEW c \in Conns,
         NEW event \in Events, Post(c, event, fdOf[c]), UNCHANGED <<fdOf, broken>>,
         \A d \in Conns \ {c} : pc'[d] = pc[d] /\ (LuaCloses(d)' => LuaCloses(d)),
         InCallOn' => InCallOn /\ luaOn' = luaOn,
         Distinct => TellOk(c)'
  PROVE  TellInv'
<1>1. FdTold'
  BY PostFd DEF TellInv
<1>2. /\ \A x : About(x) \subseteq About(x)'
      /\ \A d \in Conns \ {c} : /\ About(d)' = About(d) /\ Closes(d)' = Closes(d)
                                /\ \A k \in About(d) : posted'[k] = posted[k]
                                /\ d \in early' <=> d \in early
  BY PostMore
<1>3. ASSUME Distinct' PROVE Known'
  <2>1. Known
    BY <1>3 DEF TellInv
  <2>2. InCallOn' => About(luaOn) # {} /\ luaOn' = luaOn
    BY <2>1 DEF Known
  <2>3. About(luaOn) \subseteq {k \in DOMAIN posted' : posted'[k].conn = luaOn}
    BY <1>2 DEF About
  <2>4. InCallOn' => {k \in DOMAIN posted' : posted'[k].conn = luaOn'} # {}
    BY <2>2, <2>3
  <2> QED
    BY <2>4 DEF Known, About
<1>4. ASSUME Distinct', NEW d \in Conns \ {c} PROVE TellOk(d)'
  <2>1. TellOk(d)
    BY <1>4 DEF TellInv
  <2>2. ToldInOrder(d) => ToldInOrder(d)'
    <3>1. Closes(d) \subseteq About(d)
      BY DEF Closes
    <3> QED
      BY <1>2, <3>1 DEF ToldInOrder
  <2>3. /\ pc'[d] = pc[d] /\ broken'[d] = broken[d]
        /\ LuaCloses(d)' => LuaCloses(d)
        /\ About(d)' = About(d) /\ Closes(d)' = Closes(d)
        /\ d \in early' <=> d \in early
    BY <1>2
  <2> QED
    BY <2>1, <2>2, <2>3 DEF TellOk, TellHere
<1> QED
  BY <1>1, <1>3, <1>4 DEF TellInv

LEMMA ConnPosts ==
  ASSUME TypeInv, MapInv, TellInv, Distinct' => Distinct, NEW c \in Conns,
         \/ OpenPost(c) \/ MessagePost(c)
         \/ pc[c] = "close" /\ CloseBegin(c, c) /\ ConnGoto(c, "erase")
              /\ UNCHANGED <<luaPc, luaOn>>
  PROVE  TellInv'
<1>0. pc \in [Conns -> ConnPcs]
  BY DEF TypeInv, TypeOK
<1>1. /\ UNCHANGED <<fdOf, broken, luaPc, luaOn>>
      /\ \A d \in Conns \ {c} : pc'[d] = pc[d]
  BY <1>0 DEF OpenPost, MessagePost, CloseBegin, ConnGoto, luaVars
<1>2. (InCallOn' <=> InCallOn) /\ \A d : LuaCloses(d)' <=> LuaCloses(d)
  BY <1>1 DEF InCallOn, LuaCloses
<1>3. PICK event \in Events :
        /\ Post(c, event, fdOf[c])
        /\ \/ event = "open" /\ pc[c] = "open" /\ pc'[c] = "idle"
           \/ event = "msg" /\ pc[c] = "msg" /\ pc'[c] = "idle"
           \/ event = "close" /\ pc[c] = "close" /\ pc'[c] = "erase"
  <2>1. CloseBegin(c, c) => mReverseSessions[c] = fdOf[c] /\ Post(c, "close", fdOf[c])
    BY DEF CloseBegin, MapInv
  <2> QED
    BY <1>0, <2>1 DEF OpenPost, MessagePost, ConnGoto, Events
<1>4. ASSUME TellOk(c) PROVE TellOk(c)'
  <2>1. ASSUME c \notin early' PROVE TellHere(c)'
    <3>1. /\ c \notin early
          /\ posted' = Append(posted, [event |-> event, fd |-> fdOf[c], conn |-> c])
      BY <1>3, <2>1, PostMore
    <3>2. TellHere(c)
      BY <1>4, <3>1 DEF TellOk
    <3>3. /\ About(c)' = About(c) \union {Len(posted) + 1}
          /\ event # "close" => Closes(c)' = Closes(c)
      BY <3>1, ToldMore
    <3>4. CASE event = "open"
      <4>1. About(c) = {} /\ ~broken[c]
        BY <1>3, <1>4, <3>4 DEF TellOk
      <4>2. ToldInOrder(c)' /\ Closes(c)' = {}
        BY <3>1, <3>4, <4>1, ToldOpen
      <4> QED
        BY <1>3, <3>3, <3>4, <4>2 DEF TellHere
    <3>5. CASE event = "msg"
      <4>1. /\ About(c) # {} /\ ToldInOrder(c)
            /\ \A k \in Closes(c), j \in About(c) : j <= k
            /\ Closes(c) # {} => event = "msg" /\ broken[c]
        BY <1>3, <3>2, <3>5 DEF TellHere
      <4>2. ToldInOrder(c)'
        BY <1>1, <3>1, <3>5, <4>1, ToldLater
      <4> QED
        BY <1>1, <1>2, <1>3, <3>2, <3>3, <3>5, <4>2 DEF TellHere
    <3>6. CASE event = "close"
      <4>1. About(c) # {} /\ ToldInOrder(c) /\ Closes(c) = {} /\ ~broken[c]
        BY <1>3, <1>4, <3>2, <3>6 DEF TellHere, TellOk
      <4>2. ToldInOrder(c)'
        BY <1>1, <3>1, <3>6, <4>1, ToldLater
      <4>3. ~LuaCloses(c)'
        BY <1>2, <1>4, <4>1 DEF TellOk
      <4> QED
        BY <1>3, <3>3, <3>6, <4>2, <4>3 DEF TellHere
    <3> QED
      BY <3>4, <3>5, <3>6 DEF Events
  <2>2. /\ broken'[c] => pc'[c] \in {"idle", "msg", "freed"}
        /\ LuaCloses(c)' => broken'[c]
        /\ pc'[c] \notin {"none", "drawn", "raised", "open"}
    BY <1>1, <1>2, <1>3, <1>4 DEF TellOk
  <2> QED
    BY <2>1, <2>2 DEF TellOk
<1>5. Distinct => TellOk(c)'
  BY <1>4 DEF TellInv
<1> QED
  BY <1>1, <1>2, <1>3, <1>5, TellPost

LEMMA LuaPosts ==
  ASSUME TypeInv, OnInv, MapInv, TellInv, Distinct' => Distinct,
         luaPc = "close", CloseBegin(luaOn, Lua), LuaGoto("erase", luaOn),
         UNCHANGED pc
  PROVE  TellInv'
<1> SUFFICES ASSUME NEW c \in Conns, luaOn = c PROVE TellInv'
  BY DEF OnInv
<1>1. /\ UNCHANGED <<fdOf, broken, pc>> /\ luaPc' = "erase" /\ luaOn' = c
      /\ Post(c, "close", fdOf[c]) /\ "close" \in Events
  BY DEF CloseBegin, MapInv, LuaGoto, Events
<1>2. InCallOn /\ luaOn' = luaOn /\ \A d : ~LuaCloses(d)'
  BY <1>1 DEF InCallOn, LuaCloses
<1>3. ASSUME Distinct PROVE TellOk(c)'
  <2>1. TellOk(c) /\ About(c) # {} /\ broken[c]
    BY <1>2, <1>3 DEF TellInv, Known, LuaCloses, TellOk
  <2>2. ASSUME c \notin early' PROVE TellHere(c)'
    <3>1. /\ c \notin early
          /\ posted' = Append(posted, [event |-> "close", fd |-> fdOf[c], conn |-> c])
      BY <1>1, <2>2, PostMore
    <3>2. ToldInOrder(c) /\ Closes(c) = {}
      BY <2>1, <3>1 DEF TellOk, TellHere, LuaCloses
    <3>3. ToldInOrder(c)' /\ \A k \in Closes(c)', j \in About(c)' : j <= k
      BY <1>1, <2>1, <3>1, <3>2, ToldLater
    <3>4. About(c)' # {}
      BY <1>1, <2>1, PostMore
    <3> QED
      BY <1>1, <1>2, <2>1, <3>3, <3>4 DEF TellHere
  <2>3. pc[c] \notin {"none", "drawn", "raised", "open"}
    BY <2>1 DEF TellOk
  <2> QED
    BY <1>1, <1>2, <2>1, <2>2, <2>3 DEF TellOk
<1> QED
  BY <1>1, <1>2, <1>3, TellPost

LEMMA TellStep ==
  TypeInv /\ OnInv /\ MapInv /\ TellInv /\ [Next]_vars => TellInv'
<1> SUFFICES ASSUME TypeInv, OnInv, MapInv, TellInv, [Next]_vars PROVE TellInv'
  OBVIOUS
<1>1. Distinct' => Distinct
  BY DistinctBefore
<1>2. CASE UNCHANGED vars
  <2>1. UNCHANGED <<posted, fdOf, early, broken, pc, luaPc, luaOn>>
    BY <1>2 DEF vars, connVars, luaVars
  <2>2. \A x : /\ About(x)' = About(x) /\ Closes(x)' = Closes(x)
               /\ (broken[x] => broken'[x]) /\ ToldInOrder(x) => ToldInOrder(x)'
    BY <2>1, ToldSame
  <2>3. FdTold' /\ (Distinct' => Known')
    BY <1>1, <2>1, <2>2 DEF TellInv, FdTold, Known, InCallOn
  <2>4. ASSUME NEW c \in Conns, TellOk(c) PROVE TellOk(c)'
    BY <2>1, <2>2, <2>4 DEF TellOk, TellHere, LuaCloses
  <2> QED
    BY <1>1, <2>3, <2>4 DEF TellInv
<1>3. ASSUME NEW c \in Conns,
             OpenDraw(c) \/ Handler(c) \/ MessageFind(c) \/ End(c) \/ Free(c)
      PROVE  TellInv'
  BY <1>1, <1>3, ConnSilent, ConnPosts DEF Handler, ConnClose
<1>4. CASE \/ NewServer \/ DestroyServer \/ Listen \/ InCall
           \/ \E fd \in Fds : Send(fd) \/ Close(fd)
  BY <1>1, <1>4, LuaSilent, LuaPosts DEF InCall, LuaClose
<1> QED
  BY <1>2, <1>3, <1>4 DEF Next

(* Of a connection whose fd nobody else drew and whose callbacks were set,  *)
(* a script hears Open, its messages and Close, and after a Close that Lua  *)
(* itself came upon one message at most.                                    *)
THEOREM WellToldHolds == Spec => []WellTold
<1>1. Init => MapInv /\ OverInv /\ TellInv
  <2> SUFFICES ASSUME Init PROVE MapInv /\ OverInv /\ TellInv
    OBVIOUS
  <2>1. MapInv /\ OverInv
    BY MapInit
  <2>2. \A x : About(x) = {} /\ Closes(x) = {}
    BY DEF Init, About, Closes
  <2>3. FdTold /\ luaPc = "idle" /\ \A c \in Conns : pc[c] = "none" /\ ~broken[c]
    BY DEF Init, FdTold
  <2> QED
    BY <2>1, <2>2, <2>3 DEF TellInv, Known, InCallOn, TellOk, TellHere, ToldInOrder,
                            LuaCloses
<1>2. TypeInv /\ OnInv /\ MapInv /\ OverInv /\ TellInv => WellTold
  <2> SUFFICES ASSUME TypeInv, TellInv PROVE WellTold
    OBVIOUS
  <2>1. ASSUME Distinct, NEW c \in Conns \ early PROVE ToldInOrder(c)
    BY <2>1 DEF TellInv, TellOk, TellHere
  <2> QED
    BY <2>1 DEF WellTold
<1> QED
  BY <1>1, <1>2, MapStep, TellStep, TypeInvHolds, PTL DEF Spec
=============================================================================

--------------------------- MODULE WebsocketServer ---------------------------
(***************************************************************************)
(* The websocket server: src/websocket/server and the Server of            *)
(* src/lualib/net/websocket.lua.                                           *)
(*                                                                         *)
(* The library (ixwebsocket, external) gives each connection a thread, on  *)
(* which it calls onServerMsg with Open, Message and Close.  Lua of one    *)
(* service listens, sends and closes on the worker that polls the service. *)
(* mLock guards the two maps; send holds it while it writes, and the Close *)
(* handler while it posts.  A write that finds the connection broken makes *)
(* the library call the Close handler there and then, on the thread that   *)
(* writes.                                                                 *)
(*                                                                         *)
(* One server.  The lock and the ids of WebsocketServerMgr are those of    *)
(* TcpServerMgr (TcpServer) and left out, and so are the ports, the hosts  *)
(* and the bytes.  close() of the whole server has no caller but the       *)
(* destructor, which nobody calls.                                         *)
(*                                                                         *)
(* An operator whose name extends the name of the one right below it is a  *)
(* mutant: what that operator would be if the code had a plausible slip.   *)
(***************************************************************************)
EXTENDS Naturals, Sequences, FiniteSets

CONSTANTS
  Conns,     (* the connections, each with its WebSocket and its thread     *)
  MaxMsgs,   (* messages per connection (bounds the runs)                   *)
  MaxCalls,  (* calls of send and close (bounds the runs)                   *)
  Lua,       (* the thread of the service                                   *)
  Nil

ASSUME BoundAssumption == MaxMsgs \in Nat /\ MaxCalls \in Nat
ASSUME NameAssumption ==
  /\ IsFiniteSet(Conns)
  /\ Lua \notin Conns /\ Nil \notin Conns \union {Lua}

VARIABLES
  registered,  (* WebsocketServerMgr has the server                         *)
  mServer,     (* there is an ix::WebSocketServer, listening or failed      *)
  started,     (* it accepts connections                                    *)
  callback,    (* the callbacks that are set                                *)
  mAutoId,     (* the next fd, drawn without the lock                       *)
  mSessions,   (* fd -> connection, Nil where there is none                 *)
  mReverseSessions,  (* connection -> fd, 0 where there is none             *)
  mLock,       (* who holds the lock                                        *)
  pc,          (* connection: where its thread is                           *)
  fdOf,        (* connection: the fd its Open drew                          *)
  msgs,        (* connection: messages so far                               *)
  broken,      (* connection: its Close was called on the thread of Lua     *)
  luaPc, luaOn,(* where the call of Lua is, and on which connection         *)
  calls,       (* calls of send and close so far                            *)
  posted,      (* what was posted to the service, oldest first              *)
  early,       (* history: connections with a handler before its callback   *)
               (* was set                                                   *)
  crashed      (* the process died                                          *)

serverVars == <<registered, mServer, started, callback>>
mapVars    == <<mAutoId, mSessions, mReverseSessions, mLock>>
connVars   == <<pc, fdOf, msgs, broken>>
luaVars    == <<luaPc, luaOn, calls>>
vars == <<serverVars, mapVars, connVars, luaVars, posted, early, crashed>>

Fds    == 1..Cardinality(Conns)
Events == {"open", "msg", "close"}

(* freed: the thread has left and its WebSocket is deleted.                 *)
ConnPcs == {"none", "drawn", "raised", "open", "idle", "msg", "close",
            "erase", "left", "freed"}
LuaPcs  == {"idle", "setOpen", "setMsg", "setClose", "send", "stuck",
            "closeSocket", "close", "erase"}

Init ==
  /\ registered = FALSE /\ mServer = FALSE /\ started = FALSE
  /\ callback = {}
  /\ mAutoId = 1
  /\ mSessions = [fd \in Fds |-> Nil]
  /\ mReverseSessions = [c \in Conns |-> 0]
  /\ mLock = Nil
  /\ pc = [c \in Conns |-> "none"] /\ fdOf = [c \in Conns |-> 0]
  /\ msgs = [c \in Conns |-> 0] /\ broken = [c \in Conns |-> FALSE]
  /\ luaPc = "idle" /\ luaOn = Nil /\ calls = 0
  /\ posted = <<>> /\ early = {} /\ crashed = FALSE

(* A callback that is being assigned may be seen half written.              *)
SetPc == [open |-> "setOpen", msg |-> "setMsg", close |-> "setClose"]

(* if (this->mOn...Func) this->mOn...Func(fd), for connection c.            *)
Post(c, event, fd) ==
  /\ posted' = IF event \in callback
               THEN Append(posted, [event |-> event, fd |-> fd, conn |-> c])
               ELSE posted
  /\ early' = IF event \in callback THEN early ELSE early \union {c}
  /\ crashed' \in {FALSE, luaPc = SetPc[event]}

ConnGoto(c, where) == pc' = [pc EXCEPT ![c] = where]
LuaGoto(where, c)  == luaPc' = where /\ luaOn' = c
-----------------------------------------------------------------------------
(* The threads of the connections.                                          *)

(* Open: mAutoId is read and raised without the lock.  A build that keeps   *)
(* the value it read stores that plus one, one that reads it again stores   *)
(* the current value plus one ...                                           *)
OpenDraw(c) ==
  /\ started /\ pc[c] = "none"
  /\ fdOf' = [fdOf EXCEPT ![c] = mAutoId]
  /\ ConnGoto(c, "drawn")
  /\ UNCHANGED <<serverVars, mapVars, msgs, broken, luaVars, posted, early,
                 crashed>>

NextFd(fd) == {fd + 1, mAutoId + 1}

OpenRaise(c) ==
  /\ pc[c] = "drawn"
  /\ mAutoId' \in NextFd(fdOf[c])
  /\ ConnGoto(c, "raised")
  /\ UNCHANGED <<serverVars, mSessions, mReverseSessions, mLock, fdOf, msgs,
                 broken, luaVars, posted, early, crashed>>

(* ... and the fd is inserted under the lock; map::insert keeps the entry   *)
(* that is there.                                                           *)
AfterInsertReads == "idle"
AfterInsert == "open"

OpenInsert(c) ==
  LET fd == fdOf[c] IN
    /\ pc[c] = "raised" /\ mLock = Nil
    /\ mSessions' = [mSessions EXCEPT ![fd] = IF @ = Nil THEN c ELSE @]
    /\ mReverseSessions' = [mReverseSessions EXCEPT ![c] = fd]
    /\ ConnGoto(c, AfterInsert)
    /\ UNCHANGED <<serverVars, mAutoId, mLock, fdOf, msgs, broken, luaVars,
                   posted, early, crashed>>

OpenPost(c) ==
  /\ pc[c] = "open"
  /\ Post(c, "open", fdOf[c])
  /\ ConnGoto(c, "idle")
  /\ UNCHANGED <<serverVars, mapVars, fdOf, msgs, broken, luaVars>>

(* Message: the fd is looked up under the lock and posted after it.         *)
MessageFind(c) ==
  /\ pc[c] = "idle" /\ ~broken[c] /\ msgs[c] < MaxMsgs /\ mLock = Nil
  /\ msgs' = [msgs EXCEPT ![c] = @ + 1]
  /\ ConnGoto(c, IF mReverseSessions[c] = 0 THEN "idle" ELSE "msg")
  /\ UNCHANGED <<serverVars, mapVars, fdOf, broken, luaVars, posted, early,
                 crashed>>

MessagePost(c) ==
  /\ pc[c] = "msg"
  /\ Post(c, "msg", fdOf[c])
  /\ ConnGoto(c, "idle")
  /\ UNCHANGED <<serverVars, mapVars, fdOf, msgs, broken, luaVars>>

(* The peer closes or is gone, or Lua has closed the socket.                *)
End(c) ==
  /\ pc[c] = "idle" /\ ~broken[c]
  /\ ConnGoto(c, "close")
  /\ UNCHANGED <<serverVars, mapVars, fdOf, msgs, broken, luaVars, posted,
                 early, crashed>>

(* Close: it posts and erases under the lock.                               *)
CloseBegin(c, thread) ==
  /\ mLock = Nil /\ mReverseSessions[c] # 0
  /\ mLock' = thread
  /\ Post(c, "close", mReverseSessions[c])
  /\ UNCHANGED <<serverVars, mAutoId, mSessions, mReverseSessions, fdOf, msgs,
                 broken, calls>>

ErasedNot(fd) == mSessions
Erased(fd) == [mSessions EXCEPT ![fd] = Nil]

UnlockedNot == mLock
Unlocked == Nil

CloseEnd(c, thread) ==
  /\ mLock = thread
  /\ mSessions' = Erased(mReverseSessions[c])
  /\ mReverseSessions' = [mReverseSessions EXCEPT ![c] = 0]
  /\ mLock' = Unlocked
  /\ UNCHANGED <<serverVars, mAutoId, fdOf, msgs, broken, calls, posted, early,
                 crashed>>

ConnClose(c) ==
  /\ \/ pc[c] = "close" /\ CloseBegin(c, c) /\ ConnGoto(c, "erase")
     \/ pc[c] = "erase" /\ CloseEnd(c, c) /\ ConnGoto(c, "left")
  /\ UNCHANGED <<luaPc, luaOn>>

(* The thread leaves and its WebSocket is deleted.                          *)
Free(c) ==
  /\ pc[c] = "left" \/ (pc[c] = "idle" /\ broken[c])
  /\ ConnGoto(c, "freed")
  /\ UNCHANGED <<serverVars, mapVars, fdOf, msgs, broken, luaVars, posted,
                 early, crashed>>
-----------------------------------------------------------------------------
(* The calls of Lua.                                                        *)

NewServer ==
  /\ ~registered /\ ~mServer /\ luaPc = "idle"
  /\ registered' = TRUE
  /\ UNCHANGED <<mServer, started, callback, mapVars, connVars, luaVars,
                 posted, early, crashed>>

(* destroyServer takes the server from the map and leaves it running.       *)
DestroyServer ==
  /\ registered /\ luaPc = "idle"
  /\ registered' = FALSE
  /\ UNCHANGED <<mServer, started, callback, mapVars, connVars, luaVars,
                 posted, early, crashed>>

(* listen: one that fails leaves mServer behind, so the next returns false  *)
(* at once.  One that succeeds starts before the callbacks are set.         *)
Listen ==
  /\ registered /\ luaPc = "idle" /\ ~mServer
  /\ mServer' = TRUE
  /\ \/ started' = TRUE /\ LuaGoto("setOpen", Nil)
     \/ UNCHANGED <<started, luaPc, luaOn>>
  /\ UNCHANGED <<registered, callback, mapVars, connVars, calls, posted, early,
                 crashed>>

(* setOnConnectFunc, setOnMsgFunc, setOnCloseFunc.                          *)
SetCallback(event) ==
  /\ luaPc = SetPc[event]
  /\ LuaGoto([open |-> "setMsg", msg |-> "setClose", close |-> "idle"][event],
             Nil)
  /\ callback' = callback \union {event}
  /\ UNCHANGED <<registered, mServer, started, mapVars, connVars, calls, posted,
                 early, crashed>>

(* A script knows an fd from its messages; the lookup is under the lock.    *)
BeginOn(fd, where) ==
  /\ registered /\ luaPc = "idle" /\ mLock = Nil /\ calls < MaxCalls
  /\ \E k \in DOMAIN posted : posted[k].fd = fd
  /\ mSessions[fd] # Nil
  /\ calls' = calls + 1
  /\ LuaGoto(where, mSessions[fd])
  /\ UNCHANGED <<serverVars, mAutoId, mSessions, mReverseSessions, connVars,
                 posted, early, crashed>>

Send(fd) == BeginOn(fd, "send") /\ mLock' = Lua

SendEnd ==
  /\ luaPc = "send"
  /\ mLock' = Unlocked /\ LuaGoto("idle", Nil)
  /\ UNCHANGED <<serverVars, mAutoId, mSessions, mReverseSessions, connVars,
                 calls, posted, early, crashed>>

(* The connection breaks under a write: Close is called on this thread,     *)
(* once and no more on the connection's own.                                *)
BreaksUnder(where, next) ==
  /\ luaPc = where /\ pc[luaOn] \in {"open", "idle", "msg"} /\ ~broken[luaOn]
  /\ broken' = [broken EXCEPT ![luaOn] = TRUE]
  /\ LuaGoto(next, luaOn)
  /\ UNCHANGED <<serverVars, mapVars, pc, fdOf, msgs, calls, posted, early,
                 crashed>>

(* In send the handler then waits for the lock its own thread holds.        *)
SendBreaks == BreaksUnder("send", "stuck")

(* close(fd) has given the lock back when it uses the socket.               *)
Close(fd) == BeginOn(fd, "closeSocket") /\ UNCHANGED mLock

CloseSocket ==
  /\ luaPc = "closeSocket" /\ LuaGoto("idle", Nil)
  /\ crashed' \in {FALSE, pc[luaOn] = "freed"}
  /\ UNCHANGED <<serverVars, mapVars, connVars, calls, posted, early>>

CloseBreaks == BreaksUnder("closeSocket", "close")

LuaClose ==
  /\ \/ luaPc = "close" /\ CloseBegin(luaOn, Lua) /\ LuaGoto("erase", luaOn)
     \/ luaPc = "erase" /\ CloseEnd(luaOn, Lua) /\ LuaGoto("idle", Nil)
  /\ UNCHANGED pc
-----------------------------------------------------------------------------
Handler(c) ==
  \/ OpenRaise(c) \/ OpenInsert(c) \/ OpenPost(c)
  \/ MessagePost(c) \/ ConnClose(c)

InCall ==
  \/ \E e \in Events : SetCallback(e)
  \/ SendEnd \/ SendBreaks \/ CloseSocket \/ CloseBreaks \/ LuaClose

Next ==
  /\ ~crashed
  /\ \/ \E c \in Conns :
          OpenDraw(c) \/ Handler(c) \/ MessageFind(c) \/ End(c) \/ Free(c)
     \/ NewServer \/ DestroyServer \/ Listen \/ InCall
     \/ \E fd \in Fds : Send(fd) \/ Close(fd)

Spec == Init /\ [][Next]_vars

(* A thread inside a handler or a call goes on; who retries for mLock gets  *)
(* it, if it is free again and again (try_lock and sleep).                  *)
FairSpec ==
  /\ Spec
  /\ \A c \in Conns : SF_vars(~crashed /\ Handler(c))
  /\ SF_vars(~crashed /\ InCall)
-----------------------------------------------------------------------------
TypeOK ==
  /\ registered \in BOOLEAN /\ mServer \in BOOLEAN /\ started \in BOOLEAN
  /\ callback \subseteq Events
  /\ mAutoId \in Fds \union {Cardinality(Conns) + 1}
  /\ mSessions \in [Fds -> Conns \union {Nil}]
  /\ mReverseSessions \in [Conns -> {0} \union Fds]
  /\ mLock \in Conns \union {Lua, Nil}
  /\ pc \in [Conns -> ConnPcs] /\ fdOf \in [Conns -> {0} \union Fds]
  /\ msgs \in [Conns -> 0..MaxMsgs] /\ broken \in [Conns -> BOOLEAN]
  /\ luaPc \in LuaPcs /\ luaOn \in Conns \union {Nil}
  /\ calls \in 0..MaxCalls
  /\ posted \in Seq([event : Events, fd : Fds, conn : Conns])
  /\ early \subseteq Conns
  /\ crashed \in BOOLEAN

(* No two connections drew one fd.                                          *)
Distinct == \A c, d \in Conns : fdOf[c] = fdOf[d] /\ fdOf[c] # 0 => c = d

(* The two maps are each other's inverse whenever the lock is free: Opens   *)
(* that drew two fds and wait for the lock in any order, Close on two       *)
(* threads, and send between them.                                          *)
MapsInverse ==
  Distinct /\ mLock = Nil =>
    \A fd \in Fds, c \in Conns :
      mSessions[fd] = c <=> mReverseSessions[c] = fd

(* A send never writes to a WebSocket that was deleted: what Lua finds in   *)
(* mSessions under the lock is alive until the lock is given back, even     *)
(* when two connections drew one fd.                                        *)
SendSafe ==
  /\ luaPc = "idle" /\ mLock = Nil =>
       \A fd \in Fds : mSessions[fd] # Nil => pc[mSessions[fd]] # "freed"
  /\ luaPc = "send" /\ ~broken[luaOn] => pc[luaOn] # "freed"

(* What the lock is for: maps that agree, and pointers in them that live.   *)
MapsAgree == TypeOK /\ MapsInverse /\ SendSafe

(* What was posted of connection c, and which of it is Close: positions in  *)
(* posted.                                                                  *)
About(c) == {k \in DOMAIN posted : posted[k].conn = c}
Closes(c) == {k \in About(c) : posted[k].event = "close"}

(* Open comes first and once; Close comes last, but for one message when    *)
(* it was Lua that came upon the end.                                       *)
ToldInOrder(c) ==
  /\ \A k \in About(c) : posted[k].event = "open" <=> \A j \in About(c) : k <= j
  /\ \A k \in Closes(c) : \A j \in About(c) :
       j > k => /\ broken[c] /\ posted[j].event = "msg"
                /\ \A i \in About(c) : i > k => i = j

(* As long as no fd was drawn twice, a script hears of a connection Open,   *)
(* its messages and Close, in this order and Open and Close once, unless a  *)
(* callback was not set yet; a message may follow the Close that Lua itself *)
(* came upon.                                                               *)
WellTold == Distinct => \A c \in Conns \ early : ToldInOrder(c)

(* The lock comes back: the one way to lose it is a send that runs into the *)
(* Close of its own connection.                                             *)
LockComesBack == mLock # Nil ~> (mLock = Nil \/ luaPc = "stuck" \/ crashed)

(* A script is told of every connection that ended, whatever fd it drew,    *)
(* unless the lock is lost or the callback was not set yet.                 *)
EndTold ==
  \A c \in Conns :
    (pc[c] = "close" \/ (luaPc = "close" /\ luaOn = c)) ~>
      \/ luaPc = "stuck" \/ crashed \/ c \in early
      \/ \E k \in DOMAIN posted :
           posted[k].event = "close" /\ posted[k].conn = c
=============================================================================

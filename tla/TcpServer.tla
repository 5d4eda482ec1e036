------------------------------ MODULE TcpServer ------------------------------
(***************************************************************************)
(* The tcp server: src/socket/tcp/server and src/socket/tcp/session, with  *)
(* the object of src/lualib/net/tcp.lua that a script holds.               *)
(*                                                                         *)
(* Lua of a service calls newTcpServer, listen, send, close, getRemoteInfo *)
(* and destroy on the worker that polls the service.  The handlers of asio *)
(* (onAcceptor, onMsg) run on the main thread, one at a time.  What the    *)
(* server tells the service are the messages its three callbacks post.     *)
(*                                                                         *)
(* The lock of a TcpServer is never held across a call that waits, so what *)
(* is done under it is one step; mLock of TcpServerMgr is held by          *)
(* TcpServerMgr::close while the server posts and takes its own lock, and  *)
(* is the variable mLock.  Posting is one step here: ServiceQueue and      *)
(* MsgPath say what becomes of a post.                                     *)
(*                                                                         *)
(* A server object has the name of the service that made it.               *)
(*                                                                         *)
(* An operator whose name extends the name of the one right below it is a  *)
(* mutant: what that operator would be if the code had a plausible slip.   *)
(***************************************************************************)
EXTENDS Naturals, Sequences, FiniteSets

CONSTANTS
  Services,    (* each makes one server at most (bounds the runs)           *)
  MaxFd,       (* connections a server may accept (bounds the runs)         *)
  MaxChunks,   (* reads with data per connection (bounds the runs)          *)
  MaxCalls,    (* calls of send and close per service (bounds the runs)     *)
  Nil

ASSUME BoundAssumption == MaxFd \in Nat /\ MaxChunks \in Nat /\ MaxCalls \in Nat
ASSUME NameAssumption  == Nil \notin Services /\ IsFiniteSet(Services)

VARIABLES
  mAutoId,     (* TcpServerMgr: the next id, read and raised without a lock *)
  mServers,    (* TcpServerMgr: id -> server, Nil where there is none       *)
  mLock,       (* TcpServerMgr: who holds the lock                          *)
  ptr,         (* the id each service drew, also mId of the server it made  *)
  mAcceptor,   (* server: there is an acceptor                              *)
  accepts,     (* server: async_accept operations outstanding               *)
  autoFd,      (* server: its mAutoId                                       *)
  mSessions,   (* server: the connections in the map                        *)
  callback,    (* server: the service a callback posts to, Nil before       *)
  read,        (* session: its async_read_some, see Reads                   *)
  chunks,      (* session: reads with data so far                           *)
  pc, at, fdOf,(* service: where its call is, on which server and fd        *)
  calls,       (* service: calls of send and close so far                   *)
  mainPc, mainOn, mainFd,  (* main: the handler it runs, its server and fd  *)
  mainTo,      (* main: the server that onMsg found                         *)
  posted,      (* per service: the messages posted to it, oldest first      *)
  failed,      (* history: sessions whose read ended with an error          *)
  refused,     (* history: servers with a failed accept                     *)
  early,       (* history: connections accepted before the callback was set *)
  late,        (* history: messages of a session posted after its erase     *)
  dangling,    (* history: a handler used a session that was freed          *)
  crashed      (* the process died                                          *)

mgrVars     == <<mAutoId, mServers, mLock, ptr>>
serverVars  == <<mAcceptor, accepts, autoFd, mSessions, callback>>
sessionVars == <<read, chunks>>
callVars    == <<pc, at, fdOf, calls>>
mainVars    == <<mainPc, mainOn, mainFd, mainTo>>
pastVars    == <<failed, refused, early, late, dangling>>

vars == <<mgrVars, serverVars, sessionVars, callVars, mainVars, posted,
          pastVars, crashed>>

Fds == 1..MaxFd
Ids == 1..(Cardinality(Services) + 1)
Events == {"connect", "close", "msg"}

(* none: no read; waiting: asio has it; data, error: its handler is due.    *)
Reads == {"none", "waiting", "data", "error"}

Calls == {"none", "bump", "insert", "idle", "bind", "setConnect", "setClose",
          "setMsg", "close", "erase", "write", "lockMgr", "failPost",
          "failErase"}

Init ==
  /\ mAutoId = 1
  /\ mServers = [n \in Ids |-> Nil]
  /\ mLock = Nil
  /\ ptr = [s \in Services |-> 0]
  /\ mAcceptor = [o \in Services |-> FALSE]
  /\ accepts = [o \in Services |-> 0]
  /\ autoFd = [o \in Services |-> 1]
  /\ mSessions = [o \in Services |-> {}]
  /\ callback = [o \in Services |-> [e \in Events |-> Nil]]
  /\ read = [o \in Services |-> [fd \in Fds |-> "none"]]
  /\ chunks = [o \in Services |-> [fd \in Fds |-> 0]]
  /\ pc = [s \in Services |-> "none"]
  /\ at = [s \in Services |-> Nil]
  /\ fdOf = [s \in Services |-> 0]
  /\ calls = [s \in Services |-> 0]
  /\ mainPc = "poll" /\ mainOn = Nil /\ mainFd = 0 /\ mainTo = Nil
  /\ posted = [s \in Services |-> <<>>]
  /\ failed = [o \in Services |-> {}]
  /\ refused = {}
  /\ early = [o \in Services |-> {}]
  /\ late = [o \in Services |-> [fd \in Fds |-> 0]]
  /\ dangling = FALSE
  /\ crashed = FALSE

(* The message a callback posts, to the service that listened.              *)
Msg(o, event, fd) == [id |-> ptr[o], event |-> event, fd |-> fd]

(* if (this->mOn...Func) this->mOn...Func(fd).                              *)
Post(o, event, fd) ==
  LET s == callback[o][event] IN
    posted' = IF s = Nil THEN posted
              ELSE [posted EXCEPT ![s] = Append(@, Msg(o, event, fd))]

(* getServer: lock, find, unlock.                                           *)
GetServer(id) == IF id \in Ids THEN mServers[id] ELSE Nil

(* The call of s goes on with c, on server o, with fd.                      *)
Goto(s, c, o, fd) ==
  /\ pc' = [pc EXCEPT ![s] = c]
  /\ at' = [at EXCEPT ![s] = o]
  /\ fdOf' = [fdOf EXCEPT ![s] = fd]

Step(s, from, to) ==
  /\ pc[s] = from
  /\ Goto(s, to, at[s], fdOf[s])
  /\ UNCHANGED calls

Return(s, from) ==
  /\ pc[s] = from
  /\ Goto(s, "idle", Nil, 0)
  /\ UNCHANGED calls

(* Some shared_ptr to the session is left: the one in the map, or the one   *)
(* the call of a service holds while it writes.                             *)
InUseByReads(o, fd) == TRUE
InUse(o, fd) ==
  \/ fd \in mSessions[o]
  \/ \E s \in Services :
       /\ pc[s] \in {"write", "lockMgr", "failPost", "failErase"}
       /\ at[s] = o /\ fdOf[s] = fd

-----------------------------------------------------------------------------
(* newTcpServer: the id is drawn and raised without the lock.               *)

NewServer(s) ==
  /\ pc[s] = "none"
  /\ ptr' = [ptr EXCEPT ![s] = mAutoId]
  /\ Goto(s, "bump", Nil, 0)
  /\ UNCHANGED <<mAutoId, mServers, mLock, serverVars, sessionVars, calls,
                 mainVars, posted, pastVars, crashed>>

BumpId(s) ==
  /\ Step(s, "bump", "insert")
  /\ mAutoId' \in {ptr[s] + 1, mAutoId + 1}
  /\ UNCHANGED <<mServers, mLock, ptr, serverVars, sessionVars, mainVars,
                 posted, pastVars, crashed>>

(* std::map::insert keeps the server that is there.                         *)
InsertServer(s) ==
  /\ mLock = Nil
  /\ Return(s, "insert")
  /\ mServers' = IF mServers[ptr[s]] = Nil
                 THEN [mServers EXCEPT ![ptr[s]] = s] ELSE mServers
  /\ UNCHANGED <<mAutoId, mLock, ptr, serverVars, sessionVars, mainVars,
                 posted, pastVars, crashed>>

(* listenTcpServer: no server or an acceptor already: return false.         *)
Listen(s) ==
  /\ pc[s] = "idle" /\ mLock = Nil
  /\ LET o == GetServer(ptr[s]) IN
       /\ o # Nil /\ ~mAcceptor[o]
       /\ Goto(s, "bind", o, 0)
  /\ UNCHANGED <<mgrVars, serverVars, sessionVars, calls, mainVars, posted,
                 pastVars, crashed>>

(* The acceptor opens and accepts, or bind throws what nobody catches.      *)
Bind(s) ==
  /\ Step(s, "bind", "setConnect")
  /\ mAcceptor' = [mAcceptor EXCEPT ![at[s]] = TRUE]
  /\ \/ accepts' = [accepts EXCEPT ![at[s]] = @ + 1] /\ UNCHANGED crashed
     \/ crashed' = TRUE /\ UNCHANGED accepts
  /\ UNCHANGED <<mgrVars, autoFd, mSessions, callback, sessionVars, mainVars,
                 posted, pastVars>>

(* setOnConnectFunc, setOnCloseFunc, setOnMsgFunc, in this order.           *)
SetCallback(s, event) ==
  /\ \/ event = "connect" /\ Step(s, "setConnect", "setClose")
     \/ event = "close"   /\ Step(s, "setClose", "setMsg")
     \/ event = "msg"     /\ Return(s, "setMsg")
  /\ callback' = [callback EXCEPT ![at[s]][event] = s]
  /\ UNCHANGED <<mgrVars, mAcceptor, accepts, autoFd, mSessions, sessionVars,
                 mainVars, posted, pastVars, crashed>>

(* destroyTcpServer takes the server from the map and leaves it at that.    *)
DestroyServer(s) ==
  /\ pc[s] = "idle" /\ mLock = Nil
  /\ GetServer(ptr[s]) # Nil
  /\ mServers' = [mServers EXCEPT ![ptr[s]] = Nil]
  /\ UNCHANGED <<mAutoId, mLock, ptr, serverVars, sessionVars, callVars,
                 mainVars, posted, pastVars, crashed>>
-----------------------------------------------------------------------------
(* closeTcpServer and sendTcpServer.  A script learns of a connection by a  *)
(* message and may use its fd at any time from then on.                     *)

Known(s, fd) == \E k \in DOMAIN posted[s] : posted[s][k].fd = fd

Begin(s, c, o, fd) ==
  /\ pc[s] = "idle" /\ mLock = Nil
  /\ Known(s, fd)
  /\ o # Nil
  /\ calls[s] < MaxCalls
  /\ calls' = [calls EXCEPT ![s] = @ + 1]
  /\ Goto(s, c, o, fd)

Close(s, fd) ==
  /\ Begin(s, "close", GetServer(ptr[s]), fd)
  /\ UNCHANGED <<mgrVars, serverVars, sessionVars, mainVars, posted,
                 pastVars, crashed>>

(* TcpServer::close(fd) posts first and looks the connection up after that. *)
PostCloseLost(o, fd) == UNCHANGED posted
PostClose(o, fd) == Post(o, "close", fd)

(* The last shared_ptr to a session goes: its socket closes and its read    *)
(* ends with an error, unless its handler is due already.                   *)
EraseSession(o, fd) == mSessions' = [mSessions EXCEPT ![o] = @ \ {fd}]

CloseBegin(s) ==
  /\ Step(s, "close", "erase")
  /\ PostClose(at[s], fdOf[s])
  /\ UNCHANGED <<mgrVars, serverVars, sessionVars, mainVars, pastVars,
                 crashed>>

CloseEnd(s) ==
  /\ Return(s, "erase")
  /\ EraseSession(at[s], fdOf[s])
  /\ UNCHANGED <<mgrVars, mAcceptor, accepts, autoFd, callback, sessionVars,
                 mainVars, posted, pastVars, crashed>>

(* send: no connection of that name: return false.                          *)
Send(s, fd) ==
  LET o == GetServer(ptr[s]) IN
    /\ Begin(s, "write", o, fd)
    /\ fd \in mSessions[o]
    /\ UNCHANGED <<mgrVars, serverVars, sessionVars, mainVars, posted,
                   pastVars, crashed>>

(* TcpSession::send: the write is done, or fails and closes the session.    *)
WriteOk(s) ==
  /\ Return(s, "write")
  /\ UNCHANGED <<mgrVars, serverVars, sessionVars, mainVars, posted,
                 pastVars, crashed>>

WriteFails(s) ==
  /\ Step(s, "write", "lockMgr")
  /\ UNCHANGED <<mgrVars, serverVars, sessionVars, mainVars, posted,
                 pastVars, crashed>>

(* TcpServerMgr::close holds mLock while the server closes the connection.  *)
MgrClose(s) ==
  /\ pc[s] = "lockMgr" /\ mLock = Nil
  /\ LET o == GetServer(ptr[at[s]]) IN
       \/ /\ o = Nil /\ Return(s, "lockMgr") /\ UNCHANGED mLock
       \/ /\ o # Nil /\ Goto(s, "failPost", o, fdOf[s]) /\ UNCHANGED calls
          /\ mLock' = s
  /\ UNCHANGED <<mAutoId, mServers, ptr, serverVars, sessionVars, mainVars,
                 posted, pastVars, crashed>>

MgrClosePost(s) ==
  /\ Step(s, "failPost", "failErase")
  /\ PostClose(at[s], fdOf[s])
  /\ UNCHANGED <<mgrVars, serverVars, sessionVars, mainVars, pastVars,
                 crashed>>

UnlockMgrForgotten == UNCHANGED mLock
UnlockMgr == mLock' = Nil

MgrCloseEnd(s) ==
  /\ Return(s, "failErase")
  /\ EraseSession(at[s], fdOf[s])
  /\ UnlockMgr
  /\ UNCHANGED <<mAutoId, mServers, ptr, mAcceptor, accepts, autoFd,
                 callback, sessionVars, mainVars, posted, pastVars, crashed>>

(* getRemoteInfoTcpServer takes what it gets for a session, and the         *)
(* endpoint of a peer that is gone throws.                                  *)
RemoteInfoFails(s, fd) ==
  /\ pc[s] = "idle" /\ mLock = Nil
  /\ Known(s, fd) /\ GetServer(ptr[s]) # Nil
  /\ crashed' = TRUE
  /\ UNCHANGED <<mgrVars, serverVars, sessionVars, callVars, mainVars,
                 posted, pastVars>>
-----------------------------------------------------------------------------
(* The handlers of main, in the order asio finds them ready.                *)

MainGoto(c, o, fd, to) ==
  mainPc' = c /\ mainOn' = o /\ mainFd' = fd /\ mainTo' = to


NextFdKept(fd) == fd
NextFd(fd) == fd + 1

(* onAcceptor: a session that reads, in the map, under the lock.            *)
OnAcceptor(o) ==
  /\ mainPc = "poll" /\ accepts[o] > 0 /\ autoFd[o] \in Fds
  /\ accepts' = [accepts EXCEPT ![o] = @ - 1]
  /\ autoFd' = [autoFd EXCEPT ![o] = NextFd(@)]
  /\ mSessions' = [mSessions EXCEPT ![o] = @ \union {autoFd[o]}]
  /\ read' = [read EXCEPT ![o][autoFd[o]] = "waiting"]
  /\ MainGoto("connect", o, autoFd[o], Nil)
  /\ UNCHANGED <<mgrVars, mAcceptor, callback, chunks, callVars, posted,
                 pastVars, crashed>>

(* An accept that fails is the last one of its acceptor.                    *)
OnAcceptorError(o) ==
  /\ mainPc = "poll" /\ accepts[o] > 0
  /\ accepts' = [accepts EXCEPT ![o] = @ - 1]
  /\ refused' = refused \union {o}
  /\ UNCHANGED <<mgrVars, mAcceptor, autoFd, mSessions, callback,
                 sessionVars, callVars, mainVars, posted, failed, early,
                 late, dangling, crashed>>

(* A callback that is being assigned may be seen half written.              *)
Torn(o, event) ==
  \E s \in Services :
    /\ at[s] = o
    /\ pc[s] = [connect |-> "setConnect", msg |-> "setMsg"][event]

DoAcceptor(o) == accepts' = [accepts EXCEPT ![o] = @ + 1]

OnConnect ==
  /\ mainPc = "connect"
  /\ MainGoto("poll", Nil, 0, Nil)
  /\ early' = IF callback[mainOn]["connect"] = Nil
              THEN [early EXCEPT ![mainOn] = @ \union {mainFd}] ELSE early
  /\ Post(mainOn, "connect", mainFd)
  /\ DoAcceptor(mainOn)
  /\ crashed' \in {FALSE, Torn(mainOn, "connect")}
  /\ UNCHANGED <<mgrVars, mAcceptor, autoFd, mSessions, callback,
                 sessionVars, callVars, failed, refused, late,
                 dangling>>

(* The peer sends, closes or breaks; or the session is gone and its read    *)
(* aborted.                                                                 *)
Arrive(o, fd) ==
  /\ read[o][fd] = "waiting"
  /\ \/ /\ InUse(o, fd) /\ chunks[o][fd] < MaxChunks
        /\ read' = [read EXCEPT ![o][fd] = "data"]
     \/ read' = [read EXCEPT ![o][fd] = "error"]
  /\ UNCHANGED <<mgrVars, serverVars, chunks, callVars, mainVars, posted,
                 pastVars, crashed>>

(* TcpSession::onMsg: an error ends the reading, and nothing else happens.  *)
OnReadError(o, fd) ==
  /\ mainPc = "poll" /\ read[o][fd] = "error"
  /\ read' = [read EXCEPT ![o][fd] = "none"]
  /\ failed' = [failed EXCEPT ![o] = @ \union {fd}]
  /\ UNCHANGED <<mgrVars, serverVars, chunks, callVars, mainVars, posted,
                 refused, early, late, dangling, crashed>>

(* From here on the handler uses the session: when it was freed the process *)
(* dies, or the handler still finds the old contents in the freed memory.   *)
UseSession(o, fd) ==
  IF InUse(o, fd) THEN UNCHANGED <<dangling, crashed>>
                  ELSE dangling' = TRUE /\ crashed' \in BOOLEAN

OnRead(o, fd) ==
  /\ mainPc = "poll" /\ read[o][fd] = "data"
  /\ read' = [read EXCEPT ![o][fd] = "none"]
  /\ chunks' = [chunks EXCEPT ![o][fd] = @ + 1]
  /\ UseSession(o, fd)
  /\ MainGoto("getServer", o, fd, Nil)
  /\ UNCHANGED <<mgrVars, serverVars, callVars, posted, failed, refused,
                 early, late>>

DoReadForgotten(o, fd) == UNCHANGED read
DoRead(o, fd) == read' = [read EXCEPT ![o][fd] = "waiting"]

(* A read of no bytes, which asio does not report for a stream.             *)
OnReadEmpty(o, fd) ==
  /\ mainPc = "poll" /\ read[o][fd] = "data"
  /\ UseSession(o, fd)
  /\ chunks' = [chunks EXCEPT ![o][fd] = @ + 1]
  /\ DoRead(o, fd)
  /\ UNCHANGED <<mgrVars, serverVars, callVars, mainVars, posted, failed,
                 refused, early, late>>

(* No server of that id any more: return.                                   *)
OnMsgGetServer ==
  /\ mainPc = "getServer" /\ mLock = Nil
  /\ LET o == GetServer(ptr[mainOn]) IN
       \/ o = Nil /\ MainGoto("poll", Nil, 0, Nil)
       \/ o # Nil /\ MainGoto("post", mainOn, mainFd, o)
  /\ UNCHANGED <<mgrVars, serverVars, sessionVars, callVars, posted,
                 pastVars, crashed>>

OnMsgPost ==
  /\ mainPc = "post"
  /\ Post(mainTo, "msg", mainFd)
  /\ crashed' \in {FALSE, Torn(mainTo, "msg")}
  /\ late' = IF mainFd \in mSessions[mainOn] THEN late
             ELSE [late EXCEPT ![mainOn][mainFd] = @ + 1]
  /\ MainGoto("read", mainOn, mainFd, mainTo)
  /\ UNCHANGED <<mgrVars, serverVars, sessionVars, callVars, failed, refused,
                 early, dangling>>

OnMsgRead ==
  /\ mainPc = "read"
  /\ UseSession(mainOn, mainFd)
  /\ DoRead(mainOn, mainFd)
  /\ MainGoto("poll", Nil, 0, Nil)
  /\ UNCHANGED <<mgrVars, serverVars, chunks, callVars, posted, failed,
                 refused, early, late>>
-----------------------------------------------------------------------------
Call(s) ==
  \/ NewServer(s) \/ BumpId(s) \/ InsertServer(s)
  \/ Listen(s) \/ Bind(s) \/ \E e \in Events : SetCallback(s, e)
  \/ DestroyServer(s)
  \/ \E fd \in Fds : Close(s, fd) \/ Send(s, fd) \/ RemoteInfoFails(s, fd)
  \/ CloseBegin(s) \/ CloseEnd(s)
  \/ WriteOk(s) \/ WriteFails(s)
  \/ MgrClose(s) \/ MgrClosePost(s) \/ MgrCloseEnd(s)

Handler ==
  \/ OnConnect \/ OnMsgGetServer \/ OnMsgPost \/ OnMsgRead
  \/ \E o \in Services : OnAcceptor(o) \/ OnAcceptorError(o)
  \/ \E o \in Services, fd \in Fds :
       OnReadError(o, fd) \/ OnRead(o, fd) \/ OnReadEmpty(o, fd)

Next ==
  /\ ~crashed
  /\ \/ \E s \in Services : Call(s)
     \/ Handler
     \/ \E o \in Services, fd \in Fds : Arrive(o, fd)

Spec == Init /\ [][Next]_vars

(* A thread that is inside a call goes on; who retries for mLock gets it,   *)
(* if it is free again and again (try_lock and sleep).                      *)
FairSpec ==
  /\ Spec
  /\ \A s \in Services :
       SF_vars(~crashed /\ pc[s] \notin {"none", "idle"} /\ Call(s))
  /\ SF_vars(~crashed /\ mainPc # "poll" /\ Handler)
-----------------------------------------------------------------------------
TypeOK ==
  /\ mAutoId \in Ids
  /\ mServers \in [Ids -> Services \union {Nil}]
  /\ mLock \in Services \union {Nil}
  /\ ptr \in [Services -> {0} \union Ids]
  /\ mAcceptor \in [Services -> BOOLEAN]
  /\ accepts \in [Services -> Nat]
  /\ autoFd \in [Services -> Nat]
  /\ mSessions \in [Services -> SUBSET Fds]
  /\ callback \in [Services -> [Events -> Services \union {Nil}]]
  /\ read \in [Services -> [Fds -> Reads]]
  /\ chunks \in [Services -> [Fds -> Nat]]
  /\ pc \in [Services -> Calls]
  /\ at \in [Services -> Services \union {Nil}]
  /\ fdOf \in [Services -> {0} \union Fds]
  /\ calls \in [Services -> 0..MaxCalls]
  /\ mainPc \in {"poll", "connect", "getServer", "post", "read"}
  /\ mainOn \in Services \union {Nil}
  /\ mainFd \in {0} \union Fds
  /\ mainTo \in Services \union {Nil}
  /\ posted \in [Services -> Seq([id : Ids, event : Events, fd : Fds])]
  /\ failed \in [Services -> SUBSET Fds]
  /\ refused \subseteq Services
  /\ early \in [Services -> SUBSET Fds]
  /\ late \in [Services -> [Fds -> Nat]]
  /\ dangling \in BOOLEAN /\ crashed \in BOOLEAN

(* No two calls of newTcpServer drew one id.                                *)
Distinct == \A s, t \in Services : ptr[s] = ptr[t] /\ ptr[s] # 0 => s = t

(* A service hears of a connection first by its Connect, and by one only;   *)
(* a connection accepted before listen had set the callback is never        *)
(* announced.  onAcceptor against listenTcpServer and the reads.            *)
ConnectFirst ==
  Distinct =>
    \A s \in Services : \A k \in DOMAIN posted[s] :
      LET fd == posted[s][k].fd
          connects == {j \in DOMAIN posted[s] :
                         posted[s][j] = Msg(s, "connect", fd)}
      IN  IF fd \in early[s] THEN connects = {}
          ELSE \E j \in connects : j <= k /\ connects = {j}

(* A connection that is out of the map was announced closed: by close of    *)
(* the script, or by the send that failed.                                  *)
CloseAnnounced ==
  Distinct =>
    \A s \in Services : \A fd \in Fds :
      fd < autoFd[s] /\ fd \notin mSessions[s] =>
        \E k \in DOMAIN posted[s] : posted[s][k] = Msg(s, "close", fd)

(* As long as its server is registered, a connection whose reads did not    *)
(* fail is being read: each way out of onMsg starts the next read.          *)
KeepsReading ==
  \A o \in Services : \A fd \in mSessions[o] \ failed[o] :
    ~crashed /\ ptr[o] # 0 /\ GetServer(ptr[o]) = o =>
      \/ read[o][fd] # "none"
      \/ mainOn = o /\ mainFd = fd

(* A server that listens has one accept going, no more and no less, until   *)
(* an accept fails; a destroyed server goes on accepting.                   *)
KeepsAccepting ==
  Distinct /\ ~crashed =>
    \A o \in Services :
      accepts[o] + (IF mainPc = "connect" /\ mainOn = o THEN 1 ELSE 0)
        = IF mAcceptor[o] /\ o \notin refused THEN 1 ELSE 0

(* No way out of a handler forgets what comes next.                         *)
KeepsGoing == TypeOK /\ KeepsReading /\ KeepsAccepting

(* After a connection was erased the service gets one message of it more at *)
(* most: that of the handler that was due or running.  A script that closes *)
(* a connection must expect that one.                                       *)
OneMessageLate ==
  Distinct => \A o \in Services : \A fd \in Fds : late[o][fd] <= 1

(* Neither a call of a service nor a handler of main waits for ever for the *)
(* lock that a failed send holds while it posts and closes.                 *)
CallsAndHandlersEnd ==
  /\ \A s \in Services :
       pc[s] \notin {"none", "idle"} ~> (pc[s] = "idle" \/ crashed)
  /\ mainPc # "poll" ~> (mainPc = "poll" \/ crashed)
=============================================================================

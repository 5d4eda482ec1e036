------------------------------ MODULE TcpClient ------------------------------
(***************************************************************************)
(* The tcp client: src/socket/tcp/client and the Client of                 *)
(* src/lualib/net/tcp.lua.                                                 *)
(*                                                                         *)
(* Lua of a service creates, connects, closes and destroys on the worker   *)
(* that polls the service; onConnect and onMsg run on the main thread.     *)
(* Both call TcpClient::close.  Nothing in a client is locked, and its     *)
(* socket, its callbacks and its one buffer mData serve one connection     *)
(* after the other: what is still due of an old connection runs on the     *)
(* new one.                                                                *)
(*                                                                         *)
(* One operation of asio on the socket is one step.  The io_context has    *)
(* work (IoLoop says what becomes of handlers when it has not).  The lock  *)
(* of TcpClientMgr guards single map operations and is left out; its ids   *)
(* are drawn without the lock like those of TcpServerMgr, and what comes   *)
(* of an id drawn twice is in TcpServer.  send writes what the peer takes  *)
(* and changes nothing here.                                               *)
(*                                                                         *)
(* The connections of a client have the numbers 1, 2, ...                  *)
(*                                                                         *)
(* An operator whose name extends the name of the one right below it is a  *)
(* mutant: what that operator would be if the code had a plausible slip.   *)
(***************************************************************************)
EXTENDS Naturals, Sequences, FiniteSets

CONSTANTS
  Clients,      (* each belongs to a service of its own                     *)
  MaxConnects,  (* connections of a client (bounds the runs)                *)
  MaxChunks,    (* reads with data of a client (bounds the runs)            *)
  Nil

ASSUME BoundAssumption == MaxConnects \in Nat /\ MaxChunks \in Nat
ASSUME NameAssumption  == Nil \notin Clients

VARIABLES
  mClients,     (* TcpClientMgr: the clients in the map                     *)
  mSocket,      (* client: see Sockets                                      *)
  conn,         (* client: the number of its connection                     *)
  reads,        (* client: async_read_some operations outstanding           *)
  chunks,       (* client: reads with data so far                           *)
  callback,     (* client: the callbacks that are set                       *)
  ready,        (* asio: the handlers that are due, oldest first            *)
  pc,           (* client: where the call of its service is                 *)
  mainPc, mainAt, mainConn,  (* main: the step of the handler it runs, its  *)
                (* client and the connection the handler is due for         *)
  posted,       (* client: what it posted to its service, oldest first      *)
  early,        (* history: [on, conn] answered before the callbacks were   *)
                (* set                                                      *)
  hurried,      (* history: clients that connected while a handler of an    *)
                (* older connection was due or running                      *)
  overlapped,   (* history: clients with two close() at a time              *)
  stolen,       (* history: clients whose connection was closed by a        *)
                (* handler of an older one                                  *)
  crashed       (* the process died                                         *)

clientVars == <<mSocket, conn, reads, chunks, callback>>
mainVars   == <<mainPc, mainAt, mainConn>>
pastVars   == <<early, hurried, overlapped, stolen>>
vars == <<mClients, clientVars, ready, pc, mainVars, posted, pastVars,
          crashed>>

(* is_open() is true of all but closed; down: the peer is gone; failed: so  *)
(* it stays, open, when async_connect has failed.                           *)
Sockets == {"closed", "connecting", "up", "down", "failed"}
Events  == {"connect", "connectError", "msg", "close"}
Calls   == {"none", "idle", "open", "setConnect", "setConnectError",
            "setMsg", "setClose", "close"}

IsOpen(o) == mSocket[o] # "closed"

Init ==
  /\ mClients = {}
  /\ mSocket = [o \in Clients |-> "closed"]
  /\ conn = [o \in Clients |-> 0]
  /\ reads = [o \in Clients |-> 0] /\ chunks = [o \in Clients |-> 0]
  /\ callback = [o \in Clients |-> {}]
  /\ ready = <<>>
  /\ pc = [o \in Clients |-> "none"]
  /\ mainPc = "poll" /\ mainAt = Nil /\ mainConn = 0
  /\ posted = [o \in Clients |-> <<>>]
  /\ early = {} /\ hurried = {} /\ overlapped = {} /\ stolen = {}
  /\ crashed = FALSE

Handler(o, kind, ok) == [on |-> o, kind |-> kind, ok |-> ok, conn |-> conn[o]]

(* socket::close: what is outstanding becomes due with operation_aborted.   *)
AbortedReadsOnly(o) == [k \in 1..reads[o] |-> Handler(o, "read", FALSE)]
Aborted(o) ==
  (IF mSocket[o] = "connecting" THEN <<Handler(o, "connect", FALSE)>>
                                ELSE <<>>) \o AbortedReadsOnly(o)

StillReading(o) == 0

Cancel(o) ==
  /\ ready' = ready \o Aborted(o)
  /\ reads' = [reads EXCEPT ![o] = StillReading(o)]

(* if (this->mOn...Func) this->mOn...Func(...), for connection n.           *)
Post(o, event, n) ==
  posted' = IF event \in callback[o]
            THEN [posted EXCEPT ![o] = Append(@, [event |-> event, conn |-> n])]
            ELSE posted

(* A callback that is being assigned may be seen half written.              *)
SetPc == [connect |-> "setConnect", connectError |-> "setConnectError",
          msg |-> "setMsg", close |-> "setClose"]
Torn(o, event) == pc[o] = SetPc[event]

Goto(o, c) == pc' = [pc EXCEPT ![o] = c]
-----------------------------------------------------------------------------
(* Calls of Lua.                                                            *)

NewClient(o) ==
  /\ pc[o] = "none"
  /\ mClients' = mClients \union {o}
  /\ Goto(o, "idle")
  /\ UNCHANGED <<clientVars, ready, mainVars, posted, pastVars, crashed>>

(* connect: false when the socket is open; a host that is no address makes  *)
(* make_address throw what nobody catches.                                  *)
MayConnectAlways(o) == TRUE
MayConnect(o) == ~IsOpen(o)

Connect(o) ==
  /\ pc[o] = "idle" /\ o \in mClients
  /\ MayConnect(o) /\ conn[o] < MaxConnects
  /\ Goto(o, "open")
  /\ crashed' \in BOOLEAN
  /\ UNCHANGED <<mClients, clientVars, ready, mainVars, posted, pastVars>>

(* async_connect opens the socket and starts, on this thread.               *)
Open(o) ==
  /\ pc[o] = "open"
  /\ Cancel(o)
  /\ mSocket' = [mSocket EXCEPT ![o] = "connecting"]
  /\ conn' = [conn EXCEPT ![o] = @ + 1]
  /\ hurried' = IF mainAt = o \/ \E k \in DOMAIN ready : ready[k].on = o
                THEN hurried \union {o} ELSE hurried
  /\ Goto(o, "setConnect")
  /\ UNCHANGED <<mClients, chunks, callback, mainVars, posted, early,
                 overlapped, stolen, crashed>>

(* setOnConnectFunc, setOnConnectErrorFunc, setOnMsgFunc, setOnCloseFunc.   *)
SetCallback(o, event) ==
  /\ pc[o] = SetPc[event]
  /\ Goto(o, [connect |-> "setConnectError", connectError |-> "setMsg",
              msg |-> "setClose", close |-> "idle"][event])
  /\ callback' = [callback EXCEPT ![o] = @ \union {event}]
  /\ UNCHANGED <<mClients, mSocket, conn, reads, chunks, ready, mainVars,
                 posted, pastVars, crashed>>

(* close: return unless the socket is open ...                              *)
Close(o) ==
  /\ pc[o] = "idle" /\ o \in mClients /\ IsOpen(o)
  /\ Goto(o, "close")
  /\ UNCHANGED <<mClients, clientVars, ready, mainVars, posted, pastVars,
                 crashed>>

(* ... then close it and post.                                              *)
DoClose(o) ==
  /\ Cancel(o)
  /\ mSocket' = [mSocket EXCEPT ![o] = "closed"]
  /\ Post(o, "close", conn[o])
  /\ crashed' \in {FALSE, Torn(o, "close")}
  /\ overlapped' = IF pc[o] = "close" /\ mainPc = "close" /\ mainAt = o
                   THEN overlapped \union {o} ELSE overlapped
  /\ early' = IF "close" \notin callback[o]
              THEN early \union {[on |-> o, conn |-> conn[o]]} ELSE early

CloseEnd(o) ==
  /\ pc[o] = "close"
  /\ DoClose(o)
  /\ Goto(o, "idle")
  /\ UNCHANGED <<mClients, conn, chunks, callback, mainVars, hurried, stolen>>

(* destroyClient takes the client from the map; it is never freed, nor      *)
(* closed.                                                                  *)
Destroy(o) ==
  /\ pc[o] = "idle" /\ o \in mClients
  /\ mClients' = mClients \ {o}
  /\ UNCHANGED <<clientVars, ready, pc, mainVars, posted, pastVars, crashed>>
-----------------------------------------------------------------------------
(* The network, as asio reports it.                                         *)

ConnectDone(o, ok) ==
  /\ mSocket[o] = "connecting"
  /\ mSocket' = [mSocket EXCEPT ![o] = IF ok THEN "up" ELSE "failed"]
  /\ ready' = Append(ready, Handler(o, "connect", ok))
  /\ UNCHANGED <<mClients, conn, reads, chunks, callback, pc, mainVars,
                 posted, pastVars, crashed>>

PeerGone(o) ==
  /\ mSocket[o] = "up"
  /\ mSocket' = [mSocket EXCEPT ![o] = "down"]
  /\ UNCHANGED <<mClients, conn, reads, chunks, callback, ready, pc,
                 mainVars, posted, pastVars, crashed>>

(* Data comes while the peer is up; without it each read ends in an error.  *)
ReadDone(o, ok) ==
  /\ reads[o] > 0
  /\ IF ok THEN mSocket[o] = "up" /\ chunks[o] < MaxChunks
           ELSE mSocket[o] \in {"down", "failed"}
  /\ reads' = [reads EXCEPT ![o] = @ - 1]
  /\ chunks' = IF ok THEN [chunks EXCEPT ![o] = @ + 1] ELSE chunks
  /\ ready' = Append(ready, Handler(o, "read", ok))
  /\ UNCHANGED <<mClients, mSocket, conn, callback, pc, mainVars, posted,
                 pastVars, crashed>>
-----------------------------------------------------------------------------
(* The handlers, on the main thread.                                        *)

MainGoto(c, o, n) == mainPc' = c /\ mainAt' = o /\ mainConn' = n
Due(kind, ok) == /\ mainPc = "poll" /\ ready # <<>>
                 /\ Head(ready).kind = kind /\ Head(ready).ok = ok
                 /\ ready' = Tail(ready)

Announce(event) ==
  LET h == Head(ready) IN
    /\ Post(h.on, event, h.conn)
    /\ crashed' \in {FALSE, Torn(h.on, event)}
    /\ early' = IF event \notin callback[h.on]
                THEN early \union {[on |-> h.on, conn |-> h.conn]} ELSE early
    /\ UNCHANGED <<mClients, clientVars, pc, hurried, overlapped, stolen>>

Connected(h) == MainGoto("read", h.on, h.conn)

OnConnect ==
  Due("connect", TRUE) /\ Announce("connect") /\ Connected(Head(ready))

OnConnectError ==
  /\ Due("connect", FALSE) /\ Announce("connectError")
  /\ MainGoto("poll", Nil, 0)

OnMsg ==
  /\ Due("read", TRUE) /\ Announce("msg")
  /\ MainGoto("read", Head(ready).on, Head(ready).conn)

(* An error of a read: close(), which asks first whether it is open.        *)
EndOfReadUnchecked(h) == MainGoto("close", h.on, h.conn)
EndOfReadSilent(h) == MainGoto("poll", Nil, 0)
EndOfRead(h) == IF IsOpen(h.on) THEN MainGoto("close", h.on, h.conn)
                                ELSE MainGoto("poll", Nil, 0)

OnMsgError ==
  /\ Due("read", FALSE) /\ EndOfRead(Head(ready))
  /\ UNCHANGED <<mClients, clientVars, pc, posted, pastVars, crashed>>

MainClose ==
  /\ mainPc = "close"
  /\ DoClose(mainAt)
  /\ stolen' = IF mainConn # conn[mainAt] THEN stolen \union {mainAt}
                                          ELSE stolen
  /\ MainGoto("poll", Nil, 0)
  /\ UNCHANGED <<mClients, conn, chunks, callback, pc, hurried>>

(* doRead reads whatever connection the socket has by now; one that is not  *)
(* connected yet may refuse the read.                                       *)
DoRead ==
  LET o == mainAt IN
    /\ mainPc = "read"
    /\ \/ /\ IsOpen(o)
          /\ reads' = [reads EXCEPT ![o] = @ + 1] /\ UNCHANGED ready
       \/ /\ mSocket[o] \in {"closed", "connecting"}
          /\ ready' = Append(ready, Handler(o, "read", FALSE))
          /\ UNCHANGED reads
    /\ MainGoto("poll", Nil, 0)
    /\ UNCHANGED <<mClients, mSocket, conn, chunks, callback, pc, posted,
                   pastVars, crashed>>
-----------------------------------------------------------------------------
Call(o) ==
  \/ NewClient(o) \/ Destroy(o)
  \/ Connect(o) \/ Open(o) \/ \E e \in Events : SetCallback(o, e)
  \/ Close(o) \/ CloseEnd(o)

Network(o) ==
  \E ok \in BOOLEAN : ConnectDone(o, ok) \/ ReadDone(o, ok)

Main == OnConnect \/ OnConnectError \/ OnMsg \/ OnMsgError \/ MainClose \/ DoRead

Next ==
  /\ ~crashed
  /\ \/ Main
     \/ \E o \in Clients : Call(o) \/ Network(o) \/ PeerGone(o)

Spec == Init /\ [][Next]_vars

(* Main polls and a call goes on; a connect succeeds or fails in the end,   *)
(* and the reads of a connection whose peer is gone end.                    *)
FairSpec ==
  /\ Spec
  /\ WF_vars(~crashed /\ Main)
  /\ \A o \in Clients :
       /\ WF_vars(~crashed /\ pc[o] \notin {"none", "idle"} /\ Call(o))
       /\ WF_vars(~crashed /\ mSocket[o] # "up" /\ Network(o))
-----------------------------------------------------------------------------
TypeOK ==
  /\ mClients \subseteq Clients
  /\ mSocket \in [Clients -> Sockets]
  /\ conn \in [Clients -> 0..MaxConnects]
  /\ reads \in [Clients -> Nat]
  /\ \A o \in Clients : ~IsOpen(o) => reads[o] = 0
  /\ chunks \in [Clients -> 0..MaxChunks]
  /\ callback \in [Clients -> SUBSET Events]
  /\ \A k \in DOMAIN ready : ready[k].conn \in 1..conn[ready[k].on]
  /\ pc \in [Clients -> Calls]
  /\ mainPc \in {"poll", "read", "close"}
  /\ mainAt \in Clients \union {Nil} /\ mainConn \in 0..MaxConnects
  /\ posted \in [Clients -> Seq([event : Events, conn : 1..MaxConnects])]
  /\ early \subseteq [on : Clients, conn : 1..MaxConnects]
  /\ hurried \subseteq Clients /\ overlapped \subseteq Clients
  /\ stolen \subseteq Clients
  /\ crashed \in BOOLEAN

(* The reads of client o that are outstanding, due or about to start.       *)
Readers(o) ==
  reads[o]
    + Cardinality({k \in DOMAIN ready : ready[k].on = o /\ ready[k].kind = "read"})
    + (IF mainPc = "read" /\ mainAt = o THEN 1 ELSE 0)

(* An open connection is never deaf: until it is closed, each way through   *)
(* onConnect and onMsg leaves a read outstanding or a handler due.          *)
NotDeaf ==
  \A o \in Clients :
    ~crashed /\ mSocket[o] \in {"up", "down"} =>
      \/ reads[o] > 0 \/ mainAt = o
      \/ \E k \in DOMAIN ready : ready[k].on = o

(* mData has one reader, unless the client connected again while something  *)
(* of its last connection was due.  onMsg and onConnect both read.          *)
OneReader ==
  \A o \in Clients \ hurried : Readers(o) <= 1

(* A connection is closed by its own script or its own error, never by an   *)
(* older connection's, unless the client connected in a hurry.              *)
OwnEnd == stolen \subseteq hurried

(* One reader, no fewer and no more, and for its own connection.            *)
SocketInOrder == TypeOK /\ NotDeaf /\ OneReader /\ OwnEnd

(* What client o told its script of connection n, and which of it is Close: *)
(* positions in posted[o].                                                  *)
About(o, n) == {k \in DOMAIN posted[o] : posted[o][k].conn = n}
Closes(o, n) == {k \in About(o, n) : posted[o][k].event = "close"}
IsAnswer(m) == m.event \in {"connect", "connectError"}

(* Connect or ConnectError comes once and before the messages; Close comes  *)
(* once, and at most one message after it.                                  *)
ToldInOrder(o, n) ==
  LET rest == About(o, n) \ Closes(o, n) IN
    /\ \A j, k \in Closes(o, n) : j = k
    /\ \A k \in rest : IsAnswer(posted[o][k]) <=> \A j \in rest : k <= j
    /\ \A c \in Closes(o, n) : \A j, k \in About(o, n) : j > c /\ k > c => j = k

(* What a script is told of a connection is in order, with every handler    *)
(* after the callbacks were set, no hurry and no two close() at a time.     *)
WellTold ==
  \A o \in Clients \ (hurried \union overlapped), n \in 1..MaxConnects :
    [on |-> o, conn |-> n] \notin early => ToldInOrder(o, n)

(* A connect that returned true is answered, by Connect or ConnectError,    *)
(* unless main answered before the callbacks were set.                      *)
Answered(o, n) ==
  \/ crashed \/ [on |-> o, conn |-> n] \in early
  \/ \E k \in DOMAIN posted[o] :
       /\ posted[o][k].conn = n
       /\ posted[o][k].event \in {"connect", "connectError"}

ConnectAnswered ==
  \A o \in Clients, n \in 1..MaxConnects : conn[o] = n ~> Answered(o, n)

(* A client learns that its peer is gone: the connection is closed, by main *)
(* or by the script, and a new one is possible.                             *)
EndNoticed ==
  \A o \in Clients : mSocket[o] = "down" ~> (mSocket[o] # "down" \/ crashed)
=============================================================================

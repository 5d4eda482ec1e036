-------------------------- MODULE TcpClient_proofs --------------------------
(***************************************************************************)
(* Theorems about TcpClient, for any clients and any number of connections *)
(* and reads.                                                              *)
(***************************************************************************)
EXTENDS TcpClient, FiniteSetTheorems, TLAPS

USE BoundAssumption, NameAssumption
USE DEF clientVars, mainVars, pastVars, vars

(* What asio may have due.                                                  *)
Handlers == [on : Clients, kind : {"connect", "read"}, ok : BOOLEAN,
             conn : 1..MaxConnects]
Told     == [event : Events, conn : 1..MaxConnects]
Pasts    == [on : Clients, conn : 1..MaxConnects]

-----------------------------------------------------------------------------
(* The parts of TypeOK, with the type of what is due.                       *)

ClientType ==
  /\ mClients \subseteq Clients
  /\ mSocket \in [Clients -> Sockets]
  /\ conn \in [Clients -> 0..MaxConnects]
  /\ reads \in [Clients -> Nat]
  /\ chunks \in [Clients -> 0..MaxChunks]
  /\ callback \in [Clients -> SUBSET Events]
  /\ pc \in [Clients -> Calls]

MainType ==
  /\ mainPc \in {"poll", "read", "close"}
  /\ mainAt \in Clients \union {Nil} /\ mainConn \in 0..MaxConnects

ReadyType == ready \in Seq(Handlers)

PostedType == posted \in [Clients -> Seq(Told)]

PastType ==
  /\ early \subseteq Pasts
  /\ hurried \subseteq Clients /\ overlapped \subseteq Clients
  /\ stolen \subseteq Clients
  /\ crashed \in BOOLEAN

(* A socket is open for a connection, and reads only then; who is about to  *)
(* open it found it closed.                                                 *)
OpenInv == \A o \in Clients :
  /\ IsOpen(o) => conn[o] >= 1
  /\ ~IsOpen(o) => reads[o] = 0
  /\ pc[o] = "open" => ~IsOpen(o) /\ conn[o] < MaxConnects
  /\ pc[o] = "close" => conn[o] >= 1

(* What is due or running is of a connection that was begun.                *)
BegunInv ==
  /\ \A k \in DOMAIN ready : ready[k].conn <= conn[ready[k].on]
  /\ mainPc = "poll" <=> mainAt = Nil
  /\ mainPc # "poll" => mainConn \in 1..conn[mainAt]
  /\ \A o \in Clients : \A k \in DOMAIN posted[o] : posted[o][k].conn <= conn[o]

TypeInv == /\ ClientType /\ MainType /\ ReadyType /\ PostedType /\ PastType
           /\ OpenInv /\ BegunInv

LEMMA TypeInvIsTypeOK == TypeInv => TypeOK
<1> SUFFICES ASSUME TypeInv PROVE TypeOK
  OBVIOUS
<1>1. \A k \in DOMAIN ready : ready[k].conn \in 1..conn[ready[k].on]
  <2> SUFFICES ASSUME NEW k \in DOMAIN ready PROVE ready[k].conn \in 1..conn[ready[k].on]
    OBVIOUS
  <2>1. ready[k] \in Handlers
    BY DEF TypeInv, ReadyType
  <2>2. ready[k].conn \in 1..MaxConnects /\ ready[k].on \in Clients
    BY <2>1 DEF Handlers
  <2>3. conn[ready[k].on] \in 0..MaxConnects /\ ready[k].conn <= conn[ready[k].on]
    BY <2>2 DEF TypeInv, ClientType, BegunInv
  <2> QED
    BY <2>2, <2>3
<1> QED
  BY <1>1 DEF TypeOK, TypeInv, ClientType, MainType, PostedType, PastType,
              OpenInv, Told, Pasts

LEMMA TypeInit == Init => TypeInv
<1> SUFFICES ASSUME Init PROVE TypeInv
  OBVIOUS
<1>1. ClientType /\ MainType /\ PastType
  <2>1. ClientType
    BY DEF Init, ClientType, Sockets, Calls
  <2>2. MainType
    BY DEF Init, MainType
  <2>3. PastType
    BY DEF Init, PastType
  <2> QED
    BY <2>1, <2>2, <2>3
<1>2. ReadyType /\ PostedType
  BY DEF Init, ReadyType, PostedType
<1>3. OpenInv /\ BegunInv
  BY DEF Init, OpenInv, BegunInv, IsOpen
<1> QED
  BY <1>1, <1>2, <1>3 DEF TypeInv

-----------------------------------------------------------------------------
(* What is done to the queue of asio and to what is posted.                 *)

LEMMA HandlerType ==
  ASSUME TypeInv, NEW o \in Clients, conn[o] >= 1,
         NEW kind \in {"connect", "read"}, NEW ok \in BOOLEAN
  PROVE  /\ Handler(o, kind, ok) \in Handlers
         /\ Handler(o, kind, ok).on = o /\ Handler(o, kind, ok).kind = kind
         /\ Handler(o, kind, ok).ok = ok /\ Handler(o, kind, ok).conn = conn[o]
BY DEF Handler, Handlers, TypeInv, ClientType

(* What closing the socket of o makes due.                                  *)
IsAborted(o, h) ==
  /\ h.on = o /\ ~h.ok /\ h.conn = conn[o]
  /\ \/ h.kind = "connect" /\ mSocket[o] = "connecting"
     \/ h.kind = "read" /\ reads[o] > 0

LEMMA AbortedType ==
  ASSUME TypeInv, NEW o \in Clients
  PROVE  /\ Aborted(o) \in Seq(Handlers)
         /\ Len(Aborted(o)) = reads[o] + (IF mSocket[o] = "connecting" THEN 1 ELSE 0)
         /\ \A k \in DOMAIN Aborted(o) : IsAborted(o, Aborted(o)[k])
<1>0. /\ conn[o] \in Nat /\ reads[o] \in Nat
      /\ mSocket[o] = "connecting" \/ reads[o] > 0 => conn[o] >= 1
  BY DEF TypeInv, ClientType, OpenInv, IsOpen
<1> DEFINE h == Handler(o, "read", FALSE)
           g == Handler(o, "connect", FALSE)
           n == reads[o]
           R == [k \in 1..n |-> h]
<1>1. conn[o] >= 1 => /\ h \in Handlers /\ g \in Handlers
                      /\ h.on = o /\ h.kind = "read" /\ ~h.ok /\ h.conn = conn[o]
                      /\ g.on = o /\ g.kind = "connect" /\ ~g.ok /\ g.conn = conn[o]
  BY HandlerType
<1>2. Aborted(o) = (IF mSocket[o] = "connecting" THEN <<g>> ELSE <<>>) \o R
  BY DEF Aborted, AbortedReadsOnly
<1> HIDE DEF h, g
<1>3. n \in Nat /\ (n > 0 => conn[o] >= 1)
  BY <1>0
<1> HIDE DEF n
<1>4. R \in Seq(Handlers) /\ Len(R) = n /\ \A k \in 1..n : R[k] = h
  BY <1>1, <1>3
<1> HIDE DEF R
<1>5. CASE mSocket[o] = "connecting"
  <2>1. <<g>> \in Seq(Handlers) /\ Len(<<g>>) = 1
    BY <1>0, <1>1, <1>5
  <2>2. Aborted(o) = <<g>> \o R
    BY <1>2, <1>5
  <2>3. /\ Aborted(o) \in Seq(Handlers) /\ Len(Aborted(o)) = n + 1
        /\ \A k \in DOMAIN Aborted(o) :
             \/ k = 1 /\ Aborted(o)[k] = g
             \/ n > 0 /\ Aborted(o)[k] = h
    BY <1>3, <1>4, <2>1, <2>2
  <2> QED
    BY <1>0, <1>1, <1>5, <2>3 DEF n, IsAborted
<1>6. CASE mSocket[o] # "connecting"
  <2>1. Aborted(o) = R
    BY <1>2, <1>4, <1>6
  <2>2. \A k \in DOMAIN Aborted(o) : n > 0 /\ Aborted(o)[k] = h
    BY <1>3, <1>4, <2>1
  <2> QED
    BY <1>0, <1>1, <1>3, <1>4, <1>6, <2>1, <2>2 DEF n, IsAborted
<1> QED
  BY <1>5, <1>6

(* The queue goes on with what is put behind it ...                         *)
LEMMA Behind ==
  ASSUME ReadyType, NEW a \in Seq(Handlers), ready' = ready \o a
  PROVE  /\ ReadyType'
         /\ DOMAIN ready = 1..Len(ready) /\ DOMAIN a = 1..Len(a)
         /\ Len(ready) \in Nat /\ Len(a) \in Nat
         /\ DOMAIN ready' = 1..(Len(ready) + Len(a))
         /\ \A k \in DOMAIN ready : k \in DOMAIN ready' /\ ready'[k] = ready[k]
         /\ \A k \in DOMAIN ready' \ DOMAIN ready :
              k - Len(ready) \in DOMAIN a /\ ready'[k] = a[k - Len(ready)]
BY DEF ReadyType

LEMMA BehindOne ==
  ASSUME ReadyType, NEW h \in Handlers, ready' = Append(ready, h)
  PROVE  /\ ReadyType'
         /\ DOMAIN ready' = DOMAIN ready \union {Len(ready) + 1}
         /\ Len(ready) + 1 \notin DOMAIN ready
         /\ \A k \in DOMAIN ready : ready'[k] = ready[k]
         /\ ready'[Len(ready) + 1] = h
BY DEF ReadyType

(* ... and moves up when the oldest handler runs.                           *)
LEMMA MovesUp ==
  ASSUME ReadyType, ready # <<>>, ready' = Tail(ready)
  PROVE  /\ ReadyType' /\ Head(ready) \in Handlers
         /\ 1 \in DOMAIN ready /\ ready[1] = Head(ready)
         /\ DOMAIN ready \subseteq Nat
         /\ \A k \in DOMAIN ready' : k \in Nat /\ k >= 1 /\ k + 1 \in DOMAIN ready
                                     /\ ready'[k] = ready[k + 1]
BY DEF ReadyType

LEMMA PostMoves ==
  ASSUME PostedType, NEW o \in Clients, NEW event \in Events,
         NEW n \in 1..MaxConnects, Post(o, event, n)
  PROVE  /\ PostedType'
         /\ \A p \in Clients \ {o} : posted'[p] = posted[p]
         /\ event \notin callback[o] => posted'[o] = posted[o]
         /\ event \in callback[o] =>
              posted'[o] = Append(posted[o], [event |-> event, conn |-> n])
<1> DEFINE m == [event |-> event, conn |-> n]
<1>1. m \in Told
  BY DEF Told
<1>2. posted' = IF event \in callback[o]
                THEN [posted EXCEPT ![o] = Append(posted[o], m)] ELSE posted
  BY DEF Post
<1> HIDE DEF m
<1>3. CASE event \in callback[o]
  BY <1>1, <1>2, <1>3 DEF PostedType, m
<1>4. CASE event \notin callback[o]
  BY <1>2, <1>4 DEF PostedType
<1> QED
  BY <1>3, <1>4

(* What is posted is of a connection that was begun.                        *)
LEMMA PostedBegun ==
  ASSUME TypeInv, NEW o \in Clients, NEW event \in Events,
         NEW n \in 1..MaxConnects, n <= conn[o], Post(o, event, n), conn' = conn
  PROVE  \A p \in Clients : \A k \in DOMAIN posted'[p] : posted'[p][k].conn <= conn'[p]
<1> DEFINE m == [event |-> event, conn |-> n]
<1>1. /\ \A p \in Clients \ {o} : posted'[p] = posted[p]
      /\ posted'[o] = posted[o] \/ posted'[o] = Append(posted[o], m)
  BY PostMoves DEF TypeInv
<1>2. m.conn = n
  OBVIOUS
<1> HIDE DEF m
<1>3. posted[o] \in Seq(Told)
  BY DEF TypeInv, PostedType
<1>4. \A p \in Clients : \A k \in DOMAIN posted[p] : posted[p][k].conn <= conn[p]
  BY DEF TypeInv, BegunInv
<1>5. ASSUME posted'[o] = Append(posted[o], m), NEW k \in DOMAIN posted'[o]
      PROVE  posted'[o][k].conn <= conn[o]
  <2>1. \/ k \in DOMAIN posted[o] /\ posted'[o][k] = posted[o][k]
        \/ posted'[o][k] = m
    BY <1>3, <1>5
  <2> QED
    BY <1>2, <1>4, <2>1
<1> QED
  BY <1>1, <1>4, <1>5

LEMMA CancelMoves ==
  ASSUME TypeInv, NEW o \in Clients, Cancel(o)
  PROVE  /\ ReadyType'
         /\ reads' = [reads EXCEPT ![o] = 0]
         /\ DOMAIN ready \subseteq DOMAIN ready'
         /\ \A k \in DOMAIN ready : ready'[k] = ready[k]
         /\ \A k \in DOMAIN ready' \ DOMAIN ready : IsAborted(o, ready'[k])
         /\ mSocket[o] # "connecting" /\ reads[o] = 0 => ready' = ready
         /\ (IF mSocket[o] = "connecting" THEN 1 ELSE 0) + reads[o] <= 1 =>
              \A j, k \in DOMAIN ready' \ DOMAIN ready : j = k
<1> DEFINE a == Aborted(o)
<1>1. /\ a \in Seq(Handlers)
      /\ Len(a) = reads[o] + (IF mSocket[o] = "connecting" THEN 1 ELSE 0)
      /\ \A k \in DOMAIN a : IsAborted(o, a[k])
  BY AbortedType
<1>2. ready' = ready \o a /\ reads' = [reads EXCEPT ![o] = 0] /\ ReadyType
  BY DEF Cancel, StillReading, TypeInv
<1> HIDE DEF a
<1>3. /\ ReadyType'
      /\ DOMAIN ready = 1..Len(ready) /\ DOMAIN a = 1..Len(a)
      /\ Len(ready) \in Nat /\ Len(a) \in Nat
      /\ DOMAIN ready' = 1..(Len(ready) + Len(a))
      /\ \A k \in DOMAIN ready : k \in DOMAIN ready' /\ ready'[k] = ready[k]
      /\ \A k \in DOMAIN ready' \ DOMAIN ready :
           k - Len(ready) \in DOMAIN a /\ ready'[k] = a[k - Len(ready)]
  BY <1>1, <1>2, Behind
<1>4. \A k \in DOMAIN ready' \ DOMAIN ready : IsAborted(o, ready'[k])
  BY <1>1, <1>3
<1>5. ASSUME mSocket[o] # "connecting", reads[o] = 0 PROVE ready' = ready
  <2>1. Len(a) = 0
    BY <1>1, <1>5
  <2> QED
    BY <1>1, <1>2, <2>1 DEF ReadyType
<1>6. ASSUME (IF mSocket[o] = "connecting" THEN 1 ELSE 0) + reads[o] <= 1
      PROVE  \A j, k \in DOMAIN ready' \ DOMAIN ready : j = k
  <2>1. Len(a) <= 1
    BY <1>1, <1>6 DEF TypeInv, ClientType
  <2> QED
    BY <1>3, <2>1
<1> QED
  BY <1>2, <1>3, <1>4, <1>5, <1>6

-----------------------------------------------------------------------------
(* The types and the order of things, one action at a time.                 *)

OpenOk(o) ==
  /\ IsOpen(o) => conn[o] >= 1
  /\ ~IsOpen(o) => reads[o] = 0
  /\ pc[o] = "open" => ~IsOpen(o) /\ conn[o] < MaxConnects
  /\ pc[o] = "close" => conn[o] >= 1

LEMMA OpenOthers ==
  ASSUME TypeInv, NEW o \in Clients, OpenOk(o)',
         \A p \in Clients \ {o} : /\ mSocket'[p] = mSocket[p] /\ conn'[p] = conn[p]
                                  /\ reads'[p] = reads[p] /\ pc'[p] = pc[p]
  PROVE  OpenInv'
BY DEF TypeInv, OpenInv, OpenOk, IsOpen

(* Closing the socket of o, by its script or by main.                       *)
LEMMA CloseTypes ==
  ASSUME TypeInv, NEW o \in Clients, conn[o] >= 1, DoClose(o), conn' = conn
  PROVE  /\ ReadyType' /\ PostedType' /\ crashed' \in BOOLEAN
         /\ mSocket' = [mSocket EXCEPT ![o] = "closed"]
         /\ reads' = [reads EXCEPT ![o] = 0]
         /\ early' \subseteq Pasts /\ overlapped' \subseteq Clients
         /\ \A k \in DOMAIN ready' : ready'[k].conn <= conn'[ready'[k].on]
         /\ \A p \in Clients : \A k \in DOMAIN posted'[p] : posted'[p][k].conn <= conn'[p]
<1>0. /\ conn[o] \in 1..MaxConnects /\ PostedType /\ early \subseteq Pasts
      /\ overlapped \subseteq Clients
  BY DEF TypeInv, ClientType, PastType
<1>1. Cancel(o) /\ Post(o, "close", conn[o])
  BY DEF DoClose
<1>2. ReadyType' /\ reads' = [reads EXCEPT ![o] = 0]
  BY <1>1, CancelMoves
<1>3. \A k \in DOMAIN ready' : ready'[k].conn <= conn'[ready'[k].on]
  <2>1. /\ \A k \in DOMAIN ready : ready'[k] = ready[k]
        /\ \A k \in DOMAIN ready' \ DOMAIN ready : IsAborted(o, ready'[k])
    BY <1>1, CancelMoves
  <2>2. ASSUME NEW k \in DOMAIN ready' PROVE ready'[k].conn <= conn'[ready'[k].on]
    <3>1. CASE k \in DOMAIN ready
      BY <2>1, <3>1 DEF TypeInv, BegunInv
    <3>2. CASE k \notin DOMAIN ready
      BY <1>0, <2>1, <3>2 DEF IsAborted
    <3> QED
      BY <3>1, <3>2
  <2> QED
    BY <2>2
<1>4. PostedType' /\ \A p \in Clients : \A k \in DOMAIN posted'[p] : posted'[p][k].conn <= conn'[p]
  <2>1. "close" \in Events /\ conn[o] <= conn[o]
    BY <1>0 DEF Events
  <2> QED
    BY <1>0, <1>1, <2>1, PostMoves, PostedBegun
<1>5. early' \subseteq Pasts
  BY <1>0 DEF DoClose, Pasts
<1>6. crashed' \in BOOLEAN
  BY DEF DoClose, Torn
<1>7. overlapped' \subseteq Clients /\ mSocket' = [mSocket EXCEPT ![o] = "closed"]
  BY <1>0 DEF DoClose
<1> QED
  BY <1>2, <1>3, <1>4, <1>5, <1>6, <1>7

LEMMA CallTypes ==
  ASSUME TypeInv, NEW o \in Clients, Call(o)
  PROVE  TypeInv'
<1>0. /\ ClientType /\ MainType /\ ReadyType /\ PostedType /\ PastType
      /\ OpenInv /\ BegunInv /\ OpenOk(o)
  BY DEF TypeInv, OpenInv, OpenOk
<1>a. ASSUME UNCHANGED <<mSocket, conn, reads, ready, mainVars, posted, early,
                         hurried, overlapped, stolen>>
      PROVE  MainType' /\ ReadyType' /\ PostedType' /\ BegunInv'
  BY <1>0, <1>a DEF MainType, ReadyType, PostedType, BegunInv
<1>1. CASE NewClient(o) \/ Destroy(o)
  <2>1. ClientType' /\ PastType'
    BY <1>0, <1>1 DEF NewClient, Destroy, Goto, ClientType, Calls, PastType
  <2>2. OpenInv'
    BY <1>0, <1>1 DEF NewClient, Destroy, Goto, OpenInv, IsOpen, ClientType
  <2> QED
    BY <1>1, <1>a, <2>1, <2>2 DEF TypeInv, NewClient, Destroy
<1>2. CASE Connect(o) \/ Close(o)
  <2>1. ClientType' /\ PastType'
    BY <1>0, <1>2 DEF Connect, Close, Goto, ClientType, Calls, PastType
  <2>2. OpenInv'
    BY <1>0, <1>2 DEF Connect, Close, MayConnect, Goto, OpenInv, IsOpen, ClientType
  <2> QED
    BY <1>2, <1>a, <2>1, <2>2 DEF TypeInv, Connect, Close
<1>3. ASSUME NEW e \in Events, SetCallback(o, e) PROVE TypeInv'
  <2>1. \E c \in Calls \ {"open", "close"} : pc' = [pc EXCEPT ![o] = c]
    <3>1. pc' = [pc EXCEPT ![o] = [connect |-> "setConnectError",
                                   connectError |-> "setMsg",
                                   msg |-> "setClose", close |-> "idle"][e]]
      BY <1>3 DEF SetCallback, Goto
    <3>2. [connect |-> "setConnectError", connectError |-> "setMsg",
           msg |-> "setClose", close |-> "idle"][e] \in Calls \ {"open", "close"}
      BY DEF Events, Calls
    <3> QED
      BY <3>1, <3>2
  <2>2. ClientType' /\ PastType'
    BY <1>0, <1>3, <2>1 DEF SetCallback, ClientType, PastType
  <2>3. OpenInv'
    BY <1>0, <1>3, <2>1 DEF SetCallback, OpenInv, IsOpen, ClientType
  <2> QED
    BY <1>3, <1>a, <2>2, <2>3 DEF TypeInv, SetCallback
<1>4. CASE Open(o)
  <2>1. /\ mSocket[o] = "closed" /\ reads[o] = 0 /\ conn[o] < MaxConnects
        /\ conn[o] \in Nat
    BY <1>0, <1>4 DEF Open, OpenOk, IsOpen, ClientType
  <2>2. /\ ready' = ready /\ reads' = [reads EXCEPT ![o] = 0]
        /\ mSocket' = [mSocket EXCEPT ![o] = "connecting"]
        /\ conn' = [conn EXCEPT ![o] = conn[o] + 1]
        /\ pc' = [pc EXCEPT ![o] = "setConnect"]
    BY <1>4, <2>1, CancelMoves DEF Open, Goto
  <2>3. ClientType'
    BY <1>0, <1>4, <2>1, <2>2 DEF Open, ClientType, Sockets, Calls
  <2>4. MainType' /\ ReadyType' /\ PostedType' /\ PastType'
    BY <1>0, <1>4, <2>2 DEF Open, MainType, ReadyType, PostedType, PastType
  <2>5. OpenInv'
    BY <1>0, <2>1, <2>2 DEF OpenInv, IsOpen, ClientType
  <2>6. \A p \in Clients : conn'[p] >= conn[p] /\ conn'[p] \in Nat /\ conn[p] \in Nat
    BY <1>0, <2>2 DEF ClientType
  <2>7. BegunInv'
    <3>1. \A k \in DOMAIN ready : ready[k].on \in Clients /\ ready[k].conn \in Nat
      <4>1. \A k \in DOMAIN ready : ready[k] \in Handlers
        BY <1>0 DEF ReadyType
      <4> QED
        BY <4>1 DEF Handlers
    <3>2. \A k \in DOMAIN ready' : ready'[k].conn <= conn'[ready'[k].on]
      BY <1>0, <2>2, <2>6, <3>1 DEF BegunInv
    <3>3. \A p \in Clients : \A k \in DOMAIN posted[p] : posted[p][k].conn \in Nat
      <4>1. \A p \in Clients : \A k \in DOMAIN posted[p] : posted[p][k] \in Told
        BY <1>0 DEF PostedType
      <4> QED
        BY <4>1 DEF Told
    <3>4. \A p \in Clients : \A k \in DOMAIN posted'[p] : posted'[p][k].conn <= conn'[p]
      BY <1>0, <1>4, <2>6, <3>3 DEF BegunInv, Open
    <3>5. mainPc' # "poll" => mainConn' \in 1..conn'[mainAt']
      <4>1. mainPc # "poll" => mainAt \in Clients /\ mainConn \in 1..conn[mainAt]
        BY <1>0 DEF BegunInv, MainType
      <4> QED
        BY <1>4, <2>6, <4>1 DEF Open
    <3> QED
      BY <1>0, <1>4, <3>2, <3>4, <3>5 DEF BegunInv, Open
  <2> QED
    BY <2>3, <2>4, <2>5, <2>7 DEF TypeInv
<1>5. CASE CloseEnd(o)
  <2>1. /\ conn[o] >= 1 /\ DoClose(o) /\ pc' = [pc EXCEPT ![o] = "idle"]
        /\ UNCHANGED <<mClients, conn, chunks, callback, mainVars, hurried, stolen>>
    BY <1>0, <1>5 DEF CloseEnd, OpenOk, Goto
  <2>2. /\ ReadyType' /\ PostedType' /\ crashed' \in BOOLEAN
        /\ mSocket' = [mSocket EXCEPT ![o] = "closed"]
        /\ reads' = [reads EXCEPT ![o] = 0]
        /\ early' \subseteq Pasts /\ overlapped' \subseteq Clients
        /\ \A k \in DOMAIN ready' : ready'[k].conn <= conn'[ready'[k].on]
        /\ \A p \in Clients : \A k \in DOMAIN posted'[p] : posted'[p][k].conn <= conn'[p]
    BY <2>1, CloseTypes
  <2>3. ClientType'
    BY <1>0, <2>1, <2>2 DEF ClientType, Sockets, Calls
  <2>4. OpenInv'
    BY <1>0, <2>1, <2>2 DEF OpenInv, IsOpen, ClientType
  <2> QED
    BY <1>0, <2>1, <2>2, <2>3, <2>4 DEF TypeInv, MainType, PastType, BegunInv
<1> QED
  BY <1>1, <1>2, <1>3, <1>4, <1>5 DEF Call

LEMMA NetworkTypes ==
  ASSUME TypeInv, NEW o \in Clients, Network(o) \/ PeerGone(o)
  PROVE  TypeInv'
<1>0. /\ ClientType /\ MainType /\ ReadyType /\ PostedType /\ PastType
      /\ OpenInv /\ BegunInv /\ OpenOk(o)
      /\ conn[o] \in 0..MaxConnects /\ reads[o] \in Nat
  BY DEF TypeInv, OpenInv, OpenOk, ClientType
<1>1. MainType' /\ PostedType' /\ PastType'
  <2>1. UNCHANGED <<mainVars, posted, pastVars, crashed>>
    BY DEF Network, ConnectDone, ReadDone, PeerGone
  <2> QED
    BY <1>0, <2>1 DEF MainType, PostedType, PastType
<1>2. ClientType'
  <2>1. CASE PeerGone(o)
    BY <1>0, <2>1 DEF PeerGone, ClientType, Sockets
  <2>2. ASSUME NEW ok \in BOOLEAN, ConnectDone(o, ok) PROVE ClientType'
    BY <1>0, <2>2 DEF ConnectDone, ClientType, Sockets
  <2>3. ASSUME NEW ok \in BOOLEAN, ReadDone(o, ok) PROVE ClientType'
    BY <1>0, <2>3 DEF ReadDone, ClientType
  <2> QED
    BY <2>1, <2>2, <2>3 DEF Network
<1>3. OpenInv'
  <2>1. CASE PeerGone(o)
    BY <1>0, <2>1 DEF PeerGone, ClientType, OpenInv, IsOpen
  <2>2. ASSUME NEW ok \in BOOLEAN, ConnectDone(o, ok) PROVE OpenInv'
    BY <1>0, <2>2 DEF ConnectDone, ClientType, OpenInv, IsOpen
  <2>3. ASSUME NEW ok \in BOOLEAN, ReadDone(o, ok) PROVE OpenInv'
    BY <1>0, <2>3 DEF ReadDone, ClientType, OpenInv, IsOpen
  <2> QED
    BY <2>1, <2>2, <2>3 DEF Network
<1>4. ReadyType' /\ BegunInv'
  <2>0. UNCHANGED <<conn, posted, mainVars>>
    BY DEF Network, ConnectDone, ReadDone, PeerGone
  <2>1. ASSUME NEW kind \in {"connect", "read"}, NEW ok \in BOOLEAN, conn[o] >= 1,
               ready' = Append(ready, Handler(o, kind, ok))
        PROVE  ReadyType' /\ BegunInv'
    <3> DEFINE h == Handler(o, kind, ok)
    <3>1. h \in Handlers /\ h.on = o /\ h.conn = conn[o]
      BY <2>1, HandlerType
    <3>2. ready' = Append(ready, h)
      BY <2>1
    <3> HIDE DEF h
    <3>3. /\ ReadyType' /\ DOMAIN ready' = DOMAIN ready \union {Len(ready) + 1}
          /\ \A k \in DOMAIN ready : ready'[k] = ready[k]
          /\ ready'[Len(ready) + 1] = h
      BY <1>0, <3>1, <3>2, BehindOne
    <3>4. \A k \in DOMAIN ready' : ready'[k].conn <= conn'[ready'[k].on]
      BY <1>0, <2>0, <3>1, <3>3 DEF BegunInv
    <3> QED
      BY <1>0, <2>0, <3>3, <3>4 DEF BegunInv
  <2>2. CASE ready' = ready
    BY <1>0, <2>0, <2>2 DEF ReadyType, BegunInv
  <2>3. \/ ready' = ready
        \/ conn[o] >= 1 /\ \E kind \in {"connect", "read"}, ok \in BOOLEAN :
                             ready' = Append(ready, Handler(o, kind, ok))
    <3>1. IsOpen(o) \/ reads[o] > 0 => conn[o] >= 1
      BY <1>0 DEF OpenOk
    <3> QED
      BY <3>1 DEF Network, ConnectDone, ReadDone, PeerGone, IsOpen
  <2> QED
    BY <2>1, <2>2, <2>3
<1> QED
  BY <1>0, <1>1, <1>2, <1>3, <1>4 DEF TypeInv

(* A handler that is due: what it is of.                                    *)
LEMMA DueFacts ==
  ASSUME TypeInv, NEW kind, NEW ok, Due(kind, ok)
  PROVE  /\ mainPc = "poll" /\ mainAt = Nil
         /\ Head(ready) \in Handlers /\ ReadyType'
         /\ Head(ready).on \in Clients /\ Head(ready).conn \in 1..MaxConnects
         /\ Head(ready).conn \in 1..conn[Head(ready).on]
         /\ 1 \in DOMAIN ready /\ ready[1] = Head(ready)
         /\ \A k \in DOMAIN ready' : k \in Nat /\ k >= 1 /\ k + 1 \in DOMAIN ready
                                     /\ ready'[k] = ready[k + 1]
         /\ \A k \in DOMAIN ready' : ready'[k].conn <= conn[ready'[k].on]
<1>1. ready # <<>> /\ ready' = Tail(ready) /\ ReadyType /\ mainPc = "poll"
  BY DEF Due, TypeInv
<1>2. /\ ReadyType' /\ Head(ready) \in Handlers
      /\ 1 \in DOMAIN ready /\ ready[1] = Head(ready)
      /\ \A k \in DOMAIN ready' : k \in Nat /\ k >= 1 /\ k + 1 \in DOMAIN ready
                                  /\ ready'[k] = ready[k + 1]
  BY <1>1, MovesUp
<1>3. /\ Head(ready).on \in Clients /\ Head(ready).conn \in 1..MaxConnects
      /\ Head(ready).conn <= conn[Head(ready).on]
      /\ conn[Head(ready).on] \in 0..MaxConnects
  BY <1>2 DEF Handlers, TypeInv, BegunInv, ClientType
<1> QED
  BY <1>1, <1>2, <1>3 DEF TypeInv, BegunInv

LEMMA AnnounceTypes ==
  ASSUME TypeInv, NEW kind, NEW ok, Due(kind, ok), NEW event \in Events,
         Announce(event)
  PROVE  /\ ClientType' /\ ReadyType' /\ PostedType' /\ PastType' /\ OpenInv'
         /\ UNCHANGED <<clientVars, pc>>
         /\ \A k \in DOMAIN ready' : ready'[k].conn <= conn'[ready'[k].on]
         /\ \A p \in Clients : \A k \in DOMAIN posted'[p] : posted'[p][k].conn <= conn'[p]
<1> DEFINE h == Head(ready)
<1>1. /\ ReadyType' /\ h.on \in Clients /\ h.conn \in 1..MaxConnects
      /\ h.conn \in 1..conn[h.on]
      /\ \A k \in DOMAIN ready' : ready'[k].conn <= conn[ready'[k].on]
  BY DueFacts
<1>2. /\ Post(h.on, event, h.conn) /\ crashed' \in {FALSE, Torn(h.on, event)}
      /\ UNCHANGED <<mClients, clientVars, pc, hurried, overlapped, stolen>>
      /\ early' = early \/ early' = early \union {[on |-> h.on, conn |-> h.conn]}
  BY DEF Announce
<1> HIDE DEF h
<1>3. /\ ClientType /\ PostedType /\ PastType /\ OpenInv /\ h.conn <= conn[h.on]
  BY <1>1 DEF TypeInv, ClientType
<1>4. PostedType'
  BY <1>1, <1>2, <1>3, PostMoves
<1>5. \A p \in Clients : \A k \in DOMAIN posted'[p] : posted'[p][k].conn <= conn'[p]
  BY <1>1, <1>2, <1>3, PostedBegun
<1>6. PastType'
  <2>1. [on |-> h.on, conn |-> h.conn] \in Pasts
    BY <1>1 DEF Pasts
  <2>2. crashed' \in BOOLEAN
    BY <1>2 DEF Torn
  <2> QED
    BY <1>2, <1>3, <2>1, <2>2 DEF PastType
<1>7. ClientType' /\ OpenInv'
  BY <1>2, <1>3 DEF ClientType, OpenInv, IsOpen
<1> QED
  BY <1>1, <1>2, <1>4, <1>5, <1>6, <1>7

LEMMA MainTypes ==
  ASSUME TypeInv, Main
  PROVE  TypeInv'
<1>0. /\ ClientType /\ MainType /\ ReadyType /\ PostedType /\ PastType
      /\ OpenInv /\ BegunInv
  BY DEF TypeInv
<1>1. ASSUME NEW kind, NEW ok, Due(kind, ok), NEW event \in Events, Announce(event),
             \/ MainGoto("read", Head(ready).on, Head(ready).conn)
             \/ MainGoto("poll", Nil, 0)
      PROVE  TypeInv'
  <2> DEFINE h == Head(ready)
  <2>1. h.on \in Clients /\ h.conn \in 1..MaxConnects /\ h.conn \in 1..conn[h.on]
    BY <1>1, DueFacts
  <2>2. MainGoto("read", h.on, h.conn) \/ MainGoto("poll", Nil, 0)
    BY <1>1
  <2> HIDE DEF h
  <2>3. /\ ClientType' /\ ReadyType' /\ PostedType' /\ PastType' /\ OpenInv'
        /\ UNCHANGED <<clientVars, pc>>
        /\ \A k \in DOMAIN ready' : ready'[k].conn <= conn'[ready'[k].on]
        /\ \A p \in Clients : \A k \in DOMAIN posted'[p] : posted'[p][k].conn <= conn'[p]
    BY <1>1, AnnounceTypes
  <2>4. /\ MainType' /\ (mainPc' = "poll" <=> mainAt' = Nil)
        /\ mainPc' # "poll" => mainConn' \in 1..conn'[mainAt']
    BY <2>1, <2>2, <2>3 DEF MainGoto, MainType
  <2> QED
    BY <2>3, <2>4 DEF TypeInv, BegunInv
<1>2. CASE OnConnect \/ OnConnectError \/ OnMsg
  BY <1>1, <1>2 DEF OnConnect, OnConnectError, OnMsg, Connected, Events
<1>3. CASE OnMsgError
  <2> DEFINE h == Head(ready)
  <2>1. /\ Due("read", FALSE) /\ UNCHANGED <<mClients, clientVars, pc, posted, pastVars, crashed>>
        /\ MainGoto("close", h.on, h.conn) \/ MainGoto("poll", Nil, 0)
    BY <1>3 DEF OnMsgError, EndOfRead
  <2>2. /\ h.on \in Clients /\ h.conn \in 1..MaxConnects /\ h.conn \in 1..conn[h.on]
        /\ ReadyType' /\ \A k \in DOMAIN ready' : ready'[k].conn <= conn[ready'[k].on]
    BY <2>1, DueFacts
  <2> HIDE DEF h
  <2>3. /\ MainType' /\ (mainPc' = "poll" <=> mainAt' = Nil)
        /\ mainPc' # "poll" => mainConn' \in 1..conn'[mainAt']
    BY <2>1, <2>2 DEF MainGoto, MainType
  <2>4. ClientType' /\ PostedType' /\ PastType' /\ OpenInv'
    BY <1>0, <2>1 DEF ClientType, PostedType, PastType, OpenInv, IsOpen
  <2>5. BegunInv'
    BY <1>0, <2>1, <2>2, <2>3 DEF BegunInv
  <2> QED
    BY <2>2, <2>3, <2>4, <2>5 DEF TypeInv
<1>m. mainPc # "poll" => /\ mainAt \in Clients /\ conn[mainAt] >= 1
                         /\ mainConn \in 1..conn[mainAt]
  BY <1>0 DEF MainType, BegunInv, ClientType
<1>4. CASE MainClose
  <2> DEFINE o == mainAt
  <2>1. /\ o \in Clients /\ conn[o] >= 1 /\ DoClose(o)
        /\ UNCHANGED <<mClients, conn, chunks, callback, pc, hurried>>
        /\ stolen' = stolen \/ stolen' = stolen \union {o}
        /\ mainPc' = "poll" /\ mainAt' = Nil /\ mainConn' = 0
    BY <1>4, <1>m DEF MainClose, MainGoto
  <2> HIDE DEF o
  <2>2. /\ ReadyType' /\ PostedType' /\ crashed' \in BOOLEAN
        /\ mSocket' = [mSocket EXCEPT ![o] = "closed"]
        /\ reads' = [reads EXCEPT ![o] = 0]
        /\ early' \subseteq Pasts /\ overlapped' \subseteq Clients
        /\ \A k \in DOMAIN ready' : ready'[k].conn <= conn'[ready'[k].on]
        /\ \A p \in Clients : \A k \in DOMAIN posted'[p] : posted'[p][k].conn <= conn'[p]
    BY <2>1, CloseTypes
  <2>3. ClientType'
    BY <1>0, <2>1, <2>2 DEF ClientType, Sockets
  <2>4. OpenInv'
    BY <1>0, <2>1, <2>2 DEF OpenInv, IsOpen, ClientType
  <2>5. PastType' /\ MainType'
    BY <1>0, <2>1, <2>2 DEF PastType, MainType
  <2> QED
    BY <1>0, <2>1, <2>2, <2>3, <2>4, <2>5 DEF TypeInv, BegunInv
<1>5. CASE DoRead
  <2> DEFINE o == mainAt
             h == Handler(o, "read", FALSE)
  <2>1. /\ o \in Clients /\ conn[o] >= 1
        /\ UNCHANGED <<mClients, mSocket, conn, chunks, callback, pc, posted,
                       pastVars, crashed>>
        /\ mainPc' = "poll" /\ mainAt' = Nil /\ mainConn' = 0
        /\ \/ IsOpen(o) /\ reads' = [reads EXCEPT ![o] = reads[o] + 1] /\ ready' = ready
           \/ ready' = Append(ready, h) /\ reads' = reads
    BY <1>5, <1>m DEF DoRead, MainGoto
  <2>2. h \in Handlers /\ h.on = o /\ h.conn = conn[o]
    BY <2>1, HandlerType
  <2> HIDE DEF o, h
  <2>3. ClientType' /\ OpenInv'
    BY <1>0, <2>1 DEF ClientType, OpenInv, IsOpen
  <2>4. PostedType' /\ PastType' /\ MainType'
    BY <1>0, <2>1 DEF PostedType, PastType, MainType
  <2>5. ReadyType' /\ \A k \in DOMAIN ready' : ready'[k].conn <= conn'[ready'[k].on]
    <3>1. CASE ready' = ready
      BY <1>0, <2>1, <3>1 DEF ReadyType, BegunInv
    <3>2. CASE ready' = Append(ready, h)
      <4>1. /\ ReadyType' /\ DOMAIN ready' = DOMAIN ready \union {Len(ready) + 1}
            /\ \A k \in DOMAIN ready : ready'[k] = ready[k]
            /\ ready'[Len(ready) + 1] = h
        BY <1>0, <2>2, <3>2, BehindOne
      <4>2. conn[o] <= conn[o]
        BY <1>0, <2>1 DEF ClientType
      <4> QED
        BY <1>0, <2>1, <2>2, <4>1, <4>2 DEF BegunInv
    <3> QED
      BY <2>1, <3>1, <3>2
  <2> QED
    BY <1>0, <2>1, <2>3, <2>4, <2>5 DEF TypeInv, BegunInv
<1> QED
  BY <1>2, <1>3, <1>4, <1>5 DEF Main

LEMMA TypeStep == ASSUME TypeInv, [Next]_vars PROVE TypeInv'
<1>1. CASE UNCHANGED vars
  BY <1>1 DEF TypeInv, ClientType, MainType, ReadyType, PostedType, PastType,
              OpenInv, BegunInv, IsOpen
<1> QED
  BY <1>1, CallTypes, NetworkTypes, MainTypes DEF Next

LEMMA TypeAlways == Spec => []TypeInv
BY TypeInit, TypeStep, PTL DEF Spec

-----------------------------------------------------------------------------
(* A client and the steps of others.                                        *)

DueOf(o) == {k \in DOMAIN ready : ready[k].on = o}

MainOf(o) == mainAt = o \/ (mainPc = "poll" /\ ready # <<>> /\ Head(ready).on = o)

OwnStep(o) == Call(o) \/ Network(o) \/ PeerGone(o) \/ (Main /\ MainOf(o))

(* What is due of o is what was due, moved up by d.                         *)
DueMoved(o, d) ==
  /\ \A k \in DueOf(o)' : k \in Nat /\ k + d \in DueOf(o) /\ ready'[k] = ready[k + d]
  /\ \A k \in DueOf(o) : \E j \in DueOf(o)' : ready'[j] = ready[k]

Stands(o) ==
  /\ mSocket'[o] = mSocket[o] /\ conn'[o] = conn[o] /\ reads'[o] = reads[o]
  /\ pc'[o] = pc[o] /\ posted'[o] = posted[o]
  /\ mainAt' = o <=> mainAt = o
  /\ mainAt = o => UNCHANGED mainVars
  /\ \E d \in {0, 1} : DueMoved(o, d)
  /\ o \in hurried' <=> o \in hurried
  /\ o \in overlapped' <=> o \in overlapped
  /\ o \in stolen' <=> o \in stolen
  /\ \A n : [on |-> o, conn |-> n] \in early' <=> [on |-> o, conn |-> n] \in early

LEMMA DueSame ==
  ASSUME TypeInv, NEW o \in Clients, ready' = ready
  PROVE  DueMoved(o, 0)
<1>1. DOMAIN ready \subseteq Nat
  BY DEF TypeInv, ReadyType
<1> QED
  BY <1>1 DEF DueMoved, DueOf

LEMMA DueBehind ==
  ASSUME TypeInv, NEW o \in Clients, DOMAIN ready \subseteq DOMAIN ready',
         \A k \in DOMAIN ready : ready'[k] = ready[k],
         \A k \in DOMAIN ready' \ DOMAIN ready : ready'[k].on # o
  PROVE  DueMoved(o, 0)
<1>1. DOMAIN ready \subseteq Nat
  BY DEF TypeInv, ReadyType
<1> QED
  BY <1>1 DEF DueMoved, DueOf

LEMMA DueUp ==
  ASSUME TypeInv, NEW o \in Clients, NEW kind, NEW ok, Due(kind, ok)
  PROVE  /\ Head(ready).on # o => DueMoved(o, 1)
         /\ Head(ready).on = o => 1 \in DueOf(o)
         /\ \A k \in DueOf(o)' : k \in Nat /\ k >= 1 /\ k + 1 \in DueOf(o)
                                 /\ ready'[k] = ready[k + 1]
         /\ \A k \in DueOf(o) : k = 1 \/ \E j \in DueOf(o)' : ready'[j] = ready[k]
<1>1. /\ 1 \in DOMAIN ready /\ ready[1] = Head(ready)
      /\ \A k \in DOMAIN ready' : k \in Nat /\ k >= 1 /\ k + 1 \in DOMAIN ready
                                  /\ ready'[k] = ready[k + 1]
  BY DueFacts
<1>2. \A k \in DOMAIN ready : k = 1 \/ (k - 1 \in DOMAIN ready' /\ ready'[k - 1] = ready[k])
  BY DEF TypeInv, ReadyType, Due
<1>3. \A k \in DueOf(o)' : k \in Nat /\ k >= 1 /\ k + 1 \in DueOf(o)
                           /\ ready'[k] = ready[k + 1]
  BY <1>1 DEF DueOf
<1>4. \A k \in DueOf(o) : k = 1 \/ \E j \in DueOf(o)' : ready'[j] = ready[k]
  BY <1>2 DEF DueOf
<1> QED
  BY <1>1, <1>3, <1>4 DEF DueMoved, DueOf

LEMMA OthersStand ==
  ASSUME TypeInv, [Next]_vars, NEW o \in Clients, ~OwnStep(o)
  PROVE  Stands(o)
<1>0. /\ mSocket \in [Clients -> Sockets] /\ conn \in [Clients -> 0..MaxConnects]
      /\ reads \in [Clients -> Nat] /\ pc \in [Clients -> Calls] /\ PostedType
      /\ mainAt \in Clients \union {Nil} /\ o # Nil
      /\ mainPc = "poll" <=> mainAt = Nil
      /\ ReadyType
  BY DEF TypeInv, ClientType, MainType, BegunInv
<1>1. ASSUME NEW p \in Clients \ {o}, Call(p) PROVE Stands(o)
  <2> USE DEF Goto
  <2>1. CASE \/ NewClient(p) \/ Destroy(p) \/ Connect(p) \/ Close(p)
             \/ \E e \in Events : SetCallback(p, e)
    <3>1. /\ UNCHANGED <<mSocket, conn, reads, ready, mainVars, posted, pastVars>>
          /\ pc'[o] = pc[o]
      BY <1>0, <2>1 DEF NewClient, Destroy, Connect, Close, SetCallback
    <3> QED
      BY <3>1, DueSame DEF Stands
  <2>2. CASE Open(p)
    <3>1. /\ mSocket'[o] = mSocket[o] /\ conn'[o] = conn[o] /\ pc'[o] = pc[o]
          /\ UNCHANGED <<mainVars, posted, early, overlapped, stolen>> /\ Cancel(p)
          /\ hurried' = hurried \/ hurried' = hurried \union {p}
      BY <1>0, <2>2 DEF Open
    <3>2. /\ DOMAIN ready \subseteq DOMAIN ready'
          /\ \A k \in DOMAIN ready : ready'[k] = ready[k]
          /\ \A k \in DOMAIN ready' \ DOMAIN ready : IsAborted(p, ready'[k])
          /\ reads' = [reads EXCEPT ![p] = 0]
      BY <3>1, CancelMoves
    <3>3. DueMoved(o, 0)
      BY <3>2, DueBehind DEF IsAborted
    <3> QED
      BY <1>0, <3>1, <3>2, <3>3 DEF Stands
  <2>3. CASE CloseEnd(p)
    <3>1. /\ conn[p] \in 1..MaxConnects /\ DoClose(p) /\ pc'[o] = pc[o]
          /\ UNCHANGED <<conn, mainVars, hurried, stolen>>
      BY <1>0, <2>3 DEF CloseEnd, TypeInv, OpenInv
    <3>2. /\ Cancel(p) /\ mSocket'[o] = mSocket[o] /\ Post(p, "close", conn[p])
          /\ overlapped' = overlapped \/ overlapped' = overlapped \union {p}
          /\ early' = early \/ early' = early \union {[on |-> p, conn |-> conn[p]]}
      BY <1>0, <3>1 DEF DoClose
    <3>3. /\ DOMAIN ready \subseteq DOMAIN ready'
          /\ \A k \in DOMAIN ready : ready'[k] = ready[k]
          /\ \A k \in DOMAIN ready' \ DOMAIN ready : IsAborted(p, ready'[k])
          /\ reads' = [reads EXCEPT ![p] = 0]
      BY <3>2, CancelMoves
    <3>4. DueMoved(o, 0)
      BY <3>3, DueBehind DEF IsAborted
    <3>5. posted'[o] = posted[o]
      BY <1>0, <3>1, <3>2, PostMoves DEF Events
    <3> QED
      BY <1>0, <3>1, <3>2, <3>3, <3>4, <3>5 DEF Stands
  <2> QED
    BY <1>1, <2>1, <2>2, <2>3 DEF Call
<1>2. ASSUME NEW p \in Clients \ {o}, Network(p) \/ PeerGone(p) PROVE Stands(o)
  <2>1. /\ mSocket'[o] = mSocket[o] /\ reads'[o] = reads[o]
        /\ UNCHANGED <<conn, pc, mainVars, posted, pastVars>>
    BY <1>0, <1>2 DEF Network, ConnectDone, ReadDone, PeerGone
  <2>2. CASE ready' = ready
    BY <2>1, <2>2, DueSame DEF Stands
  <2>3. ASSUME NEW kind \in {"connect", "read"}, NEW ok \in BOOLEAN, conn[p] >= 1,
               ready' = Append(ready, Handler(p, kind, ok))
        PROVE  Stands(o)
    <3> DEFINE h == Handler(p, kind, ok)
    <3>1. h \in Handlers /\ h.on = p
      BY <2>3, HandlerType
    <3>2. ready' = Append(ready, h)
      BY <2>3
    <3> HIDE DEF h
    <3>3. DueMoved(o, 0)
      BY <1>0, <3>1, <3>2, BehindOne, DueBehind
    <3> QED
      BY <2>1, <3>3 DEF Stands
  <2>4. \/ ready' = ready
        \/ conn[p] >= 1 /\ \E kind \in {"connect", "read"}, ok \in BOOLEAN :
                             ready' = Append(ready, Handler(p, kind, ok))
    <3>1. IsOpen(p) \/ reads[p] > 0 => conn[p] >= 1
      BY <1>0 DEF TypeInv, OpenInv
    <3> QED
      BY <1>2, <3>1 DEF Network, ConnectDone, ReadDone, PeerGone, IsOpen
  <2> QED
    BY <2>2, <2>3, <2>4
<1>3. ASSUME NEW kind, NEW ok, Due(kind, ok), NEW event \in Events, Announce(event),
             \/ MainGoto("read", Head(ready).on, Head(ready).conn)
             \/ MainGoto("poll", Nil, 0),
             Head(ready).on # o
      PROVE  Stands(o)
  <2> DEFINE h == Head(ready)
  <2>1. /\ h.on \in Clients /\ h.conn \in 1..MaxConnects /\ mainAt = Nil
        /\ DueMoved(o, 1)
    BY <1>3, DueFacts, DueUp
  <2>2. /\ Post(h.on, event, h.conn) /\ h.on # o
        /\ UNCHANGED <<mClients, clientVars, pc, hurried, overlapped, stolen>>
        /\ early' = early \/ early' = early \union {[on |-> h.on, conn |-> h.conn]}
        /\ MainGoto("read", h.on, h.conn) \/ MainGoto("poll", Nil, 0)
    BY <1>3 DEF Announce
  <2> HIDE DEF h
  <2>3. posted'[o] = posted[o]
    BY <1>0, <2>1, <2>2, PostMoves
  <2> QED
    BY <1>0, <2>1, <2>2, <2>3 DEF Stands, MainGoto
<1>4. CASE OnConnect \/ OnConnectError \/ OnMsg
  <2>1. Head(ready).on # o
    BY <1>4 DEF OwnStep, MainOf, Main, OnConnect, OnConnectError, OnMsg, Due
  <2> QED
    BY <1>3, <1>4, <2>1 DEF OnConnect, OnConnectError, OnMsg, Connected, Events
<1>5. CASE OnMsgError
  <2> DEFINE h == Head(ready)
  <2>1. /\ Due("read", FALSE) /\ h.on # o
        /\ UNCHANGED <<mClients, clientVars, pc, posted, pastVars, crashed>>
        /\ MainGoto("close", h.on, h.conn) \/ MainGoto("poll", Nil, 0)
    BY <1>5 DEF OnMsgError, EndOfRead, OwnStep, MainOf, Main, Due
  <2>2. mainAt = Nil /\ DueMoved(o, 1)
    BY <2>1, DueFacts, DueUp
  <2> HIDE DEF h
  <2> QED
    BY <1>0, <2>1, <2>2 DEF Stands, MainGoto
<1>6. CASE MainClose
  <2> DEFINE p == mainAt
  <2>1. /\ p \in Clients \ {o} /\ conn[p] \in 1..MaxConnects
    BY <1>0, <1>6 DEF MainClose, OwnStep, Main, MainOf, TypeInv, BegunInv
  <2>2. /\ Cancel(p) /\ Post(p, "close", conn[p])
        /\ mSocket' = [mSocket EXCEPT ![p] = "closed"]
        /\ overlapped' = overlapped \/ overlapped' = overlapped \union {p}
        /\ early' = early \/ early' = early \union {[on |-> p, conn |-> conn[p]]}
        /\ stolen' = stolen \/ stolen' = stolen \union {p}
        /\ UNCHANGED <<conn, pc, hurried>> /\ mainAt' = Nil
    BY <1>6 DEF MainClose, DoClose, MainGoto
  <2>p. mainAt = p
    OBVIOUS
  <2> HIDE DEF p
  <2>3. /\ DOMAIN ready \subseteq DOMAIN ready'
        /\ \A k \in DOMAIN ready : ready'[k] = ready[k]
        /\ \A k \in DOMAIN ready' \ DOMAIN ready : IsAborted(p, ready'[k])
        /\ reads' = [reads EXCEPT ![p] = 0]
    BY <2>1, <2>2, CancelMoves
  <2>4. DueMoved(o, 0)
    BY <2>1, <2>3, DueBehind DEF IsAborted
  <2>5. posted'[o] = posted[o]
    BY <1>0, <2>1, <2>2, PostMoves DEF Events
  <2> QED
    BY <1>0, <2>1, <2>2, <2>3, <2>4, <2>5, <2>p DEF Stands
<1>7. CASE DoRead
  <2> DEFINE p == mainAt
             h == Handler(p, "read", FALSE)
  <2>1. /\ p \in Clients \ {o} /\ conn[p] >= 1
    <3>1. Main /\ mainPc = "read" /\ mainAt # o
      BY <1>7 DEF DoRead, OwnStep, Main, MainOf
    <3>2. mainPc # "poll" => mainAt \in Clients /\ mainConn \in 1..conn[mainAt]
      BY DEF TypeInv, BegunInv, MainType
    <3> QED
      BY <1>0, <3>1, <3>2
  <2>2. /\ UNCHANGED <<mSocket, conn, pc, posted, pastVars>> /\ mainAt' = Nil
        /\ \/ reads' = [reads EXCEPT ![p] = reads[p] + 1] /\ ready' = ready
           \/ ready' = Append(ready, h) /\ reads' = reads
    BY <1>7 DEF DoRead, MainGoto
  <2>3. h \in Handlers /\ h.on = p
    BY <2>1, HandlerType
  <2>p. mainAt = p
    OBVIOUS
  <2> HIDE DEF p, h
  <2>4. DueMoved(o, 0)
    BY <1>0, <2>1, <2>2, <2>3, BehindOne, DueBehind, DueSame
  <2> QED
    BY <1>0, <2>1, <2>2, <2>4, <2>p DEF Stands
<1>8. CASE UNCHANGED vars
  BY <1>8, DueSame DEF Stands
<1> QED
  BY <1>1, <1>2, <1>4, <1>5, <1>6, <1>7, <1>8 DEF Next, Main, OwnStep

-----------------------------------------------------------------------------
(* An open connection is heard.                                             *)

HeardOk(o) ==
  mSocket[o] \in {"up", "down"} =>
    \/ reads[o] > 0 \/ mainAt = o
    \/ \E k \in DueOf(o) : ready[k].kind = "read" \/ ready[k].ok

(* One of all that goes on: connecting, a read, a handler that is due, or   *)
(* the one that main runs; and it is of the connection there is.            *)
OneOk(o) ==
  /\ reads[o] <= 1
  /\ \A j, k \in DueOf(o) : j = k
  /\ reads[o] > 0 => DueOf(o) = {} /\ mainAt # o /\ mSocket[o] # "connecting"
  /\ DueOf(o) # {} => mainAt # o /\ mSocket[o] # "connecting"
  /\ mainAt = o => mSocket[o] # "connecting"
  /\ \A k \in DueOf(o) : ready[k].conn = conn[o]
  /\ mainAt = o => mainConn = conn[o]

FlowOk(o) ==
  /\ HeardOk(o)
  /\ o \notin hurried => OneOk(o) /\ o \notin stolen

FlowInv == \A o \in Clients : FlowOk(o)

LEMMA FlowStands ==
  ASSUME TypeInv, NEW o \in Clients, FlowOk(o), Stands(o)
  PROVE  FlowOk(o)'
<1> PICK d \in {0, 1} : DueMoved(o, d)
  BY DEF Stands
<1>1. HeardOk(o)'
  <2>1. ASSUME NEW k \in DueOf(o), ready[k].kind = "read" \/ ready[k].ok
        PROVE  \E j \in DueOf(o)' : ready'[j].kind = "read" \/ ready'[j].ok
    BY <2>1 DEF DueMoved
  <2> QED
    BY <2>1 DEF FlowOk, HeardOk, Stands
<1>2. ASSUME OneOk(o) PROVE OneOk(o)'
  <2>1. \A j, k \in DueOf(o)' : j = k
    BY <1>2 DEF DueMoved, OneOk
  <2>2. DueOf(o)' # {} => DueOf(o) # {}
    BY DEF DueMoved
  <2>3. \A k \in DueOf(o)' : ready'[k].conn = conn[o]
    BY <1>2 DEF DueMoved, OneOk
  <2>4. \/ mainAt' # o /\ mainAt # o
        \/ mainAt = o /\ UNCHANGED mainVars
    BY DEF Stands
  <2>5. mSocket'[o] = mSocket[o] /\ conn'[o] = conn[o] /\ reads'[o] = reads[o]
    BY DEF Stands
  <2> QED
    BY <1>2, <2>1, <2>2, <2>3, <2>4, <2>5 DEF OneOk
<1> QED
  BY <1>1, <1>2 DEF FlowOk, Stands

(* One more handler of o, the last one.                                     *)
LEMMA DueOne ==
  ASSUME TypeInv, NEW o \in Clients, conn[o] >= 1,
         NEW kind \in {"connect", "read"}, NEW ok \in BOOLEAN,
         ready' = Append(ready, Handler(o, kind, ok))
  PROVE  /\ DueOf(o)' = DueOf(o) \union {Len(ready) + 1}
         /\ Len(ready) + 1 \notin DueOf(o)
         /\ \A k \in DueOf(o) : ready'[k] = ready[k]
         /\ ready'[Len(ready) + 1].kind = kind /\ ready'[Len(ready) + 1].ok = ok
         /\ ready'[Len(ready) + 1].conn = conn[o]
<1> DEFINE h == Handler(o, kind, ok)
<1>1. /\ h \in Handlers /\ h.on = o /\ h.kind = kind /\ h.ok = ok
      /\ h.conn = conn[o]
  BY HandlerType
<1>2. ready' = Append(ready, h) /\ ReadyType
  BY DEF TypeInv
<1> HIDE DEF h
<1>3. /\ DOMAIN ready' = DOMAIN ready \union {Len(ready) + 1}
      /\ Len(ready) + 1 \notin DOMAIN ready
      /\ \A k \in DOMAIN ready : ready'[k] = ready[k]
      /\ ready'[Len(ready) + 1] = h
  BY <1>1, <1>2, BehindOne
<1> QED
  BY <1>1, <1>3 DEF DueOf

(* Closing the socket of o, for the handlers of o.                          *)
LEMMA DueCancel ==
  ASSUME TypeInv, NEW o \in Clients, Cancel(o)
  PROVE  /\ reads'[o] = 0
         /\ DueOf(o) \subseteq DueOf(o)'
         /\ \A k \in DueOf(o) : ready'[k] = ready[k]
         /\ \A k \in DueOf(o)' \ DueOf(o) : IsAborted(o, ready'[k])
         /\ mSocket[o] # "connecting" /\ reads[o] = 0 => ready' = ready
         /\ (IF mSocket[o] = "connecting" THEN 1 ELSE 0) + reads[o] <= 1 =>
              \A j, k \in DueOf(o)' \ DueOf(o) : j = k
<1>1. /\ reads' = [reads EXCEPT ![o] = 0]
      /\ DOMAIN ready \subseteq DOMAIN ready'
      /\ \A k \in DOMAIN ready : ready'[k] = ready[k]
      /\ \A k \in DOMAIN ready' \ DOMAIN ready : IsAborted(o, ready'[k])
      /\ mSocket[o] # "connecting" /\ reads[o] = 0 => ready' = ready
      /\ (IF mSocket[o] = "connecting" THEN 1 ELSE 0) + reads[o] <= 1 =>
           \A j, k \in DOMAIN ready' \ DOMAIN ready : j = k
  BY CancelMoves
<1>2. reads'[o] = 0
  BY <1>1 DEF TypeInv, ClientType
<1>3. \A k \in DueOf(o)' \ DueOf(o) : k \in DOMAIN ready' \ DOMAIN ready
  BY <1>1 DEF DueOf
<1> QED
  BY <1>1, <1>2, <1>3 DEF DueOf

LEMMA FlowClose ==
  ASSUME TypeInv, NEW o \in Clients, FlowOk(o), DoClose(o), conn' = conn,
         hurried' = hurried, mainAt' # o \/ UNCHANGED mainVars,
         o \notin hurried => o \notin stolen'
  PROVE  FlowOk(o)'
<1>1. /\ Cancel(o) /\ mSocket'[o] = "closed" /\ reads[o] \in Nat
  BY DEF DoClose, TypeInv, ClientType
<1>2. /\ reads'[o] = 0
      /\ DueOf(o) \subseteq DueOf(o)'
      /\ \A k \in DueOf(o) : ready'[k] = ready[k]
      /\ \A k \in DueOf(o)' \ DueOf(o) : IsAborted(o, ready'[k])
      /\ mSocket[o] # "connecting" /\ reads[o] = 0 => ready' = ready
      /\ (IF mSocket[o] = "connecting" THEN 1 ELSE 0) + reads[o] <= 1 =>
           \A j, k \in DueOf(o)' \ DueOf(o) : j = k
  BY <1>1, DueCancel
<1>3. ASSUME OneOk(o) PROVE OneOk(o)'
  <2>1. (IF mSocket[o] = "connecting" THEN 1 ELSE 0) + reads[o] <= 1
    BY <1>1, <1>3 DEF OneOk
  <2>2. \/ mSocket[o] # "connecting" /\ reads[o] = 0 /\ ready' = ready
        \/ DueOf(o) = {} /\ mainAt # o
    BY <1>1, <1>2, <1>3 DEF OneOk
  <2>3. \A j, k \in DueOf(o)' : j = k
    BY <1>2, <1>3, <2>1, <2>2 DEF OneOk, DueOf
  <2>4. \A k \in DueOf(o)' : ready'[k].conn = conn[o]
    BY <1>2, <1>3 DEF OneOk, IsAborted
  <2>5. DueOf(o)' # {} => mainAt' # o
    BY <1>3, <2>2 DEF OneOk, DueOf
  <2> QED
    BY <1>1, <1>2, <1>3, <2>3, <2>4, <2>5 DEF OneOk
<1>4. HeardOk(o)'
  BY <1>1 DEF HeardOk
<1> QED
  BY <1>3, <1>4 DEF FlowOk

LEMMA FlowCall ==
  ASSUME TypeInv, NEW o \in Clients, FlowOk(o), Call(o)
  PROVE  FlowOk(o)'
<1>0. /\ conn[o] \in 0..MaxConnects /\ reads[o] \in Nat
      /\ conn \in [Clients -> 0..MaxConnects] /\ mSocket \in [Clients -> Sockets]
      /\ ~IsOpen(o) => reads[o] = 0
      /\ pc[o] = "open" => ~IsOpen(o)
  BY DEF TypeInv, ClientType, OpenInv
<1>1. CASE \/ NewClient(o) \/ Destroy(o) \/ Connect(o) \/ Close(o)
           \/ \E e \in Events : SetCallback(o, e)
  <2>1. UNCHANGED <<mSocket, conn, reads, ready, mainVars, posted, pastVars>>
    BY <1>1 DEF NewClient, Destroy, Connect, Close, SetCallback
  <2> QED
    BY <2>1 DEF FlowOk, HeardOk, OneOk, DueOf
<1>2. CASE Open(o)
  <2>1. mSocket[o] = "closed" /\ reads[o] = 0 /\ Cancel(o)
    BY <1>0, <1>2 DEF Open, IsOpen
  <2>2. /\ reads'[o] = 0 /\ ready' = ready
    BY <2>1, DueCancel
  <2>3. /\ mSocket'[o] = "connecting" /\ UNCHANGED <<mainVars, stolen>>
        /\ o \notin hurried' => o \notin hurried /\ mainAt # o /\ DueOf(o) = {}
    BY <1>0, <1>2 DEF Open, DueOf
  <2>4. DueOf(o)' = DueOf(o)
    BY <2>2 DEF DueOf
  <2>5. HeardOk(o)'
    BY <2>3 DEF HeardOk
  <2>6. ASSUME o \notin hurried' PROVE OneOk(o)'
    BY <2>2, <2>3, <2>4, <2>6 DEF OneOk
  <2> QED
    BY <2>3, <2>5, <2>6 DEF FlowOk
<1>3. CASE CloseEnd(o)
  <2>1. DoClose(o) /\ UNCHANGED <<conn, mainVars, hurried, stolen>>
    BY <1>3 DEF CloseEnd
  <2> QED
    BY <2>1, FlowClose DEF FlowOk
<1> QED
  BY <1>1, <1>2, <1>3 DEF Call

LEMMA FlowNetwork ==
  ASSUME TypeInv, NEW o \in Clients, FlowOk(o), Network(o) \/ PeerGone(o)
  PROVE  FlowOk(o)'
<1>0. /\ conn[o] \in 0..MaxConnects /\ reads[o] \in Nat
      /\ reads \in [Clients -> Nat] /\ mSocket \in [Clients -> Sockets]
      /\ IsOpen(o) => conn[o] >= 1
      /\ ~IsOpen(o) => reads[o] = 0
  BY DEF TypeInv, ClientType, OpenInv
<1>1. CASE PeerGone(o)
  <2>1. /\ mSocket[o] = "up" /\ mSocket'[o] = "down"
        /\ UNCHANGED <<conn, reads, ready, mainVars, pastVars>>
    BY <1>0, <1>1 DEF PeerGone
  <2> QED
    BY <2>1 DEF FlowOk, HeardOk, OneOk, DueOf
<1>2. ASSUME NEW ok \in BOOLEAN, ConnectDone(o, ok) PROVE FlowOk(o)'
  <2>1. /\ mSocket[o] = "connecting" /\ mSocket'[o] = IF ok THEN "up" ELSE "failed"
        /\ ready' = Append(ready, Handler(o, "connect", ok))
        /\ UNCHANGED <<conn, reads, mainVars, pastVars>>
    BY <1>0, <1>2 DEF ConnectDone
  <2>2. conn[o] >= 1
    BY <1>0, <2>1 DEF IsOpen
  <2> DEFINE l == Len(ready) + 1
  <2>3. /\ DueOf(o)' = DueOf(o) \union {l}
        /\ ready'[l].kind = "connect" /\ ready'[l].ok = ok
        /\ ready'[l].conn = conn[o]
    BY <2>1, <2>2, DueOne
  <2> HIDE DEF l
  <2>4. HeardOk(o)'
    BY <2>1, <2>3 DEF HeardOk
  <2>5. ASSUME OneOk(o) PROVE OneOk(o)'
    <3>1. DueOf(o) = {} /\ reads[o] = 0 /\ mainAt # o
      BY <1>0, <2>1, <2>5 DEF OneOk
    <3>2. DueOf(o)' = {l} /\ reads'[o] = 0 /\ mainAt' # o /\ mSocket'[o] # "connecting"
      BY <2>1, <2>3, <3>1
    <3>3. ready'[l].conn = conn'[o]
      BY <2>1, <2>3
    <3> QED
      BY <3>2, <3>3 DEF OneOk
  <2>6. hurried' = hurried /\ stolen' = stolen
    BY <2>1
  <2> QED
    BY <2>4, <2>5, <2>6 DEF FlowOk
<1>3. ASSUME NEW ok \in BOOLEAN, ReadDone(o, ok) PROVE FlowOk(o)'
  <2>1. /\ reads[o] > 0 /\ reads'[o] = reads[o] - 1 /\ mSocket' = mSocket
        /\ ready' = Append(ready, Handler(o, "read", ok))
        /\ UNCHANGED <<conn, mainVars, pastVars>>
    BY <1>0, <1>3 DEF ReadDone
  <2>2. conn[o] >= 1
    BY <1>0, <2>1
  <2> DEFINE l == Len(ready) + 1
  <2>3. /\ DueOf(o)' = DueOf(o) \union {l}
        /\ ready'[l].kind = "read" /\ ready'[l].ok = ok
        /\ ready'[l].conn = conn[o]
    BY <2>1, <2>2, DueOne
  <2> HIDE DEF l
  <2>4. HeardOk(o)'
    BY <2>1, <2>3 DEF HeardOk
  <2>5. ASSUME OneOk(o) PROVE OneOk(o)'
    <3>1. DueOf(o) = {} /\ reads[o] = 1 /\ mainAt # o /\ mSocket[o] # "connecting"
      BY <1>0, <2>1, <2>5 DEF OneOk
    <3>2. DueOf(o)' = {l} /\ reads'[o] = 0 /\ mainAt' # o /\ mSocket'[o] # "connecting"
      BY <2>1, <2>3, <3>1
    <3>3. ready'[l].conn = conn'[o]
      BY <2>1, <2>3
    <3> QED
      BY <3>2, <3>3 DEF OneOk
  <2>6. hurried' = hurried /\ stolen' = stolen
    BY <2>1
  <2> QED
    BY <2>4, <2>5, <2>6 DEF FlowOk
<1> QED
  BY <1>1, <1>2, <1>3 DEF Network

(* A handler of o runs; it was the only one, unless o was hurried.          *)
LEMMA FlowDue ==
  ASSUME TypeInv, NEW o \in Clients, FlowOk(o),
         NEW kind, NEW ok, Due(kind, ok), Head(ready).on = o,
         UNCHANGED <<mSocket, conn, reads, hurried, stolen>>,
         \/ MainGoto("read", o, Head(ready).conn)
         \/ MainGoto("close", o, Head(ready).conn)
         \/ MainGoto("poll", Nil, 0) /\ (IsOpen(o) => kind = "connect" /\ ~ok)
  PROVE  FlowOk(o)'
<1> DEFINE h == Head(ready)
<1>1. /\ mainAt = Nil /\ o # Nil /\ ready[1] = h /\ h.kind = kind /\ h.ok = ok
      /\ 1 \in DueOf(o)
      /\ \A k \in DueOf(o)' : k \in Nat /\ k >= 1 /\ k + 1 \in DueOf(o)
                              /\ ready'[k] = ready[k + 1]
      /\ \A k \in DueOf(o) : k = 1 \/ \E j \in DueOf(o)' : ready'[j] = ready[k]
  BY DueFacts, DueUp DEF Due
<1>2. \/ mainAt' = o /\ mainConn' = h.conn
      \/ mainAt' = Nil /\ (IsOpen(o) => h.kind = "connect" /\ ~h.ok)
  BY <1>1 DEF MainGoto
<1> HIDE DEF h
<1>3. HeardOk(o)'
  <2>1. ASSUME mSocket[o] \in {"up", "down"}
        PROVE  \/ reads[o] > 0 \/ mainAt' = o
               \/ \E k \in DueOf(o)' : ready'[k].kind = "read" \/ ready'[k].ok
    BY <1>1, <1>2, <2>1 DEF FlowOk, HeardOk, IsOpen
  <2> QED
    BY <2>1 DEF HeardOk
<1>4. ASSUME OneOk(o) PROVE OneOk(o)'
  <2>1. DueOf(o)' = {}
    <3>1. \A k \in DueOf(o)' : k >= 1 /\ k \in Nat /\ k + 1 = 1
      BY <1>1, <1>4 DEF OneOk
    <3> QED
      BY <3>1
  <2>2. reads[o] <= 1 /\ ~(reads[o] > 0) /\ mSocket[o] # "connecting" /\ h.conn = conn[o]
    BY <1>1, <1>4 DEF OneOk
  <2> QED
    BY <1>1, <1>2, <2>1, <2>2 DEF OneOk
<1> QED
  BY <1>3, <1>4 DEF FlowOk

LEMMA FlowMain ==
  ASSUME TypeInv, NEW o \in Clients, FlowOk(o), Main, MainOf(o)
  PROVE  FlowOk(o)'
<1>0. /\ conn[o] \in 0..MaxConnects /\ reads[o] \in Nat
      /\ reads \in [Clients -> Nat] /\ mSocket \in [Clients -> Sockets]
      /\ o # Nil /\ (mainPc = "poll" <=> mainAt = Nil)
      /\ mainPc # "poll" => mainConn \in 1..conn[mainAt]
  BY DEF TypeInv, ClientType, OpenInv, BegunInv
<1>1. CASE OnConnect \/ OnConnectError \/ OnMsg \/ OnMsgError
  <2>1. mainPc = "poll" /\ Head(ready).on = o
    BY <1>0, <1>1 DEF MainOf, OnConnect, OnConnectError, OnMsg, OnMsgError, Due
  <2>2. UNCHANGED <<mSocket, conn, reads, hurried, stolen>>
    BY <1>1 DEF OnConnect, OnConnectError, OnMsg, OnMsgError, Announce
  <2>3. CASE OnConnect
    BY <2>1, <2>2, <2>3, FlowDue DEF OnConnect, Connected
  <2>4. CASE OnConnectError
    <3>1. Due("connect", FALSE) /\ MainGoto("poll", Nil, 0)
      BY <2>4 DEF OnConnectError
    <3> QED
      BY <2>1, <2>2, <3>1, FlowDue
  <2>5. CASE OnMsg
    BY <2>1, <2>2, <2>5, FlowDue DEF OnMsg
  <2>6. CASE OnMsgError
    <3>1. Due("read", FALSE)
          /\ \/ MainGoto("close", o, Head(ready).conn)
             \/ MainGoto("poll", Nil, 0) /\ ~IsOpen(o)
      BY <2>1, <2>6 DEF OnMsgError, EndOfRead
    <3> QED
      BY <2>1, <2>2, <3>1, FlowDue
  <2> QED
    BY <1>1, <2>3, <2>4, <2>5, <2>6
<1>2. CASE MainClose
  <2>1. mainAt = o
    BY <1>0, <1>2 DEF MainClose, MainOf
  <2>2. /\ DoClose(o) /\ UNCHANGED <<conn, hurried>> /\ mainAt' = Nil
        /\ stolen' = IF mainConn # conn[o] THEN stolen \union {o} ELSE stolen
    BY <1>2, <2>1 DEF MainClose, MainGoto
  <2>3. o \notin hurried => o \notin stolen'
    BY <2>1, <2>2 DEF FlowOk, OneOk
  <2> QED
    BY <1>0, <2>2, <2>3, FlowClose
<1>3. CASE DoRead
  <2>1. mainAt = o /\ conn[o] >= 1
    BY <1>0, <1>3 DEF DoRead, MainOf
  <2>2. /\ UNCHANGED <<mSocket, conn, pastVars>> /\ mainAt' = Nil
        /\ \/ /\ IsOpen(o) /\ reads'[o] = reads[o] + 1 /\ ready' = ready
           \/ /\ mSocket[o] \in {"closed", "connecting"} /\ reads' = reads
              /\ ready' = Append(ready, Handler(o, "read", FALSE))
    BY <1>0, <1>3, <2>1 DEF DoRead, MainGoto
  <2>3. CASE IsOpen(o) /\ reads'[o] = reads[o] + 1 /\ ready' = ready
    <3>1. DueOf(o)' = DueOf(o)
      BY <2>3 DEF DueOf
    <3>2. HeardOk(o)'
      BY <1>0, <2>3 DEF HeardOk
    <3>3. ASSUME OneOk(o) PROVE OneOk(o)'
      BY <1>0, <2>1, <2>2, <2>3, <3>1, <3>3 DEF OneOk
    <3> QED
      BY <2>2, <3>2, <3>3 DEF FlowOk
  <2>4. CASE /\ mSocket[o] \in {"closed", "connecting"} /\ reads' = reads
             /\ ready' = Append(ready, Handler(o, "read", FALSE))
    <3> DEFINE l == Len(ready) + 1
    <3>1. /\ DueOf(o)' = DueOf(o) \union {l} /\ ready'[l].conn = conn[o]
      BY <2>1, <2>4, DueOne
    <3> HIDE DEF l
    <3>2. HeardOk(o)'
      BY <2>2, <2>4 DEF HeardOk
    <3>3. ASSUME OneOk(o) PROVE OneOk(o)'
      <4>1. DueOf(o) = {} /\ reads[o] = 0 /\ mSocket[o] # "connecting"
        BY <1>0, <2>1, <3>3 DEF OneOk
      <4>2. DueOf(o)' = {l} /\ reads'[o] = 0 /\ mainAt' # o /\ mSocket'[o] # "connecting"
        BY <1>0, <2>2, <2>4, <3>1, <4>1
      <4>3. ready'[l].conn = conn'[o]
        BY <2>2, <3>1
      <4> QED
        BY <4>2, <4>3 DEF OneOk
    <3>4. hurried' = hurried /\ stolen' = stolen
      BY <2>2
    <3> QED
      BY <3>2, <3>3, <3>4 DEF FlowOk
  <2> QED
    BY <2>2, <2>3, <2>4
<1> QED
  BY <1>1, <1>2, <1>3 DEF Main

LEMMA FlowStep ==
  ASSUME TypeInv, FlowInv, [Next]_vars
  PROVE  FlowInv'
<1> SUFFICES ASSUME NEW o \in Clients PROVE FlowOk(o)'
  BY DEF FlowInv
<1>1. FlowOk(o)
  BY DEF FlowInv
<1>2. CASE ~OwnStep(o)
  BY <1>1, <1>2, OthersStand, FlowStands
<1> QED
  BY <1>1, <1>2, FlowCall, FlowNetwork, FlowMain DEF OwnStep

LEMMA FlowInit == Init => FlowInv
<1> SUFFICES ASSUME Init, NEW o \in Clients PROVE FlowOk(o)
  BY DEF FlowInv
<1>1. /\ mSocket[o] = "closed" /\ reads[o] = 0 /\ DueOf(o) = {} /\ mainAt # o
      /\ stolen = {}
  BY DEF Init, DueOf
<1> QED
  BY <1>1 DEF FlowOk, HeardOk, OneOk

(* What FlowInv says of the sockets.                                        *)
LEMMA FlowInvInOrder == TypeInv /\ FlowInv => SocketInOrder
<1> SUFFICES ASSUME TypeInv, FlowInv PROVE SocketInOrder
  OBVIOUS
<1>1. NotDeaf
  BY DEF FlowInv, FlowOk, HeardOk, NotDeaf, DueOf
<1>2. OneReader
  <2> SUFFICES ASSUME NEW o \in Clients \ hurried PROVE Readers(o) <= 1
    BY DEF OneReader
  <2> DEFINE R == {k \in DOMAIN ready : ready[k].on = o /\ ready[k].kind = "read"}
             m == IF mainPc = "read" /\ mainAt = o THEN 1 ELSE 0
  <2>1. /\ reads[o] \in Nat /\ reads[o] <= 1
        /\ \A j, k \in R : j = k
        /\ reads[o] > 0 => R = {} /\ m = 0
        /\ R # {} => m = 0
    BY DEF FlowInv, FlowOk, OneOk, DueOf, TypeInv, ClientType
  <2>2. Readers(o) = reads[o] + Cardinality(R) + m
    BY DEF Readers
  <2>3. m \in {0, 1}
    OBVIOUS
  <2> HIDE DEF R, m
  <2>4. \/ R = {} /\ Cardinality(R) = 0
        \/ R # {} /\ Cardinality(R) = 1
    <3>1. CASE R = {}
      BY <3>1, FS_EmptySet
    <3>2. CASE R # {}
      <4>1. PICK x \in R : TRUE
        BY <3>2
      <4>2. R = {x}
        BY <2>1, <4>1
      <4> QED
        BY <3>2, <4>2, FS_Singleton
    <3> QED
      BY <3>1, <3>2
  <2> QED
    BY <2>1, <2>2, <2>3, <2>4
<1>3. OwnEnd
  BY DEF FlowInv, FlowOk, OwnEnd, TypeInv, PastType
<1> QED
  BY <1>1, <1>2, <1>3, TypeInvIsTypeOK DEF SocketInOrder

(* An open connection is heard, has one reader, and is closed by its own    *)
(* script or its own error, unless the client connected in a hurry.         *)
THEOREM SocketInOrderHolds == Spec => []SocketInOrder
<1>1. Init => TypeInv /\ FlowInv
  BY TypeInit, FlowInit
<1>2. TypeInv /\ FlowInv /\ [Next]_vars => (TypeInv /\ FlowInv)'
  BY TypeStep, FlowStep
<1> QED
  BY <1>1, <1>2, FlowInvInOrder, PTL DEF Spec

-----------------------------------------------------------------------------
(* What is told.                                                            *)

Rest(o, n) == About(o, n) \ Closes(o, n)

LEMMA ToldSame ==
  ASSUME NEW o \in Clients, NEW n, posted'[o] = posted[o]
  PROVE  /\ About(o, n)' = About(o, n) /\ Closes(o, n)' = Closes(o, n)
         /\ Rest(o, n)' = Rest(o, n)
         /\ ToldInOrder(o, n)' <=> ToldInOrder(o, n)
BY DEF Rest, About, Closes, ToldInOrder, IsAnswer

(* One more is told, the last one.                                          *)
LEMMA ToldMore ==
  ASSUME PostedType, NEW o \in Clients, NEW event, NEW c, NEW n,
         posted'[o] = Append(posted[o], [event |-> event, conn |-> c])
  PROVE  /\ About(o, n) \subseteq 1..Len(posted[o]) /\ Len(posted[o]) \in Nat
         /\ \A k \in About(o, n) : posted'[o][k] = posted[o][k]
         /\ posted'[o][Len(posted[o]) + 1].event = event
         /\ About(o, n)' = IF n = c THEN About(o, n) \union {Len(posted[o]) + 1}
                                    ELSE About(o, n)
         /\ Closes(o, n)' = IF n = c /\ event = "close"
                            THEN Closes(o, n) \union {Len(posted[o]) + 1}
                            ELSE Closes(o, n)
<1> DEFINE m == [event |-> event, conn |-> c]
           s == posted[o]
           l == Len(s) + 1
<1>1. m.event = event /\ m.conn = c
  OBVIOUS
<1>2. s \in Seq(Told) /\ posted'[o] = Append(s, m)
  BY DEF PostedType
<1> HIDE DEF m
<1>3. /\ DOMAIN s = 1..Len(s) /\ Len(s) \in Nat
      /\ DOMAIN posted'[o] = 1..l /\ posted'[o][l] = m
      /\ \A k \in DOMAIN s : posted'[o][k] = s[k]
  BY <1>2
<1> HIDE DEF s
<1>4. 1..l = (1..Len(s)) \union {l} /\ l \notin 1..Len(s)
  BY <1>3
<1> HIDE DEF l
<1>5. About(o, n) = {k \in 1..Len(s) : s[k].conn = n}
  BY <1>3 DEF About, s
<1>6. About(o, n)' = {k \in 1..l : posted'[o][k].conn = n}
  BY <1>3 DEF About
<1>7. About(o, n)' = IF n = c THEN About(o, n) \union {l} ELSE About(o, n)
  BY <1>1, <1>3, <1>4, <1>5, <1>6
<1>8. /\ Closes(o, n) = {k \in About(o, n) : s[k].event = "close"}
      /\ Closes(o, n)' = {k \in About(o, n)' : posted'[o][k].event = "close"}
  BY DEF Closes, s
<1>9. Closes(o, n)' = IF n = c /\ event = "close" THEN Closes(o, n) \union {l}
                                                  ELSE Closes(o, n)
  BY <1>1, <1>3, <1>4, <1>5, <1>7, <1>8
<1> QED
  BY <1>1, <1>3, <1>5, <1>7, <1>9 DEF s, l

(* ... of another connection ...                                            *)
LEMMA ToldOther ==
  ASSUME PostedType, NEW o \in Clients, NEW event, NEW c, NEW n, n # c,
         posted'[o] = Append(posted[o], [event |-> event, conn |-> c])
  PROVE  ToldInOrder(o, n)' <=> ToldInOrder(o, n)
<1>1. /\ \A k \in About(o, n) : posted'[o][k] = posted[o][k]
      /\ About(o, n)' = About(o, n) /\ Closes(o, n)' = Closes(o, n)
  BY ToldMore
<1> QED
  BY <1>1 DEF ToldInOrder, IsAnswer

(* ... the end, once ...                                                    *)
LEMMA ToldClose ==
  ASSUME PostedType, NEW o \in Clients, NEW n, ToldInOrder(o, n),
         Closes(o, n) = {},
         posted'[o] = Append(posted[o], [event |-> "close", conn |-> n])
  PROVE  /\ ToldInOrder(o, n)' /\ Rest(o, n)' = Rest(o, n)
         /\ \A c \in Closes(o, n)', j \in About(o, n)' : j <= c
<1> DEFINE l == Len(posted[o]) + 1
<1>1. /\ About(o, n) \subseteq 1..Len(posted[o]) /\ Len(posted[o]) \in Nat
      /\ \A k \in About(o, n) : posted'[o][k] = posted[o][k]
      /\ About(o, n)' = About(o, n) \union {l} /\ Closes(o, n)' = {l}
  BY ToldMore
<1>2. \A j \in About(o, n)' : j \in Nat /\ j <= l
  BY <1>1
<1>3. l \in Nat /\ l \notin About(o, n)
  BY <1>1
<1> HIDE DEF l
<1>4. Rest(o, n)' = Rest(o, n) /\ Rest(o, n) = About(o, n)
  BY <1>1, <1>3 DEF Rest
<1>5. \A k \in Rest(o, n) : IsAnswer(posted[o][k]) <=> \A j \in Rest(o, n) : k <= j
  BY DEF ToldInOrder, Rest
<1>6. \A k \in Rest(o, n)' : IsAnswer(posted'[o][k]) <=> \A j \in Rest(o, n)' : k <= j
  BY <1>1, <1>4, <1>5 DEF IsAnswer
<1>7. \A c \in Closes(o, n)', j \in About(o, n)' : j <= c
  BY <1>1, <1>2
<1>8. \A c \in Closes(o, n)' : \A j, k \in About(o, n)' : j > c /\ k > c => j = k
  BY <1>1, <1>2, <1>3
<1>9. \A j, k \in Closes(o, n)' : j = k
  BY <1>1
<1> QED
  BY <1>4, <1>6, <1>7, <1>8, <1>9 DEF ToldInOrder, Rest

(* ... the answer, before anything but the end ...                          *)
LEMMA ToldAnswer ==
  ASSUME PostedType, NEW o \in Clients, NEW n, ToldInOrder(o, n),
         Rest(o, n) = {}, NEW event \in {"connect", "connectError"},
         posted'[o] = Append(posted[o], [event |-> event, conn |-> n])
  PROVE  /\ ToldInOrder(o, n)' /\ Rest(o, n)' # {} /\ Closes(o, n)' = Closes(o, n)
<1> DEFINE l == Len(posted[o]) + 1
<1>1. /\ About(o, n) \subseteq 1..Len(posted[o]) /\ Len(posted[o]) \in Nat
      /\ posted'[o][l].event = event
      /\ About(o, n)' = About(o, n) \union {l} /\ Closes(o, n)' = Closes(o, n)
  BY ToldMore
<1>2. l \in Nat /\ l \notin About(o, n) /\ \A j \in About(o, n) : j \in Nat /\ j < l
  BY <1>1
<1> HIDE DEF l
<1>3. Closes(o, n) \subseteq About(o, n)
  BY DEF Closes
<1>4. About(o, n) = Closes(o, n) /\ Rest(o, n)' = {l}
  BY <1>1, <1>2, <1>3 DEF Rest
<1>5. \A j, k \in Closes(o, n) : j = k
  BY DEF ToldInOrder
<1>6. \A k \in Rest(o, n)' : IsAnswer(posted'[o][k]) <=> \A j \in Rest(o, n)' : k <= j
  <2>1. IsAnswer(posted'[o][l])
    BY <1>1 DEF IsAnswer
  <2>2. l <= l
    BY <1>2
  <2> QED
    BY <1>4, <2>1, <2>2
<1>7. \A c \in Closes(o, n)' : \A j, k \in About(o, n)' : j > c /\ k > c => j = k
  <2>1. \A c, j \in Closes(o, n) : c = j /\ c \in Nat
    BY <1>2, <1>3, <1>5
  <2>2. \A c \in Closes(o, n)', j \in About(o, n)' : j > c => j = l
    BY <1>1, <1>4, <2>1
  <2> QED
    BY <2>2
<1> QED
  BY <1>1, <1>4, <1>5, <1>6, <1>7 DEF ToldInOrder, Rest

(* ... a message, after the answer.                                         *)
LEMMA ToldMsg ==
  ASSUME PostedType, NEW o \in Clients, NEW n, ToldInOrder(o, n),
         Rest(o, n) # {},
         \A c \in Closes(o, n), j \in About(o, n) : j <= c,
         posted'[o] = Append(posted[o], [event |-> "msg", conn |-> n])
  PROVE  /\ ToldInOrder(o, n)' /\ Rest(o, n)' # {} /\ Closes(o, n)' = Closes(o, n)
<1> DEFINE l == Len(posted[o]) + 1
<1>1. /\ About(o, n) \subseteq 1..Len(posted[o]) /\ Len(posted[o]) \in Nat
      /\ \A k \in About(o, n) : posted'[o][k] = posted[o][k]
      /\ posted'[o][l].event = "msg"
      /\ About(o, n)' = About(o, n) \union {l} /\ Closes(o, n)' = Closes(o, n)
  BY ToldMore
<1>2. l \in Nat /\ l \notin About(o, n) /\ \A j \in About(o, n) : j \in Nat /\ j < l
  BY <1>1
<1> HIDE DEF l
<1>3. Closes(o, n) \subseteq About(o, n) /\ Rest(o, n) \subseteq About(o, n)
  BY DEF Closes, Rest
<1>4. Rest(o, n)' = Rest(o, n) \union {l}
  BY <1>1, <1>2, <1>3 DEF Rest
<1>5. \A k \in Rest(o, n) : IsAnswer(posted[o][k]) <=> \A j \in Rest(o, n) : k <= j
  BY DEF ToldInOrder, Rest
<1>6. ASSUME NEW k \in Rest(o, n)'
      PROVE  IsAnswer(posted'[o][k]) <=> \A j \in Rest(o, n)' : k <= j
  <2>1. CASE k = l
    <3>1. ~IsAnswer(posted'[o][k])
      BY <1>1, <2>1 DEF IsAnswer
    <3>2. PICK j \in Rest(o, n) : TRUE
      OBVIOUS
    <3>3. j \in Rest(o, n)' /\ ~(l <= j)
      BY <1>2, <1>3, <1>4, <3>2
    <3> QED
      BY <2>1, <3>1, <3>3
  <2>2. CASE k \in Rest(o, n)
    <3>1. posted'[o][k] = posted[o][k] /\ k <= l
      BY <1>1, <1>2, <1>3, <2>2
    <3>2. (\A j \in Rest(o, n)' : k <= j) <=> (\A j \in Rest(o, n) : k <= j)
      BY <1>4, <3>1
    <3>3. IsAnswer(posted'[o][k]) <=> IsAnswer(posted[o][k])
      BY <3>1 DEF IsAnswer
    <3> QED
      BY <1>5, <2>2, <3>2, <3>3
  <2> QED
    BY <1>4, <1>6, <2>1, <2>2
<1>7. \A c \in Closes(o, n)' : \A j, k \in About(o, n)' : j > c /\ k > c => j = k
  <2>1. \A c \in Closes(o, n), j \in About(o, n) : c \in Nat /\ j \in Nat /\ j <= c
    BY <1>2, <1>3
  <2> QED
    BY <1>1, <1>2, <2>1
<1>8. \A j, k \in Closes(o, n)' : j = k
  BY <1>1 DEF ToldInOrder
<1> QED
  BY <1>1, <1>4, <1>6, <1>7, <1>8 DEF ToldInOrder, Rest

-----------------------------------------------------------------------------
(* What is told of the connection there is, and what is still to come.      *)

TellNow(o, n) ==
  /\ IsOpen(o) => Closes(o, n) = {}
  /\ mSocket[o] = "connecting" => About(o, n) = {}
  /\ \A k \in DueOf(o) :
       /\ ready[k].kind = "connect" => Rest(o, n) = {}
       /\ ready[k].kind = "read" =>
            /\ Rest(o, n) # {}
            /\ ready[k].ok => \A c \in Closes(o, n), j \in About(o, n) : j <= c
  /\ reads[o] > 0 \/ mainAt = o => Rest(o, n) # {}

Ending(o) == pc[o] = "close" \/ (mainPc = "close" /\ mainAt = o)

TellAll(o) ==
  \A n \in 1..MaxConnects :
    [on |-> o, conn |-> n] \notin early =>
      /\ ToldInOrder(o, n)
      /\ n = conn[o] => TellNow(o, n)

TellOk(o) ==
  o \notin hurried \union overlapped =>
    /\ Ending(o) => IsOpen(o)
    /\ TellAll(o)

TellInv == \A o \in Clients : TellOk(o)

LEMMA TellStands ==
  ASSUME TypeInv, NEW o \in Clients, TellOk(o), Stands(o)
  PROVE  TellOk(o)'
<1> PICK d \in {0, 1} : DueMoved(o, d)
  BY DEF Stands
<1>1. /\ Ending(o)' <=> Ending(o)
      /\ IsOpen(o)' <=> IsOpen(o)
  BY DEF Stands, Ending, IsOpen
<1>2. ASSUME NEW n \in 1..MaxConnects
      PROVE  /\ About(o, n)' = About(o, n) /\ Closes(o, n)' = Closes(o, n)
             /\ Rest(o, n)' = Rest(o, n)
             /\ ToldInOrder(o, n)' <=> ToldInOrder(o, n)
  BY ToldSame DEF Stands
<1>3. ASSUME NEW n \in 1..MaxConnects, TellNow(o, n) PROVE TellNow(o, n)'
  <2>1. \A k \in DueOf(o)' : k + d \in DueOf(o) /\ ready'[k] = ready[k + d]
    BY DEF DueMoved
  <2>2. /\ mSocket'[o] = mSocket[o] /\ reads'[o] = reads[o]
        /\ mainAt' = o <=> mainAt = o
    BY DEF Stands
  <2> QED
    BY <1>1, <1>2, <1>3, <2>1, <2>2 DEF TellNow
<1>4. /\ conn'[o] = conn[o]
      /\ \A n : [on |-> o, conn |-> n] \in early' <=> [on |-> o, conn |-> n] \in early
      /\ o \in hurried' <=> o \in hurried
      /\ o \in overlapped' <=> o \in overlapped
  BY DEF Stands
<1> QED
  BY <1>1, <1>2, <1>3, <1>4 DEF TellOk, TellAll

(* A step that tells nothing, of a connection that goes on.                 *)
LEMMA TellSilent ==
  ASSUME TypeInv, NEW o \in Clients, TellOk(o),
         posted'[o] = posted[o], conn'[o] = conn[o],
         UNCHANGED <<early, hurried, overlapped>>,
         o \notin hurried \union overlapped /\ Ending(o)' => IsOpen(o)',
         o \notin hurried \union overlapped =>
           \A n \in 1..MaxConnects : n = conn[o] /\ TellNow(o, n) => TellNow(o, n)'
  PROVE  TellOk(o)'
<1>1. ASSUME NEW n \in 1..MaxConnects
      PROVE  ToldInOrder(o, n)' <=> ToldInOrder(o, n)
  BY ToldSame
<1> QED
  BY <1>1 DEF TellOk, TellAll

(* Closing a socket that is open.                                           *)
LEMMA TellClose ==
  ASSUME TypeInv, NEW o \in Clients, TellOk(o), Ending(o),
         DoClose(o), conn' = conn, hurried' = hurried,
         mainAt' # o \/ UNCHANGED mainVars, o \notin overlapped' => ~Ending(o)'
  PROVE  TellOk(o)'
<1> SUFFICES ASSUME o \notin hurried' \union overlapped' PROVE TellOk(o)'
  BY DEF TellOk
<1>1. /\ o \notin hurried \union overlapped /\ ~Ending(o)' /\ IsOpen(o)
      /\ TellAll(o)
  BY DEF DoClose, TellOk
<1>2. /\ Cancel(o) /\ mSocket'[o] = "closed" /\ Post(o, "close", conn[o])
      /\ early' = IF "close" \notin callback[o]
                  THEN early \union {[on |-> o, conn |-> conn[o]]} ELSE early
  BY DEF DoClose, TypeInv, ClientType
<1>3. /\ reads'[o] = 0
      /\ DueOf(o) \subseteq DueOf(o)'
      /\ \A k \in DueOf(o) : ready'[k] = ready[k]
      /\ \A k \in DueOf(o)' \ DueOf(o) : IsAborted(o, ready'[k])
  BY <1>2, DueCancel
<1>4. conn[o] \in 1..MaxConnects /\ PostedType
  BY <1>1 DEF TypeInv, ClientType, OpenInv
<1>5. /\ "close" \notin callback[o] => posted'[o] = posted[o]
      /\ "close" \in callback[o] =>
           posted'[o] = Append(posted[o], [event |-> "close", conn |-> conn[o]])
  BY <1>2, <1>4, PostMoves DEF Events
<1>6. ASSUME NEW n \in 1..MaxConnects, [on |-> o, conn |-> n] \notin early'
      PROVE  ToldInOrder(o, n)' /\ (n = conn'[o] => TellNow(o, n)')
  <2>1. /\ [on |-> o, conn |-> n] \notin early
        /\ n = conn[o] => "close" \in callback[o]
    BY <1>2, <1>6
  <2>2. ToldInOrder(o, n) /\ (n = conn[o] => TellNow(o, n))
    BY <1>1, <2>1 DEF TellAll
  <2>3. CASE n # conn[o]
    <3>1. CASE posted'[o] = posted[o]
      BY <2>2, <2>3, <3>1, ToldSame
    <3>2. CASE posted'[o] = Append(posted[o], [event |-> "close", conn |-> conn[o]])
      BY <1>4, <2>2, <2>3, <3>2, ToldOther
    <3> QED
      BY <1>5, <2>3, <3>1, <3>2
  <2>4. CASE n = conn[o]
    <3>1. Closes(o, n) = {} /\ TellNow(o, n)
      BY <1>1, <2>2, <2>4 DEF TellNow
    <3>2. posted'[o] = Append(posted[o], [event |-> "close", conn |-> n])
      BY <1>5, <2>1, <2>4
    <3>3. /\ ToldInOrder(o, n)' /\ Rest(o, n)' = Rest(o, n)
          /\ \A c \in Closes(o, n)', j \in About(o, n)' : j <= c
      BY <1>4, <2>2, <3>1, <3>2, ToldClose
    <3>4. ASSUME NEW k \in DueOf(o)'
          PROVE  /\ ready'[k].kind = "connect" => Rest(o, n) = {}
                 /\ ready'[k].kind = "read" => Rest(o, n) # {}
      <4>1. CASE k \in DueOf(o)
        BY <1>3, <3>1, <4>1 DEF TellNow
      <4>2. CASE k \notin DueOf(o)
        <5>1. \/ ready'[k].kind = "connect" /\ mSocket[o] = "connecting"
              \/ ready'[k].kind = "read" /\ reads[o] > 0
          BY <1>3, <4>2 DEF IsAborted
        <5>2. mSocket[o] = "connecting" => Rest(o, n) = {}
          BY <3>1 DEF TellNow, Rest
        <5> QED
          BY <3>1, <5>1, <5>2 DEF TellNow
      <4> QED
        BY <4>1, <4>2
    <3>5. mainAt' = o => Rest(o, n) # {}
      BY <3>1 DEF TellNow
    <3> QED
      BY <1>2, <1>3, <3>3, <3>4, <3>5 DEF TellNow, IsOpen
  <2> QED
    BY <2>3, <2>4
<1> QED
  BY <1>1, <1>6 DEF TellOk, TellAll

LEMMA TellCall ==
  ASSUME TypeInv, NEW o \in Clients, TellOk(o), Call(o)
  PROVE  TellOk(o)'
<1>0. /\ conn[o] \in 0..MaxConnects /\ reads[o] \in Nat
      /\ conn \in [Clients -> 0..MaxConnects] /\ mSocket \in [Clients -> Sockets]
      /\ pc \in [Clients -> Calls]
      /\ ~IsOpen(o) => reads[o] = 0
      /\ pc[o] = "open" => ~IsOpen(o)
  BY DEF TypeInv, ClientType, OpenInv
<1>1. CASE \/ NewClient(o) \/ Destroy(o) \/ Connect(o) \/ Close(o)
           \/ \E e \in Events : SetCallback(o, e)
  <2>1. UNCHANGED <<mSocket, conn, reads, ready, mainVars, posted, pastVars>>
    BY <1>1 DEF NewClient, Destroy, Connect, Close, SetCallback
  <2>2. pc'[o] = "close" => pc[o] = "close" \/ IsOpen(o)
    <3>1. ASSUME NEW e \in Events
          PROVE  [connect |-> "setConnectError", connectError |-> "setMsg",
                  msg |-> "setClose", close |-> "idle"][e] # "close"
      BY DEF Events
    <3> QED
      BY <1>0, <1>1, <3>1 DEF NewClient, Destroy, Connect, Close, SetCallback, Goto
  <2>3. o \notin hurried \union overlapped /\ Ending(o)' => IsOpen(o)'
    BY <2>1, <2>2 DEF TellOk, Ending, IsOpen
  <2>4. ASSUME NEW n, TellNow(o, n) PROVE TellNow(o, n)'
    <3>1. /\ About(o, n)' = About(o, n) /\ Closes(o, n)' = Closes(o, n)
          /\ Rest(o, n)' = Rest(o, n)
      BY <2>1, ToldSame
    <3> QED
      BY <2>1, <2>4, <3>1 DEF TellNow, DueOf, IsOpen
  <2> QED
    BY <2>1, <2>3, <2>4, TellSilent
<1>2. CASE Open(o)
  <2> SUFFICES ASSUME o \notin hurried' \union overlapped' PROVE TellOk(o)'
    BY DEF TellOk
  <2>1. mSocket[o] = "closed" /\ reads[o] = 0 /\ Cancel(o)
    BY <1>0, <1>2 DEF Open, IsOpen
  <2>2. reads'[o] = 0 /\ ready' = ready
    BY <2>1, DueCancel
  <2>3. /\ mSocket'[o] = "connecting" /\ conn'[o] = conn[o] + 1
        /\ pc'[o] = "setConnect"
        /\ UNCHANGED <<mainVars, posted, early, overlapped>>
        /\ o \notin hurried /\ mainAt # o /\ DueOf(o) = {}
    BY <1>0, <1>2 DEF Open, Goto, DueOf
  <2>4. TellAll(o) /\ DueOf(o)' = {} /\ ~Ending(o)'
    BY <2>2, <2>3 DEF TellOk, DueOf, Ending
  <2>5. ASSUME NEW n \in 1..MaxConnects, [on |-> o, conn |-> n] \notin early'
        PROVE  ToldInOrder(o, n)' /\ (n = conn'[o] => TellNow(o, n)')
    <3>1. ToldInOrder(o, n)
      BY <2>3, <2>4, <2>5 DEF TellAll
    <3>2. ToldInOrder(o, n)' /\ About(o, n)' = About(o, n)
      BY <2>3, <3>1, ToldSame
    <3>3. n = conn'[o] => About(o, n) = {}
      BY <1>0, <2>3 DEF TypeInv, BegunInv, About
    <3>4. ASSUME n = conn'[o] PROVE TellNow(o, n)'
      <4>1. About(o, n)' = {} /\ Closes(o, n)' = {}
        BY <3>2, <3>3, <3>4 DEF Closes
      <4> QED
        BY <2>2, <2>3, <2>4, <4>1 DEF TellNow
    <3> QED
      BY <3>2, <3>4
  <2> QED
    BY <2>4, <2>5 DEF TellOk, TellAll
<1>3. CASE CloseEnd(o)
  <2>1. /\ DoClose(o) /\ UNCHANGED <<conn, mainVars, hurried>>
        /\ pc[o] = "close" /\ pc'[o] = "idle"
    BY <1>0, <1>3 DEF CloseEnd, Goto
  <2>2. Ending(o) /\ (o \notin overlapped' => ~Ending(o)')
    BY <2>1 DEF DoClose, Ending
  <2> QED
    BY <2>1, <2>2, TellClose
<1> QED
  BY <1>1, <1>2, <1>3 DEF Call

(* A handler of o becomes due, and nothing is told.                         *)
LEMMA TellDue ==
  ASSUME TypeInv, NEW o \in Clients, NEW n, TellNow(o, n), posted' = posted,
         NEW kind \in {"connect", "read"}, NEW ok \in BOOLEAN, conn[o] >= 1,
         ready' = Append(ready, Handler(o, kind, ok)),
         IsOpen(o)' => IsOpen(o), mSocket'[o] = "connecting" => mSocket[o] = "connecting",
         reads'[o] > 0 => reads[o] > 0, mainAt' = o => mainAt = o,
         kind = "connect" => Rest(o, n) = {},
         kind = "read" => Rest(o, n) # {},
         kind = "read" /\ ok => Closes(o, n) = {}
  PROVE  TellNow(o, n)'
<1>1. /\ About(o, n)' = About(o, n) /\ Closes(o, n)' = Closes(o, n)
      /\ Rest(o, n)' = Rest(o, n)
  BY ToldSame
<1> DEFINE l == Len(ready) + 1
<1>2. /\ DueOf(o)' = DueOf(o) \union {l}
      /\ \A k \in DueOf(o) : ready'[k] = ready[k]
      /\ ready'[l].kind = kind /\ ready'[l].ok = ok
  BY DueOne
<1> HIDE DEF l
<1>3. ASSUME NEW k \in DueOf(o)'
      PROVE  /\ ready'[k].kind = "connect" => Rest(o, n) = {}
             /\ ready'[k].kind = "read" =>
                  /\ Rest(o, n) # {}
                  /\ ready'[k].ok => \A c \in Closes(o, n), j \in About(o, n) : j <= c
  <2>1. CASE k \in DueOf(o)
    BY <1>2, <2>1 DEF TellNow
  <2>2. CASE k = l
    BY <1>2, <2>2
  <2> QED
    BY <1>2, <2>1, <2>2
<1> QED
  BY <1>1, <1>3 DEF TellNow

LEMMA TellNetwork ==
  ASSUME TypeInv, NEW o \in Clients, TellOk(o), Network(o) \/ PeerGone(o)
  PROVE  TellOk(o)'
<1>0. /\ conn[o] \in 0..MaxConnects /\ reads[o] \in Nat
      /\ reads \in [Clients -> Nat] /\ mSocket \in [Clients -> Sockets]
      /\ IsOpen(o) => conn[o] >= 1
      /\ ~IsOpen(o) => reads[o] = 0
  BY DEF TypeInv, ClientType, OpenInv
<1>1. /\ UNCHANGED <<conn, pc, mainVars, posted, early, hurried, overlapped>>
      /\ IsOpen(o)' <=> IsOpen(o)
  BY <1>0 DEF Network, ConnectDone, ReadDone, PeerGone, IsOpen
<1>2. o \notin hurried \union overlapped /\ Ending(o)' => IsOpen(o)'
  BY <1>1 DEF TellOk, Ending
<1>3. ASSUME NEW n, TellNow(o, n) PROVE TellNow(o, n)'
  <2>1. CASE PeerGone(o)
    <3>1. /\ mSocket'[o] = "down" /\ UNCHANGED <<reads, ready, mainAt, posted>>
      BY <1>0, <2>1 DEF PeerGone
    <3>2. /\ About(o, n)' = About(o, n) /\ Closes(o, n)' = Closes(o, n)
          /\ Rest(o, n)' = Rest(o, n)
      BY <1>1, ToldSame
    <3> QED
      BY <1>1, <1>3, <3>1, <3>2 DEF TellNow, DueOf
  <2>2. ASSUME NEW ok \in BOOLEAN, ConnectDone(o, ok) PROVE TellNow(o, n)'
    <3>1. /\ mSocket[o] = "connecting" /\ mSocket'[o] # "connecting"
          /\ ready' = Append(ready, Handler(o, "connect", ok)) /\ reads' = reads
      BY <1>0, <2>2 DEF ConnectDone
    <3>2. conn[o] >= 1 /\ Rest(o, n) = {}
      BY <1>0, <1>3, <3>1 DEF IsOpen, TellNow, Rest
    <3> HIDE DEF TellNow
    <3> QED
      BY <1>1, <1>3, <3>1, <3>2, TellDue
  <2>3. ASSUME NEW ok \in BOOLEAN, ReadDone(o, ok) PROVE TellNow(o, n)'
    <3>1. /\ reads[o] > 0 /\ reads'[o] = reads[o] - 1 /\ mSocket' = mSocket
          /\ ok => IsOpen(o)
          /\ ready' = Append(ready, Handler(o, "read", ok))
      BY <1>0, <2>3 DEF ReadDone, IsOpen
    <3>2. /\ conn[o] >= 1 /\ Rest(o, n) # {} /\ (ok => Closes(o, n) = {})
      BY <1>0, <1>3, <3>1 DEF TellNow
    <3> QED
      BY <1>1, <1>3, <3>1, <3>2, TellDue
  <2> QED
    BY <2>1, <2>2, <2>3 DEF Network
<1> QED
  BY <1>1, <1>2, <1>3, TellSilent

(* What main says of a connection, when its handler is the only one.        *)
LEMMA TellAnnounce ==
  ASSUME TypeInv, NEW o \in Clients, FlowOk(o), TellOk(o),
         NEW kind, NEW ok, Due(kind, ok), Head(ready).on = o,
         NEW event \in {"connect", "connectError", "msg"}, Announce(event),
         \/ event = "msg" /\ kind = "read" /\ ok
         \/ event # "msg" /\ kind = "connect",
         \/ MainGoto("read", o, Head(ready).conn)
         \/ MainGoto("poll", Nil, 0)
  PROVE  TellOk(o)'
<1> SUFFICES ASSUME o \notin hurried' \union overlapped' PROVE TellOk(o)'
  BY DEF TellOk
<1> DEFINE h == Head(ready)
<1>1. /\ Post(o, event, h.conn)
      /\ early' = IF event \notin callback[o]
                  THEN early \union {[on |-> o, conn |-> h.conn]} ELSE early
      /\ UNCHANGED <<mSocket, conn, reads, pc, hurried, overlapped>>
  BY DEF Announce
<1>2. o \notin hurried \union overlapped /\ TellAll(o) /\ OneOk(o)
  BY <1>1 DEF TellOk, FlowOk
<1>3. /\ mainAt = Nil /\ o # Nil /\ ready[1] = h /\ h.kind = kind /\ h.ok = ok
      /\ mainPc = "poll" /\ 1 \in DueOf(o)
      /\ \A k \in DueOf(o)' : k \in Nat /\ k >= 1 /\ k + 1 \in DueOf(o)
  BY DueFacts, DueUp DEF Due
<1>4. DueOf(o)' = {}
  <2>1. \A k \in DueOf(o)' : k >= 1 /\ k \in Nat /\ k + 1 = 1
    BY <1>2, <1>3 DEF OneOk
  <2> QED
    BY <2>1
<1>5. h.conn = conn[o] /\ ~(reads[o] > 0) /\ mSocket[o] # "connecting"
  BY <1>2, <1>3 DEF OneOk
<1>6. Ending(o)' => IsOpen(o)'
  BY <1>1, <1>2, <1>3 DEF MainGoto, Ending, TellOk, IsOpen
<1>7. conn[o] \in 1..MaxConnects /\ PostedType
  <2>1. h.conn \in 1..MaxConnects
    BY DueFacts
  <2> QED
    BY <1>5, <2>1 DEF TypeInv
<1> HIDE DEF h
<1>8. /\ event \notin callback[o] => posted'[o] = posted[o]
      /\ event \in callback[o] =>
           posted'[o] = Append(posted[o], [event |-> event, conn |-> conn[o]])
  BY <1>1, <1>5, <1>7, PostMoves DEF Events
<1>9. ASSUME NEW n \in 1..MaxConnects, [on |-> o, conn |-> n] \notin early'
      PROVE  ToldInOrder(o, n)' /\ (n = conn'[o] => TellNow(o, n)')
  <2>1. /\ [on |-> o, conn |-> n] \notin early
        /\ n = conn[o] => event \in callback[o]
    BY <1>1, <1>5, <1>9
  <2>2. ToldInOrder(o, n) /\ (n = conn[o] => TellNow(o, n))
    BY <1>2, <2>1 DEF TellAll
  <2>3. CASE n # conn[o]
    <3>1. CASE posted'[o] = posted[o]
      BY <1>1, <2>2, <2>3, <3>1, ToldSame
    <3>2. CASE posted'[o] = Append(posted[o], [event |-> event, conn |-> conn[o]])
      BY <1>1, <1>7, <2>2, <2>3, <3>2, ToldOther
    <3> QED
      BY <1>8, <3>1, <3>2
  <2>4. CASE n = conn[o]
    <3>1. posted'[o] = Append(posted[o], [event |-> event, conn |-> n])
      BY <1>8, <2>1, <2>4
    <3>2. TellNow(o, n)
      BY <2>2, <2>4
    <3>3. ToldInOrder(o, n)' /\ Rest(o, n)' # {} /\ Closes(o, n)' = Closes(o, n)
      <4>1. CASE kind = "read"
        <5>1. /\ event = "msg" /\ Rest(o, n) # {}
              /\ \A c \in Closes(o, n), j \in About(o, n) : j <= c
          BY <1>3, <3>2, <4>1 DEF TellNow
        <5> QED
          BY <1>7, <2>2, <3>1, <5>1, ToldMsg
      <4>2. CASE kind # "read"
        <5>1. event \in {"connect", "connectError"} /\ Rest(o, n) = {}
          BY <1>3, <3>2, <4>2 DEF TellNow
        <5> QED
          BY <1>7, <2>2, <3>1, <5>1, ToldAnswer
      <4> QED
        BY <4>1, <4>2
    <3>4. TellNow(o, n)'
      BY <1>1, <1>4, <1>5, <3>2, <3>3 DEF TellNow, IsOpen
    <3> QED
      BY <3>3, <3>4
  <2> QED
    BY <2>3, <2>4
<1>10. TellAll(o)'
  BY <1>9 DEF TellAll
<1> QED
  BY <1>6, <1>10 DEF TellOk

LEMMA TellMain ==
  ASSUME TypeInv, NEW o \in Clients, FlowOk(o), TellOk(o), Main, MainOf(o)
  PROVE  TellOk(o)'
<1>0. /\ conn[o] \in 0..MaxConnects /\ reads[o] \in Nat
      /\ reads \in [Clients -> Nat]
      /\ o # Nil /\ (mainPc = "poll" <=> mainAt = Nil)
      /\ mainPc # "poll" => mainConn \in 1..conn[mainAt]
  BY DEF TypeInv, ClientType, BegunInv
<1>1. CASE OnConnect \/ OnConnectError \/ OnMsg
  <2>1. Head(ready).on = o
    BY <1>0, <1>1 DEF MainOf, OnConnect, OnConnectError, OnMsg, Due
  <2>2. CASE OnConnect
    <3>1. /\ Due("connect", TRUE) /\ Announce("connect")
          /\ MainGoto("read", o, Head(ready).conn)
      BY <2>1, <2>2 DEF OnConnect, Connected
    <3> QED
      BY <2>1, <3>1, TellAnnounce
  <2>3. CASE OnConnectError
    <3>1. /\ Due("connect", FALSE) /\ Announce("connectError")
          /\ MainGoto("poll", Nil, 0)
      BY <2>3 DEF OnConnectError
    <3> QED
      BY <2>1, <3>1, TellAnnounce
  <2>4. CASE OnMsg
    BY <2>1, <2>4, TellAnnounce DEF OnMsg
  <2> QED
    BY <1>1, <2>2, <2>3, <2>4
<1>2. CASE OnMsgError
  <2>1. /\ Head(ready).on = o /\ Due("read", FALSE)
        /\ UNCHANGED <<mSocket, conn, reads, pc, posted, early, hurried, overlapped>>
        /\ IF IsOpen(o) THEN MainGoto("close", o, Head(ready).conn)
                        ELSE MainGoto("poll", Nil, 0)
    BY <1>0, <1>2 DEF MainOf, OnMsgError, EndOfRead, Due
  <2>2. /\ mainAt = Nil /\ mainPc = "poll" /\ ready[1] = Head(ready) /\ 1 \in DueOf(o)
        /\ ready[1].kind = "read"
        /\ \A k \in DueOf(o)' : k + 1 \in DueOf(o) /\ ready'[k] = ready[k + 1]
    BY <2>1, DueFacts, DueUp DEF Due
  <2>3. o \notin hurried \union overlapped /\ Ending(o)' => IsOpen(o)'
    BY <1>0, <2>1, <2>2 DEF Ending, MainGoto, TellOk, IsOpen
  <2>4. ASSUME NEW n, TellNow(o, n) PROVE TellNow(o, n)'
    <3>1. /\ About(o, n)' = About(o, n) /\ Closes(o, n)' = Closes(o, n)
          /\ Rest(o, n)' = Rest(o, n)
      BY <2>1, ToldSame
    <3>2. Rest(o, n) # {}
      BY <2>2, <2>4 DEF TellNow
    <3> QED
      BY <2>1, <2>2, <2>4, <3>1, <3>2 DEF TellNow, IsOpen
  <2> QED
    BY <2>1, <2>3, <2>4, TellSilent
<1>3. CASE MainClose
  <2>1. mainAt = o /\ mainPc = "close"
    BY <1>0, <1>3 DEF MainClose, MainOf
  <2>2. /\ DoClose(o) /\ UNCHANGED <<conn, hurried, pc>> /\ mainAt' = Nil
    BY <1>3, <2>1 DEF MainClose, MainGoto
  <2>3. Ending(o) /\ (o \notin overlapped' => ~Ending(o)')
    BY <1>0, <2>1, <2>2 DEF DoClose, Ending
  <2> QED
    BY <1>0, <2>2, <2>3, TellClose
<1>4. CASE DoRead
  <2>1. mainAt = o /\ mainPc = "read" /\ conn[o] >= 1
    BY <1>0, <1>4 DEF DoRead, MainOf
  <2>2. /\ UNCHANGED <<mSocket, conn, pc, posted, early, hurried, overlapped>>
        /\ mainAt' = Nil /\ mainPc' = "poll"
        /\ \/ reads'[o] = reads[o] + 1 /\ ready' = ready
           \/ reads' = reads /\ ready' = Append(ready, Handler(o, "read", FALSE))
    BY <1>0, <1>4, <2>1 DEF DoRead, MainGoto
  <2>3. o \notin hurried \union overlapped /\ Ending(o)' => IsOpen(o)'
    BY <2>2 DEF Ending, TellOk, IsOpen
  <2>4. ASSUME NEW n, TellNow(o, n) PROVE TellNow(o, n)'
    <3>1. /\ About(o, n)' = About(o, n) /\ Closes(o, n)' = Closes(o, n)
          /\ Rest(o, n)' = Rest(o, n)
      BY <2>2, ToldSame
    <3>2. Rest(o, n) # {}
      BY <2>1, <2>4 DEF TellNow
    <3>3. CASE reads'[o] = reads[o] + 1 /\ ready' = ready
      BY <1>0, <2>2, <2>4, <3>1, <3>2, <3>3 DEF TellNow, IsOpen, DueOf
    <3>4. CASE reads' = reads /\ ready' = Append(ready, Handler(o, "read", FALSE))
      <4>1. IsOpen(o)' <=> IsOpen(o)
        BY <2>2 DEF IsOpen
      <4>2. mSocket' = mSocket /\ posted' = posted /\ mainAt' # o /\ reads' = reads
        BY <1>0, <2>2, <3>4
      <4> QED
        BY <2>1, <2>4, <3>2, <3>4, <4>1, <4>2, TellDue
    <3> QED
      BY <2>2, <3>3, <3>4
  <2> QED
    BY <2>2, <2>3, <2>4, TellSilent
<1> QED
  BY <1>1, <1>2, <1>3, <1>4 DEF Main

LEMMA TellStep ==
  ASSUME TypeInv, FlowInv, TellInv, [Next]_vars
  PROVE  TellInv'
<1> SUFFICES ASSUME NEW o \in Clients PROVE TellOk(o)'
  BY DEF TellInv
<1>1. FlowOk(o) /\ TellOk(o)
  BY DEF FlowInv, TellInv
<1>2. CASE ~OwnStep(o)
  BY <1>1, <1>2, OthersStand, TellStands
<1> QED
  BY <1>1, <1>2, TellCall, TellNetwork, TellMain DEF OwnStep

LEMMA TellInit == Init => TellInv
<1> SUFFICES ASSUME Init, NEW o \in Clients PROVE TellOk(o)
  BY DEF TellInv
<1>1. \A n : About(o, n) = {} /\ Closes(o, n) = {}
  BY DEF Init, About, Closes
<1>2. \A n : ToldInOrder(o, n)
  BY <1>1 DEF ToldInOrder
<1>3. ~Ending(o) /\ conn[o] = 0
  BY DEF Init, Ending
<1> QED
  BY <1>2, <1>3 DEF TellOk, TellAll

(* Connect or ConnectError is told first and once, Close once, with at most *)
(* one message after it, of every connection whose handlers ran after the   *)
(* callbacks were set, with no hurry and no two close() at a time.          *)
THEOREM WellToldHolds == Spec => []WellTold
<1>1. Init => TypeInv /\ FlowInv /\ TellInv
  BY TypeInit, FlowInit, TellInit
<1>2. TypeInv /\ FlowInv /\ TellInv /\ [Next]_vars => (TypeInv /\ FlowInv /\ TellInv)'
  BY TypeStep, FlowStep, TellStep
<1>3. TypeInv /\ FlowInv /\ TellInv => WellTold
  BY DEF TellInv, TellOk, TellAll, WellTold
<1> QED
  BY <1>1, <1>2, <1>3, PTL DEF Spec
=============================================================================

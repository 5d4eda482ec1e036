-------------------------- MODULE TcpServer_proofs --------------------------
(***************************************************************************)
(* Theorems about TcpServer, for any number of services, connections,      *)
(* reads and calls.                                                        *)
(***************************************************************************)
EXTENDS TcpServer, FiniteSetTheorems, SequenceTheorems, TLAPS

USE BoundAssumption, NameAssumption

(* newTcpServer of o has returned.                                          *)
Made(o) == pc[o] \notin {"none", "bump", "insert"}

Listening == {"bind", "setConnect", "setClose", "setMsg"}
OnFd      == {"close", "erase", "write", "lockMgr", "failPost", "failErase"}
Writing   == {"write", "lockMgr", "failPost", "failErase"}
Reading   == {"getServer", "post", "read"}

-----------------------------------------------------------------------------
(* The parts of TypeOK.                                                     *)

Messages == [id : Ids, event : Events, fd : Fds]

MgrType ==
  /\ mAutoId \in Ids
  /\ mServers \in [Ids -> Services \union {Nil}]
  /\ mLock \in Services \union {Nil}
  /\ ptr \in [Services -> {0} \union Ids]

ServerType ==
  /\ mAcceptor \in [Services -> BOOLEAN]
  /\ accepts \in [Services -> Nat]
  /\ autoFd \in [Services -> Nat]
  /\ mSessions \in [Services -> SUBSET Fds]
  /\ callback \in [Services -> [Events -> Services \union {Nil}]]

SessionType ==
  /\ read \in [Services -> [Fds -> Reads]]
  /\ chunks \in [Services -> [Fds -> Nat]]

CallType ==
  /\ pc \in [Services -> Calls]
  /\ at \in [Services -> Services \union {Nil}]
  /\ fdOf \in [Services -> {0} \union Fds]
  /\ calls \in [Services -> 0..MaxCalls]

MainType ==
  /\ mainPc \in {"poll", "connect", "getServer", "post", "read"}
  /\ mainOn \in Services \union {Nil}
  /\ mainFd \in {0} \union Fds
  /\ mainTo \in Services \union {Nil}

PostedType == posted \in [Services -> Seq(Messages)]

PastType ==
  /\ failed \in [Services -> SUBSET Fds]
  /\ refused \subseteq Services
  /\ early \in [Services -> SUBSET Fds]
  /\ late \in [Services -> [Fds -> Nat]]
  /\ dangling \in BOOLEAN

Types == /\ MgrType /\ ServerType /\ SessionType /\ CallType /\ MainType
         /\ PostedType /\ PastType /\ crashed \in BOOLEAN

LEMMA TypesAreTypeOK == Types <=> TypeOK
BY DEF Types, TypeOK, MgrType, ServerType, SessionType, CallType, MainType,
       PostedType, PastType, Messages

-----------------------------------------------------------------------------
(* Where pointers lead.  A pointer to a server, of a call, of a handler or  *)
(* of a callback, is to one that newTcpServer made and that has the id the  *)
(* holder drew.                                                             *)

Bumped == {s \in Services : pc[s] \notin {"none", "bump"}}

IdInv ==
  /\ mAutoId \in 1..(Cardinality(Bumped) + 1)
  /\ \A s \in Services :
       pc[s] = "bump" => ptr[s] \in 1..(Cardinality(Bumped) + 1)

DrawnInv == \A s \in Services : ptr[s] = 0 <=> pc[s] = "none"

MapInv == \A n \in Ids :
  mServers[n] # Nil => Made(mServers[n]) /\ ptr[mServers[n]] = n

AtInv == \A s \in Services :
  /\ at[s] # Nil <=> pc[s] \in Listening \union OnFd
  /\ at[s] # Nil => Made(at[s]) /\ ptr[at[s]] = ptr[s]
  /\ fdOf[s] # 0 <=> pc[s] \in OnFd

CallbackAtInv == \A o \in Services, e \in Events :
  callback[o][e] # Nil => Made(o) /\ ptr[callback[o][e]] = ptr[o]

MainInv ==
  /\ mainPc = "poll" <=> mainOn = Nil
  /\ mainPc # "poll" => Made(mainOn) /\ mainFd \in Fds
  /\ mainPc \in {"post", "read"} =>
       mainTo # Nil /\ Made(mainTo) /\ ptr[mainTo] = ptr[mainOn]

UnmadeInv == \A o \in Services :
  ~Made(o) => /\ ~mAcceptor[o] /\ accepts[o] = 0 /\ mSessions[o] = {}
              /\ \A fd \in Fds : read[o][fd] = "none"

PointerInv == /\ DrawnInv /\ MapInv /\ AtInv /\ CallbackAtInv /\ MainInv
              /\ UnmadeInv

TypeInv == Types /\ IdInv /\ PointerInv

-----------------------------------------------------------------------------
LEMMA IdsFacts ==
  /\ Cardinality(Services) \in Nat
  /\ Ids = 1..(Cardinality(Services) + 1)
  /\ 0 \notin Ids /\ 0 \notin Fds /\ Ids \subseteq Nat /\ Fds \subseteq Nat
BY FS_CardinalityType DEF Ids, Fds

LEMMA GotoFacts ==
  ASSUME CallType, NEW s \in Services, NEW c \in Calls,
         NEW o \in Services \union {Nil}, NEW fd \in {0} \union Fds,
         Goto(s, c, o, fd), calls' \in [Services -> 0..MaxCalls]
  PROVE  /\ CallType'
         /\ pc'[s] = c /\ at'[s] = o /\ fdOf'[s] = fd
         /\ \A u \in Services \ {s} :
              pc'[u] = pc[u] /\ at'[u] = at[u] /\ fdOf'[u] = fdOf[u]
BY DEF CallType, Goto

LEMMA StepFacts ==
  ASSUME CallType, NEW s \in Services, NEW from, NEW to \in Calls, Step(s, from, to)
  PROVE  /\ CallType' /\ pc[s] = from
         /\ pc'[s] = to /\ at' = at /\ fdOf' = fdOf
         /\ \A u \in Services \ {s} : pc'[u] = pc[u]
BY DEF CallType, Goto, Step

LEMMA ReturnFacts ==
  ASSUME CallType, NEW s \in Services, NEW from, Return(s, from)
  PROVE  /\ CallType' /\ pc[s] = from
         /\ pc'[s] = "idle" /\ at'[s] = Nil /\ fdOf'[s] = 0
         /\ \A u \in Services \ {s} :
              pc'[u] = pc[u] /\ at'[u] = at[u] /\ fdOf'[u] = fdOf[u]
BY DEF CallType, Goto, Return, Calls

LEMMA PostFacts ==
  ASSUME PostedType, ServerType, NEW o \in Services, NEW e \in Events, NEW fd \in Fds,
         ptr[o] \in Ids, Post(o, e, fd)
  PROVE  /\ PostedType'
         /\ Msg(o, e, fd) \in Messages
         /\ \A s \in Services :
              /\ s = callback[o][e] =>
                   posted'[s] = Append(posted[s], Msg(o, e, fd))
              /\ s # callback[o][e] => posted'[s] = posted[s]
<1>1. Msg(o, e, fd) \in Messages
  BY DEF Msg, Messages
<1>2. callback[o][e] \in Services \union {Nil}
  BY DEF ServerType
<1>3. CASE callback[o][e] = Nil
  <2>1. posted' = posted
    BY <1>3 DEF Post
  <2> QED
    BY <1>1, <1>3, <2>1 DEF PostedType
<1>4. CASE callback[o][e] # Nil
  <2> DEFINE s == callback[o][e]
             m == Msg(o, e, fd)
  <2>1. posted' = [posted EXCEPT ![s] = Append(posted[s], m)]
    BY <1>4 DEF Post
  <2>2. m \in Messages /\ s \in Services
    BY <1>1, <1>2, <1>4
  <2> HIDE DEF s, m
  <2>3. /\ PostedType'
        /\ posted'[s] = Append(posted[s], m)
        /\ \A u \in Services : u # s => posted'[u] = posted[u]
    BY <2>1, <2>2 DEF PostedType
  <2> QED
    BY <1>1, <2>3 DEF s, m
<1> QED
  BY <1>3, <1>4

LEMMA TypeInit == Init => TypeInv
<1> SUFFICES ASSUME Init PROVE TypeInv
  OBVIOUS
<1>1. Bumped = {} /\ Cardinality(Bumped) = 0
  <2>1. Bumped = {}
    BY DEF Init, Bumped
  <2> QED
    BY <2>1, FS_EmptySet
<1>2. IdInv
  BY <1>1 DEF Init, IdInv
<1>3. PointerInv
  BY IdsFacts DEF Init, PointerInv, DrawnInv, MapInv, AtInv, CallbackAtInv,
                  MainInv, UnmadeInv, Made, Listening, OnFd
<1>4. Types
  <2>1. MgrType
    BY IdsFacts DEF Init, MgrType
  <2>2. ServerType
    BY DEF Init, ServerType
  <2>3. SessionType
    BY DEF Init, SessionType, Reads
  <2>4. CallType /\ MainType
    BY DEF Init, CallType, MainType, Calls
  <2>5. PostedType
    BY DEF Init, PostedType
  <2>6. PastType /\ crashed \in BOOLEAN
    BY DEF Init, PastType
  <2> QED
    BY <2>1, <2>2, <2>3, <2>4, <2>5, <2>6 DEF Types
<1> QED
  BY <1>2, <1>3, <1>4 DEF TypeInv

-----------------------------------------------------------------------------
(* The types, one action at a time.                                         *)

USE DEF mgrVars, serverVars, sessionVars, callVars, mainVars, pastVars, vars

LEMMA GetServerType ==
  ASSUME MgrType, NEW n
  PROVE  GetServer(n) \in Services \union {Nil}
BY DEF GetServer, MgrType

LEMMA CallTypes ==
  ASSUME TypeInv, NEW s \in Services, Call(s)
  PROVE  CallType'
<1> USE DEF TypeInv, Types
<1>1. CASE NewServer(s) \/ Listen(s)
  <2>1. GetServer(ptr[s]) \in Services \union {Nil}
    BY GetServerType
  <2> QED
    BY <1>1, <2>1, GotoFacts DEF NewServer, Listen, Calls, CallType
<1>2. CASE \/ BumpId(s) \/ Bind(s) \/ CloseBegin(s) \/ WriteFails(s)
           \/ MgrClosePost(s)
  BY <1>2, StepFacts DEF BumpId, Bind, CloseBegin, WriteFails, MgrClosePost, Calls
<1>3. CASE InsertServer(s) \/ CloseEnd(s) \/ WriteOk(s) \/ MgrCloseEnd(s)
  BY <1>3, ReturnFacts DEF InsertServer, CloseEnd, WriteOk, MgrCloseEnd
<1>4. CASE \E e \in Events : SetCallback(s, e)
  BY <1>4, StepFacts, ReturnFacts DEF SetCallback, Calls
<1>5. CASE DestroyServer(s) \/ \E fd \in Fds : RemoteInfoFails(s, fd)
  BY <1>5 DEF DestroyServer, RemoteInfoFails, CallType
<1>6. CASE \E fd \in Fds : Close(s, fd) \/ Send(s, fd)
  <2>1. PICK fd \in Fds : Close(s, fd) \/ Send(s, fd)
    BY <1>6
  <2>2. GetServer(ptr[s]) \in Services \union {Nil}
    BY GetServerType
  <2>3. calls' \in [Services -> 0..MaxCalls]
    BY <2>1 DEF Close, Send, Begin, CallType
  <2>4. \E c \in {"close", "write"} : Goto(s, c, GetServer(ptr[s]), fd)
    BY <2>1 DEF Close, Send, Begin
  <2> QED
    BY <2>1, <2>2, <2>3, <2>4, GotoFacts DEF Calls
<1>7. CASE MgrClose(s)
  <2> DEFINE o == GetServer(ptr[at[s]])
  <2>1. o \in Services \union {Nil}
    BY GetServerType
  <2>2. CASE Return(s, "lockMgr")
    BY <2>2, ReturnFacts
  <2>3. CASE Goto(s, "failPost", o, fdOf[s]) /\ calls' = calls
    BY <2>1, <2>3, GotoFacts DEF CallType, Calls
  <2> QED
    BY <1>7, <2>2, <2>3 DEF MgrClose
<1> QED
  BY <1>1, <1>2, <1>3, <1>4, <1>5, <1>6, <1>7 DEF Call

(* A call moves no thread but its own, and handlers of main move none.      *)
LEMMA OneMoves ==
  ASSUME TypeInv, NEW s \in Services, Call(s)
  PROVE  \A u \in Services \ {s} :
           pc'[u] = pc[u] /\ at'[u] = at[u] /\ fdOf'[u] = fdOf[u] /\ ptr'[u] = ptr[u]
<1>1. pc \in [Services -> Calls] /\ at \in [Services -> Services \union {Nil}]
      /\ fdOf \in [Services -> {0} \union Fds] /\ ptr \in [Services -> {0} \union Ids]
  BY DEF TypeInv, Types, CallType, MgrType
<1> USE <1>1 DEF Goto, Step, Return, Begin
<1>2. CASE NewServer(s) \/ Listen(s) \/ BumpId(s) \/ Bind(s) \/ InsertServer(s)
  BY <1>2 DEF NewServer, Listen, BumpId, Bind, InsertServer
<1>3. CASE \/ CloseBegin(s) \/ WriteFails(s) \/ MgrClosePost(s) \/ CloseEnd(s)
           \/ WriteOk(s) \/ MgrCloseEnd(s)
  BY <1>3 DEF CloseBegin, WriteFails, MgrClosePost, CloseEnd, WriteOk, MgrCloseEnd
<1>4. CASE \/ DestroyServer(s)
           \/ \E fd \in Fds : RemoteInfoFails(s, fd)
           \/ \E fd \in Fds : Close(s, fd) \/ Send(s, fd)
  BY <1>4 DEF DestroyServer, RemoteInfoFails, Close, Send
<1>5. CASE MgrClose(s) \/ \E e \in Events : SetCallback(s, e)
  BY <1>5 DEF MgrClose, SetCallback
<1> QED
  BY <1>2, <1>3, <1>4, <1>5 DEF Call

LEMMA HandlersCallNot ==
  ASSUME Handler \/ \E o \in Services, fd \in Fds : Arrive(o, fd)
  PROVE  UNCHANGED <<mgrVars, callVars, callback, mAcceptor>>
BY DEF Handler, Arrive, OnConnect, OnMsgGetServer, OnMsgPost, OnMsgRead,
       OnAcceptor, OnAcceptorError, OnReadError, OnRead, OnReadEmpty

(* An id is drawn once and newTcpServer returns once.                       *)
LEMMA CallKeeps ==
  ASSUME TypeInv, NEW s \in Services, Call(s)
  PROVE  /\ ptr[s] # 0 => ptr'[s] = ptr[s]
         /\ Made(s) => Made(s)'
         /\ Made(s)' => Made(s) \/ InsertServer(s)
         /\ pc'[s] # "none"
         /\ pc[s] = "none" <=> NewServer(s)
<1>1. pc \in [Services -> Calls] /\ ptr \in [Services -> {0} \union Ids]
      /\ (ptr[s] = 0 <=> pc[s] = "none")
  BY DEF TypeInv, Types, CallType, MgrType, PointerInv, DrawnInv
<1> USE <1>1 DEF Made, Goto, Step, Return, Begin
<1>2. CASE NewServer(s) \/ Listen(s) \/ BumpId(s) \/ Bind(s) \/ InsertServer(s)
  BY <1>2 DEF NewServer, Listen, BumpId, Bind, InsertServer
<1>3. CASE \/ CloseBegin(s) \/ WriteFails(s) \/ MgrClosePost(s) \/ CloseEnd(s)
           \/ WriteOk(s) \/ MgrCloseEnd(s)
  BY <1>3 DEF CloseBegin, WriteFails, MgrClosePost, CloseEnd, WriteOk,
              MgrCloseEnd, NewServer, InsertServer
<1>4. CASE \/ DestroyServer(s)
           \/ \E fd \in Fds : RemoteInfoFails(s, fd)
           \/ \E fd \in Fds : Close(s, fd) \/ Send(s, fd)
  BY <1>4 DEF DestroyServer, RemoteInfoFails, Close, Send, NewServer, InsertServer
<1>5. CASE MgrClose(s) \/ \E e \in Events : SetCallback(s, e)
  BY <1>5 DEF MgrClose, SetCallback, NewServer, InsertServer
<1> QED
  BY <1>2, <1>3, <1>4, <1>5 DEF Call

LEMMA Keeps ==
  ASSUME TypeInv, [Next]_vars
  PROVE  \A u \in Services : /\ ptr[u] # 0 => ptr'[u] = ptr[u]
                             /\ Made(u) => Made(u)'
                             /\ ~Made(u) /\ Made(u)' => InsertServer(u)
<1>1. ASSUME NEW s \in Services, Call(s)
      PROVE  \A u \in Services : /\ ptr[u] # 0 => ptr'[u] = ptr[u]
                                 /\ Made(u) => Made(u)'
                                 /\ ~Made(u) /\ Made(u)' => InsertServer(u)
  BY <1>1, CallKeeps, OneMoves DEF Made
<1>2. CASE Handler \/ \E o \in Services, fd \in Fds : Arrive(o, fd)
  BY <1>2, HandlersCallNot DEF Made
<1>3. CASE UNCHANGED vars
  BY <1>3 DEF Made
<1> QED
  BY <1>1, <1>2, <1>3 DEF Next

LEMMA DrawnStep == ASSUME TypeInv, [Next]_vars PROVE DrawnInv'
<1>1. DrawnInv
  BY DEF TypeInv, PointerInv
<1>2. ASSUME NEW s \in Services, Call(s) PROVE DrawnInv'
  <2>1. \A u \in Services \ {s} : ptr'[u] = 0 <=> pc'[u] = "none"
    BY <1>1, <1>2, OneMoves DEF DrawnInv
  <2>2. pc'[s] # "none"
    BY <1>2, CallKeeps
  <2>3. CASE NewServer(s)
    <3>1. ptr'[s] = mAutoId
      BY <2>3 DEF NewServer, TypeInv, Types, MgrType
    <3> QED
      BY <2>1, <2>2, <3>1, IdsFacts DEF DrawnInv, TypeInv, Types, MgrType
  <2>4. CASE ~NewServer(s)
    BY <1>1, <1>2, <2>1, <2>2, <2>4, CallKeeps DEF DrawnInv
  <2> QED
    BY <2>3, <2>4
<1>3. CASE Handler \/ \E o \in Services, fd \in Fds : Arrive(o, fd)
  BY <1>1, <1>3, HandlersCallNot DEF DrawnInv
<1>4. CASE UNCHANGED vars
  BY <1>1, <1>4 DEF DrawnInv
<1> QED
  BY <1>2, <1>3, <1>4 DEF Next

LEMMA BumpedFinite ==
  /\ IsFiniteSet(Bumped) /\ Cardinality(Bumped) \in Nat
  /\ Cardinality(Bumped) <= Cardinality(Services)
<1>1. Bumped \subseteq Services
  BY DEF Bumped
<1> QED
  BY <1>1, FS_Subset, FS_CardinalityType

(* As many ids are drawn as there are calls of newTcpServer, or fewer.      *)
LEMMA IdStep == ASSUME TypeInv, [Next]_vars PROVE IdInv'
<1>0. /\ IdInv /\ Cardinality(Bumped) \in Nat
      /\ mAutoId \in Nat /\ \A s \in Services : ptr[s] \in Nat
      /\ pc \in [Services -> Calls] /\ ptr \in [Services -> {0} \union Ids]
  BY BumpedFinite, IdsFacts DEF TypeInv, Types, MgrType, CallType
<1>1. ASSUME NEW s \in Services, BumpId(s) PROVE IdInv'
  <2>1. /\ pc[s] = "bump" /\ pc' = [pc EXCEPT ![s] = "insert"] /\ ptr' = ptr
        /\ mAutoId' \in {ptr[s] + 1, mAutoId + 1}
    BY <1>1 DEF BumpId, Step, Goto
  <2>2. Bumped' = Bumped \union {s} /\ s \notin Bumped
    BY <1>0, <2>1 DEF Bumped
  <2>3. Cardinality(Bumped') = Cardinality(Bumped) + 1
    BY <2>2, BumpedFinite, FS_AddElement
  <2> DEFINE n == Cardinality(Bumped)
             m == Cardinality(Bumped')
  <2> HIDE DEF n, m
  <2>4. n \in Nat /\ m = n + 1
    BY <1>0, <2>3 DEF n, m
  <2>5. mAutoId \in 1..(n + 1) /\ ptr[s] \in 1..(n + 1)
    BY <1>0, <2>1 DEF IdInv, n
  <2>6. mAutoId' \in 1..(m + 1)
    BY <1>0, <2>1, <2>4, <2>5
  <2>7. ASSUME NEW u \in Services, pc'[u] = "bump" PROVE ptr'[u] \in 1..(m + 1)
    <3>1. ptr[u] \in 1..(n + 1)
      BY <1>0, <2>1, <2>7 DEF IdInv, n
    <3> QED
      BY <1>0, <2>1, <2>4, <3>1
  <2> QED
    BY <2>6, <2>7 DEF IdInv, m
<1>2. ASSUME NEW s \in Services, NewServer(s) PROVE IdInv'
  <2>1. /\ pc[s] = "none" /\ pc' = [pc EXCEPT ![s] = "bump"]
        /\ ptr' = [ptr EXCEPT ![s] = mAutoId] /\ mAutoId' = mAutoId
    BY <1>2 DEF NewServer, Goto
  <2>2. Bumped' = Bumped
    BY <1>0, <2>1 DEF Bumped
  <2>3. \A u \in Services : pc'[u] = "bump" =>
          ptr'[u] = mAutoId \/ (pc[u] = "bump" /\ ptr'[u] = ptr[u])
    BY <1>0, <2>1
  <2> QED
    BY <1>0, <2>1, <2>2, <2>3 DEF IdInv
<1>3. CASE /\ \A s \in Services : ~BumpId(s) /\ ~NewServer(s)
           /\ \E s \in Services : Call(s)
  <2>1. PICK s \in Services : Call(s)
    BY <1>3
  <2>2. /\ pc'[s] \notin {"none", "bump"} <=> pc[s] \notin {"none", "bump"}
        /\ pc'[s] # "bump" /\ UNCHANGED <<mAutoId, ptr>>
    <3> USE <1>0, <1>3, <2>1 DEF Goto, Step, Return, Begin
    <3>2. CASE Listen(s) \/ Bind(s) \/ InsertServer(s)
      BY <3>2 DEF Listen, Bind, InsertServer
    <3>3. CASE \/ CloseBegin(s) \/ WriteFails(s) \/ MgrClosePost(s) \/ CloseEnd(s)
               \/ WriteOk(s) \/ MgrCloseEnd(s)
      BY <3>3 DEF CloseBegin, WriteFails, MgrClosePost, CloseEnd, WriteOk,
                  MgrCloseEnd
    <3>4. CASE \/ DestroyServer(s)
               \/ \E fd \in Fds : RemoteInfoFails(s, fd)
               \/ \E fd \in Fds : Close(s, fd) \/ Send(s, fd)
      BY <3>4 DEF DestroyServer, RemoteInfoFails, Close, Send
    <3>5. CASE MgrClose(s) \/ \E e \in Events : SetCallback(s, e)
      BY <3>5 DEF MgrClose, SetCallback
    <3> QED
      BY <3>2, <3>3, <3>4, <3>5 DEF Call
  <2>3. \A u \in Services \ {s} : pc'[u] = pc[u]
    BY <2>1, OneMoves
  <2>4. Bumped' = Bumped
    BY <2>2, <2>3 DEF Bumped
  <2> QED
    BY <1>0, <2>2, <2>3, <2>4 DEF IdInv
<1>4. CASE UNCHANGED <<mAutoId, ptr, pc>>
  <2>1. Bumped' = Bumped
    BY <1>4 DEF Bumped
  <2> QED
    BY <1>0, <1>4, <2>1 DEF IdInv
<1>5. CASE Handler \/ \E o \in Services, fd \in Fds : Arrive(o, fd)
  BY <1>4, <1>5, HandlersCallNot
<1> QED
  BY <1>1, <1>2, <1>3, <1>4, <1>5 DEF Next

LEMMA MapStep == ASSUME TypeInv, [Next]_vars PROVE MapInv'
<1>0. /\ MapInv /\ DrawnInv
      /\ mServers \in [Ids -> Services \union {Nil}]
      /\ pc \in [Services -> Calls] /\ ptr \in [Services -> {0} \union Ids]
  BY DEF TypeInv, PointerInv, Types, MgrType, CallType
<1>1. ASSUME mServers' = mServers PROVE MapInv'
  BY <1>0, <1>1, Keeps, IdsFacts DEF MapInv
<1>2. ASSUME NEW s \in Services, InsertServer(s) PROVE MapInv'
  <2>1. /\ pc[s] = "insert" /\ pc' = [pc EXCEPT ![s] = "idle"] /\ ptr' = ptr
        /\ mServers' = mServers \/ mServers' = [mServers EXCEPT ![ptr[s]] = s]
    BY <1>2 DEF InsertServer, Return, Goto
  <2>2. Made(s)' /\ ptr'[s] \in Ids
    BY <1>0, <2>1 DEF Made, DrawnInv
  <2>3. \A u \in Services : Made(u) => Made(u)'
    BY <1>2, Keeps DEF Next, Call
  <2> QED
    BY <1>0, <2>1, <2>2, <2>3 DEF MapInv
<1>3. ASSUME NEW s \in Services, DestroyServer(s) PROVE MapInv'
  <2>1. /\ mServers' = [mServers EXCEPT ![ptr[s]] = Nil]
        /\ UNCHANGED <<ptr, pc>>
    BY <1>3 DEF DestroyServer
  <2> QED
    BY <1>0, <2>1 DEF MapInv, Made
<1>4. CASE \A s \in Services : ~InsertServer(s) /\ ~DestroyServer(s)
  <2>1. mServers' = mServers
    <3>1. CASE \E s \in Services : Call(s)
      BY <1>4, <3>1 DEF Call, NewServer, BumpId, Listen, Bind, SetCallback, Close,
          Send, RemoteInfoFails, CloseBegin, CloseEnd, WriteOk, WriteFails,
          MgrClose, MgrClosePost, MgrCloseEnd
    <3>2. CASE Handler \/ \E o \in Services, fd \in Fds : Arrive(o, fd)
      BY <3>2, HandlersCallNot
    <3> QED
      BY <3>1, <3>2 DEF Next
  <2> QED
    BY <1>1, <2>1
<1> QED
  BY <1>2, <1>3, <1>4

(* A server that a call finds by its id is one with that id.                *)
LEMMA FoundHasId ==
  ASSUME TypeInv, NEW n, GetServer(n) # Nil
  PROVE  /\ GetServer(n) \in Services /\ Made(GetServer(n))
         /\ ptr[GetServer(n)] = n /\ n \in Ids
BY DEF GetServer, TypeInv, PointerInv, MapInv, Types, MgrType

AtOk(s) ==
  /\ at[s] # Nil <=> pc[s] \in Listening \union OnFd
  /\ at[s] # Nil => Made(at[s]) /\ ptr[at[s]] = ptr[s]
  /\ fdOf[s] # 0 <=> pc[s] \in OnFd

(* The call of s itself.                                                    *)
LEMMA AtOwn ==
  ASSUME TypeInv, NEW s \in Services, Call(s)
  PROVE  AtOk(s)'
<1>0. /\ AtOk(s) /\ CallType /\ ptr \in [Services -> {0} \union Ids]
      /\ pc[s] \in Calls /\ at[s] \in Services \union {Nil}
      /\ fdOf[s] \in {0} \union Fds /\ 0 \notin Fds
  BY IdsFacts DEF TypeInv, PointerInv, AtInv, AtOk, Types, CallType, MgrType
<1>1. \A u \in Services : (Made(u) => Made(u)') /\ (ptr[u] # 0 => ptr'[u] = ptr[u])
  BY OneMoves, CallKeeps DEF Made
<1>2. \A u \in Services : Made(u) => ptr[u] # 0
  BY DEF TypeInv, PointerInv, DrawnInv, Made
<1>3. CASE /\ pc'[s] \notin Listening \union OnFd /\ at'[s] = Nil /\ fdOf'[s] = 0
  BY <1>3, IdsFacts DEF AtOk, OnFd
<1>4. CASE /\ at' = at /\ fdOf' = fdOf /\ ptr' = ptr
           /\ pc'[s] \in Listening <=> pc[s] \in Listening
           /\ pc'[s] \in OnFd <=> pc[s] \in OnFd
  BY <1>0, <1>1, <1>4 DEF AtOk
<1>5. CASE NewServer(s)
  <2>1. pc'[s] = "bump" /\ at'[s] = Nil /\ fdOf'[s] = 0
    BY <1>0, <1>5 DEF NewServer, Goto, CallType
  <2> QED
    BY <1>3, <2>1 DEF Listening, OnFd
<1>6. CASE InsertServer(s) \/ CloseEnd(s) \/ WriteOk(s) \/ MgrCloseEnd(s)
  <2>1. pc'[s] = "idle" /\ at'[s] = Nil /\ fdOf'[s] = 0
    BY <1>0, <1>6, ReturnFacts DEF InsertServer, CloseEnd, WriteOk, MgrCloseEnd
  <2> QED
    BY <1>3, <2>1 DEF Listening, OnFd
<1>7. CASE \/ BumpId(s) \/ Bind(s) \/ CloseBegin(s) \/ WriteFails(s)
           \/ MgrClosePost(s)
  <2>1. /\ at' = at /\ fdOf' = fdOf /\ ptr' = ptr
        /\ <<pc[s], pc'[s]>> \in {<<"bump", "insert">>, <<"bind", "setConnect">>,
             <<"close", "erase">>, <<"write", "lockMgr">>,
             <<"failPost", "failErase">>}
    BY <1>0, <1>7, StepFacts
    DEF BumpId, Bind, CloseBegin, WriteFails, MgrClosePost, Calls
  <2> QED
    BY <1>4, <2>1 DEF Listening, OnFd
<1>8. CASE \E e \in Events : SetCallback(s, e)
  <2>1. \/ /\ at' = at /\ fdOf' = fdOf /\ ptr' = ptr
           /\ <<pc[s], pc'[s]>> \in {<<"setConnect", "setClose">>,
                                     <<"setClose", "setMsg">>}
        \/ pc'[s] = "idle" /\ at'[s] = Nil /\ fdOf'[s] = 0
    BY <1>0, <1>8, StepFacts, ReturnFacts DEF SetCallback, Calls
  <2>2. CASE pc'[s] = "idle" /\ at'[s] = Nil /\ fdOf'[s] = 0
    BY <1>3, <2>2 DEF Listening, OnFd
  <2> QED
    BY <1>4, <2>1, <2>2 DEF Listening, OnFd
<1>9. CASE DestroyServer(s) \/ \E fd \in Fds : RemoteInfoFails(s, fd)
  BY <1>4, <1>9 DEF DestroyServer, RemoteInfoFails
<1>10. ASSUME NEW o \in Services, NEW fd \in {0} \union Fds, NEW c \in Calls,
              Goto(s, c, o, fd), ptr' = ptr, Made(o), ptr[o] = ptr[s],
              c \in Listening \union OnFd, fd # 0 <=> c \in OnFd
       PROVE  AtOk(s)'
  <2>1. pc'[s] = c /\ at'[s] = o /\ fdOf'[s] = fd
    BY <1>0, <1>10 DEF Goto, CallType
  <2> QED
    BY <1>1, <1>10, <2>1 DEF AtOk
<1>11. CASE Listen(s) \/ \E fd \in Fds : Close(s, fd) \/ Send(s, fd)
  <2> DEFINE o == GetServer(ptr[s])
  <2>1. /\ o # Nil /\ ptr' = ptr
        /\ \/ Goto(s, "bind", o, 0)
           \/ \E fd \in Fds, c \in {"close", "write"} : Goto(s, c, o, fd)
    BY <1>11 DEF Listen, Close, Send, Begin
  <2>2. o \in Services /\ Made(o) /\ ptr[o] = ptr[s]
    BY <2>1, FoundHasId
  <2> HIDE DEF o
  <2>3. CASE Goto(s, "bind", o, 0)
    BY <1>10, <2>1, <2>2, <2>3 DEF Calls, Listening, OnFd
  <2>4. CASE \E fd \in Fds, c \in {"close", "write"} : Goto(s, c, o, fd)
    BY <1>0, <1>10, <2>1, <2>2, <2>4 DEF Calls, Listening, OnFd
  <2> QED
    BY <2>1, <2>3, <2>4
<1>12. CASE MgrClose(s)
  <2> DEFINE o == GetServer(ptr[at[s]])
  <2>1. /\ ptr' = ptr /\ pc[s] = "lockMgr"
        /\ \/ Return(s, "lockMgr")
           \/ o # Nil /\ Goto(s, "failPost", o, fdOf[s])
    BY <1>12 DEF MgrClose
  <2>2. CASE Return(s, "lockMgr")
    <3>1. pc'[s] = "idle" /\ at'[s] = Nil /\ fdOf'[s] = 0
      BY <1>0, <2>2, ReturnFacts
    <3> QED
      BY <1>3, <3>1 DEF Listening, OnFd
  <2>3. CASE o # Nil /\ Goto(s, "failPost", o, fdOf[s])
    <3>1. at[s] # Nil /\ fdOf[s] # 0 /\ ptr[at[s]] = ptr[s]
      BY <1>0, <2>1 DEF AtOk, OnFd
    <3>2. o \in Services /\ Made(o) /\ ptr[o] = ptr[s]
      BY <2>3, <3>1, FoundHasId
    <3> HIDE DEF o
    <3> QED
      BY <1>0, <1>10, <2>1, <2>3, <3>1, <3>2 DEF Calls, Listening, OnFd
  <2> QED
    BY <2>1, <2>2, <2>3
<1> QED
  BY <1>5, <1>6, <1>7, <1>8, <1>9, <1>11, <1>12 DEF Call

LEMMA AtStep == ASSUME TypeInv, [Next]_vars PROVE AtInv'
<1>0. /\ \A u \in Services : AtOk(u)
      /\ \A u \in Services : at[u] \in Services \union {Nil}
      /\ \A u \in Services : Made(u) => ptr[u] # 0
  BY DEF TypeInv, PointerInv, AtInv, AtOk, Types, CallType, DrawnInv, Made
<1> SUFFICES ASSUME NEW u \in Services PROVE AtOk(u)'
  BY DEF AtInv, AtOk
<1>1. CASE Call(u)
  BY <1>1, AtOwn
<1>2. CASE pc'[u] = pc[u] /\ at'[u] = at[u] /\ fdOf'[u] = fdOf[u] /\ ptr'[u] = ptr[u]
  BY <1>0, <1>2, Keeps DEF AtOk
<1>3. ASSUME NEW s \in Services, Call(s) PROVE AtOk(u)'
  BY <1>1, <1>2, <1>3, OneMoves
<1>4. CASE Handler \/ \E o \in Services, fd \in Fds : Arrive(o, fd)
  BY <1>2, <1>4, HandlersCallNot
<1> QED
  BY <1>2, <1>3, <1>4 DEF Next

LEMMA CallbackAtStep == ASSUME TypeInv, [Next]_vars PROVE CallbackAtInv'
<1>0. /\ CallbackAtInv /\ AtInv
      /\ callback \in [Services -> [Events -> Services \union {Nil}]]
      /\ \A u \in Services : at[u] \in Services \union {Nil}
      /\ \A u \in Services : Made(u) => ptr[u] # 0
  BY DEF TypeInv, PointerInv, Types, CallType, ServerType, DrawnInv, Made
<1>1. CASE callback' = callback
  <2>1. \A o \in Services, e \in Events : callback[o][e] \in Services \union {Nil}
    BY <1>0
  <2>2. ASSUME NEW o \in Services, NEW e \in Events, callback[o][e] # Nil
        PROVE  Made(o)' /\ ptr'[callback[o][e]] = ptr'[o]
    BY <1>0, <2>1, <2>2, Keeps DEF CallbackAtInv
  <2> QED
    BY <1>1, <2>2 DEF CallbackAtInv
<1>2. ASSUME NEW s \in Services, NEW e \in Events, SetCallback(s, e)
      PROVE  CallbackAtInv'
  <2>1. /\ callback' = [callback EXCEPT ![at[s]] = [@ EXCEPT ![e] = s]]
        /\ ptr' = ptr /\ pc[s] \in {"setConnect", "setClose", "setMsg"}
    BY <1>2 DEF SetCallback, Step, Return
  <2>2. at[s] \in Services /\ Made(at[s]) /\ ptr[at[s]] = ptr[s]
    BY <1>0, <2>1 DEF AtInv, Listening
  <2>3. \A u \in Services : Made(u) => Made(u)'
    BY Keeps
  <2>4. ASSUME NEW o \in Services, NEW f \in Events, callback'[o][f] # Nil
        PROVE  Made(o)' /\ ptr'[callback'[o][f]] = ptr'[o]
    <3>1. CASE o = at[s] /\ f = e
      <4>1. callback'[o][f] = s
        BY <1>0, <2>1, <3>1
      <4> QED
        BY <2>1, <2>2, <2>3, <3>1, <4>1
    <3>2. CASE ~(o = at[s] /\ f = e)
      <4>1. callback'[o][f] = callback[o][f]
        BY <1>0, <2>1, <3>2
      <4> QED
        BY <1>0, <2>1, <2>3, <2>4, <4>1 DEF CallbackAtInv
    <3> QED
      BY <3>1, <3>2
  <2> QED
    BY <2>4 DEF CallbackAtInv
<1>3. CASE \A s \in Services, e \in Events : ~SetCallback(s, e)
  <2>1. callback' = callback
    <3>1. CASE \E s \in Services : Call(s)
      BY <1>3, <3>1 DEF Call, NewServer, BumpId, InsertServer, DestroyServer, Listen,
          Bind, Close, Send, RemoteInfoFails, CloseBegin, CloseEnd, WriteOk,
          WriteFails, MgrClose, MgrClosePost, MgrCloseEnd
    <3>2. CASE Handler \/ \E o \in Services, fd \in Fds : Arrive(o, fd)
      BY <3>2, HandlersCallNot
    <3> QED
      BY <3>1, <3>2 DEF Next
  <2> QED
    BY <1>1, <2>1
<1> QED
  BY <1>2, <1>3

(* Main is where it was but for its own handlers.                           *)
LEMMA MainStays ==
  ASSUME NEW s \in Services, Call(s)
  PROVE  UNCHANGED <<mainVars, sessionVars, autoFd, pastVars>>
BY DEF Call, NewServer, BumpId, InsertServer, DestroyServer, Listen, Bind,
       SetCallback, Close, Send, RemoteInfoFails, CloseBegin, CloseEnd, WriteOk,
       WriteFails, MgrClose, MgrClosePost, MgrCloseEnd

LEMMA MainStep == ASSUME TypeInv, [Next]_vars PROVE MainInv'
<1>0. /\ MainInv /\ UnmadeInv /\ MainType
      /\ \A u \in Services : Made(u) => ptr[u] # 0
      /\ \A u \in Services : (Made(u) => Made(u)') /\ (ptr[u] # 0 => ptr'[u] = ptr[u])
      /\ accepts \in [Services -> Nat] /\ read \in [Services -> [Fds -> Reads]]
      /\ autoFd \in [Services -> Nat]
  BY Keeps DEF TypeInv, PointerInv, Types, DrawnInv, Made, ServerType, SessionType
<1>1. CASE UNCHANGED mainVars
  BY <1>0, <1>1 DEF MainInv, MainType
<1>2. ASSUME NEW s \in Services, Call(s) PROVE MainInv'
  BY <1>1, <1>2, MainStays
<1>3. ASSUME NEW o \in Services, OnAcceptor(o) PROVE MainInv'
  <2>1. /\ mainPc' = "connect" /\ mainOn' = o /\ mainFd' = autoFd[o]
        /\ accepts[o] > 0 /\ autoFd[o] \in Fds
    BY <1>3 DEF OnAcceptor, MainGoto
  <2>2. Made(o)
    BY <1>0, <2>1 DEF UnmadeInv
  <2> QED
    BY <1>0, <2>1, <2>2 DEF MainInv
<1>4. ASSUME NEW o \in Services, NEW fd \in Fds, OnRead(o, fd), Made(o)
      PROVE  MainInv'
  <2>1. mainPc' = "getServer" /\ mainOn' = o /\ mainFd' = fd
    BY <1>4 DEF OnRead, MainGoto
  <2> QED
    BY <1>0, <1>4, <2>1 DEF MainInv
<1>5. CASE OnConnect \/ OnMsgRead
  BY <1>5 DEF OnConnect, OnMsgRead, MainGoto, MainInv
<1>6. CASE OnMsgGetServer
  <2> DEFINE o == GetServer(ptr[mainOn])
  <2>1. \/ mainPc' = "poll" /\ mainOn' = Nil
        \/ o # Nil /\ mainPc' = "post" /\ mainOn' = mainOn /\ mainFd' = mainFd
           /\ mainTo' = o
    BY <1>6 DEF OnMsgGetServer, MainGoto
  <2>2. mainPc = "getServer"
    BY <1>6 DEF OnMsgGetServer
  <2>3. CASE o # Nil /\ mainPc' = "post" /\ mainOn' = mainOn /\ mainFd' = mainFd
           /\ mainTo' = o
    <3>1. o \in Services /\ Made(o) /\ ptr[o] = ptr[mainOn]
      BY <2>3, FoundHasId
    <3> HIDE DEF o
    <3> QED
      BY <1>0, <2>2, <2>3, <3>1 DEF MainInv, MainType
  <2> QED
    BY <2>1, <2>3 DEF MainInv
<1>7. CASE OnMsgPost
  <2>1. /\ mainPc = "post" /\ mainPc' = "read" /\ mainOn' = mainOn
        /\ mainFd' = mainFd /\ mainTo' = mainTo
    BY <1>7 DEF OnMsgPost, MainGoto
  <2> QED
    BY <1>0, <2>1 DEF MainInv, MainType
<1>8. ASSUME NEW o \in Services, NEW fd \in Fds,
             OnReadError(o, fd) \/ OnReadEmpty(o, fd) \/ Arrive(o, fd)
      PROVE  MainInv'
  BY <1>1, <1>8 DEF OnReadError, OnReadEmpty, Arrive
<1>10. ASSUME NEW o \in Services, OnAcceptorError(o) PROVE MainInv'
  BY <1>1, <1>10 DEF OnAcceptorError
<1>9. ASSUME NEW o \in Services, NEW fd \in Fds, OnRead(o, fd) PROVE Made(o)
  <2>1. read[o][fd] = "data"
    BY <1>9 DEF OnRead
  <2> QED
    BY <1>0, <2>1 DEF UnmadeInv
<1> QED
  BY <1>1, <1>2, <1>3, <1>4, <1>5, <1>6, <1>7, <1>8, <1>9, <1>10
  DEF Next, Handler

(* Which steps change what a server owns.                                   *)
LEMMA ServerMoves ==
  ASSUME NEW s \in Services, Call(s)
  PROVE  /\ \/ UNCHANGED <<mAcceptor, accepts, crashed>>
            \/ Bind(s)
            \/ UNCHANGED <<mAcceptor, accepts>> /\ \E fd \in Fds : RemoteInfoFails(s, fd)
         /\ UNCHANGED mSessions \/ CloseEnd(s) \/ MgrCloseEnd(s)
         /\ UNCHANGED posted \/ CloseBegin(s) \/ MgrClosePost(s)
         /\ UNCHANGED callback \/ \E e \in Events : SetCallback(s, e)
BY DEF Call, NewServer, BumpId, InsertServer, DestroyServer, Listen, Bind,
       SetCallback, Close, Send, RemoteInfoFails, CloseBegin, CloseEnd, WriteOk,
       WriteFails, MgrClose, MgrClosePost, MgrCloseEnd

LEMMA UnmadeStep == ASSUME TypeInv, [Next]_vars PROVE UnmadeInv'
<1> SUFFICES ASSUME NEW o \in Services, ~Made(o)
             PROVE  /\ ~mAcceptor'[o] /\ accepts'[o] = 0 /\ mSessions'[o] = {}
                    /\ \A fd \in Fds : read'[o][fd] = "none"
  BY Keeps DEF UnmadeInv
<1>0. /\ ~mAcceptor[o] /\ accepts[o] = 0 /\ mSessions[o] = {}
      /\ \A fd \in Fds : read[o][fd] = "none"
      /\ accepts \in [Services -> Nat] /\ read \in [Services -> [Fds -> Reads]]
      /\ autoFd \in [Services -> Nat] /\ mSessions \in [Services -> SUBSET Fds]
      /\ mAcceptor \in [Services -> BOOLEAN]
      /\ mainPc # "poll" => Made(mainOn)
      /\ \A s \in Services : pc[s] \in Listening \union OnFd => at[s] # o
  BY DEF TypeInv, PointerInv, UnmadeInv, Types, ServerType, SessionType, MainInv,
         AtInv
<1>1. ASSUME NEW s \in Services, Call(s)
      PROVE  /\ ~mAcceptor'[o] /\ accepts'[o] = 0 /\ mSessions'[o] = {}
             /\ \A fd \in Fds : read'[o][fd] = "none"
  <2>1. read' = read
    BY <1>1, MainStays
  <2>2. mSessions'[o] = {}
    <3>1. CASE CloseEnd(s) \/ MgrCloseEnd(s)
      BY <1>0, <3>1 DEF CloseEnd, MgrCloseEnd, EraseSession
    <3> QED
      BY <1>0, <1>1, <3>1, ServerMoves
  <2>3. ~mAcceptor'[o] /\ accepts'[o] = 0
    <3>1. CASE Bind(s)
      <4>1. /\ pc[s] = "bind" /\ mAcceptor' = [mAcceptor EXCEPT ![at[s]] = TRUE]
            /\ \/ accepts' = [accepts EXCEPT ![at[s]] = @ + 1]
               \/ accepts' = accepts
        BY <3>1 DEF Bind, Step
      <4>2. at[s] # o
        BY <1>0, <4>1 DEF Listening
      <4> QED
        BY <1>0, <4>1, <4>2
    <3> QED
      BY <1>0, <1>1, <3>1, ServerMoves
  <2> QED
    BY <1>0, <2>1, <2>2, <2>3
<1>2. ASSUME NEW p \in Services, OnAcceptor(p)
      PROVE  /\ ~mAcceptor'[o] /\ accepts'[o] = 0 /\ mSessions'[o] = {}
             /\ \A fd \in Fds : read'[o][fd] = "none"
  <2>1. p # o
    BY <1>0, <1>2 DEF OnAcceptor
  <2> QED
    BY <1>0, <1>2, <2>1 DEF OnAcceptor
<1>3. ASSUME NEW p \in Services, OnAcceptorError(p)
      PROVE  /\ ~mAcceptor'[o] /\ accepts'[o] = 0 /\ mSessions'[o] = {}
             /\ \A fd \in Fds : read'[o][fd] = "none"
  BY <1>0, <1>3 DEF OnAcceptorError
<1>4. CASE OnConnect
  BY <1>0, <1>4 DEF OnConnect, DoAcceptor
<1>5. CASE OnMsgGetServer \/ OnMsgPost
  BY <1>0, <1>5 DEF OnMsgGetServer, OnMsgPost
<1>6. CASE OnMsgRead
  BY <1>0, <1>6 DEF OnMsgRead, DoRead
<1>7. ASSUME NEW p \in Services, NEW fd \in Fds,
             \/ OnRead(p, fd) \/ OnReadError(p, fd) \/ OnReadEmpty(p, fd)
             \/ Arrive(p, fd)
      PROVE  /\ ~mAcceptor'[o] /\ accepts'[o] = 0 /\ mSessions'[o] = {}
             /\ \A f \in Fds : read'[o][f] = "none"
  <2>1. /\ p # o
        /\ \E r \in Reads : read' = [read EXCEPT ![p][fd] = r]
        /\ UNCHANGED serverVars
    BY <1>0, <1>7 DEF OnRead, OnReadError, OnReadEmpty, Arrive, DoRead, Reads
  <2> QED
    BY <1>0, <2>1
<1>8. CASE UNCHANGED vars
  BY <1>0, <1>8
<1> QED
  BY <1>1, <1>2, <1>3, <1>4, <1>5, <1>6, <1>7, <1>8 DEF Next, Handler

LEMMA CallMgrTypes ==
  ASSUME TypeInv, NEW s \in Services, Call(s)
  PROVE  MgrType'
<1>0. MgrType /\ DrawnInv /\ IdInv
  BY DEF TypeInv, Types, PointerInv
<1>1. CASE NewServer(s)
  BY <1>0, <1>1 DEF NewServer, MgrType
<1>2. CASE BumpId(s)
  <2>1. mAutoId' \in Ids
    <3>1. /\ pc[s] = "bump" /\ pc' = [pc EXCEPT ![s] = "insert"]
          /\ mAutoId' \in {ptr[s] + 1, mAutoId + 1}
      BY <1>2 DEF BumpId, Step, Goto
    <3>2. Bumped \union {s} \subseteq Services /\ s \notin Bumped
      BY <3>1 DEF Bumped
    <3>3. Cardinality(Bumped) + 1 <= Cardinality(Services)
      <4>1. Cardinality(Bumped \union {s}) = Cardinality(Bumped) + 1
        BY <3>2, BumpedFinite, FS_AddElement
      <4>2. Cardinality(Bumped \union {s}) <= Cardinality(Services)
        BY <3>2, FS_Subset
      <4> QED
        BY <4>1, <4>2
    <3>4. mAutoId \in 1..(Cardinality(Bumped) + 1)
          /\ ptr[s] \in 1..(Cardinality(Bumped) + 1)
      BY <1>0, <3>1 DEF IdInv
    <3> QED
      BY <3>1, <3>3, <3>4, IdsFacts, BumpedFinite
  <2> QED
    BY <1>0, <1>2, <2>1 DEF BumpId, MgrType
<1>3. CASE InsertServer(s)
  BY <1>0, <1>3 DEF InsertServer, MgrType
<1>4. CASE DestroyServer(s)
  BY <1>0, <1>4 DEF DestroyServer, MgrType
<1>5. CASE MgrClose(s) \/ MgrCloseEnd(s)
  BY <1>0, <1>5 DEF MgrClose, MgrCloseEnd, UnlockMgr, MgrType
<1>6. CASE UNCHANGED mgrVars
  BY <1>0, <1>6 DEF MgrType
<1> QED
  BY <1>1, <1>2, <1>3, <1>4, <1>5, <1>6
  DEF Call, Listen, Bind, SetCallback, Close, Send, RemoteInfoFails, CloseBegin,
      CloseEnd, WriteOk, WriteFails, MgrClosePost

(* A call that uses a server or a connection has one to use.                *)
LEMMA AtUse ==
  ASSUME TypeInv, NEW s \in Services
  PROVE  /\ pc[s] \in Listening \union OnFd =>
              at[s] \in Services /\ ptr[at[s]] \in Ids
         /\ pc[s] \in OnFd => fdOf[s] \in Fds
<1>1. /\ at[s] \in Services \union {Nil} /\ fdOf[s] \in {0} \union Fds
      /\ ptr \in [Services -> {0} \union Ids]
  BY DEF TypeInv, Types, CallType, MgrType
<1> QED
  BY <1>1, IdsFacts DEF TypeInv, PointerInv, AtInv, DrawnInv, Made

LEMMA MainUse ==
  ASSUME TypeInv
  PROVE  /\ mainPc # "poll" => mainOn \in Services /\ mainFd \in Fds
                               /\ ptr[mainOn] \in Ids
         /\ mainPc \in {"post", "read"} => mainTo \in Services /\ ptr[mainTo] \in Ids
<1>1. /\ mainOn \in Services \union {Nil} /\ mainTo \in Services \union {Nil}
      /\ ptr \in [Services -> {0} \union Ids]
  BY DEF TypeInv, Types, MainType, MgrType
<1> QED
  BY <1>1 DEF TypeInv, PointerInv, MainInv, DrawnInv, Made

LEMMA CallServerTypes ==
  ASSUME TypeInv, NEW s \in Services, Call(s)
  PROVE  ServerType' /\ PostedType' /\ crashed' \in BOOLEAN
<1>0. ServerType /\ PostedType /\ crashed \in BOOLEAN
  BY DEF TypeInv, Types
<1>1. accepts' \in [Services -> Nat] /\ mAcceptor' \in [Services -> BOOLEAN]
      /\ crashed' \in BOOLEAN
  <2>1. CASE Bind(s)
    <3>1. /\ mAcceptor' = [mAcceptor EXCEPT ![at[s]] = TRUE]
          /\ \/ accepts' = [accepts EXCEPT ![at[s]] = @ + 1] /\ crashed' = crashed
             \/ accepts' = accepts /\ crashed' = TRUE
      BY <2>1 DEF Bind
    <3>2. mAcceptor' \in [Services -> BOOLEAN] /\ crashed' \in BOOLEAN
      BY <1>0, <3>1 DEF ServerType
    <3>3. accepts' \in [Services -> Nat]
      BY <1>0, <3>1 DEF ServerType
    <3> QED
      BY <3>2, <3>3
  <2>2. CASE UNCHANGED <<mAcceptor, accepts, crashed>>
    BY <1>0, <2>2 DEF ServerType
  <2>3. CASE UNCHANGED <<mAcceptor, accepts>> /\ \E fd \in Fds : RemoteInfoFails(s, fd)
    BY <1>0, <2>3 DEF ServerType, RemoteInfoFails
  <2> QED
    BY <2>1, <2>2, <2>3, ServerMoves
<1>2. mSessions' \in [Services -> SUBSET Fds]
  BY <1>0, ServerMoves DEF CloseEnd, MgrCloseEnd, EraseSession, ServerType
<1>3. callback' \in [Services -> [Events -> Services \union {Nil}]]
  <2>1. ASSUME NEW e \in Events, SetCallback(s, e)
        PROVE  callback' \in [Services -> [Events -> Services \union {Nil}]]
    <3>1. /\ callback' = [callback EXCEPT ![at[s]] = [callback[at[s]] EXCEPT ![e] = s]]
          /\ pc[s] \in {"setConnect", "setClose", "setMsg"}
      BY <2>1 DEF SetCallback, Step, Return
    <3>2. at[s] \in Services
      BY <3>1, AtUse DEF Listening
    <3>3. /\ callback \in [Services -> [Events -> Services \union {Nil}]]
          /\ [callback[at[s]] EXCEPT ![e] = s] \in [Events -> Services \union {Nil}]
      BY <1>0, <3>2 DEF ServerType
    <3> QED
      BY <3>1, <3>2, <3>3
  <2> QED
    BY <1>0, <2>1, ServerMoves DEF ServerType
<1>4. PostedType'
  <2>1. CASE CloseBegin(s) \/ MgrClosePost(s)
    <3>1. pc[s] \in OnFd /\ Post(at[s], "close", fdOf[s])
      BY <2>1 DEF CloseBegin, MgrClosePost, Step, PostClose, OnFd
    <3>2. at[s] \in Services /\ ptr[at[s]] \in Ids /\ fdOf[s] \in Fds
      BY <3>1, AtUse
    <3> QED
      BY <1>0, <3>1, <3>2, PostFacts DEF Events
  <2> QED
    BY <1>0, <2>1, ServerMoves DEF PostedType
<1>5. autoFd' = autoFd
  BY MainStays
<1> QED
  BY <1>0, <1>1, <1>2, <1>3, <1>4, <1>5 DEF ServerType

LEMMA HandlerTypes ==
  ASSUME TypeInv, Handler \/ \E o \in Services, fd \in Fds : Arrive(o, fd)
  PROVE  Types'
<1>0. /\ MgrType /\ ServerType /\ SessionType /\ CallType /\ MainType
      /\ PostedType /\ PastType /\ crashed \in BOOLEAN
  BY DEF TypeInv, Types
<1>1. MgrType' /\ CallType'
  BY <1>0, HandlersCallNot DEF MgrType, CallType
<1>2. ASSUME NEW o \in Services, OnAcceptor(o) PROVE Types'
  <2>1. ServerType'
    BY <1>0, <1>2 DEF OnAcceptor, NextFd, ServerType
  <2>2. SessionType'
    BY <1>0, <1>2 DEF OnAcceptor, SessionType, Reads
  <2>3. MainType' /\ PostedType' /\ PastType' /\ crashed' \in BOOLEAN
    BY <1>0, <1>2 DEF OnAcceptor, MainGoto, MainType, PostedType, PastType
  <2> QED
    BY <1>1, <2>1, <2>2, <2>3 DEF Types
<1>3. ASSUME NEW o \in Services, OnAcceptorError(o) PROVE Types'
  <2>1. ServerType'
    BY <1>0, <1>3 DEF OnAcceptorError, ServerType
  <2>2. SessionType' /\ MainType' /\ PostedType' /\ PastType' /\ crashed' \in BOOLEAN
    BY <1>0, <1>3
    DEF OnAcceptorError, SessionType, MainType, PostedType, PastType
  <2> QED
    BY <1>1, <2>1, <2>2 DEF Types
<1>4. CASE OnConnect
  <2>1. /\ mainOn \in Services /\ mainFd \in Fds /\ ptr[mainOn] \in Ids
        /\ Post(mainOn, "connect", mainFd)
    BY <1>4, MainUse DEF OnConnect
  <2>2. PostedType'
    BY <1>0, <2>1, PostFacts DEF Events
  <2>3. ServerType'
    BY <1>0, <1>4, <2>1 DEF OnConnect, DoAcceptor, ServerType
  <2>4. SessionType' /\ MainType' /\ crashed' \in BOOLEAN
    BY <1>0, <1>4 DEF OnConnect, MainGoto, SessionType, MainType, Torn
  <2>5. PastType'
    <3>1. /\ UNCHANGED <<failed, refused, late, dangling>>
          /\ \/ early' = early
             \/ early' = [early EXCEPT ![mainOn] = early[mainOn] \union {mainFd}]
      BY <1>4 DEF OnConnect
    <3>2. early \in [Services -> SUBSET Fds]
      BY <1>0 DEF PastType
    <3>3. early[mainOn] \union {mainFd} \in SUBSET Fds
      BY <2>1, <3>2
    <3>4. early' \in [Services -> SUBSET Fds]
      BY <2>1, <3>1, <3>2, <3>3
    <3> QED
      BY <1>0, <3>1, <3>4 DEF PastType
  <2> QED
    BY <1>1, <2>2, <2>3, <2>4, <2>5 DEF Types
<1>5. CASE OnMsgGetServer
  <2>1. GetServer(ptr[mainOn]) \in Services \union {Nil}
    BY <1>0, GetServerType
  <2>2. MainType'
    BY <1>0, <1>5, <2>1 DEF OnMsgGetServer, MainGoto, MainType
  <2>3. /\ ServerType' /\ SessionType' /\ PostedType' /\ PastType'
        /\ crashed' \in BOOLEAN
    BY <1>0, <1>5
    DEF OnMsgGetServer, ServerType, SessionType, PostedType, PastType
  <2> QED
    BY <1>1, <2>2, <2>3 DEF Types
<1>6. CASE OnMsgPost
  <2>1. /\ mainOn \in Services /\ mainFd \in Fds
        /\ mainTo \in Services /\ ptr[mainTo] \in Ids
        /\ Post(mainTo, "msg", mainFd)
    BY <1>6, MainUse DEF OnMsgPost
  <2>2. PostedType'
    BY <1>0, <2>1, PostFacts DEF Events
  <2>3. PastType'
    <3>1. /\ UNCHANGED <<failed, refused, early, dangling>>
          /\ \/ late' = late
             \/ late' = [late EXCEPT ![mainOn] =
                           [late[mainOn] EXCEPT ![mainFd] = late[mainOn][mainFd] + 1]]
      BY <1>6 DEF OnMsgPost
    <3>2. late \in [Services -> [Fds -> Nat]]
      BY <1>0 DEF PastType
    <3>3. [late[mainOn] EXCEPT ![mainFd] = late[mainOn][mainFd] + 1] \in [Fds -> Nat]
      BY <2>1, <3>2
    <3>4. late' \in [Services -> [Fds -> Nat]]
      BY <2>1, <3>1, <3>2, <3>3
    <3> QED
      BY <1>0, <3>1, <3>4 DEF PastType
  <2>4. ServerType' /\ SessionType' /\ MainType' /\ crashed' \in BOOLEAN
    BY <1>0, <1>6 DEF OnMsgPost, MainGoto, ServerType, SessionType, MainType, Torn
  <2> QED
    BY <1>1, <2>2, <2>3, <2>4 DEF Types
<1>7. CASE OnMsgRead
  <2>1. mainOn \in Services /\ mainFd \in Fds
    BY <1>7, MainUse DEF OnMsgRead
  <2>2. SessionType'
    BY <1>0, <1>7, <2>1 DEF OnMsgRead, DoRead, SessionType, Reads
  <2>3. /\ ServerType' /\ MainType' /\ PostedType' /\ PastType'
        /\ crashed' \in BOOLEAN
    BY <1>0, <1>7 DEF OnMsgRead, MainGoto, UseSession, ServerType, MainType,
                      PostedType, PastType
  <2> QED
    BY <1>1, <2>2, <2>3 DEF Types
<1>8. ASSUME NEW o \in Services, NEW fd \in Fds,
             OnRead(o, fd) \/ OnReadEmpty(o, fd)
      PROVE  Types'
  <2>1. SessionType'
    <3>1. /\ \E r \in Reads : read' = [read EXCEPT ![o] = [read[o] EXCEPT ![fd] = r]]
          /\ chunks' = [chunks EXCEPT ![o] =
                          [chunks[o] EXCEPT ![fd] = chunks[o][fd] + 1]]
      BY <1>8 DEF OnRead, OnReadEmpty, DoRead, Reads
    <3>2. read' \in [Services -> [Fds -> Reads]]
      BY <1>0, <3>1 DEF SessionType
    <3>3. chunks \in [Services -> [Fds -> Nat]]
      BY <1>0 DEF SessionType
    <3>4. [chunks[o] EXCEPT ![fd] = chunks[o][fd] + 1] \in [Fds -> Nat]
      BY <3>3
    <3>5. chunks' \in [Services -> [Fds -> Nat]]
      BY <3>1, <3>3, <3>4
    <3> QED
      BY <3>2, <3>5 DEF SessionType
  <2>2. MainType'
    BY <1>0, <1>8 DEF OnRead, OnReadEmpty, MainGoto, MainType
  <2>3. ServerType' /\ PostedType' /\ PastType' /\ crashed' \in BOOLEAN
    BY <1>0, <1>8 DEF OnRead, OnReadEmpty, UseSession, ServerType, PostedType,
                      PastType
  <2> QED
    BY <1>1, <2>1, <2>2, <2>3 DEF Types
<1>9. ASSUME NEW o \in Services, NEW fd \in Fds, OnReadError(o, fd) PROVE Types'
  <2>1. SessionType'
    BY <1>0, <1>9 DEF OnReadError, SessionType, Reads
  <2>2. PastType'
    BY <1>0, <1>9 DEF OnReadError, PastType
  <2>3. ServerType' /\ MainType' /\ PostedType' /\ crashed' \in BOOLEAN
    BY <1>0, <1>9 DEF OnReadError, ServerType, MainType, PostedType
  <2> QED
    BY <1>1, <2>1, <2>2, <2>3 DEF Types
<1>10. ASSUME NEW o \in Services, NEW fd \in Fds, Arrive(o, fd) PROVE Types'
  <2>1. SessionType'
    <3>1. /\ \E r \in Reads : read' = [read EXCEPT ![o] = [read[o] EXCEPT ![fd] = r]]
          /\ chunks' = chunks
      BY <1>10 DEF Arrive, Reads
    <3> QED
      BY <1>0, <3>1 DEF SessionType
  <2>2. /\ ServerType' /\ MainType' /\ PostedType' /\ PastType'
        /\ crashed' \in BOOLEAN
    BY <1>0, <1>10 DEF Arrive, ServerType, MainType, PostedType, PastType
  <2> QED
    BY <1>1, <2>1, <2>2 DEF Types
<1> QED
  BY <1>2, <1>3, <1>4, <1>5, <1>6, <1>7, <1>8, <1>9, <1>10 DEF Handler

LEMMA TypesStep == ASSUME TypeInv, [Next]_vars PROVE Types'
<1>1. ASSUME NEW s \in Services, Call(s) PROVE Types'
  <2>1. UNCHANGED <<mainVars, sessionVars, autoFd, pastVars>>
    BY <1>1, MainStays
  <2>2. SessionType' /\ MainType' /\ PastType'
    BY <2>1 DEF TypeInv, Types, SessionType, MainType, PastType
  <2> QED
    BY <1>1, <2>2, CallTypes, CallMgrTypes, CallServerTypes DEF Types
<1>2. CASE UNCHANGED vars
  BY <1>2 DEF TypeInv, Types, MgrType, ServerType, SessionType, CallType,
              MainType, PostedType, PastType
<1> QED
  BY <1>1, <1>2, HandlerTypes DEF Next

LEMMA TypeInvHolds == Spec => []TypeInv
<1>1. TypeInv /\ [Next]_vars => TypeInv'
  BY TypesStep, IdStep, DrawnStep, MapStep, AtStep, CallbackAtStep, MainStep,
     UnmadeStep DEF TypeInv, PointerInv
<1> QED
  BY <1>1, TypeInit, PTL DEF Spec

-----------------------------------------------------------------------------
(* What is read, and what is known of a connection before there is one.     *)

Fresh(o, fd) == /\ read[o][fd] = "none" /\ fd \notin mSessions[o]
                /\ late[o][fd] = 0 /\ fd \notin early[o]

FreshInv == /\ \A o \in Services, fd \in Fds : fd >= autoFd[o] => Fresh(o, fd)
            /\ mainPc # "poll" => mainFd < autoFd[mainOn]

HandlerInv ==
  /\ mainPc = "connect" => read[mainOn][mainFd] # "none"
  /\ mainPc \in Reading => read[mainOn][mainFd] = "none"

ReadInv == FreshInv /\ HandlerInv /\ KeepsReading

(* A table of tables with one entry changed.                                *)
LEMMA Entry ==
  ASSUME NEW D, NEW E, NEW R, NEW f \in [D -> [E -> R]],
         NEW o \in D, NEW x \in E, NEW v
  PROVE  \A p \in D, y \in E :
           [f EXCEPT ![o][x] = v][p][y] = IF p = o /\ y = x THEN v ELSE f[p][y]
OBVIOUS

(* The connections of a server go when they are closed, and only then.      *)
LEMMA SessionsOfCall ==
  ASSUME TypeInv, NEW s \in Services, Call(s)
  PROVE  \/ mSessions' = mSessions
         \/ /\ CloseEnd(s) \/ MgrCloseEnd(s)
            /\ pc[s] \in {"erase", "failErase"} /\ at[s] \in Services
            /\ mSessions' = [mSessions EXCEPT ![at[s]] = mSessions[at[s]] \ {fdOf[s]}]
<1>1. CASE CloseEnd(s) \/ MgrCloseEnd(s)
  <2>1. /\ pc[s] \in {"erase", "failErase"}
        /\ mSessions' = [mSessions EXCEPT ![at[s]] = mSessions[at[s]] \ {fdOf[s]}]
    BY <1>1 DEF CloseEnd, MgrCloseEnd, Return, EraseSession
  <2> QED
    BY <1>1, <2>1, AtUse DEF OnFd
<1> QED
  BY <1>1, ServerMoves

LEMMA SessionsShrink ==
  ASSUME TypeInv, NEW s \in Services, Call(s)
  PROVE  \A o \in Services : mSessions'[o] \subseteq mSessions[o]
<1>1. mSessions \in [Services -> SUBSET Fds]
  BY DEF TypeInv, Types, ServerType
<1> QED
  BY <1>1, SessionsOfCall

(* How the read of a connection moves.                                      *)
LEMMA ReadMoves ==
  ASSUME TypeInv, [Next]_vars, NEW o \in Services, NEW fd \in Fds
  PROVE  \/ read'[o][fd] = read[o][fd]
         \/ OnAcceptor(o) /\ fd = autoFd[o] /\ read'[o][fd] = "waiting"
         \/ OnRead(o, fd) /\ read[o][fd] = "data" /\ read'[o][fd] = "none"
         \/ OnReadEmpty(o, fd) /\ read[o][fd] = "data" /\ read'[o][fd] = "waiting"
         \/ OnReadError(o, fd) /\ read[o][fd] = "error" /\ read'[o][fd] = "none"
         \/ /\ OnMsgRead /\ mainPc = "read" /\ mainOn = o /\ mainFd = fd
            /\ read'[o][fd] = "waiting"
         \/ /\ Arrive(o, fd) /\ read[o][fd] = "waiting"
            /\ read'[o][fd] = "error" \/ (read'[o][fd] = "data" /\ InUse(o, fd))
<1>0. read \in [Services -> [Fds -> Reads]]
  BY DEF TypeInv, Types, SessionType
<1>r. {"none", "waiting", "data", "error"} = Reads
  BY DEF Reads
<1>e. ASSUME NEW p \in Services, NEW x \in Fds, NEW v \in Reads,
             read' = [read EXCEPT ![p][x] = v]
      PROVE  read'[o][fd] = read[o][fd] \/ (p = o /\ x = fd /\ read'[o][fd] = v)
  <2> DEFINE row == [read[p] EXCEPT ![x] = v]
  <2>1. row[x] = v /\ \A y \in Fds : y # x => row[y] = read[p][y]
    BY <1>0
  <2>2. read' = [read EXCEPT ![p] = row]
    BY <1>e
  <2> HIDE DEF row
  <2>3. read'[o] = IF p = o THEN row ELSE read[o]
    BY <1>0, <2>2
  <2> QED
    BY <2>1, <2>3
<1>1. ASSUME NEW s \in Services, Call(s) PROVE read' = read
  BY <1>1, MainStays
<1>2. CASE OnConnect \/ OnMsgGetServer \/ OnMsgPost \/ UNCHANGED vars
           \/ \E p \in Services : OnAcceptorError(p)
  BY <1>2 DEF OnConnect, OnMsgGetServer, OnMsgPost, OnAcceptorError
<1>3. ASSUME NEW p \in Services, OnAcceptor(p)
      PROVE  read'[o][fd] = read[o][fd]
             \/ (p = o /\ fd = autoFd[o] /\ read'[o][fd] = "waiting")
  <2>1. read' = [read EXCEPT ![p][autoFd[p]] = "waiting"] /\ autoFd[p] \in Fds
    BY <1>3 DEF OnAcceptor
  <2>2. "waiting" \in Reads
    BY DEF Reads
  <2>3. \/ read'[o][fd] = read[o][fd]
        \/ (p = o /\ autoFd[p] = fd /\ read'[o][fd] = "waiting")
    BY <2>1, <2>2, <1>e
  <2> QED
    BY <2>3
<1>4. CASE OnMsgRead
  <2>1. /\ read' = [read EXCEPT ![mainOn][mainFd] = "waiting"] /\ mainPc = "read"
        /\ mainOn \in Services /\ mainFd \in Fds
    BY <1>4, MainUse DEF OnMsgRead, DoRead
  <2> QED
    BY <1>4, <2>1, <1>e
<1>5. ASSUME NEW p \in Services, NEW x \in Fds, OnRead(p, x)
      PROVE  read'[o][fd] = read[o][fd]
             \/ (p = o /\ x = fd /\ read[o][fd] = "data" /\ read'[o][fd] = "none")
  <2>1. read' = [read EXCEPT ![p][x] = "none"] /\ read[p][x] = "data"
    BY <1>5 DEF OnRead
  <2> QED
    BY <1>r, <2>1, <1>e, Zenon
<1>6. ASSUME NEW p \in Services, NEW x \in Fds, OnReadEmpty(p, x)
      PROVE  read'[o][fd] = read[o][fd]
             \/ (p = o /\ x = fd /\ read[o][fd] = "data" /\ read'[o][fd] = "waiting")
  <2>1. read' = [read EXCEPT ![p][x] = "waiting"] /\ read[p][x] = "data"
    BY <1>6 DEF OnReadEmpty, DoRead
  <2> QED
    BY <1>r, <2>1, <1>e, Zenon
<1>7. ASSUME NEW p \in Services, NEW x \in Fds, OnReadError(p, x)
      PROVE  read'[o][fd] = read[o][fd]
             \/ (p = o /\ x = fd /\ read[o][fd] = "error" /\ read'[o][fd] = "none")
  <2>1. read' = [read EXCEPT ![p][x] = "none"] /\ read[p][x] = "error"
    BY <1>7 DEF OnReadError
  <2> QED
    BY <1>r, <2>1, <1>e, Zenon
<1>8. ASSUME NEW p \in Services, NEW x \in Fds, Arrive(p, x)
      PROVE  read'[o][fd] = read[o][fd]
             \/ (/\ p = o /\ x = fd /\ read[o][fd] = "waiting"
                 /\ read'[o][fd] = "error" \/ (read'[o][fd] = "data" /\ InUse(o, fd)))
  <2>1. CASE read' = [read EXCEPT ![p][x] = "error"]
    BY <1>8, <1>r, <2>1, <1>e DEF Arrive
  <2>2. CASE read' = [read EXCEPT ![p][x] = "data"] /\ InUse(p, x)
    BY <1>8, <1>r, <2>2, <1>e DEF Arrive
  <2> QED
    BY <1>8, <2>1, <2>2 DEF Arrive
<1> QED
  BY <1>1, <1>2, <1>3, <1>4, <1>5, <1>6, <1>7, <1>8 DEF Next, Handler

(* How the maps, the names and the histories of a server move.              *)
LEMMA ServerRecordMoves ==
  ASSUME TypeInv, [Next]_vars, NEW o \in Services
  PROVE  /\ \/ autoFd'[o] = autoFd[o]
            \/ OnAcceptor(o) /\ autoFd[o] \in Fds /\ autoFd'[o] = autoFd[o] + 1
         /\ \/ mSessions'[o] \subseteq mSessions[o]
            \/ OnAcceptor(o) /\ mSessions'[o] = mSessions[o] \union {autoFd[o]}
         /\ \/ early'[o] = early[o]
            \/ /\ OnConnect /\ mainOn = o /\ callback[o]["connect"] = Nil
               /\ early'[o] = early[o] \union {mainFd}
         /\ \A fd \in Fds :
              \/ late'[o][fd] = late[o][fd]
              \/ /\ OnMsgPost /\ mainOn = o /\ mainFd = fd /\ fd \notin mSessions[o]
                 /\ late'[o][fd] = late[o][fd] + 1
<1>0. /\ late \in [Services -> [Fds -> Nat]] /\ early \in [Services -> SUBSET Fds]
      /\ autoFd \in [Services -> Nat] /\ mSessions \in [Services -> SUBSET Fds]
  BY DEF TypeInv, Types, PastType, ServerType
<1>1. ASSUME NEW s \in Services, Call(s)
      PROVE  /\ UNCHANGED <<autoFd, early, late>>
             /\ mSessions'[o] \subseteq mSessions[o]
  BY <1>1, MainStays, SessionsShrink
<1>2. CASE UNCHANGED <<autoFd, early, late, mSessions>>
  BY <1>2
<1>3. CASE OnConnect
  <2>1. /\ UNCHANGED <<autoFd, late, mSessions>>
        /\ \/ early' = early
           \/ /\ callback[mainOn]["connect"] = Nil
              /\ early' = [early EXCEPT ![mainOn] = early[mainOn] \union {mainFd}]
    BY <1>3 DEF OnConnect
  <2> QED
    BY <1>0, <1>3, <2>1
<1>4. CASE OnMsgPost
  <2>1. /\ UNCHANGED <<autoFd, early, mSessions>>
        /\ \/ late' = late
           \/ /\ mainFd \notin mSessions[mainOn]
              /\ late' = [late EXCEPT ![mainOn][mainFd] = late[mainOn][mainFd] + 1]
        /\ mainOn \in Services /\ mainFd \in Fds
    BY <1>4, MainUse DEF OnMsgPost
  <2>2. CASE late' # late
    <3>1. \A p \in Services, y \in Fds :
            late'[p][y] = IF p = mainOn /\ y = mainFd THEN late[mainOn][mainFd] + 1
                          ELSE late[p][y]
      BY <1>0, <2>1, <2>2, Entry
    <3>2. \A y \in Fds :
              \/ late'[o][y] = late[o][y]
              \/ /\ mainOn = o /\ mainFd = y /\ y \notin mSessions[o]
                 /\ late'[o][y] = late[o][y] + 1
      BY <2>1, <2>2, <3>1
    <3> QED
      BY <1>4, <2>1, <3>2
  <2> QED
    BY <2>1, <2>2
<1>5. ASSUME NEW p \in Services, OnAcceptor(p)
      PROVE  /\ UNCHANGED <<early, late>>
             /\ p # o => autoFd'[o] = autoFd[o] /\ mSessions'[o] = mSessions[o]
             /\ p = o => /\ autoFd[o] \in Fds /\ autoFd'[o] = autoFd[o] + 1
                         /\ mSessions'[o] = mSessions[o] \union {autoFd[o]}
  BY <1>0, <1>5 DEF OnAcceptor, NextFd
<1>6. CASE OnMsgRead \/ OnMsgGetServer \/ UNCHANGED vars
           \/ \E p \in Services : OnAcceptorError(p)
           \/ \E q \in Services, x \in Fds :
                OnReadError(q, x) \/ OnRead(q, x) \/ OnReadEmpty(q, x) \/ Arrive(q, x)
  BY <1>6, <1>2 DEF OnMsgRead, OnMsgGetServer, OnAcceptorError, OnReadError, OnRead,
                    OnReadEmpty, Arrive
<1> QED
  BY <1>1, <1>3, <1>4, <1>5, <1>6 DEF Next, Handler

(* How main moves from one part of a handler to the next.                   *)
LEMMA MainMoves ==
  ASSUME TypeInv, [Next]_vars
  PROVE  \/ UNCHANGED mainVars
         \/ mainPc' = "poll"
         \/ /\ mainPc = "poll" /\ mainPc' = "connect"
            /\ mainOn' \in Services /\ OnAcceptor(mainOn') /\ mainFd' = autoFd[mainOn']
         \/ /\ mainPc = "poll" /\ mainPc' = "getServer"
            /\ mainOn' \in Services /\ mainFd' \in Fds /\ OnRead(mainOn', mainFd')
         \/ /\ mainPc \in {"getServer", "post"} /\ mainPc' \in {"post", "read"}
            /\ UNCHANGED <<mainOn, mainFd>>
<1>1. ASSUME NEW s \in Services, Call(s) PROVE UNCHANGED mainVars
  BY <1>1, MainStays
<1>2. ASSUME NEW o \in Services, OnAcceptor(o)
      PROVE  /\ mainPc = "poll" /\ mainPc' = "connect" /\ mainOn' = o
             /\ mainFd' = autoFd[o]
  BY <1>2 DEF OnAcceptor, MainGoto
<1>3. ASSUME NEW o \in Services, NEW fd \in Fds, OnRead(o, fd)
      PROVE  /\ mainPc = "poll" /\ mainPc' = "getServer" /\ mainOn' = o
             /\ mainFd' = fd
  BY <1>3 DEF OnRead, MainGoto
<1>4. CASE OnConnect \/ OnMsgGetServer \/ OnMsgPost \/ OnMsgRead
  BY <1>4 DEF OnConnect, OnMsgGetServer, OnMsgPost, OnMsgRead, MainGoto
<1>5. ASSUME NEW o \in Services, OnAcceptorError(o) PROVE UNCHANGED mainVars
  BY <1>5 DEF OnAcceptorError
<1>6. ASSUME NEW o \in Services, NEW fd \in Fds,
             \/ OnReadError(o, fd) \/ OnReadEmpty(o, fd) \/ Arrive(o, fd)
      PROVE  UNCHANGED mainVars
  BY <1>6 DEF OnReadError, OnReadEmpty, Arrive
<1> QED
  BY <1>1, <1>2, <1>3, <1>4, <1>5, <1>6 DEF Next, Handler

LEMMA FreshStep == ASSUME TypeInv, FreshInv, [Next]_vars PROVE FreshInv'
<1>0. /\ autoFd \in [Services -> Nat] /\ mSessions \in [Services -> SUBSET Fds]
      /\ Fds \subseteq Nat
      /\ mainPc # "poll" => mainOn \in Services /\ mainFd \in Fds
  BY MainUse, IdsFacts DEF TypeInv, Types, ServerType
<1>1. ASSUME NEW o \in Services PROVE autoFd'[o] >= autoFd[o] /\ autoFd'[o] \in Nat
  BY <1>0, <1>1, ServerRecordMoves
<1>2. ASSUME NEW o \in Services, NEW fd \in Fds, fd >= autoFd'[o]
      PROVE  Fresh(o, fd)'
  <2>1. fd >= autoFd[o] /\ Fresh(o, fd)
    BY <1>0, <1>1, <1>2 DEF FreshInv
  <2>2. ~(mainPc # "poll" /\ mainOn = o /\ mainFd = fd)
    BY <1>0, <2>1 DEF FreshInv
  <2>3. ~OnAcceptor(o) \/ fd # autoFd[o]
    BY <1>0, <1>2 DEF OnAcceptor, NextFd
  <2>4. read'[o][fd] = "none"
    BY <2>1, <2>2, <2>3, ReadMoves DEF Fresh
  <2>5. fd \notin mSessions'[o]
    BY <2>1, <2>3, ServerRecordMoves DEF Fresh
  <2>6. late'[o][fd] = 0
    BY <2>1, <2>2, ServerRecordMoves DEF Fresh, OnMsgPost
  <2>7. fd \notin early'[o]
    <3>1. \/ early'[o] = early[o]
          \/ (/\ mainPc = "connect" /\ mainOn = o
              /\ early'[o] = early[o] \union {mainFd})
      BY ServerRecordMoves DEF OnConnect
    <3> QED
      BY <2>1, <2>2, <3>1 DEF Fresh
  <2> QED
    BY <2>4, <2>5, <2>6, <2>7 DEF Fresh
<1>3. mainPc' # "poll" => mainFd' < autoFd'[mainOn']
  <2>1. CASE mainPc # "poll" /\ UNCHANGED <<mainOn, mainFd>>
    <3>1. mainFd < autoFd[mainOn] /\ mainOn \in Services /\ mainFd \in Nat
      BY <1>0, <2>1 DEF FreshInv
    <3> QED
      BY <1>0, <1>1, <2>1, <3>1
  <2>2. ASSUME NEW o \in Services, OnAcceptor(o), mainOn' = o, mainFd' = autoFd[o]
        PROVE  mainFd' < autoFd'[mainOn']
    BY <1>0, <2>2 DEF OnAcceptor, NextFd
  <2>3. ASSUME NEW o \in Services, NEW fd \in Fds, OnRead(o, fd), mainOn' = o, mainFd' = fd
        PROVE  mainFd' < autoFd'[mainOn']
    <3>1. read[o][fd] = "data"
      BY <2>3 DEF OnRead
    <3>2. fd < autoFd[o]
      BY <1>0, <3>1 DEF FreshInv, Fresh
    <3> QED
      BY <1>0, <1>1, <2>3, <3>2
  <2> QED
    BY <2>1, <2>2, <2>3, MainMoves
<1> QED
  BY <1>2, <1>3 DEF FreshInv

LEMMA HandlerStep == ASSUME TypeInv, HandlerInv, [Next]_vars PROVE HandlerInv'
<1>0. mainPc # "poll" => mainOn \in Services /\ mainFd \in Fds
  BY MainUse
<1>1. CASE mainPc # "poll" /\ UNCHANGED <<mainOn, mainFd>>
  <2> DEFINE o == mainOn
             fd == mainFd
  <2>1. o \in Services /\ fd \in Fds
    BY <1>0, <1>1
  <2>2. \/ read'[o][fd] = read[o][fd]
        \/ OnMsgRead
        \/ (read[o][fd] = "waiting" /\ read'[o][fd] # "none")
    BY <1>1, <2>1, ReadMoves DEF OnAcceptor, OnRead, OnReadEmpty, OnReadError
  <2>3. OnMsgRead => mainPc' = "poll"
    BY DEF OnMsgRead, MainGoto
  <2>4. mainPc' = "connect" => mainPc = "connect"
    BY <1>1, MainMoves
  <2>5. mainPc' \in Reading => mainPc \in Reading
    BY <1>1, MainMoves DEF Reading
  <2>6. o = mainOn' /\ fd = mainFd'
    BY <1>1
  <2> QED
    BY <2>2, <2>3, <2>4, <2>5, <2>6 DEF HandlerInv, Reading
<1>2. ASSUME NEW o \in Services, OnAcceptor(o), mainOn' = o, mainFd' = autoFd[o],
             mainPc' = "connect"
      PROVE  HandlerInv'
  <2>1. autoFd[o] \in Fds /\ read' = [read EXCEPT ![o][autoFd[o]] = "waiting"]
        /\ read \in [Services -> [Fds -> Reads]]
    BY <1>2 DEF OnAcceptor, TypeInv, Types, SessionType
  <2>2. read'[o][autoFd[o]] = "waiting"
    BY <2>1
  <2> QED
    BY <1>2, <2>2 DEF HandlerInv, Reading
<1>3. ASSUME NEW o \in Services, NEW fd \in Fds, OnRead(o, fd), mainOn' = o,
             mainFd' = fd, mainPc' = "getServer"
      PROVE  HandlerInv'
  <2>1. read' = [read EXCEPT ![o][fd] = "none"] /\ read \in [Services -> [Fds -> Reads]]
    BY <1>3 DEF OnRead, TypeInv, Types, SessionType
  <2>2. read'[o][fd] = "none"
    BY <2>1
  <2> QED
    BY <1>3, <2>2 DEF HandlerInv, Reading
<1>4. CASE mainPc' = "poll"
  BY <1>4 DEF HandlerInv, Reading
<1> QED
  BY <1>1, <1>2, <1>3, <1>4, MainMoves

LEMMA MapMoves ==
  ASSUME TypeInv, [Next]_vars, NEW o \in Services, Made(o), ptr[o] # 0,
         GetServer(ptr[o])' = o
  PROVE  GetServer(ptr[o]) = o
<1>1. /\ ptr[o] \in Ids /\ ptr'[o] = ptr[o]
      /\ mServers \in [Ids -> Services \union {Nil}]
  BY Keeps DEF TypeInv, Types, MgrType
<1>2. mServers'[ptr[o]] = o
  BY <1>1 DEF GetServer
<1>3. CASE mServers' = mServers
  BY <1>1, <1>2, <1>3 DEF GetServer
<1>4. ASSUME NEW s \in Services, InsertServer(s) PROVE mServers[ptr[o]] = o
  <2>1. /\ s # o
        /\ mServers' = mServers \/ mServers' = [mServers EXCEPT ![ptr[s]] = s]
    BY <1>4 DEF InsertServer, Return, Made
  <2> QED
    BY <1>1, <1>2, <2>1
<1>5. ASSUME NEW s \in Services, DestroyServer(s) PROVE mServers[ptr[o]] = o
  <2>1. mServers' = [mServers EXCEPT ![ptr[s]] = Nil]
    BY <1>5 DEF DestroyServer
  <2> QED
    BY <1>1, <1>2, <2>1
<1>6. \/ mServers' = mServers
      \/ \E s \in Services : InsertServer(s) \/ DestroyServer(s)
  <2>1. ASSUME NEW s \in Services, Call(s)
        PROVE  mServers' = mServers \/ InsertServer(s) \/ DestroyServer(s)
    BY <2>1 DEF Call, NewServer, BumpId, Listen, Bind, SetCallback, Close, Send,
                RemoteInfoFails, CloseBegin, CloseEnd, WriteOk, WriteFails,
                MgrClose, MgrClosePost, MgrCloseEnd
  <2>2. CASE Handler \/ \E p \in Services, fd \in Fds : Arrive(p, fd)
    BY <2>2, HandlersCallNot
  <2> QED
    BY <2>1, <2>2 DEF Next
<1> QED
  BY <1>1, <1>3, <1>4, <1>5, <1>6 DEF GetServer

LEMMA FailedGrows ==
  ASSUME TypeInv, [Next]_vars, NEW o \in Services
  PROVE  failed[o] \subseteq failed'[o]
<1>1. failed \in [Services -> SUBSET Fds]
  BY DEF TypeInv, Types, PastType
<1>2. ASSUME NEW s \in Services, Call(s) PROVE failed' = failed
  BY <1>2, MainStays
<1>3. ASSUME NEW p \in Services, NEW fd \in Fds, OnReadError(p, fd)
      PROVE  failed[o] \subseteq failed'[o]
  BY <1>1, <1>3 DEF OnReadError
<1>4. CASE /\ Handler \/ \E p \in Services, fd \in Fds : Arrive(p, fd)
           /\ ~\E p \in Services, fd \in Fds : OnReadError(p, fd)
  BY <1>4 DEF Handler, Arrive, OnConnect, OnMsgGetServer, OnMsgPost, OnMsgRead,
              OnAcceptor, OnAcceptorError, OnRead, OnReadEmpty
<1> QED
  BY <1>2, <1>3, <1>4 DEF Next

(* Each way out of a handler of a registered server starts the next read.   *)
LEMMA KeepsReadingStep ==
  ASSUME TypeInv, HandlerInv, KeepsReading, [Next]_vars
  PROVE  KeepsReading'
<1> SUFFICES ASSUME NEW o \in Services, NEW fd \in mSessions'[o] \ failed'[o],
                    ~crashed', ptr'[o] # 0, GetServer(ptr[o])' = o,
                    read'[o][fd] = "none"
             PROVE  mainOn' = o /\ mainFd' = fd
  BY DEF KeepsReading
<1>0. /\ fd \in Fds /\ ~crashed
      /\ read \in [Services -> [Fds -> Reads]]
  BY TypesStep DEF Types, ServerType, Next, TypeInv, SessionType
<1>1. fd \in mSessions[o]
  <2>1. CASE OnAcceptor(o) /\ fd = autoFd[o]
    <3>1. read' = [read EXCEPT ![o][fd] = "waiting"]
      BY <2>1 DEF OnAcceptor
    <3>2. read'[o][fd] = "waiting"
      BY <1>0, <3>1
    <3> QED
      BY <3>2
  <2> QED
    BY <2>1, ServerRecordMoves
<1>2. Made(o) /\ ptr[o] # 0 /\ ptr'[o] = ptr[o]
  BY <1>1, Keeps DEF TypeInv, PointerInv, UnmadeInv, DrawnInv, Made
<1>3. GetServer(ptr[o]) = o
  BY <1>2, MapMoves
<1>4. fd \notin failed[o]
  BY FailedGrows
<1>5. CASE read[o][fd] # "none"
  <2>1. OnRead(o, fd) \/ OnReadError(o, fd)
    BY <1>0, <1>5, ReadMoves
  <2>2. CASE OnRead(o, fd)
    BY <2>2 DEF OnRead, MainGoto
  <2>3. CASE OnReadError(o, fd)
    <3>1. fd \in failed'[o]
      BY <1>0, <2>3 DEF OnReadError, TypeInv, Types, PastType
    <3> QED
      BY <3>1
  <2> QED
    BY <2>1, <2>2, <2>3
<1>6. CASE read[o][fd] = "none"
  <2>1. mainOn = o /\ mainFd = fd /\ mainPc # "poll"
    BY <1>0, <1>1, <1>2, <1>3, <1>4, <1>6
    DEF KeepsReading, TypeInv, PointerInv, MainInv
  <2>2. mainPc # "connect"
    BY <1>6, <2>1 DEF HandlerInv
  <2>3. ~OnMsgRead
    BY <1>0, <2>1, Entry DEF OnMsgRead, DoRead
  <2>4. CASE OnMsgGetServer \/ OnMsgPost
    BY <1>3, <2>1, <2>4 DEF OnMsgGetServer, OnMsgPost, MainGoto
  <2>5. ASSUME NEW s \in Services, Call(s) PROVE UNCHANGED mainVars
    BY <2>5, MainStays
  <2>6. ASSUME NEW p \in Services, NEW x \in Fds, Arrive(p, x) PROVE UNCHANGED mainVars
    BY <2>6 DEF Arrive
  <2> QED
    BY <2>1, <2>2, <2>3, <2>4, <2>5, <2>6
    DEF Next, Handler, OnConnect, OnAcceptor, OnAcceptorError, OnReadError, OnRead,
        OnReadEmpty
<1> QED
  BY <1>5, <1>6

LEMMA ReadInvStep == ASSUME TypeInv, ReadInv, [Next]_vars PROVE ReadInv'
BY FreshStep, HandlerStep, KeepsReadingStep DEF ReadInv

-----------------------------------------------------------------------------
(* When no two calls of newTcpServer drew one id, what a service holds is   *)
(* its own server.                                                          *)

LEMMA DistinctBefore == ASSUME TypeInv, [Next]_vars, Distinct' PROVE Distinct
BY Keeps DEF Distinct

LEMMA OwnServer ==
  ASSUME TypeInv, Distinct
  PROVE  /\ \A s \in Services : at[s] # Nil => at[s] = s
         /\ \A s \in Services : pc[s] \in Listening \union OnFd => at[s] = s
         /\ \A o \in Services, e \in Events : callback[o][e] \in {Nil, o}
         /\ mainPc \in {"post", "read"} => mainTo = mainOn
         /\ \A s \in Services : GetServer(ptr[s]) \in {Nil, s}
<1>0. /\ \A s \in Services : Made(s) => ptr[s] # 0
      /\ \A s \in Services : at[s] \in Services \union {Nil}
      /\ \A o \in Services, e \in Events : callback[o][e] \in Services \union {Nil}
      /\ mainOn \in Services \union {Nil} /\ mainTo \in Services \union {Nil}
  BY DEF TypeInv, Types, CallType, ServerType, MainType, PointerInv, DrawnInv, Made
<1>d. \A s, t \in Services : ptr[s] = ptr[t] /\ ptr[s] # 0 => s = t
  BY DEF Distinct
<1>1. ASSUME NEW s \in Services, at[s] # Nil PROVE at[s] = s
  BY <1>0, <1>1, <1>d DEF TypeInv, PointerInv, AtInv
<1>2. ASSUME NEW s \in Services, pc[s] \in Listening \union OnFd PROVE at[s] = s
  BY <1>1, <1>2 DEF TypeInv, PointerInv, AtInv
<1>3. ASSUME NEW o \in Services, NEW e \in Events PROVE callback[o][e] \in {Nil, o}
  <2>1. callback[o][e] # Nil => Made(o) /\ ptr[callback[o][e]] = ptr[o]
    BY DEF TypeInv, PointerInv, CallbackAtInv
  <2> QED
    BY <1>0, <1>d, <2>1
<1>4. mainPc \in {"post", "read"} => mainTo = mainOn
  BY <1>0, <1>d DEF TypeInv, PointerInv, MainInv
<1>5. ASSUME NEW s \in Services PROVE GetServer(ptr[s]) \in {Nil, s}
  <2>1. CASE GetServer(ptr[s]) # Nil
    <3>1. /\ GetServer(ptr[s]) \in Services /\ Made(GetServer(ptr[s]))
          /\ ptr[GetServer(ptr[s])] = ptr[s]
      BY <2>1, FoundHasId
    <3> QED
      BY <1>0, <1>d, <3>1
  <2> QED
    BY <2>1
<1> QED
  BY <1>1, <1>2, <1>3, <1>4, <1>5

-----------------------------------------------------------------------------
(* One accept of a server that listens.  That it is one needs that nobody   *)
(* binds a server that has an acceptor, and that a failed accept was one.   *)

Handling(o) == IF mainPc = "connect" /\ mainOn = o THEN 1 ELSE 0

AcceptOk(o) ==
  /\ accepts[o] + Handling(o) = IF mAcceptor[o] /\ o \notin refused THEN 1 ELSE 0
  /\ pc[o] = "bind" => ~mAcceptor[o]
  /\ o \in refused => mAcceptor[o]

AcceptInv == Distinct /\ ~crashed => \A o \in Services : AcceptOk(o)

(* What a call, or a handler but those of the acceptor, does about accepts. *)
LEMMA AcceptKept ==
  ASSUME NEW o \in Services, AcceptOk(o), Handling(o)' = Handling(o),
         accepts'[o] = accepts[o], mAcceptor'[o] = mAcceptor[o],
         refused' = refused, pc'[o] = "bind" => pc[o] = "bind" \/ ~mAcceptor[o]
  PROVE  AcceptOk(o)'
BY DEF AcceptOk

LEMMA BindMoves ==
  ASSUME TypeInv, NEW s \in Services, Call(s)
  PROVE  pc'[s] = "bind" => Listen(s) \/ pc'[s] = pc[s]
<1>1. pc \in [Services -> Calls]
  BY DEF TypeInv, Types, CallType
<1> QED
  BY <1>1 DEF Call, NewServer, BumpId, InsertServer, Bind, SetCallback,
      DestroyServer, Close, Send, RemoteInfoFails, CloseBegin, CloseEnd, WriteOk,
      WriteFails, MgrClose, MgrClosePost, MgrCloseEnd, Goto, Step, Return, Begin

LEMMA AcceptCall ==
  ASSUME TypeInv, Distinct, ~crashed', NEW s \in Services, Call(s),
         NEW o \in Services, AcceptOk(o)
  PROVE  AcceptOk(o)'
<1>0. /\ Handling(o)' = Handling(o) /\ refused' = refused
      /\ o # s => pc'[o] = pc[o]
      /\ accepts \in [Services -> Nat] /\ mAcceptor \in [Services -> BOOLEAN]
  BY MainStays, OneMoves DEF Handling, TypeInv, Types, ServerType
<1>1. CASE Bind(s)
  <2>1. /\ pc[s] = "bind" /\ at[s] = s
        /\ mAcceptor' = [mAcceptor EXCEPT ![s] = TRUE]
        /\ accepts' = [accepts EXCEPT ![s] = accepts[s] + 1]
    BY <1>1, OwnServer DEF Bind, Step, Listening
  <2>2. CASE o # s
    BY <1>0, <2>1, <2>2, AcceptKept
  <2>3. CASE o = s
    <3>1. ~mAcceptor[o] /\ o \notin refused /\ accepts[o] + Handling(o) = 0
      BY <2>1, <2>3 DEF AcceptOk
    <3>2. accepts[o] \in Nat /\ Handling(o) \in Nat
      BY <1>0 DEF Handling
    <3>3. mAcceptor'[o] /\ accepts'[o] = accepts[o] + 1
      BY <1>0, <2>1, <2>3
    <3>4. pc'[o] = "setConnect"
      BY <1>1, <2>3, StepFacts DEF Bind, TypeInv, Types, Calls
    <3> HIDE DEF Handling
    <3> QED
      BY <1>0, <3>1, <3>2, <3>3, <3>4 DEF AcceptOk
  <2> QED
    BY <2>2, <2>3
<1>2. CASE UNCHANGED <<mAcceptor, accepts>>
  <2>1. Listen(s) => ~mAcceptor[s]
    <3>1. GetServer(ptr[s]) \in {Nil, s}
      BY OwnServer
    <3> QED
      BY <3>1 DEF Listen
  <2>2. pc'[o] = "bind" => pc[o] = "bind" \/ ~mAcceptor[o]
    BY <1>0, <2>1, BindMoves
  <2> QED
    BY <1>0, <1>2, <2>2, AcceptKept
<1> QED
  BY <1>1, <1>2, ServerMoves

LEMMA AcceptStep == ASSUME TypeInv, AcceptInv, [Next]_vars PROVE AcceptInv'
<1> SUFFICES ASSUME Distinct', ~crashed', NEW o \in Services PROVE AcceptOk(o)'
  BY DEF AcceptInv
<1>0. /\ Distinct /\ ~crashed /\ \A p \in Services : AcceptOk(p)
      /\ accepts \in [Services -> Nat] /\ mAcceptor \in [Services -> BOOLEAN]
      /\ refused \subseteq Services
  BY DistinctBefore DEF AcceptInv, Next, TypeInv, Types, ServerType, PastType
<1>1. ASSUME NEW s \in Services, Call(s) PROVE AcceptOk(o)'
  BY <1>0, <1>1, AcceptCall
<1>2. ASSUME NEW p \in Services, OnAcceptor(p) PROVE AcceptOk(o)'
  <2>1. /\ mainPc = "poll" /\ accepts[p] > 0 /\ mainPc' = "connect" /\ mainOn' = p
        /\ accepts' = [accepts EXCEPT ![p] = accepts[p] - 1]
        /\ UNCHANGED <<mAcceptor, refused, pc>>
    BY <1>2 DEF OnAcceptor, MainGoto
  <2> QED
    BY <1>0, <2>1 DEF AcceptOk, Handling
<1>3. ASSUME NEW p \in Services, OnAcceptorError(p) PROVE AcceptOk(o)'
  <2>1. /\ mainPc = "poll" /\ accepts[p] > 0 /\ mainPc' = mainPc
        /\ accepts' = [accepts EXCEPT ![p] = accepts[p] - 1]
        /\ refused' = refused \union {p}
        /\ UNCHANGED <<mAcceptor, pc>>
    BY <1>3 DEF OnAcceptorError
  <2> QED
    BY <1>0, <2>1 DEF AcceptOk, Handling
<1>4. CASE OnConnect
  <2>1. /\ mainPc = "connect" /\ mainPc' = "poll" /\ mainOn \in Services
        /\ accepts' = [accepts EXCEPT ![mainOn] = accepts[mainOn] + 1]
        /\ UNCHANGED <<mAcceptor, refused, pc>>
    BY <1>4, MainUse DEF OnConnect, MainGoto, DoAcceptor
  <2> QED
    BY <1>0, <2>1 DEF AcceptOk, Handling
<1>5. CASE OnMsgGetServer \/ OnMsgPost \/ OnMsgRead \/ UNCHANGED vars
  BY <1>0, <1>5, AcceptKept
  DEF OnMsgGetServer, OnMsgPost, OnMsgRead, MainGoto, Handling
<1>6. ASSUME NEW p \in Services, NEW x \in Fds,
             OnReadError(p, x) \/ OnRead(p, x) \/ OnReadEmpty(p, x) \/ Arrive(p, x)
      PROVE  AcceptOk(o)'
  BY <1>0, <1>6, AcceptKept
  DEF OnReadError, OnRead, OnReadEmpty, Arrive, MainGoto, Handling
<1> QED
  BY <1>1, <1>2, <1>3, <1>4, <1>5, <1>6 DEF Next, Handler

-----------------------------------------------------------------------------
(* KeepsGoing: types, reads and accepts together.                           *)

KeepsInv == TypeInv /\ ReadInv /\ AcceptInv

LEMMA KeepsInit == Init => KeepsInv
<1> SUFFICES ASSUME Init PROVE KeepsInv
  OBVIOUS
<1>1. ReadInv
  BY DEF Init, ReadInv, FreshInv, Fresh, HandlerInv, KeepsReading, Reading
<1>2. AcceptInv
  BY DEF Init, AcceptInv, AcceptOk, Handling
<1> QED
  BY <1>1, <1>2, TypeInit DEF KeepsInv

LEMMA KeepsAlways == Spec => []KeepsInv
<1>1. KeepsInv /\ [Next]_vars => KeepsInv'
  <2> SUFFICES ASSUME KeepsInv, [Next]_vars PROVE KeepsInv'
    OBVIOUS
  <2>1. TypeInv'
    BY TypesStep, IdStep, DrawnStep, MapStep, AtStep, CallbackAtStep, MainStep,
       UnmadeStep DEF KeepsInv, TypeInv, PointerInv
  <2> QED
    BY <2>1, ReadInvStep, AcceptStep DEF KeepsInv
<1> QED
  BY <1>1, KeepsInit, PTL DEF Spec

(* No way out of a handler forgets what comes next: the types are kept, a   *)
(* connection of a registered server is being read until its read fails,    *)
(* and a server that listens has one accept going until one fails           *)
(* (TcpServer::onAcceptor, TcpSession::onMsg).                              *)
THEOREM KeepsGoingHolds == Spec => []KeepsGoing
<1>1. KeepsInv => KeepsGoing
  <2> SUFFICES ASSUME KeepsInv PROVE KeepsGoing
    OBVIOUS
  <2>1. TypeOK
    BY TypesAreTypeOK DEF KeepsInv, TypeInv
  <2>2. KeepsAccepting
    BY DEF KeepsInv, AcceptInv, AcceptOk, Handling, KeepsAccepting
  <2> QED
    BY <2>1, <2>2 DEF KeepsInv, ReadInv, KeepsGoing
<1> QED
  BY <1>1, KeepsAlways, PTL

-----------------------------------------------------------------------------
(* What a service and its server do in a step, when the server is its own.  *)

(* The step is none of a call of s: its call and its callbacks stand still. *)
CallStands(s) ==
  /\ pc'[s] = pc[s] /\ at'[s] = at[s] /\ fdOf'[s] = fdOf[s]
  /\ callback'[s] = callback[s] /\ mSessions[s] \subseteq mSessions'[s]

LEMMA OthersStand ==
  ASSUME TypeInv, Distinct, [Next]_vars, NEW s \in Services, ~Call(s)
  PROVE  CallStands(s)
<1>0. /\ callback \in [Services -> [Events -> Services \union {Nil}]]
      /\ mSessions \in [Services -> SUBSET Fds] /\ autoFd \in [Services -> Nat]
  BY DEF TypeInv, Types, ServerType
<1>1. ASSUME NEW u \in Services, Call(u), u # s PROVE CallStands(s)
  <2>1. callback'[s] = callback[s]
    <3>1. ASSUME NEW e \in Events, SetCallback(u, e) PROVE callback'[s] = callback[s]
      <4>1. /\ pc[u] \in Listening
            /\ callback' = [callback EXCEPT ![at[u]][e] = u]
        BY <3>1 DEF SetCallback, Step, Return, Listening
      <4>2. at[u] = u
        BY <4>1, OwnServer
      <4> QED
        BY <1>0, <1>1, <4>1, <4>2
    <3> QED
      BY <1>1, <3>1, ServerMoves
  <2>2. mSessions'[s] = mSessions[s]
    <3>1. CASE mSessions' = mSessions
      BY <3>1
    <3>2. CASE /\ pc[u] \in {"erase", "failErase"}
               /\ mSessions' = [mSessions EXCEPT ![at[u]] = mSessions[at[u]] \ {fdOf[u]}]
      <4>1. at[u] = u
        BY <3>2, OwnServer DEF OnFd
      <4> QED
        BY <1>0, <1>1, <3>2, <4>1
    <3> QED
      BY <1>1, <3>1, <3>2, SessionsOfCall
  <2> QED
    BY <1>1, <2>1, <2>2, OneMoves DEF CallStands
<1>2. CASE Handler \/ \E o \in Services, fd \in Fds : Arrive(o, fd)
  <2>1. UNCHANGED <<callVars, callback>>
    BY <1>2, HandlersCallNot
  <2>2. mSessions[s] \subseteq mSessions'[s]
    <3>1. ASSUME NEW p \in Services, OnAcceptor(p)
          PROVE  mSessions[s] \subseteq mSessions'[s]
      BY <1>0, <3>1 DEF OnAcceptor
    <3>2. CASE ~\E p \in Services : OnAcceptor(p)
      BY <1>2, <3>2 DEF Handler, Arrive, OnConnect, OnMsgGetServer, OnMsgPost,
                        OnMsgRead, OnAcceptorError, OnReadError, OnRead, OnReadEmpty
    <3> QED
      BY <3>1, <3>2
  <2> QED
    BY <2>1, <2>2 DEF CallStands
<1> QED
  BY <1>1, <1>2 DEF Next, CallStands

(* A callback posts to the service whose server it is of, or nothing.       *)
LEMMA OwnPost ==
  ASSUME TypeInv, Distinct, NEW o \in Services, NEW e \in Events, NEW fd \in Fds,
         ptr[o] \in Ids, Post(o, e, fd)
  PROVE  /\ \A s \in Services \ {o} : posted'[s] = posted[s]
         /\ callback[o][e] = Nil => posted'[o] = posted[o]
         /\ callback[o][e] # Nil => posted'[o] = Append(posted[o], Msg(o, e, fd))
<1>1. callback[o][e] \in {Nil, o}
  BY OwnServer
<1>2. PostedType /\ ServerType
  BY DEF TypeInv, Types
<1>3. \A s \in Services :
        /\ s = callback[o][e] => posted'[s] = Append(posted[s], Msg(o, e, fd))
        /\ s # callback[o][e] => posted'[s] = posted[s]
  BY <1>2, PostFacts
<1> QED
  BY <1>1, <1>3

(* The step tells s something: e of fd.                                     *)
Tells(s, e, fd) ==
  /\ callback[s][e] # Nil
  /\ posted'[s] = Append(posted[s], Msg(s, e, fd))
  /\ \/ e = "connect" /\ OnConnect /\ mainOn = s /\ mainFd = fd
     \/ e = "msg" /\ OnMsgPost /\ mainOn = s /\ mainFd = fd
     \/ e = "close" /\ (CloseBegin(s) \/ MgrClosePost(s)) /\ fdOf[s] = fd

LEMMA PostedMoves ==
  ASSUME TypeInv, Distinct, [Next]_vars, NEW s \in Services
  PROVE  posted'[s] = posted[s] \/ \E e \in Events, fd \in Fds : Tells(s, e, fd)
<1> USE DEF Events
<1>1. ASSUME NEW u \in Services, CloseBegin(u) \/ MgrClosePost(u)
      PROVE  posted'[s] = posted[s] \/ (s = u /\ Tells(s, "close", fdOf[s]) /\ fdOf[s] \in Fds)
  <2>1. /\ pc[u] \in OnFd /\ Post(at[u], "close", fdOf[u])
    BY <1>1 DEF CloseBegin, MgrClosePost, Step, OnFd, PostClose
  <2>2. at[u] = u /\ ptr[u] \in Ids /\ fdOf[u] \in Fds
    BY <2>1, OwnServer, AtUse
  <2>3. Post(u, "close", fdOf[u])
    BY <2>1, <2>2
  <2>4. /\ s # u => posted'[s] = posted[s]
        /\ callback[u]["close"] = Nil => posted'[u] = posted[u]
        /\ callback[u]["close"] # Nil =>
             posted'[u] = Append(posted[u], Msg(u, "close", fdOf[u]))
    BY <2>2, <2>3, OwnPost
  <2> QED
    BY <1>1, <2>2, <2>4 DEF Tells
<1>2. CASE OnConnect
  <2>1. /\ mainOn \in Services /\ mainFd \in Fds /\ ptr[mainOn] \in Ids
        /\ Post(mainOn, "connect", mainFd)
    BY <1>2, MainUse DEF OnConnect
  <2>2. /\ s # mainOn => posted'[s] = posted[s]
        /\ callback[mainOn]["connect"] = Nil => posted'[mainOn] = posted[mainOn]
        /\ callback[mainOn]["connect"] # Nil =>
             posted'[mainOn] = Append(posted[mainOn], Msg(mainOn, "connect", mainFd))
    BY <2>1, OwnPost
  <2>3. posted'[s] = posted[s] \/ Tells(s, "connect", mainFd)
    BY <1>2, <2>2 DEF Tells
  <2> QED
    BY <2>1, <2>3
<1>3. CASE OnMsgPost
  <2>1. /\ mainOn \in Services /\ mainFd \in Fds /\ ptr[mainOn] \in Ids
        /\ mainTo = mainOn /\ Post(mainOn, "msg", mainFd)
    BY <1>3, MainUse, OwnServer DEF OnMsgPost
  <2>2. /\ s # mainOn => posted'[s] = posted[s]
        /\ callback[mainOn]["msg"] = Nil => posted'[mainOn] = posted[mainOn]
        /\ callback[mainOn]["msg"] # Nil =>
             posted'[mainOn] = Append(posted[mainOn], Msg(mainOn, "msg", mainFd))
    BY <2>1, OwnPost
  <2>3. posted'[s] = posted[s] \/ Tells(s, "msg", mainFd)
    BY <1>3, <2>2 DEF Tells
  <2> QED
    BY <2>1, <2>3
<1>4. ASSUME NEW u \in Services, Call(u)
      PROVE  posted' = posted \/ CloseBegin(u) \/ MgrClosePost(u)
  BY <1>4, ServerMoves
<1>5. CASE /\ Handler \/ \E o \in Services, fd \in Fds : Arrive(o, fd)
           /\ ~OnConnect /\ ~OnMsgPost
  BY <1>5 DEF Handler, Arrive, OnMsgGetServer, OnMsgRead, OnAcceptor,
              OnAcceptorError, OnReadError, OnRead, OnReadEmpty
<1> QED
  BY <1>1, <1>2, <1>3, <1>4, <1>5 DEF Next

(* Where a call of s goes.                                                  *)
LEMMA OwnCall ==
  ASSUME TypeInv, Distinct, NEW s \in Services, Call(s)
  PROVE  /\ pc'[s] \in OnFd =>
              \/ pc[s] \in OnFd /\ fdOf'[s] = fdOf[s]
              \/ pc[s] = "idle" /\ fdOf'[s] \in Fds /\ Known(s, fdOf'[s])
         /\ pc[s] \in Listening => pc'[s] \in Listening \/ SetCallback(s, "msg")
         /\ pc'[s] = "setClose" => SetCallback(s, "connect")
         /\ pc'[s] = "setMsg" => SetCallback(s, "close")
         /\ pc'[s] = "erase" => CloseBegin(s)
         /\ pc'[s] = "failErase" => MgrClosePost(s)
         /\ pc'[s] \in Writing =>
              \/ pc[s] \in Writing /\ fdOf'[s] = fdOf[s]
              \/ fdOf'[s] \in mSessions[s]
<1>0. /\ pc \in [Services -> Calls] /\ fdOf \in [Services -> {0} \union Fds]
  BY DEF TypeInv, Types, CallType
<1> USE <1>0 DEF Listening, OnFd, Writing, Goto, Step, Return
<1>1. CASE NewServer(s) \/ BumpId(s) \/ InsertServer(s) \/ Listen(s) \/ Bind(s)
  BY <1>1 DEF NewServer, BumpId, InsertServer, Listen, Bind
<1>2. ASSUME NEW e \in Events, SetCallback(s, e)
      PROVE  \/ pc[s] = "setConnect" /\ pc'[s] = "setClose" /\ e = "connect"
             \/ pc[s] = "setClose" /\ pc'[s] = "setMsg" /\ e = "close"
             \/ pc[s] = "setMsg" /\ pc'[s] = "idle" /\ e = "msg"
  BY <1>2 DEF SetCallback
<1>3. CASE DestroyServer(s) \/ \E fd \in Fds : RemoteInfoFails(s, fd)
  BY <1>3 DEF DestroyServer, RemoteInfoFails
<1>4. ASSUME NEW fd \in Fds, Close(s, fd) \/ Send(s, fd)
      PROVE  /\ pc[s] = "idle" /\ pc'[s] \in {"close", "write"} /\ fdOf'[s] = fd
             /\ Known(s, fd)
             /\ pc'[s] = "write" => fd \in mSessions[s]
  <2>1. GetServer(ptr[s]) \in {Nil, s}
    BY OwnServer
  <2> QED
    BY <1>4, <2>1 DEF Close, Send, Begin
<1>5. CASE CloseBegin(s) \/ CloseEnd(s) \/ WriteOk(s) \/ WriteFails(s)
  BY <1>5 DEF CloseBegin, CloseEnd, WriteOk, WriteFails
<1>6. CASE MgrClosePost(s) \/ MgrCloseEnd(s)
  BY <1>6 DEF MgrClosePost, MgrCloseEnd
<1>7. CASE MgrClose(s)
  BY <1>7 DEF MgrClose
<1> QED
  BY <1>1, <1>2, <1>3, <1>4, <1>5, <1>6, <1>7 DEF Call, Events

LEMMA OwnCallback ==
  ASSUME TypeInv, Distinct, NEW s \in Services, Call(s)
  PROVE  \/ callback'[s] = callback[s] /\ \A e \in Events : ~SetCallback(s, e)
         \/ \E e \in Events : /\ SetCallback(s, e)
                              /\ callback'[s][e] = s
                              /\ \A d \in Events \ {e} : callback'[s][d] = callback[s][d]
<1>0. callback \in [Services -> [Events -> Services \union {Nil}]]
  BY DEF TypeInv, Types, ServerType
<1>1. ASSUME NEW e \in Events, SetCallback(s, e)
      PROVE  /\ callback'[s][e] = s
             /\ \A d \in Events \ {e} : callback'[s][d] = callback[s][d]
  <2>1. pc[s] \in Listening /\ callback' = [callback EXCEPT ![at[s]][e] = s]
    BY <1>1 DEF SetCallback, Step, Return, Listening
  <2>2. at[s] = s
    BY <2>1, OwnServer
  <2>3. callback' = [callback EXCEPT ![s] = [callback[s] EXCEPT ![e] = s]]
    BY <2>1, <2>2
  <2>4. callback'[s] = [callback[s] EXCEPT ![e] = s]
    BY <1>0, <2>3
  <2> QED
    BY <1>0, <2>4
<1> QED
  BY <1>1, ServerMoves

-----------------------------------------------------------------------------
(* The callbacks are set one after the other, and what is posted is posted  *)
(* by one that is set: a call on a connection finds all but the last set.   *)

CallbackOk(s) ==
  /\ callback[s]["msg"] # Nil => callback[s]["close"] # Nil
  /\ callback[s]["close"] # Nil => callback[s]["connect"] # Nil
  /\ callback[s]["connect"] # Nil => callback[s]["close"] # Nil \/ pc[s] \in Listening
  /\ posted[s] # <<>> => callback[s]["connect"] # Nil
  /\ pc[s] = "setMsg" => callback[s]["close"] # Nil
  /\ pc[s] = "setClose" => callback[s]["connect"] # Nil
  /\ pc[s] \in OnFd => callback[s]["close"] # Nil

LEMMA CallbackStep ==
  ASSUME TypeInv, Distinct, [Next]_vars, NEW s \in Services, CallbackOk(s)
  PROVE  CallbackOk(s)'
<1>0. /\ s # Nil /\ Events = {"connect", "close", "msg"}
      /\ pc \in [Services -> Calls]
  BY DEF Events, TypeInv, Types, CallType
<1>1. \A e \in Events : callback[s][e] # Nil => callback'[s][e] # Nil
  <2>1. CASE Call(s)
    BY <1>0, <2>1, OwnCallback
  <2>2. CASE ~Call(s)
    BY <2>2, OthersStand DEF CallStands
  <2> QED
    BY <2>1, <2>2
<1>2. posted'[s] # <<>> => callback'[s]["connect"] # Nil
  <2>1. \/ posted'[s] = posted[s]
        \/ \E e \in Events : callback[s][e] # Nil
    BY PostedMoves DEF Tells
  <2> QED
    BY <1>0, <1>1, <2>1 DEF CallbackOk
<1>3. CASE ~Call(s)
  BY <1>2, <1>3, OthersStand DEF CallStands, CallbackOk
<1>4. CASE Call(s)
  <2>1. CASE \A e \in Events : ~SetCallback(s, e)
    <3>1. callback'[s] = callback[s]
      BY <1>4, <2>1, OwnCallback
    <3>2. /\ pc'[s] # "setClose" /\ pc'[s] # "setMsg"
          /\ pc[s] \in Listening => pc'[s] \in Listening
      BY <1>0, <1>4, <2>1, OwnCall
    <3>3. pc'[s] \in OnFd => callback[s]["close"] # Nil
      <4>1. ASSUME NEW fd \in Fds, Known(s, fd) PROVE posted[s] # <<>>
        BY <4>1 DEF Known
      <4>2. pc[s] = "idle" => pc[s] \notin Listening
        BY DEF Listening
      <4> QED
        BY <1>4, <4>1, <4>2, OwnCall DEF CallbackOk
    <3> QED
      BY <1>2, <3>1, <3>2, <3>3 DEF CallbackOk
  <2>2. ASSUME NEW e \in Events, SetCallback(s, e) PROVE CallbackOk(s)'
    <3>1. /\ callback'[s][e] = s
          /\ \A d \in Events \ {e} : callback'[s][d] = callback[s][d]
      <4>1. \A d \in Events : SetCallback(s, d) => d = e
        BY <2>2 DEF SetCallback, Step, Return
      <4> QED
        BY <1>4, <2>2, <4>1, OwnCallback
    <3>2. \/ pc[s] = "setConnect" /\ pc'[s] = "setClose" /\ e = "connect"
          \/ pc[s] = "setClose" /\ pc'[s] = "setMsg" /\ e = "close"
          \/ pc[s] = "setMsg" /\ pc'[s] = "idle" /\ e = "msg"
      BY <1>0, <2>2 DEF SetCallback, Step, Return, Goto
    <3> QED
      BY <1>0, <1>2, <3>1, <3>2 DEF CallbackOk, Listening, OnFd
  <2> QED
    BY <2>1, <2>2
<1> QED
  BY <1>3, <1>4

-----------------------------------------------------------------------------
(* What a service was told of a connection.                                 *)

Told(s, e, fd) == {k \in DOMAIN posted[s] :
                     posted[s][k].event = e /\ posted[s][k].fd = fd}
Announced(s, fd) ==
  fd < autoFd[s] /\ ~(mainPc = "connect" /\ mainOn = s /\ mainFd = fd)

ConnectOk(s) ==
  /\ \A k \in DOMAIN posted[s] :
       posted[s][k].id = ptr[s] /\ Announced(s, posted[s][k].fd)
  /\ \A fd \in early[s] : Told(s, "connect", fd) = {} /\ Announced(s, fd)
  /\ \A fd \in Fds \ early[s] :
       Announced(s, fd) =>
         \E j \in DOMAIN posted[s] :
           /\ Told(s, "connect", fd) = {j}
           /\ \A k \in DOMAIN posted[s] : posted[s][k].fd = fd => j <= k
  /\ pc[s] \in OnFd => Announced(s, fdOf[s])

(* What is told is told when the connection was announced, and a Connect    *)
(* announces it.                                                            *)
LEMMA AnnouncedMoves ==
  ASSUME TypeInv, FreshInv, [Next]_vars, NEW s \in Services, NEW fd \in Fds
  PROVE  /\ Announced(s, fd) => Announced(s, fd)'
         /\ Announced(s, fd)' =>
              \/ Announced(s, fd)
              \/ OnConnect /\ mainOn = s /\ mainFd = fd
<1>0. /\ autoFd \in [Services -> Nat] /\ fd \in Nat
      /\ mainPc # "poll" => mainOn \in Services /\ mainFd \in Nat
  BY MainUse, IdsFacts DEF TypeInv, Types, ServerType
<1>1. ASSUME NEW o \in Services, OnAcceptor(o)
      PROVE  Announced(s, fd)' <=> Announced(s, fd)
  <2>1. /\ mainPc = "poll" /\ mainPc' = "connect" /\ mainOn' = o
        /\ mainFd' = autoFd[o] /\ autoFd' = [autoFd EXCEPT ![o] = autoFd[o] + 1]
    BY <1>1 DEF OnAcceptor, MainGoto, NextFd
  <2> QED
    BY <1>0, <2>1 DEF Announced
<1>2. CASE OnConnect
  <2>1. mainPc = "connect" /\ mainPc' = "poll" /\ autoFd' = autoFd
        /\ mainFd < autoFd[mainOn]
    BY <1>2 DEF OnConnect, MainGoto, FreshInv
  <2> QED
    BY <1>0, <1>2, <2>1 DEF Announced
<1>3. ASSUME ~OnConnect, \A o \in Services : ~OnAcceptor(o)
      PROVE  Announced(s, fd)' <=> Announced(s, fd)
  <2>1. autoFd'[s] = autoFd[s]
    BY <1>3, ServerRecordMoves
  <2>2. \/ UNCHANGED mainVars
        \/ mainPc # "connect" /\ mainPc' # "connect"
    <3>1. ASSUME NEW u \in Services, Call(u) PROVE UNCHANGED mainVars
      BY <3>1, MainStays
    <3>2. CASE OnMsgGetServer \/ OnMsgPost \/ OnMsgRead
      BY <3>2 DEF OnMsgGetServer, OnMsgPost, OnMsgRead, MainGoto
    <3>3. ASSUME NEW o \in Services, OnAcceptorError(o) PROVE UNCHANGED mainVars
      BY <3>3 DEF OnAcceptorError
    <3>4. ASSUME NEW o \in Services, NEW x \in Fds,
                 \/ OnReadError(o, x) \/ OnReadEmpty(o, x) \/ Arrive(o, x)
          PROVE  UNCHANGED mainVars
      BY <3>4 DEF OnReadError, OnReadEmpty, Arrive
    <3>5. ASSUME NEW o \in Services, NEW x \in Fds, OnRead(o, x)
          PROVE  mainPc # "connect" /\ mainPc' # "connect"
      BY <3>5 DEF OnRead, MainGoto
    <3> QED
      BY <1>3, <3>1, <3>2, <3>3, <3>4, <3>5 DEF Next, Handler
  <2> QED
    BY <2>1, <2>2 DEF Announced
<1> QED
  BY <1>1, <1>2, <1>3

LEMMA ConnectStep ==
  ASSUME TypeInv, FreshInv, Distinct, [Next]_vars, NEW s \in Services,
         CallbackOk(s), ConnectOk(s)
  PROVE  ConnectOk(s)'
<1>0. /\ early \in [Services -> SUBSET Fds] /\ posted[s] \in Seq(Messages)
      /\ fdOf[s] \in {0} \union Fds /\ ptr[s] \in {0} \union Ids
      /\ autoFd \in [Services -> Nat] /\ Fds \subseteq Nat
      /\ \A k \in DOMAIN posted[s] : posted[s][k].fd \in Fds /\ posted[s][k].id \in Ids
      /\ posted'[s] # posted[s] => ptr[s] # 0
  <2>1. posted'[s] # posted[s] => ptr[s] # 0
    <3>1. ASSUME NEW e \in Events, callback[s][e] # Nil PROVE ptr[s] # 0
      BY <3>1 DEF TypeInv, PointerInv, CallbackAtInv, DrawnInv, Made
    <3> QED
      BY <3>1, PostedMoves DEF Tells
  <2>2. posted[s] \in Seq(Messages)
    BY DEF TypeInv, Types, PostedType
  <2>3. \A k \in DOMAIN posted[s] : posted[s][k].fd \in Fds /\ posted[s][k].id \in Ids
    <3>1. \A k \in DOMAIN posted[s] : posted[s][k] \in Messages
      BY <2>2
    <3> QED
      BY <3>1 DEF Messages
  <2>4. /\ early \in [Services -> SUBSET Fds] /\ fdOf[s] \in {0} \union Fds
        /\ ptr[s] \in {0} \union Ids /\ autoFd \in [Services -> Nat]
    BY DEF TypeInv, Types, PastType, CallType, MgrType, ServerType
  <2> QED
    BY <2>1, <2>2, <2>3, <2>4, IdsFacts
<1>1. \A fd \in Fds : Announced(s, fd) => Announced(s, fd)'
  BY AnnouncedMoves
<1>2. pc'[s] \in OnFd => Announced(s, fdOf[s])'
  <2>1. CASE Call(s)
    <3>1. ASSUME pc[s] \in OnFd, fdOf'[s] = fdOf[s] PROVE Announced(s, fdOf[s])'
      <4>1. fdOf[s] \in Fds
        BY <3>1, AtUse
      <4>2. \A fd \in Fds : fd = fdOf[s] => Announced(s, fd)'
        BY <1>1, <3>1 DEF ConnectOk
      <4> QED
        BY <3>1, <4>1, <4>2 DEF Announced
    <3>2. ASSUME fdOf'[s] \in Fds, Known(s, fdOf'[s]) PROVE Announced(s, fdOf[s])'
      <4>1. Announced(s, fdOf'[s])
        BY <3>2 DEF ConnectOk, Known
      <4>2. \A fd \in Fds : fd = fdOf'[s] => Announced(s, fd)'
        BY <1>1, <4>1
      <4> QED
        BY <3>2, <4>2 DEF Announced
    <3> QED
      BY <2>1, <3>1, <3>2, OwnCall
  <2>2. CASE ~Call(s)
    <3>1. pc'[s] = pc[s] /\ fdOf'[s] = fdOf[s]
      BY <2>2, OthersStand DEF CallStands
    <3>2. pc[s] \in OnFd => fdOf[s] \in Fds
      BY AtUse
    <3>3. \A fd \in Fds : fd = fdOf[s] /\ pc[s] \in OnFd => Announced(s, fd)'
      BY <1>1 DEF ConnectOk
    <3> QED
      BY <3>1, <3>2, <3>3 DEF Announced
  <2> QED
    BY <2>1, <2>2
<1>3. posted[s] # <<>> \/ posted'[s] # posted[s] => ptr'[s] = ptr[s] /\ ptr[s] # 0
  <2>1. posted[s] # <<>> => ptr[s] # 0
    <3>1. CASE posted[s] # <<>>
      <4>1. 1 \in DOMAIN posted[s]
        BY <1>0, <3>1
      <4> QED
        BY <1>0, <4>1, IdsFacts DEF ConnectOk
    <3> QED
      BY <3>1
  <2> QED
    BY <1>0, <2>1, Keeps
<1>4. CASE OnConnect /\ mainOn = s /\ callback[s]["connect"] = Nil
  <2>1. /\ mainFd \in Fds /\ posted'[s] = posted[s] /\ ~Announced(s, mainFd)
        /\ early'[s] = early[s] \union {mainFd}
    <3>1. /\ mainFd \in Fds /\ mainPc = "connect" /\ s \in Services
          /\ early' = [early EXCEPT ![s] = early[s] \union {mainFd}]
          /\ posted' = posted
      BY <1>4, MainUse DEF OnConnect, Post
    <3> QED
      BY <1>0, <1>4, <3>1 DEF Announced, TypeInv, Types, PastType
  <2>2. \A k \in DOMAIN posted[s] : posted[s][k].fd # mainFd
    BY <2>1 DEF ConnectOk
  <2>3. Told(s, "connect", mainFd) = {}
    BY <2>2 DEF Told
  <2>4. \A fd \in Fds : fd = mainFd => Announced(s, fd)'
    <3>1. /\ mainPc = "connect" /\ mainPc' = "poll" /\ autoFd' = autoFd
          /\ mainFd < autoFd[s]
      BY <1>4 DEF OnConnect, MainGoto, FreshInv
    <3> QED
      BY <3>1 DEF Announced
  <2>5. \A fd \in Fds : Announced(s, fd)' => Announced(s, fd) \/ fd = mainFd
    BY AnnouncedMoves
  <2>6. \A fd \in Fds : Told(s, "connect", fd)' = Told(s, "connect", fd)
    BY <2>1 DEF Told
  <2>7. \A k \in DOMAIN posted'[s] :
          posted'[s][k].id = ptr'[s] /\ Announced(s, posted[s][k].fd)'
    <3>1. ASSUME NEW k \in DOMAIN posted[s]
          PROVE  posted[s][k].id = ptr'[s] /\ Announced(s, posted[s][k].fd)'
      <4>1. /\ posted[s][k].id = ptr[s] /\ posted[s][k].fd \in Fds
            /\ Announced(s, posted[s][k].fd) /\ posted[s] # <<>>
        BY <1>0, <3>1 DEF ConnectOk
      <4>2. \A fd \in Fds : fd = posted'[s][k].fd => Announced(s, fd)'
        BY <1>1, <2>1, <4>1
      <4> QED
        BY <1>3, <2>1, <4>1, <4>2 DEF Announced
    <3> QED
      BY <2>1, <3>1
  <2>8. ASSUME NEW fd \in early'[s]
        PROVE  Told(s, "connect", fd)' = {} /\ Announced(s, fd)'
    <3>1. CASE fd = mainFd
      BY <2>1, <2>3, <2>4, <2>6, <3>1
    <3>2. CASE fd # mainFd
      <4>1. fd \in early[s] /\ fd \in Fds
        BY <1>0, <2>1, <3>2
      <4> QED
        BY <1>1, <2>6, <4>1 DEF ConnectOk
    <3> QED
      BY <3>1, <3>2
  <2>9. ASSUME NEW fd \in Fds \ early'[s], Announced(s, fd)'
        PROVE  \E j \in DOMAIN posted'[s] :
                 /\ Told(s, "connect", fd)' = {j}
                 /\ \A k \in DOMAIN posted'[s] : posted'[s][k].fd = fd => j <= k
    <3>1. fd \notin early[s] /\ Announced(s, fd)
      BY <2>1, <2>5, <2>9
    <3> QED
      BY <2>1, <2>6, <3>1 DEF ConnectOk
  <2> QED
    BY <1>2, <2>7, <2>8, <2>9 DEF ConnectOk
<1>5. ASSUME NEW e \in Events, NEW fd \in Fds, Tells(s, e, fd) PROVE ConnectOk(s)'
  <2> DEFINE m == Msg(s, e, fd)
  <2>1. /\ posted'[s] = Append(posted[s], m) /\ m.id = ptr[s] /\ m.event = e /\ m.fd = fd
        /\ posted'[s] # posted[s]
    BY <1>0, <1>5 DEF Tells, Msg
  <2> HIDE DEF m
  <2>2. /\ Len(posted[s]) \in Nat /\ DOMAIN posted[s] = 1..Len(posted[s])
        /\ DOMAIN posted'[s] = 1..(Len(posted[s]) + 1)
        /\ posted'[s][Len(posted[s]) + 1] = m
        /\ \A k \in DOMAIN posted[s] : posted'[s][k] = posted[s][k]
    BY <1>0, <2>1
  <2> DEFINE n == Len(posted[s]) + 1
  <2> HIDE DEF n
  <2>3. /\ n \in Nat /\ n \notin DOMAIN posted[s]
        /\ DOMAIN posted'[s] = DOMAIN posted[s] \union {n}
        /\ posted'[s][n] = m /\ \A k \in DOMAIN posted[s] : k <= n
    BY <2>2 DEF n
  <2>4. \A x \in Fds : Told(s, "connect", x)' =
          IF e = "connect" /\ x = fd THEN Told(s, "connect", x) \union {n}
                                     ELSE Told(s, "connect", x)
    BY <2>1, <2>2, <2>3 DEF Told
  <2>5. early'[s] = early[s]
    <3>1. CASE e = "close"
      BY <1>5, <3>1 DEF Tells, CloseBegin, MgrClosePost
    <3>2. CASE e # "close"
      BY <1>5, <3>2, ServerRecordMoves DEF Tells, OnConnect, OnMsgPost
    <3> QED
      BY <3>1, <3>2
  <2>6. Announced(s, fd)'
    <3>1. CASE e = "connect"
      <4>1. /\ mainPc' = "poll" /\ autoFd' = autoFd /\ mainFd < autoFd[s] /\ mainFd = fd
        BY <1>5, <3>1 DEF Tells, OnConnect, MainGoto, FreshInv
      <4> QED
        BY <4>1 DEF Announced
    <3>2. CASE e # "connect"
      <4>1. Announced(s, fd)
        BY <1>5, <3>2 DEF Tells, OnMsgPost, CloseBegin, MgrClosePost, Step, OnFd,
                          FreshInv, Announced, ConnectOk
      <4> QED
        BY <1>1, <4>1
    <3> QED
      BY <3>1, <3>2
  <2>7. ASSUME NEW k \in DOMAIN posted'[s]
        PROVE  posted'[s][k].id = ptr'[s] /\ Announced(s, posted[s][k].fd)'
    <3>1. CASE k = n
      <4>1. \A x \in Fds : x = posted'[s][k].fd => Announced(s, x)'
        BY <2>1, <2>3, <2>6, <3>1
      <4> QED
        BY <1>3, <2>1, <2>3, <3>1, <4>1 DEF Announced
    <3>2. CASE k \in DOMAIN posted[s]
      <4>1. /\ posted'[s][k] = posted[s][k] /\ posted[s][k].id = ptr[s]
            /\ posted[s][k].fd \in Fds /\ Announced(s, posted[s][k].fd)
        BY <1>0, <2>2, <3>2 DEF ConnectOk
      <4>2. \A x \in Fds : x = posted'[s][k].fd => Announced(s, x)'
        BY <1>1, <4>1
      <4> QED
        BY <1>3, <2>1, <4>1, <4>2 DEF Announced
    <3> QED
      BY <2>3, <3>1, <3>2
  <2>8. ASSUME NEW x \in early'[s]
        PROVE  Told(s, "connect", x)' = {} /\ Announced(s, x)'
    <3>1. x \in Fds /\ Told(s, "connect", x) = {} /\ Announced(s, x)
      BY <1>0, <2>5 DEF ConnectOk
    <3>2. ~(e = "connect" /\ x = fd)
      BY <1>5, <3>1 DEF Tells, OnConnect, Announced
    <3> QED
      BY <1>1, <2>4, <3>1, <3>2
  <2>9. ASSUME NEW x \in Fds \ early'[s], Announced(s, x)'
        PROVE  \E j \in DOMAIN posted'[s] :
                 /\ Told(s, "connect", x)' = {j}
                 /\ \A k \in DOMAIN posted'[s] : posted'[s][k].fd = x => j <= k
    <3>1. CASE e = "connect" /\ x = fd
      <4>1. \A k \in DOMAIN posted[s] : posted[s][k].fd # x
        BY <1>5, <3>1 DEF ConnectOk, Tells, OnConnect, Announced
      <4>2. Told(s, "connect", x)' = {n}
        BY <2>4, <3>1, <4>1 DEF Told
      <4>3. \A k \in DOMAIN posted'[s] : posted'[s][k].fd = x => n <= k
        BY <2>2, <2>3, <4>1
      <4> QED
        BY <2>3, <4>2, <4>3
    <3>2. CASE ~(e = "connect" /\ x = fd)
      <4>1. Announced(s, x)
        <5>1. e = "connect" \/ ~OnConnect
          BY <1>5 DEF Tells, OnConnect, OnMsgPost, CloseBegin, MgrClosePost, MainGoto
        <5>2. e = "connect" => mainFd = fd
          BY <1>5 DEF Tells
        <5> QED
          BY <2>9, <3>2, <5>1, <5>2, AnnouncedMoves
      <4>2. PICK j \in DOMAIN posted[s] :
              /\ Told(s, "connect", x) = {j}
              /\ \A k \in DOMAIN posted[s] : posted[s][k].fd = x => j <= k
        BY <2>5, <4>1 DEF ConnectOk
      <4>3. Told(s, "connect", x)' = {j}
        BY <2>4, <3>2, <4>2
      <4>4. \A k \in DOMAIN posted'[s] : posted'[s][k].fd = x => j <= k
        BY <2>2, <2>3, <4>2
      <4> QED
        BY <2>3, <4>3, <4>4
    <3> QED
      BY <3>1, <3>2
  <2> QED
    BY <1>2, <2>7, <2>8, <2>9 DEF ConnectOk
<1>6. CASE posted'[s] = posted[s] /\ ~(OnConnect /\ mainOn = s)
  <2>1. early'[s] = early[s] /\ \A fd \in Fds : Announced(s, fd)' => Announced(s, fd)
    BY <1>6, AnnouncedMoves, ServerRecordMoves
  <2>2. \A fd \in Fds : Told(s, "connect", fd)' = Told(s, "connect", fd)
    BY <1>6 DEF Told
  <2>3. ASSUME NEW k \in DOMAIN posted'[s]
        PROVE  posted'[s][k].id = ptr'[s] /\ Announced(s, posted[s][k].fd)'
    <3>1. /\ posted[s][k].id = ptr[s] /\ posted[s][k].fd \in Fds
          /\ Announced(s, posted[s][k].fd) /\ posted[s] # <<>>
      BY <1>0, <1>6, <2>3 DEF ConnectOk
    <3>2. \A fd \in Fds : fd = posted'[s][k].fd => Announced(s, fd)'
      BY <1>1, <1>6, <3>1
    <3> QED
      BY <1>3, <1>6, <3>1, <3>2 DEF Announced
  <2>4. ASSUME NEW fd \in early'[s]
        PROVE  Told(s, "connect", fd)' = {} /\ Announced(s, fd)'
    <3>1. fd \in Fds /\ Told(s, "connect", fd) = {} /\ Announced(s, fd)
      BY <1>0, <2>1 DEF ConnectOk
    <3> QED
      BY <1>1, <2>2, <3>1
  <2>5. ASSUME NEW fd \in Fds \ early'[s], Announced(s, fd)'
        PROVE  \E j \in DOMAIN posted'[s] :
                 /\ Told(s, "connect", fd)' = {j}
                 /\ \A k \in DOMAIN posted'[s] : posted'[s][k].fd = fd => j <= k
    <3>1. Announced(s, fd) /\ fd \notin early[s]
      BY <2>1, <2>5
    <3> QED
      BY <1>6, <2>2, <3>1 DEF ConnectOk
  <2> QED
    BY <1>2, <2>3, <2>4, <2>5 DEF ConnectOk
<1>7. CASE OnConnect /\ mainOn = s /\ callback[s]["connect"] # Nil
           /\ posted'[s] = posted[s]
  <2>1. /\ mainFd \in Fds /\ ptr[s] \in Ids /\ Post(s, "connect", mainFd)
    BY <1>7, MainUse DEF OnConnect
  <2>2. posted'[s] = Append(posted[s], Msg(s, "connect", mainFd))
    BY <1>7, <2>1, OwnPost DEF Events
  <2> DEFINE m == Msg(s, "connect", mainFd)
  <2> HIDE DEF m
  <2>3. Len(posted'[s]) = Len(posted[s]) + 1 /\ Len(posted[s]) \in Nat
    BY <1>0, <2>2
  <2> QED
    BY <1>7, <2>3
<1> QED
  BY <1>4, <1>5, <1>6, <1>7, PostedMoves

-----------------------------------------------------------------------------
(* A connection that is out of the map was announced closed.                *)

CloseOk(s) ==
  /\ pc[s] \in {"erase", "failErase"} => Told(s, "close", fdOf[s]) # {}
  /\ \A fd \in Fds :
       fd < autoFd[s] /\ fd \notin mSessions[s] => Told(s, "close", fd) # {}

LEMMA ToldStays ==
  ASSUME TypeInv, Distinct, [Next]_vars, NEW s \in Services, NEW e, NEW fd,
         Told(s, e, fd) # {}
  PROVE  Told(s, e, fd)' # {}
<1>0. posted[s] \in Seq(Messages)
  BY DEF TypeInv, Types, PostedType
<1>1. PICK k \in DOMAIN posted[s] : posted[s][k].event = e /\ posted[s][k].fd = fd
  BY DEF Told
<1>2. k \in DOMAIN posted'[s] /\ posted'[s][k] = posted[s][k]
  <2>1. CASE posted'[s] = posted[s]
    BY <2>1
  <2>2. ASSUME NEW m, posted'[s] = Append(posted[s], m)
        PROVE  k \in DOMAIN posted'[s] /\ posted'[s][k] = posted[s][k]
    BY <1>0, <2>2
  <2> QED
    BY <2>1, <2>2, PostedMoves DEF Tells
<1>3. k \in Told(s, e, fd)'
  BY <1>1, <1>2 DEF Told
<1> QED
  BY <1>3

LEMMA CloseStep ==
  ASSUME TypeInv, Distinct, [Next]_vars, NEW s \in Services,
         CallbackOk(s), CloseOk(s)
  PROVE  CloseOk(s)'
<1>0. /\ mSessions \in [Services -> SUBSET Fds] /\ autoFd \in [Services -> Nat]
      /\ posted[s] \in Seq(Messages) /\ Fds \subseteq Nat
  BY IdsFacts DEF TypeInv, Types, ServerType, PostedType
<1>1. ASSUME NEW fd \in Fds, fd < autoFd'[s], fd \notin mSessions'[s]
      PROVE  Told(s, "close", fd)' # {}
  <2>1. CASE fd < autoFd[s] /\ fd \notin mSessions[s]
    BY <2>1, ToldStays DEF CloseOk
  <2>2. CASE fd >= autoFd[s]
    <3>1. /\ OnAcceptor(s) /\ autoFd'[s] = autoFd[s] + 1
      BY <1>0, <1>1, <2>2, ServerRecordMoves
    <3>2. fd = autoFd[s] /\ mSessions' = [mSessions EXCEPT ![s] = mSessions[s] \union {autoFd[s]}]
      BY <1>0, <1>1, <2>2, <3>1 DEF OnAcceptor
    <3> QED
      BY <1>0, <1>1, <3>2
  <2>3. CASE fd \in mSessions[s]
    <3>1. Call(s)
      BY <1>1, <2>3, OthersStand DEF CallStands
    <3>2. /\ pc[s] \in {"erase", "failErase"}
          /\ mSessions' = [mSessions EXCEPT ![at[s]] = mSessions[at[s]] \ {fdOf[s]}]
      BY <1>1, <2>3, <3>1, SessionsOfCall
    <3>3. at[s] = s
      BY <3>2, OwnServer DEF OnFd
    <3>4. fd = fdOf[s]
      BY <1>0, <1>1, <2>3, <3>2, <3>3
    <3>5. Told(s, "close", fd) # {}
      BY <3>2, <3>4 DEF CloseOk
    <3> QED
      BY <3>5, ToldStays
  <2> QED
    BY <1>0, <2>1, <2>2, <2>3
<1>2. ASSUME pc'[s] \in {"erase", "failErase"}
      PROVE  Told(s, "close", fdOf[s])' # {}
  <2>1. CASE Call(s)
    <3>1. /\ CloseBegin(s) \/ MgrClosePost(s)
          /\ pc[s] \in OnFd /\ Post(at[s], "close", fdOf[s]) /\ fdOf'[s] = fdOf[s]
      <4>1. CloseBegin(s) \/ MgrClosePost(s)
        BY <1>2, <2>1, OwnCall
      <4> QED
        BY <4>1, StepFacts DEF CloseBegin, MgrClosePost, PostClose, OnFd, Step,
                               TypeInv, Types, Calls
    <3>2. at[s] = s /\ ptr[s] \in Ids /\ fdOf[s] \in Fds
      BY <3>1, OwnServer, AtUse
    <3>3. callback[s]["close"] # Nil
      BY <3>1 DEF CallbackOk
    <3>4. posted'[s] = Append(posted[s], Msg(s, "close", fdOf[s]))
      BY <3>1, <3>2, <3>3, OwnPost DEF Events
    <3> DEFINE m == Msg(s, "close", fdOf[s])
    <3>5. m.event = "close" /\ m.fd = fdOf[s]
      BY DEF Msg
    <3> HIDE DEF m
    <3>6. posted'[s] = Append(posted[s], m)
      BY <3>4 DEF m
    <3>7. /\ Len(posted[s]) + 1 \in DOMAIN posted'[s]
          /\ posted'[s][Len(posted[s]) + 1] = m
      BY <1>0, <3>6
    <3>8. Len(posted[s]) + 1 \in Told(s, "close", fdOf[s])'
      BY <3>1, <3>5, <3>7 DEF Told
    <3> QED
      BY <3>8
  <2>2. CASE ~Call(s)
    <3>1. pc'[s] = pc[s] /\ fdOf'[s] = fdOf[s]
      BY <2>2, OthersStand DEF CallStands
    <3>2. \A fd : fd = fdOf[s] => Told(s, "close", fd)' # {}
      BY <1>2, <3>1, ToldStays DEF CloseOk
    <3> QED
      BY <3>1, <3>2 DEF Told
  <2> QED
    BY <2>1, <2>2
<1> QED
  BY <1>1, <1>2 DEF CloseOk

-----------------------------------------------------------------------------
(* A handler is due once for each read, and a session that is erased reads  *)
(* no more once its handler has run: who writes keeps one in the map.       *)

LateOk(o) ==
  /\ pc[o] \in Writing => fdOf[o] \in mSessions[o]
  /\ \A fd \in Fds :
       /\ late[o][fd] <= 1
       /\ fd \in mSessions[o] => late[o][fd] = 0
       /\ late[o][fd] = 1 =>
            /\ read[o][fd] # "data"
            /\ ~(mainPc \in {"getServer", "post"} /\ mainOn = o /\ mainFd = fd)

(* Who uses a session that is out of the map has no data of it to come.     *)
LEMMA InUseInMap ==
  ASSUME TypeInv, Distinct, NEW o \in Services, NEW fd \in Fds, LateOk(o), InUse(o, fd)
  PROVE  fd \in mSessions[o]
<1>1. ASSUME NEW s \in Services, pc[s] \in Writing, at[s] = o, fdOf[s] = fd
      PROVE  fd \in mSessions[o]
  <2>1. s = o
    BY <1>1, OwnServer DEF Writing, OnFd
  <2> QED
    BY <1>1, <2>1 DEF LateOk
<1> QED
  BY <1>1 DEF InUse, Writing

LEMMA LateStep ==
  ASSUME TypeInv, FreshInv, HandlerInv, Distinct, [Next]_vars, NEW o \in Services,
         LateOk(o)
  PROVE  LateOk(o)'
<1>0. /\ mSessions \in [Services -> SUBSET Fds] /\ autoFd \in [Services -> Nat]
      /\ \A fd \in Fds : late[o][fd] \in Nat
  BY DEF TypeInv, Types, ServerType, PastType
<1>1. pc'[o] \in Writing => fdOf'[o] \in mSessions'[o]
  <2>1. CASE Call(o)
    <3>1. pc'[o] \in Writing => fdOf'[o] \in mSessions[o]
      BY <2>1, OwnCall DEF LateOk
    <3>2. pc'[o] \in Writing => mSessions' = mSessions
      BY <2>1, ServerMoves DEF CloseEnd, MgrCloseEnd, Return, Goto, Writing, TypeInv,
                               Types, CallType
    <3> QED
      BY <3>1, <3>2
  <2>2. CASE ~Call(o)
    BY <2>2, OthersStand DEF CallStands, LateOk
  <2> QED
    BY <2>1, <2>2
<1>2. ASSUME NEW fd \in Fds
      PROVE  /\ late'[o][fd] <= 1
             /\ late'[o][fd] # late[o][fd] =>
                  /\ OnMsgPost /\ mainOn = o /\ mainFd = fd /\ fd \notin mSessions[o]
                  /\ late'[o][fd] = 1
  <2>1. CASE late'[o][fd] = late[o][fd]
    BY <2>1 DEF LateOk
  <2>2. CASE /\ OnMsgPost /\ mainOn = o /\ mainFd = fd /\ fd \notin mSessions[o]
             /\ late'[o][fd] = late[o][fd] + 1
    <3>1. late[o][fd] # 1
      BY <2>2 DEF LateOk, OnMsgPost
    <3> QED
      BY <1>0, <2>2, <3>1 DEF LateOk
  <2> QED
    BY <2>1, <2>2, ServerRecordMoves
<1>3. ASSUME NEW fd \in Fds, fd \in mSessions'[o] PROVE late'[o][fd] = 0
  <2>1. CASE fd \in mSessions[o]
    BY <1>2, <2>1 DEF LateOk
  <2>2. CASE OnAcceptor(o) /\ fd = autoFd[o]
    <3>1. late' = late /\ late[o][fd] = 0
      BY <1>0, <2>2, IdsFacts DEF OnAcceptor, FreshInv, Fresh
    <3> QED
      BY <3>1
  <2> QED
    BY <1>3, <2>1, <2>2, ServerRecordMoves
<1>4. ASSUME NEW fd \in Fds, late'[o][fd] = 1
      PROVE  /\ read'[o][fd] # "data"
             /\ ~(mainPc' \in {"getServer", "post"} /\ mainOn' = o /\ mainFd' = fd)
  <2>1. CASE late[o][fd] = 1
    <3>1. read'[o][fd] # "data"
      <4>1. ~InUse(o, fd)
        BY <2>1, InUseInMap DEF LateOk
      <4> QED
        BY <2>1, <4>1, ReadMoves DEF LateOk
    <3>2. ~OnRead(o, fd)
      BY <2>1 DEF LateOk, OnRead
    <3>3. ~(mainPc' \in {"getServer", "post"} /\ mainOn' = o /\ mainFd' = fd)
      BY <2>1, <3>2, MainMoves DEF LateOk
    <3> QED
      BY <3>1, <3>3
  <2>2. CASE late[o][fd] # 1
    <3>1. OnMsgPost /\ mainOn = o /\ mainFd = fd
      BY <1>2, <1>4, <2>2
    <3>2. mainPc' = "read" /\ read' = read /\ read[o][fd] = "none"
      BY <3>1 DEF OnMsgPost, MainGoto, HandlerInv, Reading
    <3> QED
      BY <3>2
  <2> QED
    BY <2>1, <2>2
<1> QED
  BY <1>1, <1>2, <1>3, <1>4 DEF LateOk

-----------------------------------------------------------------------------
TellInv == Distinct => \A s \in Services :
             CallbackOk(s) /\ ConnectOk(s) /\ CloseOk(s) /\ LateOk(s)

LEMMA TellInit == Init => TellInv
<1> SUFFICES ASSUME Init, NEW s \in Services
             PROVE  CallbackOk(s) /\ ConnectOk(s) /\ CloseOk(s) /\ LateOk(s)
  BY DEF TellInv
<1>1. CallbackOk(s) /\ LateOk(s)
  BY DEF Init, CallbackOk, LateOk, Events, OnFd, Writing
<1>2. \A fd \in Fds : ~Announced(s, fd) /\ ~(fd < autoFd[s])
  BY DEF Init, Announced, Fds
<1>3. ConnectOk(s) /\ CloseOk(s)
  BY <1>2 DEF Init, ConnectOk, CloseOk, OnFd
<1> QED
  BY <1>1, <1>3

LEMMA TellAlways == Spec => []TellInv
<1>1. KeepsInv /\ TellInv /\ [Next]_vars => TellInv'
  <2> SUFFICES ASSUME KeepsInv, TellInv, [Next]_vars, Distinct', NEW s \in Services
               PROVE  (CallbackOk(s) /\ ConnectOk(s) /\ CloseOk(s) /\ LateOk(s))'
    BY DEF TellInv
  <2>1. /\ TypeInv /\ FreshInv /\ HandlerInv /\ Distinct
        /\ CallbackOk(s) /\ ConnectOk(s) /\ CloseOk(s) /\ LateOk(s)
    BY DistinctBefore DEF KeepsInv, ReadInv, TellInv
  <2> QED
    BY <2>1, CallbackStep, ConnectStep, CloseStep, LateStep
<1> QED
  BY <1>1, TellInit, KeepsAlways, PTL DEF Spec

(* When no two services drew one id, a service hears of a connection first  *)
(* by its Connect and by one only, or never by one when it was accepted     *)
(* before the callback was set (TcpServer::onAcceptor, listenTcpServer).    *)
THEOREM ConnectFirstHolds == Spec => []ConnectFirst
<1>1. TypeInv /\ TellInv => ConnectFirst
  <2> SUFFICES ASSUME TypeInv, TellInv, Distinct, NEW s \in Services,
                      NEW k \in DOMAIN posted[s]
               PROVE  LET fd == posted[s][k].fd
                          connects == {j \in DOMAIN posted[s] :
                                         posted[s][j] = Msg(s, "connect", fd)}
                      IN  IF fd \in early[s] THEN connects = {}
                          ELSE \E j \in connects : j <= k /\ connects = {j}
    BY DEF ConnectFirst
  <2> DEFINE fd == posted[s][k].fd
             connects == {j \in DOMAIN posted[s] :
                            posted[s][j] = Msg(s, "connect", fd)}
  <2>1. posted[s] \in Seq(Messages) /\ ConnectOk(s)
    BY DEF TypeInv, Types, PostedType, TellInv
  <2>2. \A j \in DOMAIN posted[s] : posted[s][j] \in Messages
    BY <2>1
  <2>3. fd \in Fds
    BY <2>2 DEF Messages
  <2>4. connects = Told(s, "connect", fd)
    <3>1. \A j \in DOMAIN posted[s] : posted[s][j].id = ptr[s]
      BY <2>1 DEF ConnectOk
    <3>2. \A m \in Messages : m.id = ptr[s] =>
            (m = Msg(s, "connect", fd) <=> m.event = "connect" /\ m.fd = fd)
      BY DEF Messages, Msg
    <3> QED
      BY <2>2, <3>1, <3>2 DEF Told
  <2>5. Announced(s, fd)
    BY <2>1 DEF ConnectOk
  <2> HIDE DEF connects
  <2>6. ASSUME fd \in early[s] PROVE connects = {}
    BY <2>1, <2>4, <2>6 DEF ConnectOk
  <2>7. ASSUME fd \notin early[s] PROVE \E j \in connects : j <= k /\ connects = {j}
    <3>1. PICK j \in DOMAIN posted[s] :
            /\ Told(s, "connect", fd) = {j}
            /\ \A i \in DOMAIN posted[s] : posted[s][i].fd = fd => j <= i
      BY <2>1, <2>3, <2>5, <2>7 DEF ConnectOk
    <3>2. connects = {j}
      BY <2>4, <3>1
    <3>3. j <= k
      BY <3>1
    <3> QED
      BY <3>2, <3>3
  <2> QED
    BY <2>6, <2>7 DEF connects
<1> QED
  BY <1>1, KeepsAlways, TellAlways, PTL DEF KeepsInv

(* When no two services drew one id, a connection that is out of the map    *)
(* was announced closed (TcpServer::close, TcpServerMgr::close).            *)
THEOREM CloseAnnouncedHolds == Spec => []CloseAnnounced
<1>1. TypeInv /\ TellInv => CloseAnnounced
  <2> SUFFICES ASSUME TypeInv, TellInv, Distinct, NEW s \in Services, NEW fd \in Fds,
                      fd < autoFd[s], fd \notin mSessions[s]
               PROVE  \E k \in DOMAIN posted[s] : posted[s][k] = Msg(s, "close", fd)
    BY DEF CloseAnnounced
  <2>1. posted[s] \in Seq(Messages) /\ ConnectOk(s) /\ CloseOk(s)
    BY DEF TypeInv, Types, PostedType, TellInv
  <2>2. PICK k \in Told(s, "close", fd) : TRUE
    BY <2>1 DEF CloseOk
  <2>3. /\ k \in DOMAIN posted[s] /\ posted[s][k] \in Messages
        /\ posted[s][k].event = "close" /\ posted[s][k].fd = fd /\ posted[s][k].id = ptr[s]
    BY <2>1, <2>2 DEF Told, ConnectOk
  <2>4. posted[s][k] = Msg(s, "close", fd)
    BY <2>3 DEF Messages, Msg
  <2> QED
    BY <2>3, <2>4
<1> QED
  BY <1>1, KeepsAlways, TellAlways, PTL DEF KeepsInv

(* When no two services drew one id, a service gets one message at most of  *)
(* a connection after it was erased (TcpServer::close against               *)
(* TcpSession::onMsg).                                                      *)
THEOREM OneMessageLateHolds == Spec => []OneMessageLate
<1>1. TellInv => OneMessageLate
  BY DEF TellInv, LateOk, OneMessageLate
<1> QED
  BY <1>1, TellAlways, PTL
=============================================================================

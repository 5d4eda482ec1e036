------------------------------- MODULE Cluster -------------------------------
(***************************************************************************)
(* The cluster: src/services/clusterServ.lua and src/lualib/cluster.lua,   *)
(* on HttpClient.                                                          *)
(*                                                                         *)
(* A service of the near node asks its cluster service to run a request on *)
(* a far node.  The near cluster service finds the address of the far node *)
(* by http.get, keeps one tcp client per node in tcpClients and sends each *)
(* request as one packet; the far one runs it and answers calls with one   *)
(* packet.  Both take each read for one packet.                            *)
(*                                                                         *)
(* One far node.  Tcp clients are what TcpClient says of them: a connect   *)
(* succeeds or fails once, a close is told once.  A packet is two chunks,  *)
(* so that a read may hold part of it or more than it.  The messages of a  *)
(* connection and the bytes still on their way are one queue: what an      *)
(* error of onPoll loses of a batch is any beginning of these queues.      *)
(*                                                                         *)
(* An operator whose name extends the name of the one right below it is a  *)
(* mutant: what that operator would be if the code had a plausible slip.   *)
(***************************************************************************)
EXTENDS HttpClient

CONSTANTS
  Sends,       (* the requests made with cluster.send: session 0            *)
  MaxLinks     (* tcp clients of the near node (bounds the runs)            *)

ASSUME RequestAssumption ==
  /\ Users # {} /\ Sends \subseteq Users
  /\ MaxLinks \in Nat

VARIABLES
  cluster,     (* the near cluster service: absent, running, gone           *)
  clusterId,   (* what cluster.lua of the caller keeps: unset, none, found  *)
  pc,          (* request: how far the near cluster service is with it      *)
  outcome,     (* request: what api.call returned, waiting before           *)
  tcpClients,  (* the tcp client of the far node in the table, or 0         *)
  alive,       (* the tcp clients that were made and not destroyed          *)
  links,       (* the tcp clients made so far                               *)
  owner,       (* tcp client: the request whose coroutine made it           *)
  link,        (* tcp client: the state of its connection                   *)
  to, from,    (* tcp client: what is on its way to the far node and back   *)
  executed,    (* request: how often the far node ran it                    *)
  serving,     (* [req, on, id]: an api.call of the far node that has to    *)
               (* return, id being that of the service or 0                 *)
  dropping,    (* the nodes where an error in onPoll is losing a batch      *)
  stray        (* history: requests with an answer nobody waited for        *)

nearVars == <<cluster, clusterId, pc, outcome, stray>>
linkVars == <<tcpClients, alive, links, owner, link>>
farVars  == <<executed, serving>>
vars == <<nearVars, linkVars, to, from, farVars, dropping, httpVars>>

(* cluster.send and cluster.call of one service, the users of the pool here. *)
Requests == Users
Links == 1..MaxLinks
Pcs   == {"new", "refused", "posted", "queued", "lookup", "done", "lost"}

Init ==
  /\ HttpInit
  /\ cluster = "absent" /\ clusterId = "unset"
  /\ pc = [r \in Requests |-> "new"]
  /\ outcome = [r \in Requests |-> "none"]
  /\ tcpClients = 0 /\ alive = {} /\ links = 0
  /\ owner = [k \in Links |-> CHOOSE r \in Requests : TRUE]
  /\ link = [k \in Links |-> "none"]
  /\ to = [k \in Links |-> <<>>] /\ from = [k \in Links |-> <<>>]
  /\ executed = [r \in Requests |-> 0]
  /\ serving = {} /\ dropping = {} /\ stray = {}

(* string.pack: a packet, kind being request, ok, fail, or text for a body  *)
(* that is no json; an event of the connection is one item.                 *)
Packet(kind, r) == <<[kind |-> kind, req |-> r, part |-> 1],
                     [kind |-> kind, req |-> r, part |-> 2]>>
Event(kind, k)  == <<[kind |-> kind, req |-> owner[k], part |-> 0]>>
IsEvent(item)   == item.part = 0

(* write_some may take less than the packet, and still be true.             *)
Written(packet) == {packet, SubSeq(packet, 1, 1)}

(* string.unpack needs a whole packet at the start and never looks behind.  *)
IsWhole(read) == Len(read) >= 2 /\ read[1].part = 1 /\ read[2].part = 2

Near == cluster = "running" /\ "near" \notin dropping
Far  == "far" \notin dropping

SetPc(r, c) == pc' = [pc EXCEPT ![r] = c]

(* api.response: it resumes the call that waits; when none does, onPoll of  *)
(* the caller returns and drops the rest of its batch.                      *)
Response(r, result) ==
  IF outcome[r] = "waiting"
  THEN outcome' = [outcome EXCEPT ![r] = result] /\ UNCHANGED stray
  ELSE stray' = stray \union {r} /\ UNCHANGED outcome

NoResponse == UNCHANGED <<outcome, stray>>
-----------------------------------------------------------------------------
(* The caller: cluster.lua.                                                 *)

StartCluster ==
  /\ cluster = "absent" /\ cluster' = "running"
  /\ UNCHANGED <<clusterId, pc, outcome, stray, linkVars, to, from, farVars,
                 dropping, httpVars>>

(* The id is looked up once: found or not, it is kept, for 0 is true in     *)
(* Lua.  Without an id the assert fails; a message to an id that is gone is *)
(* lost, and a call is then left to its timeout.                            *)
LookedUp == IF clusterId # "unset" THEN clusterId
            ELSE IF cluster = "running" THEN "found" ELSE "none"

Ask(r) ==
  /\ pc[r] = "new"
  /\ clusterId' = LookedUp
  /\ SetPc(r, IF LookedUp = "none" THEN "refused"
              ELSE IF cluster = "running" THEN "posted" ELSE "lost")
  /\ outcome' = IF LookedUp = "found" /\ r \notin Sends
                THEN [outcome EXCEPT ![r] = "waiting"] ELSE outcome
  /\ UNCHANGED <<cluster, stray, linkVars, to, from, farVars, dropping,
                 httpVars>>

TimeOut(r) ==
  /\ outcome[r] = "waiting"
  /\ outcome' = [outcome EXCEPT ![r] = "timeout"]
  /\ UNCHANGED <<cluster, clusterId, pc, stray, linkVars, to, from, farVars,
                 dropping, httpVars>>
-----------------------------------------------------------------------------
(* The near cluster service.                                                *)

(* The dispatch of "send": the rest is api.async.                           *)
Dispatch(r) ==
  /\ Near /\ pc[r] = "posted"
  /\ SetPc(r, "queued")
  /\ UNCHANGED <<cluster, clusterId, outcome, stray, linkVars, to, from,
                 farVars, dropping, httpVars>>

(* The bytes of a send that does not find out that the peer is gone are     *)
(* lost.                                                                    *)
SendPacket(k, r) ==
  IF link[k] # "up" THEN UNCHANGED to
  ELSE \E bytes \in Written(Packet("request", r)) :
         to' = [to EXCEPT ![k] = @ \o bytes]

(* A client in the table that sends is all; one that fails is destroyed,    *)
(* and the coroutine goes on as if there had been none.                     *)
AfterSendRetries == "lookup"
AfterSend == "done"

SendOnClient(r) ==
  /\ Near /\ pc[r] = "queued" /\ tcpClients # 0
  /\ \/ /\ SendPacket(tcpClients, r)
        /\ SetPc(r, AfterSend)
        /\ UNCHANGED <<tcpClients, alive>>
     \/ /\ link[tcpClients] = "closed"
        /\ alive' = alive \ {tcpClients} /\ tcpClients' = 0
        /\ SetPc(r, "lookup") /\ UNCHANGED to
  /\ UNCHANGED <<cluster, clusterId, outcome, stray, links, owner, link, from,
                 farVars, dropping, httpVars>>

NoClient(r) ==
  /\ Near /\ pc[r] = "queued" /\ tcpClients = 0
  /\ SetPc(r, "lookup")
  /\ UNCHANGED <<cluster, clusterId, outcome, stray, linkVars, to, from,
                 farVars, dropping, httpVars>>

(* http.get inside the coroutine; one that is not started returns nil, and  *)
(* response.status is an error that ends the coroutine.                     *)
Lookup(r) ==
  /\ Near /\ pc[r] = "lookup"
  /\ \/ (NewClient(r) \/ PerformRequest(r)) /\ UNCHANGED pc
     \/ NotStarted(r) /\ SetPc(r, "lost")
  /\ UNCHANGED <<cluster, clusterId, outcome, stray, linkVars, to, from,
                 farVars, dropping>>

(* The answer: assert(status == 200), a new client, connect.                *)
Found(r) ==
  /\ Near /\ pc[r] = "lookup" /\ Resume(r)
  /\ \/ /\ SetPc(r, "lost") /\ NoResponse
        /\ UNCHANGED <<alive, links, owner, link>>
     \/ /\ links < MaxLinks
        /\ links' = links + 1
        /\ alive' = alive \union {links'}
        /\ owner' = [owner EXCEPT ![links'] = r]
        /\ \/ link' = [link EXCEPT ![links'] = "connecting"] /\ NoResponse
           \/ UNCHANGED link /\ Response(r, "false")
        /\ SetPc(r, "done")
  /\ UNCHANGED <<cluster, clusterId, tcpClients, to, from, farVars, dropping>>

(* What asio reports of the connections.                                    *)
Connected(k, ok) ==
  /\ link[k] = "connecting"
  /\ link' = [link EXCEPT ![k] = IF ok THEN "up" ELSE "closed"]
  /\ from' = [from EXCEPT ![k] = Event(IF ok THEN "connect" ELSE "error", k)]
  /\ UNCHANGED <<nearVars, tcpClients, alive, links, owner, to, farVars,
                 dropping, httpVars>>

Disconnected(k) ==
  /\ link[k] = "up"
  /\ link' = [link EXCEPT ![k] = "closed"]
  /\ from' = [from EXCEPT ![k] = @ \o Event("close", k)]
  /\ UNCHANGED <<nearVars, tcpClients, alive, links, owner, to, farVars,
                 dropping, httpVars>>

(* The messages of a tcp client, as long as it is not destroyed.            *)
Told(k, kind) ==
  /\ Near /\ k \in alive /\ from[k] # <<>> /\ Head(from[k]).kind = kind
  /\ from' = [from EXCEPT ![k] = Tail(@)]

(* onConnectFunc: the client is the one of its node, whoever was before.    *)
OnConnect(k) ==
  /\ Told(k, "connect")
  /\ tcpClients' = k
  /\ SendPacket(k, owner[k])
  /\ UNCHANGED <<nearVars, alive, links, owner, link, farVars, dropping,
                 httpVars>>

OnConnectError(k) ==
  /\ Told(k, "error")
  /\ Response(owner[k], "false")
  /\ UNCHANGED <<cluster, clusterId, pc, linkVars, to, farVars, dropping,
                 httpVars>>

(* onCloseFunc empties the table, whoever is in it.                         *)
TableAfterCloseKept == tcpClients
TableAfterClose == 0

OnClose(k) ==
  /\ Told(k, "close")
  /\ alive' = alive \ {k}
  /\ tcpClients' = TableAfterClose
  /\ UNCHANGED <<nearVars, links, owner, link, to, farVars, dropping, httpVars>>

(* onClientResponse: a body that is no json is nil to table.unpack.         *)
UnderstoodAll(kind) == TRUE
Understood(kind) == kind # "text"

Result(kind) == IF kind = "ok" THEN "ok" ELSE "false"

OnClientResponse(k, n) ==
  LET read == SubSeq(from[k], 1, n) IN
    /\ Near /\ k \in alive /\ n \in 1..Len(from[k])
    /\ \A i \in 1..n : ~IsEvent(read[i])
    /\ from' = [from EXCEPT ![k] = SubSeq(@, n + 1, Len(@))]
    /\ IF IsWhole(read) /\ Understood(read[1].kind)
       THEN Response(read[1].req, Result(read[1].kind)) /\ UNCHANGED dropping
       ELSE NoResponse /\ dropping' = dropping \union {"near"}
    /\ UNCHANGED <<cluster, clusterId, pc, linkVars, to, farVars, httpVars>>

(* api.shutdown destroys the client of the table.                           *)
StopCluster ==
  /\ Near
  /\ cluster' = "gone"
  /\ alive' = alive \ {tcpClients}
  /\ UNCHANGED <<clusterId, pc, outcome, stray, tcpClients, links, owner, link,
                 to, from, farVars, dropping, httpVars>>

(* The rest of the batch after an error.                                    *)
DropNear ==
  /\ cluster = "running" /\ "near" \in dropping
  /\ \/ /\ dropping' = dropping \ {"near"} /\ UNCHANGED <<from, pc, httpVars>>
     \/ /\ \E k \in Links : from[k] # <<>> /\ from' = [from EXCEPT ![k] = Tail(@)]
        /\ UNCHANGED <<dropping, pc, httpVars>>
     \/ \E r \in Requests :
          /\ \/ pc[r] = "posted" /\ UNCHANGED httpVars
             \/ pc[r] = "lookup" /\ Resume(r)
          /\ SetPc(r, "lost") /\ UNCHANGED <<dropping, from>>
  /\ UNCHANGED <<cluster, clusterId, outcome, stray, linkVars, to, farVars>>
-----------------------------------------------------------------------------
(* The far cluster service.                                                 *)

(* sendResponse: tcpServer:send finds the connection, or an error is logged.*)
SendResponse(k, kind, r) ==
  IF link[k] # "up" THEN UNCHANGED from
  ELSE \E bytes \in Written(Packet(kind, r)) :
         from' = [from EXCEPT ![k] = @ \o bytes]

(* queryService finds the name or not.  Without the service the answer goes *)
(* out at once, and the call is made all the same, to id 0: it ends by its  *)
(* timeout.                                                                 *)
OnMsg(k, n) ==
  LET read == SubSeq(to[k], 1, n)
      r    == read[1].req
  IN  /\ Far /\ n \in 1..Len(to[k])
      /\ to' = [to EXCEPT ![k] = SubSeq(@, n + 1, Len(@))]
      /\ \/ /\ ~IsWhole(read)
            /\ dropping' = dropping \union {"far"}
            /\ UNCHANGED <<executed, serving, from>>
         \/ \E id \in {0, 1} :
              /\ IsWhole(read)
              /\ executed' = [executed EXCEPT ![r] = @ + id]
              /\ serving' = IF r \in Sends THEN serving ELSE
                              serving \union {[req |-> r, on |-> k, id |-> id]}
              /\ IF id = 0 /\ r \notin Sends THEN SendResponse(k, "text", r)
                                           ELSE UNCHANGED from
              /\ UNCHANGED dropping
      /\ UNCHANGED <<nearVars, linkVars, httpVars>>

CallReturns(call, isOk) ==
  /\ call \in serving
  /\ isOk => call.id # 0
  /\ serving' = serving \ {call}
  /\ SendResponse(call.on, IF isOk THEN "ok" ELSE "fail", call.req)
  /\ UNCHANGED <<nearVars, linkVars, to, executed, dropping, httpVars>>

DropFar ==
  /\ "far" \in dropping
  /\ \/ dropping' = dropping \ {"far"} /\ UNCHANGED to
     \/ /\ \E k \in Links : to[k] # <<>> /\ to' = [to EXCEPT ![k] = Tail(@)]
        /\ UNCHANGED dropping
  /\ UNCHANGED <<nearVars, linkVars, from, farVars, httpVars>>
-----------------------------------------------------------------------------
Caller == StartCluster \/ \E r \in Requests : Ask(r) \/ TimeOut(r)

NearStep ==
  \/ StopCluster \/ DropNear
  \/ \E r \in Requests :
       Dispatch(r) \/ SendOnClient(r) \/ NoClient(r) \/ Lookup(r) \/ Found(r)
  \/ \E k \in Links : OnConnect(k) \/ OnConnectError(k) \/ OnClose(k)
  \/ \E k \in Links : \E n \in DOMAIN from[k] : OnClientResponse(k, n)

FarStep ==
  \/ DropFar
  \/ \E k \in Links : \E n \in DOMAIN to[k] : OnMsg(k, n)
  \/ \E call \in serving, isOk \in BOOLEAN : CallReturns(call, isOk)

Network ==
  \E k \in Links : Disconnected(k) \/ \E ok \in BOOLEAN : Connected(k, ok)

Http ==
  /\ ClientThread
  /\ UNCHANGED <<nearVars, linkVars, to, from, farVars, dropping>>

Next == Caller \/ NearStep \/ FarStep \/ Network \/ Http

Spec == Init /\ [][Next]_vars
-----------------------------------------------------------------------------
Items == [kind : {"request", "ok", "fail", "text", "connect", "error", "close"},
          req : Requests, part : 0..2]

TypeOK ==
  /\ HttpTypeOK
  /\ cluster \in {"absent", "running", "gone"}
  /\ clusterId \in {"unset", "none", "found"}
  /\ pc \in [Requests -> Pcs]
  /\ outcome \in [Requests -> {"none", "waiting", "ok", "false", "timeout"}]
  /\ tcpClients \in {0} \union Links
  /\ links \in 0..MaxLinks /\ alive \subseteq 1..links
  /\ owner \in [Links -> Requests]
  /\ link \in [Links -> {"none", "connecting", "up", "closed"}]
  /\ to \in [Links -> Seq(Items)] /\ from \in [Links -> Seq(Items)]
  /\ executed \in [Requests -> Nat]
  /\ serving \subseteq [req : Requests \ Sends, on : Links, id : {0, 1}]
  /\ dropping \subseteq {"near", "far"}
  /\ stray \subseteq Requests

(* However often connections break and are made again, the far node runs a  *)
(* request once at most: what a send reported done is not sent again.       *)
AtMostOnce == \A r \in Requests : executed[r] <= 1

(* A call that returned true was run by the far node, though reads are cut  *)
(* and joined, answers lost and connections replaced.                       *)
NoFalseSuccess == \A r \in Requests : outcome[r] = "ok" => executed[r] = 1

(* The two together: nothing is run twice, and success is one execution.    *)
ExecutedOnce == TypeOK /\ AtMostOnce /\ NoFalseSuccess

(* An answer nobody waits for, which costs the caller the rest of its       *)
(* batch, comes of a call that timed out, or of a send that could not       *)
(* connect and is answered all the same: no call is answered twice.         *)
StrayOnlyLate ==
  \A r \in stray : r \in Sends \/ outcome[r] = "timeout"

(* The table never keeps a client that was destroyed, though the close of   *)
(* one client empties it of another.                                        *)
NoDeadEntry == cluster = "running" /\ tcpClients # 0 => tcpClients \in alive

(* A caller that asks before the cluster service is there is refused for    *)
(* good, though the service comes up: cluster.lua keeps what it found.      *)
EarlyIsForGood ==
  (\E r \in Requests : pc[r] = "refused") =>
    \A r \in Requests : pc[r] \in {"new", "refused"}
=============================================================================

----------------------------- MODULE HttpClient -----------------------------
(***************************************************************************)
(* The pool of http clients: src/http/client and get and post of           *)
(* src/lualib/net/http.lua.                                                *)
(*                                                                         *)
(* A coroutine that calls http.get or http.post takes a client from the    *)
(* pool, on the worker of its service, and waits.  The client runs the     *)
(* request on a thread of its own (ixwebsocket, external), posts the       *)
(* answer to the service and only then gives itself back.  Each operation  *)
(* of HttpClientMgr is one step under its lock.                            *)
(*                                                                         *)
(* Of a request only its way through the pool is kept: url, headers, form  *)
(* and body are left out, but for the request that never starts.           *)
(* performRequest of such a client always returns true: it queues the      *)
(* request, so the destroyClient of a refused one never runs.              *)
(*                                                                         *)
(* An operator whose name extends the name of the one right below it is a  *)
(* mutant: what that operator would be if the code had a plausible slip.   *)
(***************************************************************************)
EXTENDS Naturals, Sequences, FiniteSets

CONSTANTS
  Users,     (* the coroutines that make requests                           *)
  MaxHttp    (* requests of each (bounds the runs)                          *)

ASSUME HttpAssumption == MaxHttp \in Nat /\ IsFiniteSet(Users)

VARIABLES
  mAutoId,       (* the next id; the clients made so far are below it       *)
  mFreeClients,  (* the ids that wait for their next request, oldest first  *)
  stage,         (* user: idle, taken: it has a client, running: the client *)
                 (* has the request, answered: the answer is posted         *)
  client,        (* user: the client of its last request, 0 before          *)
  giving,        (* the clients between posting and destroyClient           *)
  leaked,        (* history: clients of requests that never started         *)
  peak,          (* history: the most clients ever busy at a time           *)
  requests       (* user: requests so far                                   *)

httpVars == <<mAutoId, mFreeClients, stage, client, giving, leaked, peak,
              requests>>

Stages == {"idle", "taken", "running", "answered"}
Made   == 1..(mAutoId - 1)
Holds(u) == stage[u] \in {"taken", "running"}
Busy == {client[u] : u \in {v \in Users : Holds(v)}} \union giving
Free == {mFreeClients[k] : k \in DOMAIN mFreeClients}

FirstId == 1

HttpInit ==
  /\ mAutoId = FirstId /\ mFreeClients = <<>>
  /\ stage = [u \in Users |-> "idle"] /\ client = [u \in Users |-> 0]
  /\ giving = {} /\ leaked = {} /\ peak = 0
  /\ requests = [u \in Users |-> 0]

(* newClient: the oldest free client, or one more.                          *)
ReuseNever == FALSE
Reuse == mFreeClients # <<>>

RestKept == mFreeClients
Rest == Tail(mFreeClients)

NewClient(u) ==
  /\ stage[u] = "idle" /\ requests[u] < MaxHttp
  /\ requests' = [requests EXCEPT ![u] = @ + 1]
  /\ stage' = [stage EXCEPT ![u] = "taken"]
  /\ \/ /\ Reuse
        /\ client' = [client EXCEPT ![u] = Head(mFreeClients)]
        /\ mFreeClients' = Rest /\ UNCHANGED mAutoId
     \/ /\ ~Reuse
        /\ client' = [client EXCEPT ![u] = mAutoId]
        /\ mAutoId' = mAutoId + 1 /\ UNCHANGED mFreeClients
  /\ LET n == Cardinality(Busy) + 1 IN peak' = IF n > peak THEN n ELSE peak
  /\ UNCHANGED <<giving, leaked>>

(* An empty url returns false and a key or value that is no string is an    *)
(* error of Lua: either way the client stays taken for good.                *)
NotStarted(u) ==
  /\ stage[u] = "taken"
  /\ stage' = [stage EXCEPT ![u] = "idle"]
  /\ leaked' = leaked \union {client[u]}
  /\ UNCHANGED <<mAutoId, mFreeClients, client, giving, peak, requests>>

PerformRequest(u) ==
  /\ stage[u] = "taken"
  /\ stage' = [stage EXCEPT ![u] = "running"]
  /\ UNCHANGED <<mAutoId, mFreeClients, client, giving, leaked, peak, requests>>

(* The callback, with a status and a body or an error: it posts, then calls *)
(* destroyClient, on the thread of the client.                              *)
Respond(u) ==
  /\ stage[u] = "running"
  /\ stage' = [stage EXCEPT ![u] = "answered"]
  /\ giving' = giving \union {client[u]}
  /\ UNCHANGED <<mAutoId, mFreeClients, client, leaked, peak, requests>>

GivenBack(c) == Append(mFreeClients, c)

DestroyClient(c) ==
  /\ c \in giving
  /\ giving' = giving \ {c}
  /\ mFreeClients' = GivenBack(c)
  /\ UNCHANGED <<mAutoId, stage, client, leaked, peak, requests>>

(* onPoll resumes the coroutine of the session.                             *)
Resume(u) ==
  /\ stage[u] = "answered"
  /\ stage' = [stage EXCEPT ![u] = "idle"]
  /\ UNCHANGED <<mAutoId, mFreeClients, client, giving, leaked, peak, requests>>

(* What goes on without the coroutine.                                      *)
ClientThread ==
  \/ \E u \in Users : Respond(u)
  \/ \E c \in Made : DestroyClient(c)

HttpCall(u) == NewClient(u) \/ NotStarted(u) \/ PerformRequest(u)
HttpNext == ClientThread \/ \E u \in Users : HttpCall(u) \/ Resume(u)
HttpSpec == HttpInit /\ [][HttpNext]_httpVars
-----------------------------------------------------------------------------
HttpTypeOK ==
  /\ mAutoId \in Nat \ {0}
  /\ mFreeClients \in Seq(Nat)
  /\ stage \in [Users -> Stages]
  /\ client \in [Users -> Nat]
  /\ giving \in SUBSET Nat /\ leaked \in SUBSET Nat
  /\ peak \in Nat
  /\ requests \in [Users -> Nat]

(* A client serves one request at a time: it is free once, or in the hands  *)
(* of one coroutine, or giving itself back, or leaked, and never two of     *)
(* these.  Two requests on one client would wait for each other's transfer. *)
(* newClient and destroyClient on many threads.                             *)
ExclusiveClient ==
  /\ \A u, v \in Users : Holds(u) /\ Holds(v) /\ client[u] = client[v] => u = v
  /\ \A j, k \in DOMAIN mFreeClients :
       mFreeClients[j] = mFreeClients[k] => j = k
  /\ \A u \in Users : Holds(u) => client[u] \notin Free \union giving \union leaked
  /\ Free \intersect giving = {}
  /\ leaked \intersect (Free \union giving) = {}

(* No client gets lost but by a request that never started.                 *)
Accounted == Made = Busy \union Free \union leaked

(* So the pool grows to the most requests ever going on at a time, and by   *)
(* one for each request that never started: by those without end.           *)
PoolBounded ==
  Accounted /\ mAutoId - 1 <= peak + Cardinality(leaked)
=============================================================================

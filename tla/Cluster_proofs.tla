--------------------------- MODULE Cluster_proofs ---------------------------
(* Theorems about HttpClient, for any coroutines and any number of          *)
(* requests, and about Cluster, for any requests, connections and sends:    *)
(* what the pool of http clients promises, it promises to the cluster       *)
(* service.                                                                 *)
EXTENDS Cluster, FiniteSetTheorems, TLAPS

USE DEF httpVars

(* What newClient relies on: every client that is anywhere was made.        *)
AllMade ==
  /\ \A u \in Users : Holds(u) => client[u] \in Made
  /\ Free \subseteq Made /\ giving \subseteq Made /\ leaked \subseteq Made

PoolInv == HttpTypeOK /\ ExclusiveClient /\ AllMade
-----------------------------------------------------------------------------
(* The queue of the free clients.                                           *)

LEMMA FreeHead ==
  ASSUME mFreeClients \in Seq(Nat), mFreeClients # <<>>,
         \A j, k \in DOMAIN mFreeClients :
           mFreeClients[j] = mFreeClients[k] => j = k,
         mFreeClients' = Tail(mFreeClients)
  PROVE  /\ Head(mFreeClients) \in Free
         /\ Free' = Free \ {Head(mFreeClients)}
         /\ \A j, k \in DOMAIN mFreeClients' :
              mFreeClients'[j] = mFreeClients'[k] => j = k
<1> DEFINE n == Len(mFreeClients)
<1>1. n \in Nat /\ n >= 1 /\ DOMAIN mFreeClients = 1..n
  OBVIOUS
<1>2. Head(mFreeClients) = mFreeClients[1]
  OBVIOUS
<1>3. /\ DOMAIN mFreeClients' = 1..(n - 1)
      /\ \A k \in 1..(n - 1) : mFreeClients'[k] = mFreeClients[k + 1]
  BY <1>1
<1>4. Head(mFreeClients) \in Free
  BY <1>1, <1>2 DEF Free
<1>5. \A k \in 1..(n - 1) : k + 1 \in 1..n /\ k + 1 # 1
  BY <1>1
<1>6. ASSUME NEW i \in Free' PROVE i \in Free \ {Head(mFreeClients)}
  <2>1. PICK k \in 1..(n - 1) : i = mFreeClients[k + 1]
    BY <1>6, <1>3 DEF Free
  <2>2. k + 1 \in DOMAIN mFreeClients /\ k + 1 # 1 /\ 1 \in DOMAIN mFreeClients
    BY <1>1, <1>5
  <2> QED
    BY <2>1, <2>2, <1>2 DEF Free
<1>7. ASSUME NEW i \in Free, i # Head(mFreeClients) PROVE i \in Free'
  <2>1. PICK k \in 1..n : i = mFreeClients[k]
    BY <1>7, <1>1 DEF Free
  <2>2. k # 1 /\ k - 1 \in 1..(n - 1) /\ (k - 1) + 1 = k
    BY <2>1, <1>7, <1>2, <1>1
  <2>3. i = mFreeClients'[k - 1]
    BY <2>1, <2>2, <1>3
  <2> QED
    BY <2>2, <2>3, <1>3 DEF Free
<1>8. ASSUME NEW j \in 1..(n - 1), NEW k \in 1..(n - 1),
             mFreeClients'[j] = mFreeClients'[k]
      PROVE  j = k
  <2>1. mFreeClients[j + 1] = mFreeClients[k + 1]
    BY <1>8, <1>3
  <2>2. j + 1 = k + 1
    BY <2>1, <1>1, <1>5
  <2> QED
    BY <2>2
<1> QED
  BY <1>3, <1>4, <1>6, <1>7, <1>8

LEMMA FreeAppend ==
  ASSUME mFreeClients \in Seq(Nat), NEW c \in Nat, c \notin Free,
         \A j, k \in DOMAIN mFreeClients :
           mFreeClients[j] = mFreeClients[k] => j = k,
         mFreeClients' = Append(mFreeClients, c)
  PROVE  /\ Free' = Free \union {c}
         /\ \A j, k \in DOMAIN mFreeClients' :
              mFreeClients'[j] = mFreeClients'[k] => j = k
<1> DEFINE n == Len(mFreeClients)
<1>1. n \in Nat /\ DOMAIN mFreeClients = 1..n
  OBVIOUS
<1>2. /\ DOMAIN mFreeClients' = 1..(n + 1)
      /\ \A k \in 1..n : mFreeClients'[k] = mFreeClients[k]
      /\ mFreeClients'[n + 1] = c
  BY <1>1
<1>3. \A k \in 1..(n + 1) : k \in 1..n \/ k = n + 1
  BY <1>1
<1>4. \A k \in 1..n : k \in 1..(n + 1)
  BY <1>1
<1>5. \A k \in 1..n : mFreeClients[k] # c
  BY <1>1 DEF Free
<1>6. n + 1 \in 1..(n + 1)
  BY <1>1
<1>7. Free' = Free \union {c}
  BY <1>1, <1>2, <1>3, <1>4, <1>6 DEF Free
<1>8. \A j, k \in 1..(n + 1) : mFreeClients'[j] = mFreeClients'[k] => j = k
  BY <1>1, <1>2, <1>3, <1>5
<1> QED
  BY <1>2, <1>7, <1>8
-----------------------------------------------------------------------------
(* The steps of the pool.                                                   *)

LEMMA PoolInit == HttpInit => PoolInv
<1> SUFFICES ASSUME HttpInit PROVE PoolInv
  OBVIOUS
<1>1. HttpTypeOK
  BY DEF HttpInit, FirstId, HttpTypeOK, Stages
<1>2. \A u \in Users : ~Holds(u)
  BY DEF HttpInit, Holds
<1>3. Free = {} /\ DOMAIN mFreeClients = {}
  BY DEF HttpInit, Free
<1>4. giving = {} /\ leaked = {}
  BY DEF HttpInit
<1> QED
  BY <1>1, <1>2, <1>3, <1>4 DEF PoolInv, ExclusiveClient, AllMade

(* newClient: a client that nobody has, from the queue or made for it.      *)
FromQueue(c) ==
  /\ c \in Free /\ Free' = Free \ {c}
  /\ UNCHANGED mAutoId /\ Made' = Made

MadeNow(c) ==
  /\ Free = {} /\ Free' = {}
  /\ c = mAutoId /\ mAutoId' = mAutoId + 1 /\ Made' = Made \union {c}

LEMMA TakesOne ==
  ASSUME PoolInv, NEW u \in Users, NewClient(u)
  PROVE  LET c == client'[u] IN
           /\ c \in Nat /\ client' = [client EXCEPT ![u] = c]
           /\ FromQueue(c) \/ MadeNow(c)
           /\ c \notin giving \union leaked
           /\ \A v \in Users : Holds(v) => client[v] # c
           /\ mFreeClients' \in Seq(Nat)
           /\ \A j, k \in DOMAIN mFreeClients' :
                mFreeClients'[j] = mFreeClients'[k] => j = k
<1> DEFINE c == client'[u]
<1>1. /\ mAutoId \in Nat \ {0} /\ mFreeClients \in Seq(Nat)
      /\ client \in [Users -> Nat]
  BY DEF PoolInv, HttpTypeOK
<1>2. /\ \A j, k \in DOMAIN mFreeClients :
           mFreeClients[j] = mFreeClients[k] => j = k
      /\ \A v \in Users : Holds(v) =>
           client[v] \in Made /\ client[v] \notin Free
      /\ Free \intersect giving = {} /\ leaked \intersect Free = {}
      /\ giving \subseteq Made /\ leaked \subseteq Made
  BY DEF PoolInv, ExclusiveClient, AllMade
<1>3. CASE mFreeClients # <<>>
  <2>1. /\ client' = [client EXCEPT ![u] = Head(mFreeClients)]
        /\ mFreeClients' = Tail(mFreeClients) /\ UNCHANGED mAutoId
    BY <1>3 DEF NewClient, Reuse, Rest
  <2>2. c = Head(mFreeClients) /\ Head(mFreeClients) \in Nat
    BY <2>1, <1>1, <1>3
  <2>3. Made' = Made
    BY <2>1 DEF Made
  <2> QED
    BY <2>1, <2>2, <2>3, <1>1, <1>2, <1>3, FreeHead DEF FromQueue
<1>4. CASE mFreeClients = <<>>
  <2>1. /\ client' = [client EXCEPT ![u] = mAutoId]
        /\ mFreeClients' = mFreeClients /\ mAutoId' = mAutoId + 1
    BY <1>4 DEF NewClient, Reuse
  <2>2. c = mAutoId /\ mAutoId \in Nat
    BY <2>1, <1>1
  <2>3. Free = {} /\ Free' = {}
    BY <1>4, <2>1 DEF Free
  <2>4. mAutoId \notin Made /\ Made' = Made \union {mAutoId}
    BY <1>1, <2>1 DEF Made
  <2>5. MadeNow(c)
    BY <2>1, <2>2, <2>3, <2>4 DEF MadeNow
  <2>6. c \notin giving \union leaked
    BY <1>2, <2>2, <2>4
  <2>7. \A v \in Users : Holds(v) => client[v] # c
    BY <1>2, <2>2, <2>4
  <2> QED
    BY <1>1, <1>2, <2>1, <2>2, <2>5, <2>6, <2>7
<1> QED
  BY <1>3, <1>4

(* So Busy is finite, and its size a number.                                *)
LEMMA BusySize ==
  ASSUME mAutoId \in Nat, Busy \subseteq Made
  PROVE  IsFiniteSet(Busy) /\ Cardinality(Busy) \in Nat
<1>1. IsFiniteSet(Made)
  BY FS_Interval DEF Made
<1> QED
  BY <1>1, FS_Subset, FS_CardinalityType

LEMMA BusyMade == PoolInv => Busy \subseteq Made
BY DEF PoolInv, AllMade, Busy

LEMMA NewClientStep ==
  ASSUME PoolInv, NEW u \in Users, NewClient(u)
  PROVE  PoolInv'
<1> DEFINE c == client'[u]
<1>1. /\ HttpTypeOK /\ ExclusiveClient /\ AllMade
  BY DEF PoolInv
<1>2. /\ stage[u] = "idle"
      /\ requests' = [requests EXCEPT ![u] = @ + 1]
      /\ stage' = [stage EXCEPT ![u] = "taken"]
      /\ UNCHANGED <<giving, leaked>>
      /\ peak' = IF Cardinality(Busy) + 1 > peak THEN Cardinality(Busy) + 1
                                                 ELSE peak
  BY DEF NewClient
<1>3. /\ c \in Nat /\ client' = [client EXCEPT ![u] = c]
      /\ FromQueue(c) \/ MadeNow(c)
      /\ c \notin giving \union leaked
      /\ \A v \in Users : Holds(v) => client[v] # c
      /\ mFreeClients' \in Seq(Nat)
      /\ \A j, k \in DOMAIN mFreeClients' :
           mFreeClients'[j] = mFreeClients'[k] => j = k
  BY TakesOne
<1>4. c \notin Free' /\ Free' \subseteq Free
  BY <1>3, <1>1 DEF FromQueue, MadeNow
<1>5. c \in Made' /\ Made \subseteq Made' /\ mAutoId' \in Nat \ {0}
  <2>1. CASE FromQueue(c)
    BY <2>1, <1>1 DEF FromQueue, AllMade, HttpTypeOK
  <2>2. CASE MadeNow(c)
    BY <2>2, <1>1 DEF MadeNow, HttpTypeOK
  <2> QED
    BY <1>3, <2>1, <2>2
<1>6. peak' \in Nat
  <2>1. Cardinality(Busy) \in Nat
    BY <1>1, BusySize, BusyMade DEF HttpTypeOK
  <2> QED
    BY <2>1, <1>1, <1>2 DEF HttpTypeOK
<1>7. HttpTypeOK'
  <2>1. stage' \in [Users -> Stages]
    BY <1>1, <1>2 DEF HttpTypeOK, Stages
  <2>2. requests' \in [Users -> Nat]
    BY <1>1, <1>2 DEF HttpTypeOK
  <2>3. client' \in [Users -> Nat]
    BY <1>1, <1>3 DEF HttpTypeOK
  <2>4. giving' \in SUBSET Nat /\ leaked' \in SUBSET Nat
    BY <1>1, <1>2 DEF HttpTypeOK
  <2> QED
    BY <2>1, <2>2, <2>3, <2>4, <1>3, <1>5, <1>6 DEF HttpTypeOK
<1>8. \A v \in Users : Holds(v)' <=> Holds(v) \/ v = u
  BY <1>1, <1>2 DEF HttpTypeOK, Holds
<1>9. \A v \in Users : client'[v] = IF v = u THEN c ELSE client[v]
  BY <1>1, <1>3 DEF HttpTypeOK
<1>10. ~Holds(u)
  BY <1>2 DEF Holds
<1>11. ExclusiveClient'
  <2>1. \A v, w \in Users : Holds(v)' /\ Holds(w)' /\ client'[v] = client'[w]
                              => v = w
    BY <1>1, <1>3, <1>8, <1>9, <1>10 DEF ExclusiveClient
  <2>2. \A v \in Users : Holds(v)' =>
          client'[v] \notin Free' \union giving' \union leaked'
    BY <1>1, <1>2, <1>3, <1>4, <1>8, <1>9, <1>10 DEF ExclusiveClient
  <2>3. Free' \intersect giving' = {} /\ leaked' \intersect (Free' \union giving') = {}
    BY <1>1, <1>2, <1>4 DEF ExclusiveClient
  <2> QED
    BY <2>1, <2>2, <2>3, <1>3 DEF ExclusiveClient
<1>12. AllMade'
  BY <1>1, <1>2, <1>4, <1>5, <1>8, <1>9 DEF AllMade
<1> QED
  BY <1>7, <1>11, <1>12 DEF PoolInv

(* The steps that move a client on without the queue.                       *)
LEMMA MoveStep ==
  ASSUME PoolInv, NEW u \in Users, NEW l \in Stages,
         stage[u] # l, stage[u] = "taken" \/ l \notin {"taken", "running"},
         stage' = [stage EXCEPT ![u] = l],
         giving' \union leaked' \subseteq
           giving \union leaked \union (IF Holds(u) THEN {client[u]} ELSE {}),
         giving \subseteq giving' /\ leaked \subseteq leaked',
         giving' \intersect leaked' = {},
         l \in {"taken", "running"} => UNCHANGED <<giving, leaked>>,
         UNCHANGED <<mAutoId, mFreeClients, client, peak, requests>>
  PROVE  PoolInv'
<1>1. HttpTypeOK /\ ExclusiveClient /\ AllMade
  BY DEF PoolInv
<1>2. Free' = Free /\ Made' = Made
  BY DEF Free, Made
<1>3. \A v \in Users : Holds(v)' => Holds(v)
  BY <1>1 DEF HttpTypeOK, Holds
<1>4. giving' \union leaked' # giving \union leaked =>
        Holds(u) /\ ~Holds(u)'
  BY <1>1 DEF HttpTypeOK, Holds
<1>5. Made \subseteq Nat
  BY <1>1 DEF Made, HttpTypeOK
<1>6. giving' \subseteq Made /\ leaked' \subseteq Made
  BY <1>1 DEF AllMade
<1>7. HttpTypeOK'
  BY <1>1, <1>5, <1>6 DEF HttpTypeOK
<1>8. \A v \in Users : Holds(v)' => client[v] \notin giving' \union leaked'
  BY <1>1, <1>3, <1>4 DEF ExclusiveClient
<1>9. ExclusiveClient'
  BY <1>1, <1>2, <1>3, <1>8 DEF ExclusiveClient
<1>10. AllMade'
  BY <1>1, <1>2, <1>3, <1>6 DEF AllMade
<1> QED
  BY <1>7, <1>9, <1>10 DEF PoolInv

(* destroyClient puts the client back that nobody has.                      *)
LEMMA DestroyStep ==
  ASSUME PoolInv, NEW c \in Made, DestroyClient(c)
  PROVE  PoolInv'
<1>1. HttpTypeOK /\ ExclusiveClient /\ AllMade
  BY DEF PoolInv
<1>2. /\ c \in giving /\ giving' = giving \ {c}
      /\ mFreeClients' = Append(mFreeClients, c)
      /\ UNCHANGED <<mAutoId, stage, client, leaked, peak, requests>>
  BY DEF DestroyClient, GivenBack
<1>3. c \in Nat /\ Made' = Made
  BY <1>1, <1>2 DEF HttpTypeOK, Made
<1>4. c \notin Free /\ c \notin leaked
  BY <1>1, <1>2 DEF ExclusiveClient
<1>5. /\ Free' = Free \union {c}
      /\ \A j, k \in DOMAIN mFreeClients' :
           mFreeClients'[j] = mFreeClients'[k] => j = k
  BY <1>1, <1>2, <1>3, <1>4, FreeAppend DEF HttpTypeOK, ExclusiveClient
<1>6. \A v \in Users : Holds(v)' = Holds(v)
  BY <1>2 DEF Holds
<1>7. HttpTypeOK'
  BY <1>1, <1>2, <1>3 DEF HttpTypeOK
<1>8. \A v \in Users : Holds(v) => client[v] # c
  BY <1>1, <1>2 DEF ExclusiveClient
<1>9. ExclusiveClient'
  BY <1>1, <1>2, <1>4, <1>5, <1>6, <1>8 DEF ExclusiveClient
<1>10. AllMade'
  BY <1>1, <1>2, <1>3, <1>5, <1>6 DEF AllMade
<1> QED
  BY <1>7, <1>9, <1>10 DEF PoolInv

LEMMA PoolStep == PoolInv /\ [HttpNext]_httpVars => PoolInv'
<1> SUFFICES ASSUME PoolInv, [HttpNext]_httpVars PROVE PoolInv'
  OBVIOUS
<1>0. HttpTypeOK /\ ExclusiveClient /\ AllMade
  BY DEF PoolInv
<1>1. ASSUME NEW u \in Users, NotStarted(u) PROVE PoolInv'
  <2>1. Holds(u) /\ client[u] \notin giving \union leaked
    BY <1>0, <1>1 DEF NotStarted, Holds, ExclusiveClient
  <2> QED
    BY <1>0, <1>1, <2>1, MoveStep DEF NotStarted, ExclusiveClient, Stages
<1>2. ASSUME NEW u \in Users, PerformRequest(u) PROVE PoolInv'
  BY <1>0, <1>2, MoveStep DEF PerformRequest, ExclusiveClient, Stages
<1>3. ASSUME NEW u \in Users, Respond(u) PROVE PoolInv'
  <2>1. Holds(u) /\ client[u] \notin giving \union leaked
    BY <1>0, <1>3 DEF Respond, Holds, ExclusiveClient
  <2> QED
    BY <1>0, <1>3, <2>1, MoveStep DEF Respond, ExclusiveClient, Stages
<1>4. ASSUME NEW u \in Users, Resume(u) PROVE PoolInv'
  BY <1>0, <1>4, MoveStep DEF Resume, ExclusiveClient, Stages
<1>5. CASE UNCHANGED httpVars
  <2>1. Free' = Free /\ Made' = Made /\ \A u \in Users : Holds(u)' = Holds(u)
    BY <1>5 DEF Free, Made, Holds
  <2> QED
    BY <1>5, <2>1 DEF PoolInv, HttpTypeOK, ExclusiveClient, AllMade
<1> QED
  BY <1>1, <1>2, <1>3, <1>4, <1>5, NewClientStep, DestroyStep
     DEF HttpNext, HttpCall, ClientThread

(* Every reachable state of the pool.                                       *)
LEMMA PoolInvHolds == HttpSpec => []PoolInv
BY PoolInit, PoolStep, PTL DEF HttpSpec

(* The pool keeps its types.                                                *)
THEOREM PoolTypeCorrect == HttpSpec => []HttpTypeOK
<1>1. PoolInv => HttpTypeOK
  BY DEF PoolInv
<1> QED
  BY <1>1, PoolInvHolds, PTL

(* One request at a time on each client, for any number of coroutines and   *)
(* requests.                                                                *)
THEOREM ExclusiveClientHolds == HttpSpec => []ExclusiveClient
<1>1. PoolInv => ExclusiveClient
  BY DEF PoolInv
<1> QED
  BY <1>1, PoolInvHolds, PTL
-----------------------------------------------------------------------------
(* Where the clients are, counted.                                          *)

LEMMA HeldMoves ==
  ASSUME HttpTypeOK, NEW u \in Users, NEW l \in Stages,
         stage' = [stage EXCEPT ![u] = l],
         NEW c \in Nat, client' = [client EXCEPT ![u] = c]
  PROVE  Busy' = {client[v] : v \in {w \in Users \ {u} : Holds(w)}}
                   \union (IF l \in {"taken", "running"} THEN {c} ELSE {})
                   \union giving'
<1>1. \A v \in Users \ {u} : Holds(v)' = Holds(v) /\ client'[v] = client[v]
  BY DEF HttpTypeOK, Holds
<1>2. Holds(u)' = (l \in {"taken", "running"}) /\ client'[u] = c
  BY DEF HttpTypeOK, Holds
<1> QED
  BY <1>1, <1>2 DEF Busy

LEMMA HeldBefore ==
  ASSUME NEW u \in Users
  PROVE  Busy = {client[v] : v \in {w \in Users \ {u} : Holds(w)}}
                  \union (IF Holds(u) THEN {client[u]} ELSE {})
                  \union giving
BY DEF Busy

LEMMA MadeCount ==
  ASSUME PoolInv
  PROVE  /\ IsFiniteSet(Made) /\ Cardinality(Made) = mAutoId - 1
         /\ IsFiniteSet(leaked) /\ Cardinality(leaked) \in Nat
         /\ IsFiniteSet(Busy) /\ Cardinality(Busy) \in Nat
<1>1. mAutoId \in Nat \ {0} /\ leaked \subseteq Made
  BY DEF PoolInv, HttpTypeOK, AllMade
<1>2. IsFiniteSet(Made) /\ Cardinality(Made) = mAutoId - 1
  BY <1>1, FS_Interval DEF Made
<1>3. IsFiniteSet(leaked)
  BY <1>1, <1>2, FS_Subset
<1> QED
  BY <1>1, <1>2, <1>3, FS_CardinalityType, BusySize, BusyMade

(* A new client is made when all others are busy or leaked.                 *)
LEMMA MadeWhenBusy ==
  ASSUME PoolInv, Accounted, Free = {}
  PROVE  mAutoId - 1 <= Cardinality(Busy) + Cardinality(leaked)
<1>1. Made = Busy \union leaked
  BY DEF Accounted
<1>2. /\ IsFiniteSet(Busy) /\ IsFiniteSet(leaked)
      /\ Cardinality(Busy) \in Nat /\ Cardinality(leaked) \in Nat
      /\ Cardinality(Made) = mAutoId - 1
  BY MadeCount
<1>3. IsFiniteSet(Busy \intersect leaked)
  BY <1>2, FS_Subset
<1>4. Cardinality(Busy \intersect leaked) \in Nat
  BY <1>3, FS_CardinalityType
<1>5. Cardinality(Busy \union leaked)
        = Cardinality(Busy) + Cardinality(leaked)
            - Cardinality(Busy \intersect leaked)
  BY <1>2, FS_Union
<1> QED
  BY <1>1, <1>2, <1>4, <1>5

LEMMA AccountedNew ==
  ASSUME PoolInv, Accounted, NEW u \in Users, NewClient(u)
  PROVE  Accounted'
<1> DEFINE c == client'[u]
<1>1. /\ c \in Nat /\ client' = [client EXCEPT ![u] = c]
      /\ FromQueue(c) \/ MadeNow(c)
  BY TakesOne
<1>2. /\ stage[u] = "idle" /\ stage' = [stage EXCEPT ![u] = "taken"]
      /\ UNCHANGED <<giving, leaked>>
  BY DEF NewClient
<1>3. HttpTypeOK /\ "taken" \in Stages /\ ~Holds(u)
  BY <1>2 DEF PoolInv, Stages, Holds
<1>4. Busy' = Busy \union {c}
  <2> DEFINE Others == {client[v] : v \in {w \in Users \ {u} : Holds(w)}}
  <2>1. Busy' = Others \union {c} \union giving'
    BY <1>1, <1>2, <1>3, HeldMoves
  <2>2. Busy = Others \union giving
    BY <1>3, HeldBefore
  <2> HIDE DEF Others
  <2> QED
    BY <1>2, <2>1, <2>2
<1>5. CASE FromQueue(c)
  BY <1>2, <1>4, <1>5 DEF Accounted, FromQueue
<1>6. CASE MadeNow(c)
  BY <1>2, <1>4, <1>6 DEF Accounted, MadeNow
<1> QED
  BY <1>1, <1>5, <1>6

(* The clients of a step that leaves newClient and the queue alone.         *)
LEMMA AccountedMove ==
  ASSUME PoolInv, Accounted, NEW u \in Users, NEW l \in Stages,
         stage' = [stage EXCEPT ![u] = l],
         l \notin {"taken", "running"} /\ Holds(u) =>
           client[u] \in giving' \union leaked',
         l \in {"taken", "running"} => Holds(u),
         giving \subseteq giving' /\ leaked \subseteq leaked',
         giving' \union leaked' \subseteq
           giving \union leaked \union (IF Holds(u) THEN {client[u]} ELSE {}),
         UNCHANGED <<mAutoId, mFreeClients, client>>
  PROVE  Accounted'
<1>1. HttpTypeOK /\ client[u] \in Nat
  BY DEF PoolInv, HttpTypeOK
<1>2. client' = [client EXCEPT ![u] = client[u]]
  BY <1>1 DEF HttpTypeOK
<1>3. Made' = Made /\ Free' = Free
  BY DEF Made, Free
<1>4. Busy' \union leaked' = Busy \union leaked
  <2> DEFINE Others == {client[v] : v \in {w \in Users \ {u} : Holds(w)}}
  <2>1. Busy' = Others \union (IF l \in {"taken", "running"} THEN {client[u]} ELSE {})
                 \union giving'
    BY <1>1, <1>2, HeldMoves
  <2>2. Busy = Others \union (IF Holds(u) THEN {client[u]} ELSE {}) \union giving
    BY HeldBefore
  <2> HIDE DEF Others
  <2>3. CASE Holds(u)
    BY <2>1, <2>2, <2>3
  <2>4. CASE ~Holds(u)
    BY <2>1, <2>2, <2>4
  <2> QED
    BY <2>3, <2>4
<1> QED
  BY <1>3, <1>4 DEF Accounted

LEMMA BoundedStep == PoolInv /\ PoolBounded /\ [HttpNext]_httpVars => PoolBounded'
<1> SUFFICES ASSUME PoolInv, PoolBounded, [HttpNext]_httpVars
             PROVE  PoolBounded'
  OBVIOUS
<1>0. /\ HttpTypeOK /\ ExclusiveClient /\ AllMade /\ PoolInv'
      /\ Accounted /\ mAutoId - 1 <= peak + Cardinality(leaked)
      /\ mAutoId \in Nat /\ peak \in Nat
  BY PoolStep DEF PoolInv, PoolBounded, HttpTypeOK
<1>c. /\ Cardinality(leaked) \in Nat /\ Cardinality(Busy) \in Nat
      /\ Cardinality(leaked') \in Nat /\ IsFiniteSet(leaked')
  <2>1. /\ mAutoId' \in Nat \ {0} /\ leaked' \subseteq 1..(mAutoId' - 1)
    BY <1>0 DEF PoolInv, HttpTypeOK, AllMade, Made
  <2>2. IsFiniteSet(leaked')
    <3>1. 1 \in Int /\ mAutoId' - 1 \in Int
      BY <2>1
    <3>2. IsFiniteSet(1..(mAutoId' - 1))
      BY <3>1, FS_Interval
    <3> QED
      BY <2>1, <3>2, FS_Subset
  <2> QED
    BY <1>0, <2>2, MadeCount, FS_CardinalityType
<1>m. ASSUME leaked \subseteq leaked', UNCHANGED <<mAutoId, peak>>, Accounted'
      PROVE  PoolBounded'
  <2>1. Cardinality(leaked) <= Cardinality(leaked')
    BY <1>c, <1>m, FS_Subset
  <2> QED
    BY <1>0, <1>c, <1>m, <2>1 DEF PoolBounded
<1>1. ASSUME NEW u \in Users, NewClient(u) PROVE PoolBounded'
  <2>1. Accounted'
    BY <1>0, <1>1, AccountedNew
  <2>2. FromQueue(client'[u]) \/ MadeNow(client'[u])
    BY <1>1, TakesOne
  <2>3. /\ leaked' = leaked
        /\ peak' = IF Cardinality(Busy) + 1 > peak THEN Cardinality(Busy) + 1
                                                   ELSE peak
    BY <1>1 DEF NewClient
  <2>4. CASE FromQueue(client'[u])
    BY <1>0, <1>c, <2>1, <2>3, <2>4 DEF FromQueue, PoolBounded
  <2>5. CASE MadeNow(client'[u])
    <3>1. mAutoId' = mAutoId + 1 /\ Free = {}
      BY <2>5 DEF MadeNow
    <3>2. mAutoId - 1 <= Cardinality(Busy) + Cardinality(leaked)
      BY <1>0, <3>1, MadeWhenBusy
    <3>3. mAutoId' - 1 <= peak' + Cardinality(leaked')
      BY <1>0, <1>c, <2>3, <3>1, <3>2
    <3> QED
      BY <2>1, <3>3 DEF PoolBounded
  <2> QED
    BY <2>2, <2>4, <2>5
<1>2. ASSUME NEW u \in Users, NotStarted(u) PROVE PoolBounded'
  BY <1>0, <1>2, <1>m, AccountedMove DEF NotStarted, Holds, Stages
<1>3. ASSUME NEW u \in Users, PerformRequest(u) PROVE PoolBounded'
  BY <1>0, <1>3, <1>m, AccountedMove DEF PerformRequest, Holds, Stages
<1>4. ASSUME NEW u \in Users, Respond(u) PROVE PoolBounded'
  BY <1>0, <1>4, <1>m, AccountedMove DEF Respond, Holds, Stages
<1>5. ASSUME NEW u \in Users, Resume(u) PROVE PoolBounded'
  BY <1>0, <1>5, <1>m, AccountedMove DEF Resume, Holds, Stages
<1>6. ASSUME NEW c \in Made, DestroyClient(c) PROVE PoolBounded'
  <2>1. /\ c \in giving /\ giving' = giving \ {c}
        /\ mFreeClients' = Append(mFreeClients, c)
        /\ UNCHANGED <<mAutoId, stage, client, leaked, peak>>
    BY <1>6 DEF DestroyClient, GivenBack
  <2>2. c \in Nat /\ c \notin Free
    BY <1>0, <2>1 DEF ExclusiveClient, HttpTypeOK
  <2>3. Free' = Free \union {c} /\ Made' = Made
    BY <1>0, <2>1, <2>2, FreeAppend DEF HttpTypeOK, ExclusiveClient, Made
  <2>4. Busy' \union {c} = Busy
    BY <2>1 DEF Busy, Holds
  <2>5. Accounted'
    BY <1>0, <2>1, <2>3, <2>4 DEF Accounted
  <2> QED
    BY <1>m, <2>1, <2>5
<1>7. CASE UNCHANGED httpVars
  <2>1. Free' = Free /\ Made' = Made /\ Busy' = Busy
    BY <1>7 DEF Free, Made, Busy, Holds
  <2> QED
    BY <1>0, <1>7, <2>1 DEF PoolBounded, Accounted
<1> QED
  BY <1>1, <1>2, <1>3, <1>4, <1>5, <1>6, <1>7
     DEF HttpNext, HttpCall, ClientThread

(* No client is lost but by a request that never started, and the pool is   *)
(* no larger than the most requests at a time and those clients.            *)
THEOREM PoolBoundedHolds == HttpSpec => []PoolBounded
<1>1. HttpInit => PoolBounded
  <2> SUFFICES ASSUME HttpInit PROVE PoolBounded
    OBVIOUS
  <2>1. Made = {} /\ Free = {} /\ leaked = {} /\ giving = {}
    BY DEF HttpInit, Made, Free, FirstId
  <2>2. Busy = {}
    BY DEF HttpInit, Busy, Holds
  <2> QED
    BY <2>1, <2>2, FS_EmptySet DEF PoolBounded, Accounted, HttpInit, FirstId
<1> QED
  BY <1>1, PoolInvHolds, BoundedStep, PTL DEF HttpSpec

-----------------------------------------------------------------------------
(* The cluster service.                                                     *)
USE DEF vars, nearVars, linkVars, farVars

-----------------------------------------------------------------------------
(* The cluster service is a user of the pool: each step of it is a step of  *)
(* the pool or leaves the pool alone.                                       *)

LEMMA PoolSees == [Next]_vars => [HttpNext]_httpVars
<1> SUFFICES ASSUME [Next]_vars PROVE [HttpNext]_httpVars
  OBVIOUS
<1>1. CASE Caller
  BY <1>1 DEF Caller, StartCluster, Ask, TimeOut
<1>2. CASE NearStep
  <2>1. ASSUME NEW r \in Requests, Lookup(r) PROVE HttpNext
    BY <2>1 DEF Lookup, Requests, HttpNext, HttpCall
  <2>2. ASSUME NEW r \in Requests, Found(r) PROVE HttpNext
    BY <2>2 DEF Found, Requests, HttpNext
  <2>3. ASSUME NEW r \in Requests, Dispatch(r) \/ SendOnClient(r) \/ NoClient(r)
        PROVE  UNCHANGED httpVars
    BY <2>3 DEF Dispatch, SendOnClient, NoClient
  <2>4. ASSUME NEW k \in Links, OnConnect(k) \/ OnConnectError(k) \/ OnClose(k)
        PROVE  UNCHANGED httpVars
    BY <2>4 DEF OnConnect, OnConnectError, OnClose
  <2>5. ASSUME NEW k \in Links, NEW n \in DOMAIN from[k], OnClientResponse(k, n)
        PROVE  UNCHANGED httpVars
    BY <2>5 DEF OnClientResponse
  <2>6. ASSUME StopCluster PROVE UNCHANGED httpVars
    BY <2>6 DEF StopCluster
  <2>7. ASSUME DropNear PROVE HttpNext \/ UNCHANGED httpVars
    BY <2>7 DEF DropNear, Requests, HttpNext
  <2> QED
    BY <1>2, <2>1, <2>2, <2>3, <2>4, <2>5, <2>6, <2>7 DEF NearStep
<1>3. CASE FarStep
  <2>1. ASSUME DropFar PROVE UNCHANGED httpVars
    BY <2>1 DEF DropFar
  <2>2. ASSUME NEW k \in Links, NEW n \in DOMAIN to[k], OnMsg(k, n)
        PROVE  UNCHANGED httpVars
    BY <2>2 DEF OnMsg
  <2>3. ASSUME NEW call \in serving, NEW isOk \in BOOLEAN, CallReturns(call, isOk)
        PROVE  UNCHANGED httpVars
    BY <2>3 DEF CallReturns
  <2> QED
    BY <1>3, <2>1, <2>2, <2>3 DEF FarStep
<1>4. CASE Network
  BY <1>4 DEF Network, Disconnected, Connected
<1>5. CASE Http
  BY <1>5 DEF Http, HttpNext
<1>6. CASE UNCHANGED vars
  BY <1>6
<1> QED
  BY <1>1, <1>2, <1>3, <1>4, <1>5, <1>6 DEF Next

(* Every behaviour of the cluster is one of the pool.                       *)
THEOREM ClusterUsesPool == Spec => HttpSpec
<1>1. Init => HttpInit
  BY DEF Init
<1> QED
  BY <1>1, PoolSees, PTL DEF Spec, HttpSpec

(* So no two requests of the cluster service ever share an http client.     *)
THEOREM ClusterExclusiveClient == Spec => []ExclusiveClient
BY ClusterUsesPool, ExclusiveClientHolds, PTL

(* And its pool holds the most clients it ever needed at a time, and one    *)
(* for each request that never started.                                     *)
THEOREM ClusterPoolBounded == Spec => []PoolBounded
BY ClusterUsesPool, PoolBoundedHolds, PTL
-----------------------------------------------------------------------------
(* The table of tcp clients.  The service that is gone never comes back, so *)
(* the entry its shutdown leaves behind is never used.                      *)
EntryInv == cluster # "gone" /\ tcpClients # 0 => tcpClients \in alive

LEMMA EntryStep == EntryInv /\ [Next]_vars => EntryInv'
<1> SUFFICES ASSUME EntryInv, [Next]_vars PROVE EntryInv'
  OBVIOUS
<1> USE DEF EntryInv
<1>1. CASE Caller
  BY <1>1 DEF Caller, StartCluster, Ask, TimeOut
<1>2. CASE NearStep
  <2>1. ASSUME NEW r \in Requests, SendOnClient(r) PROVE EntryInv'
    BY <2>1 DEF SendOnClient
  <2>2. ASSUME NEW r \in Requests, Found(r) PROVE EntryInv'
    BY <2>2 DEF Found
  <2>3. ASSUME NEW r \in Requests, Dispatch(r) \/ NoClient(r) \/ Lookup(r)
        PROVE  EntryInv'
    BY <2>3 DEF Dispatch, NoClient, Lookup
  <2>4. ASSUME NEW k \in Links, OnConnect(k) PROVE EntryInv'
    BY <2>4 DEF OnConnect, Told
  <2>5. ASSUME NEW k \in Links, OnConnectError(k) PROVE EntryInv'
    BY <2>5 DEF OnConnectError, Told
  <2>6. ASSUME NEW k \in Links, OnClose(k) PROVE EntryInv'
    BY <2>6 DEF OnClose, TableAfterClose
  <2>7. ASSUME NEW k \in Links, NEW n \in DOMAIN from[k], OnClientResponse(k, n)
        PROVE  EntryInv'
    BY <2>7 DEF OnClientResponse
  <2>8. ASSUME StopCluster PROVE EntryInv'
    BY <2>8 DEF StopCluster
  <2>9. ASSUME DropNear PROVE EntryInv'
    BY <2>9 DEF DropNear
  <2> QED
    BY <1>2, <2>1, <2>2, <2>3, <2>4, <2>5, <2>6, <2>7, <2>8, <2>9 DEF NearStep
<1>3. CASE FarStep
  BY <1>3 DEF FarStep, DropFar, OnMsg, CallReturns
<1>4. CASE Network
  BY <1>4 DEF Network, Disconnected, Connected
<1>5. CASE Http \/ UNCHANGED vars
  BY <1>5 DEF Http
<1> QED
  BY <1>1, <1>2, <1>3, <1>4, <1>5 DEF Next

(* The table never keeps a client that was destroyed.                       *)
THEOREM NoDeadEntryHolds == Spec => []NoDeadEntry
<1>1. Init => EntryInv
  BY DEF Init, EntryInv
<1>2. EntryInv => NoDeadEntry
  BY DEF EntryInv, NoDeadEntry
<1> QED
  BY <1>1, <1>2, EntryStep, PTL DEF Spec
-----------------------------------------------------------------------------
(* What cluster.lua keeps decides of all later requests.                    *)
KeptInv ==
  /\ pc \in [Requests -> Pcs]
  /\ clusterId = "unset" => \A r \in Requests : pc[r] = "new"
  /\ clusterId = "none" => \A r \in Requests : pc[r] \in {"new", "refused"}
  /\ clusterId = "found" => \A r \in Requests : pc[r] # "refused"
  /\ clusterId \in {"unset", "none", "found"}

(* A request on its way, once the id was found, moves on.                   *)
LEMMA KeptMove ==
  ASSUME KeptInv, UNCHANGED clusterId, NEW r \in Requests,
         pc[r] \notin {"new", "refused"},
         NEW l \in Pcs \ {"new", "refused"}, pc' = [pc EXCEPT ![r] = l]
  PROVE  KeptInv'
<1>1. clusterId = "found"
  BY DEF KeptInv
<1> QED
  BY <1>1 DEF KeptInv

LEMMA KeptSame == KeptInv /\ UNCHANGED <<pc, clusterId>> => KeptInv'
BY DEF KeptInv

LEMMA KeptAsk == ASSUME KeptInv, NEW r \in Requests, Ask(r) PROVE KeptInv'
<1>1. pc[r] = "new" /\ clusterId' = LookedUp
  BY DEF Ask
<1>2. PICK l \in Pcs : /\ pc' = [pc EXCEPT ![r] = l]
                       /\ LookedUp = "none" => l = "refused"
                       /\ LookedUp # "none" => l \in {"posted", "lost"}
  BY DEF Ask, SetPc, Pcs
<1>3. LookedUp \in {"none", "found"}
  BY DEF LookedUp, KeptInv
<1>4. CASE LookedUp = "none"
  BY <1>1, <1>2, <1>4 DEF KeptInv, LookedUp
<1>5. CASE LookedUp = "found"
  BY <1>1, <1>2, <1>5 DEF KeptInv, LookedUp
<1> QED
  BY <1>3, <1>4, <1>5

LEMMA KeptStep == KeptInv /\ [Next]_vars => KeptInv'
<1> SUFFICES ASSUME KeptInv, [Next]_vars PROVE KeptInv'
  OBVIOUS
<1> USE DEF SetPc, Pcs
<1>1. CASE Caller
  BY <1>1, KeptAsk, KeptSame DEF Caller, StartCluster, TimeOut
<1>2. CASE NearStep
  <2>1. ASSUME NEW r \in Requests, Dispatch(r) \/ NoClient(r) PROVE KeptInv'
    BY <2>1, KeptMove DEF Dispatch, NoClient
  <2>2. ASSUME NEW r \in Requests, SendOnClient(r) PROVE KeptInv'
    BY <2>2, KeptMove DEF SendOnClient, AfterSend
  <2>3. ASSUME NEW r \in Requests, Lookup(r) PROVE KeptInv'
    BY <2>3, KeptMove, KeptSame DEF Lookup
  <2>4. ASSUME NEW r \in Requests, Found(r) PROVE KeptInv'
    BY <2>4, KeptMove DEF Found
  <2>5. ASSUME NEW k \in Links,
               OnConnect(k) \/ OnConnectError(k) \/ OnClose(k)
        PROVE  KeptInv'
    BY <2>5, KeptSame DEF OnConnect, OnConnectError, OnClose
  <2>6. ASSUME NEW k \in Links, NEW n \in DOMAIN from[k], OnClientResponse(k, n)
        PROVE  KeptInv'
    BY <2>6, KeptSame DEF OnClientResponse
  <2>7. ASSUME StopCluster PROVE KeptInv'
    BY <2>7, KeptSame DEF StopCluster
  <2>8. ASSUME DropNear PROVE KeptInv'
    BY <2>8, KeptMove, KeptSame DEF DropNear
  <2> QED
    BY <1>2, <2>1, <2>2, <2>3, <2>4, <2>5, <2>6, <2>7, <2>8 DEF NearStep
<1>3. CASE FarStep
  BY <1>3, KeptSame DEF FarStep, DropFar, OnMsg, CallReturns
<1>4. CASE Network
  BY <1>4, KeptSame DEF Network, Disconnected, Connected
<1>5. CASE Http \/ UNCHANGED vars
  BY <1>5, KeptSame DEF Http
<1> QED
  BY <1>1, <1>2, <1>3, <1>4, <1>5 DEF Next

(* A caller that asked before the cluster service was there gets nothing    *)
(* done by it, for as long as it runs.                                      *)
THEOREM EarlyIsForGoodHolds == Spec => []EarlyIsForGood
<1>1. Init => KeptInv
  BY DEF Init, KeptInv, Pcs
<1>2. KeptInv => EarlyIsForGood
  BY DEF KeptInv, EarlyIsForGood
<1> QED
  BY <1>1, <1>2, KeptStep, PTL DEF Spec

-----------------------------------------------------------------------------
(* One execution of a request.  A request that the near service is done     *)
(* with is in one place at most: with the connection that its coroutine     *)
(* opened, in a packet to the far node, in a call of the far node, or in an *)
(* answer, and it leaves each of them for good.                             *)

(* What stands for the request: the first part of a packet, or the event    *)
(* that ends the connecting.  An answer of text is understood by nobody.    *)
Carries(item, r) ==
  /\ item.req = r
  /\ \/ item.part = 1 /\ item.kind # "text"
     \/ item.kind \in {"connect", "error"}

In(s, r)     == \E i \in DOMAIN s : Carries(s[i], r)
Single(s, r) ==
  \A i, j \in DOMAIN s : Carries(s[i], r) /\ Carries(s[j], r) => i = j

Opens(r)    == \E k \in Links : link[k] = "connecting" /\ owner[k] = r
Goes(r)     == \E k \in Links : In(to[k], r)
Serves(r)   == \E c \in serving : c.req = r
Comes(r)    == \E k \in Links : In(from[k], r)
Anywhere(r) == Opens(r) \/ Goes(r) \/ Serves(r) \/ Comes(r)

(* Each place holds it once.                                                *)
OneOpens(r)  == \A j, k \in 1..links : owner[j] = r /\ owner[k] = r => j = k
OneGoes(r)   ==
  /\ \A j, k \in Links : In(to[j], r) /\ In(to[k], r) => j = k
  /\ \A k \in Links : Single(to[k], r)
OneServes(r) == \A c, d \in serving : c.req = r /\ d.req = r => c = d
OneComes(r)  ==
  /\ \A j, k \in Links : In(from[j], r) /\ In(from[k], r) => j = k
  /\ \A k \in Links : Single(from[k], r)

OnePlace(r) ==
  /\ Opens(r) => ~Goes(r) /\ ~Serves(r) /\ ~Comes(r)
  /\ Goes(r) => ~Serves(r) /\ ~Comes(r)
  /\ Serves(r) => ~Comes(r)
  /\ OneOpens(r) /\ OneGoes(r) /\ OneServes(r) /\ OneComes(r)

(* Before the near service is done with it nothing of it is out.            *)
Unsent(r) ==
  pc[r] # "done" =>
    /\ ~Anywhere(r) /\ executed[r] = 0
    /\ outcome[r] \notin {"ok", "false"}
    /\ \A k \in 1..links : owner[k] # r

(* Where it is says whether it was run.                                     *)
Ran(r) ==
  /\ executed[r] <= 1
  /\ Opens(r) \/ Goes(r) => executed[r] = 0
  /\ \A k \in Links : \A i \in DOMAIN from[k] :
       Carries(from[k][i], r) =>
         /\ from[k][i].kind \in {"connect", "error"} => executed[r] = 0
         /\ from[k][i].kind = "ok" => executed[r] = 1
  /\ \A c \in serving : c.req = r /\ c.id # 0 => executed[r] = 1
  /\ outcome[r] = "ok" => executed[r] = 1

(* What was answered has nothing left that could answer it again.           *)
Answered(r) == outcome[r] \in {"ok", "false"} => ~Anywhere(r)

Once(r) == OnePlace(r) /\ Unsent(r) /\ Ran(r) /\ Answered(r)

(* A call waits from the moment it is made, and an answer that comes when   *)
(* it no longer does is late.                                               *)
Waits(r) ==
  /\ pc[r] = "new" => outcome[r] = "none"
  /\ r \notin Sends /\ pc[r] \notin {"new", "refused"} => outcome[r] # "none"
  /\ r \in stray => r \in Sends \/ outcome[r] = "timeout"

(* What is on a connection.                                                 *)
LinkInv ==
  \A k \in Links :
    /\ k > links => link[k] = "none" /\ from[k] = <<>>
    /\ \A i \in DOMAIN to[k] : to[k][i].kind = "request"
    /\ \A i \in DOMAIN from[k] :
         from[k][i].kind \in {"connect", "error"} =>
           IsEvent(from[k][i]) /\ from[k][i].req = owner[k]

(* TypeOK but for the pool, that has its own.                               *)
NearType ==
  /\ cluster \in {"absent", "running", "gone"}
  /\ clusterId \in {"unset", "none", "found"}
  /\ pc \in [Requests -> Pcs]
  /\ outcome \in [Requests -> {"none", "waiting", "ok", "false", "timeout"}]
  /\ stray \subseteq Requests /\ dropping \subseteq {"near", "far"}
LinkType ==
  /\ tcpClients \in {0} \union Links
  /\ links \in 0..MaxLinks /\ alive \subseteq 1..links
  /\ owner \in [Links -> Requests]
  /\ link \in [Links -> {"none", "connecting", "up", "closed"}]
WireType == to \in [Links -> Seq(Items)] /\ from \in [Links -> Seq(Items)]
FarType ==
  /\ executed \in [Requests -> Nat]
  /\ serving \subseteq [req : Requests \ Sends, on : Links, id : {0, 1}]

ClusterType == NearType /\ LinkType /\ WireType /\ FarType

-----------------------------------------------------------------------------
(* The queues of a connection.                                              *)
Cut(s, n) == SubSeq(s, n + 1, Len(s))

(* Nothing of the request that was not there before.                        *)
Less(t, s, r) ==
  /\ \A i \in DOMAIN t : Carries(t[i], r) => \E j \in DOMAIN s : t[i] = s[j]
  /\ Single(s, r) => Single(t, r)

LEMMA LessIn == ASSUME NEW s, NEW t, NEW r, Less(t, s, r), In(t, r) PROVE In(s, r)
BY DEF Less, In

LEMMA LessSame == ASSUME NEW s, NEW r PROVE Less(s, s, r)
BY DEF Less

LEMMA CutIs ==
  ASSUME NEW s \in Seq(Items), NEW n \in 1..Len(s)
  PROVE  /\ Cut(s, n) \in Seq(Items)
         /\ Len(Cut(s, n)) = Len(s) - n
         /\ \A i \in DOMAIN Cut(s, n) : n + i \in DOMAIN s /\ Cut(s, n)[i] = s[n + i]
<1>1. Len(s) \in Nat /\ n \in Nat /\ 1 <= n /\ n <= Len(s)
  OBVIOUS
<1> QED
  BY <1>1 DEF Cut

LEMMA TailIsCut ==
  ASSUME NEW s \in Seq(Items), s # <<>>
  PROVE  /\ 1 \in 1..Len(s) /\ 1 \in DOMAIN s
         /\ Tail(s) = Cut(s, 1) /\ Head(s) = s[1]
<1>1. Len(s) \in Nat /\ Len(s) >= 1
  OBVIOUS
<1>2. /\ Cut(s, 1) \in Seq(Items) /\ Len(Cut(s, 1)) = Len(s) - 1
      /\ \A i \in DOMAIN Cut(s, 1) : Cut(s, 1)[i] = s[1 + i]
  BY <1>1, CutIs
<1>3. /\ Tail(s) \in Seq(Items) /\ Len(Tail(s)) = Len(s) - 1
      /\ \A i \in 1..(Len(s) - 1) : Tail(s)[i] = s[1 + i]
  BY <1>1
<1>4. Tail(s) = Cut(s, 1)
  BY <1>1, <1>2, <1>3
<1> QED
  BY <1>1, <1>4

LEMMA ReadIs ==
  ASSUME NEW s \in Seq(Items), NEW n \in 1..Len(s)
  PROVE  /\ SubSeq(s, 1, n)[1] = s[1] /\ 1 \in DOMAIN s
         /\ s[1] \in Items
<1>1. Len(s) \in Nat /\ n \in Nat /\ 1 <= n /\ n <= Len(s)
  OBVIOUS
<1> QED
  BY <1>1

LEMMA LessCut ==
  ASSUME NEW s \in Seq(Items), NEW n \in 1..Len(s), NEW r
  PROVE  Less(Cut(s, n), s, r)
<1> DEFINE t == Cut(s, n)
<1>1. \A i \in DOMAIN t : n + i \in DOMAIN s /\ t[i] = s[n + i]
  BY CutIs
<1>2. \A i, j \in DOMAIN t : n + i = n + j => i = j
  BY CutIs
<1> HIDE DEF t
<1>3. Less(t, s, r)
  BY <1>1, <1>2 DEF Less, Single
<1> QED
  BY <1>3 DEF t

(* What was read is not read again.                                         *)
LEMMA CutTakes ==
  ASSUME NEW s \in Seq(Items), NEW n \in 1..Len(s), NEW r,
         Single(s, r), Carries(s[1], r)
  PROVE  ~In(Cut(s, n), r)
<1> DEFINE t == Cut(s, n)
<1>1. \A i \in DOMAIN t : n + i \in DOMAIN s /\ t[i] = s[n + i]
  BY CutIs
<1>2. \A i \in DOMAIN t : n + i # 1
  BY CutIs
<1>3. 1 \in DOMAIN s
  BY ReadIs
<1> HIDE DEF t
<1>4. ~In(t, r)
  BY <1>1, <1>2, <1>3 DEF In, Single
<1> QED
  BY <1>4 DEF t

LEMMA JoinIs ==
  ASSUME NEW s \in Seq(Items), NEW w \in Seq(Items)
  PROVE  /\ s \o w \in Seq(Items)
         /\ \A i \in DOMAIN (s \o w) :
              \/ i \in DOMAIN s /\ (s \o w)[i] = s[i]
              \/ i - Len(s) \in DOMAIN w /\ (s \o w)[i] = w[i - Len(s)]
<1>1. Len(s) \in Nat /\ Len(w) \in Nat
  OBVIOUS
<1> QED
  BY <1>1

LEMMA LessJoin ==
  ASSUME NEW s \in Seq(Items), NEW w \in Seq(Items), NEW r, ~In(w, r)
  PROVE  Less(s \o w, s, r)
<1> DEFINE t == s \o w
<1>1. \A i \in DOMAIN t : Carries(t[i], r) => i \in DOMAIN s /\ t[i] = s[i]
  BY JoinIs DEF In
<1> HIDE DEF t
<1>2. Less(t, s, r)
  BY <1>1 DEF Less, Single
<1> QED
  BY <1>2 DEF t

LEMMA JoinAdds ==
  ASSUME NEW s \in Seq(Items), NEW w \in Seq(Items), NEW r, ~In(s, r),
         \A i \in DOMAIN w : Carries(w[i], r) => i = 1
  PROVE  /\ Single(s \o w, r)
         /\ \A i \in DOMAIN (s \o w) :
              Carries((s \o w)[i], r) => 1 \in DOMAIN w /\ (s \o w)[i] = w[1]
<1> DEFINE t == s \o w
<1>1. \A i \in DOMAIN t : Carries(t[i], r) => i - Len(s) \in DOMAIN w /\ t[i] = w[i - Len(s)]
  BY JoinIs DEF In
<1>2. \A i \in DOMAIN t : Carries(t[i], r) => i - Len(s) = 1
  BY <1>1
<1>3. \A i \in DOMAIN t : i - Len(s) = 1 => i = Len(s) + 1
  BY JoinIs
<1> HIDE DEF t
<1>4. /\ Single(t, r)
      /\ \A i \in DOMAIN t : Carries(t[i], r) => 1 \in DOMAIN w /\ t[i] = w[1]
  BY <1>1, <1>2, <1>3 DEF Single
<1> QED
  BY <1>4 DEF t

(* A packet that is written, or the beginning of it.                        *)
LEMMA WrittenIs ==
  ASSUME NEW r \in Requests, NEW kind \in {"request", "ok", "fail", "text"},
         NEW w \in Written(Packet(kind, r))
  PROVE  /\ w \in Seq(Items)
         /\ \A i \in DOMAIN w : /\ w[i].kind = kind /\ w[i].req = r
                                /\ w[i].part = i /\ i \in {1, 2}
<1> DEFINE one == [kind |-> kind, req |-> r, part |-> 1]
           two == [kind |-> kind, req |-> r, part |-> 2]
<1>1. one \in Items /\ two \in Items
  BY DEF Items
<1>2. /\ one.kind = kind /\ one.req = r /\ one.part = 1
      /\ two.kind = kind /\ two.req = r /\ two.part = 2
  OBVIOUS
<1>3. w = <<one, two>> \/ w = SubSeq(<<one, two>>, 1, 1)
  BY DEF Written, Packet
<1> HIDE DEF one, two
<1>4. w = <<one, two>> \/ w = <<one>>
  BY <1>3
<1>5. CASE w = <<one, two>>
  <2>1. w \in Seq(Items) /\ DOMAIN w = {1, 2} /\ w[1] = one /\ w[2] = two
    BY <1>1, <1>5
  <2> QED
    BY <1>2, <2>1
<1>6. CASE w = <<one>>
  <2>1. w \in Seq(Items) /\ DOMAIN w = {1} /\ w[1] = one
    BY <1>1, <1>6
  <2> QED
    BY <1>2, <2>1
<1> QED
  BY <1>4, <1>5, <1>6

LEMMA WrittenCarries ==
  ASSUME NEW r \in Requests, NEW kind \in {"request", "ok", "fail", "text"},
         NEW w \in Written(Packet(kind, r)), NEW q
  PROVE  /\ \A i \in DOMAIN w : Carries(w[i], q) => i = 1
         /\ q # r \/ kind = "text" => ~In(w, q)
BY WrittenIs DEF Carries, In

LEMMA EventIs ==
  ASSUME NEW k \in Links, owner[k] \in Requests,
         NEW kind \in {"connect", "error", "close"}
  PROVE  /\ Event(kind, k) \in Seq(Items)
         /\ DOMAIN Event(kind, k) = {1}
         /\ Event(kind, k)[1].kind = kind /\ Event(kind, k)[1].req = owner[k]
         /\ Event(kind, k)[1].part = 0
<1> DEFINE it == [kind |-> kind, req |-> owner[k], part |-> 0]
<1>1. it \in Items /\ it.kind = kind /\ it.req = owner[k] /\ it.part = 0
  BY DEF Items
<1>2. Event(kind, k) = <<it>>
  BY DEF Event
<1> HIDE DEF it
<1> QED
  BY <1>1, <1>2

-----------------------------------------------------------------------------
(* The types.                                                               *)

LEMMA SendType ==
  ASSUME WireType, NEW k \in Links, NEW r \in Requests, SendPacket(k, r)
  PROVE  to' \in [Links -> Seq(Items)]
<1>1. CASE link[k] # "up"
  BY <1>1 DEF SendPacket, WireType
<1>2. CASE link[k] = "up"
  <2>1. PICK w \in Written(Packet("request", r)) :
          to' = [to EXCEPT ![k] = to[k] \o w]
    BY <1>2 DEF SendPacket
  <2>2. to[k] \o w \in Seq(Items)
    BY JoinIs, WrittenIs DEF WireType
  <2> QED
    BY <2>1, <2>2 DEF WireType
<1> QED
  BY <1>1, <1>2

LEMMA ResponseType ==
  ASSUME WireType, NEW k \in Links, NEW r \in Requests,
         NEW kind \in {"ok", "fail", "text"}, SendResponse(k, kind, r)
  PROVE  from' \in [Links -> Seq(Items)]
<1>1. CASE link[k] # "up"
  BY <1>1 DEF SendResponse, WireType
<1>2. CASE link[k] = "up"
  <2>1. PICK w \in Written(Packet(kind, r)) :
          from' = [from EXCEPT ![k] = from[k] \o w]
    BY <1>2 DEF SendResponse
  <2>2. from[k] \o w \in Seq(Items)
    BY JoinIs, WrittenIs DEF WireType
  <2> QED
    BY <2>1, <2>2 DEF WireType
<1> QED
  BY <1>1, <1>2

(* A read or a message takes from the front.                                *)
LEMMA CutType ==
  ASSUME NEW q \in [Links -> Seq(Items)], NEW k \in Links, NEW n \in 1..Len(q[k])
  PROVE  [q EXCEPT ![k] = Cut(@, n)] \in [Links -> Seq(Items)]
<1>1. Cut(q[k], n) \in Seq(Items)
  BY CutIs
<1> QED
  BY <1>1

LEMMA AnswerType ==
  ASSUME NearType, NEW r \in Requests, NEW v \in {"ok", "false"}, Response(r, v)
  PROVE  /\ outcome' \in [Requests -> {"none", "waiting", "ok", "false", "timeout"}]
         /\ stray' \subseteq Requests
BY DEF Response, NearType

(* Told, said with Cut.                                                     *)
LEMMA ToldIs ==
  ASSUME WireType, NEW k \in Links, NEW kind, Told(k, kind)
  PROVE  /\ 1 \in 1..Len(from[k]) /\ 1 \in DOMAIN from[k]
         /\ from[k][1].kind = kind /\ from[k][1] \in Items
         /\ from' = [from EXCEPT ![k] = Cut(@, 1)]
         /\ from' \in [Links -> Seq(Items)]
<1>1. from[k] \in Seq(Items) /\ from[k] # <<>>
  BY DEF Told, WireType
<1>2. from' = [from EXCEPT ![k] = Cut(@, 1)]
  BY <1>1, TailIsCut DEF Told
<1>3. from' \in [Links -> Seq(Items)]
  BY <1>1, <1>2, TailIsCut, CutType DEF WireType
<1> QED
  BY <1>1, <1>2, <1>3, TailIsCut, ReadIs DEF Told

LEMMA TypeInit == Init => ClusterType
<1> SUFFICES ASSUME Init PROVE ClusterType
  OBVIOUS
<1>1. NearType
  BY DEF Init, NearType, Pcs
<1>2. LinkType
  <2>1. (CHOOSE r \in Requests : TRUE) \in Requests
    BY RequestAssumption DEF Requests
  <2> QED
    BY <2>1, RequestAssumption DEF Init, LinkType
<1>3. WireType /\ FarType
  BY DEF Init, WireType, FarType
<1> QED
  BY <1>1, <1>2, <1>3 DEF ClusterType

LEMMA TypeNear == ASSUME ClusterType, NearStep PROVE ClusterType'
<1>0. NearType /\ LinkType /\ WireType /\ FarType
  BY DEF ClusterType
<1>1. ASSUME StopCluster PROVE ClusterType'
  BY <1>0, <1>1 DEF ClusterType, StopCluster, NearType, LinkType, WireType, FarType
<1>2. ASSUME DropNear PROVE ClusterType'
  <2>1. UNCHANGED <<cluster, clusterId, outcome, stray, linkVars, to, farVars>>
    BY <1>2 DEF DropNear
  <2>2. from' \in [Links -> Seq(Items)]
    <3>1. CASE UNCHANGED from
      BY <3>1, <1>0 DEF WireType
    <3>2. CASE \E k \in Links : from[k] # <<>> /\ from' = [from EXCEPT ![k] = Tail(@)]
      <4>1. PICK k \in Links : from[k] # <<>> /\ from' = [from EXCEPT ![k] = Tail(@)]
        BY <3>2
      <4> QED
        BY <4>1, <1>0, TailIsCut, CutType DEF WireType
    <3> QED
      BY <1>2, <3>1, <3>2 DEF DropNear
  <2>3. pc' \in [Requests -> Pcs] /\ dropping' \subseteq {"near", "far"}
    BY <1>0, <1>2 DEF DropNear, NearType, SetPc, Pcs
  <2> QED
    BY <1>0, <2>1, <2>2, <2>3
       DEF ClusterType, NearType, LinkType, WireType, FarType, linkVars, farVars
<1>3. ASSUME NEW r \in Requests, Dispatch(r) \/ NoClient(r) \/ Lookup(r)
      PROVE  ClusterType'
  BY <1>0, <1>3 DEF Dispatch, NoClient, Lookup, SetPc, Pcs, ClusterType, NearType,
                    LinkType, WireType, FarType, linkVars, farVars
<1>4. ASSUME NEW r \in Requests, SendOnClient(r) PROVE ClusterType'
  <2>1. to' \in [Links -> Seq(Items)]
    <3>1. tcpClients \in Links
      BY <1>0, <1>4 DEF SendOnClient, LinkType
    <3> QED
      BY <1>0, <1>4, <3>1, SendType DEF SendOnClient, WireType
  <2>2. pc' \in [Requests -> Pcs] /\ alive' \subseteq 1..links /\ tcpClients' \in {0} \union Links
    BY <1>0, <1>4 DEF SendOnClient, NearType, LinkType, SetPc, Pcs, AfterSend
  <2> QED
    BY <1>0, <1>4, <2>1, <2>2
       DEF SendOnClient, ClusterType, NearType, LinkType, WireType, FarType, farVars
<1>5. ASSUME NEW r \in Requests, Found(r) PROVE ClusterType'
  <2>1. /\ outcome' \in [Requests -> {"none", "waiting", "ok", "false", "timeout"}]
        /\ stray' \subseteq Requests
    BY <1>0, <1>5, AnswerType DEF Found, NoResponse, NearType
  <2>2. pc' \in [Requests -> Pcs]
    BY <1>0, <1>5 DEF Found, NearType, SetPc, Pcs
  <2>3. LinkType'
    <3>1. CASE UNCHANGED <<alive, links, owner, link>>
      BY <1>0, <1>5, <3>1 DEF Found, LinkType
    <3>2. CASE /\ links < MaxLinks /\ links' = links + 1
               /\ alive' = alive \union {links'}
               /\ owner' = [owner EXCEPT ![links'] = r]
               /\ \/ link' = [link EXCEPT ![links'] = "connecting"]
                  \/ UNCHANGED link
      <4>1. links' \in 1..MaxLinks /\ 1..links \subseteq 1..links' /\ links' \in 1..links'
        BY <1>0, <3>2, RequestAssumption DEF LinkType
      <4>2. alive' \subseteq 1..links' /\ links' \in 0..MaxLinks
        BY <1>0, <3>2, <4>1 DEF LinkType
      <4>3. owner' \in [Links -> Requests]
        BY <1>0, <3>2 DEF LinkType
      <4>4. link' \in [Links -> {"none", "connecting", "up", "closed"}]
        BY <1>0, <3>2 DEF LinkType
      <4> QED
        BY <1>0, <1>5, <4>2, <4>3, <4>4 DEF Found, LinkType
    <3> QED
      BY <1>5, <3>1, <3>2 DEF Found
  <2> QED
    BY <1>0, <1>5, <2>1, <2>2, <2>3
       DEF Found, ClusterType, NearType, WireType, FarType, farVars
<1>6. ASSUME NEW k \in Links, OnConnect(k) PROVE ClusterType'
  <2>1. to' \in [Links -> Seq(Items)]
    BY <1>0, <1>6, SendType DEF OnConnect, LinkType
  <2>2. from' \in [Links -> Seq(Items)]
    BY <1>0, <1>6, ToldIs DEF OnConnect
  <2> QED
    BY <1>0, <1>6, <2>1, <2>2
       DEF OnConnect, ClusterType, NearType, LinkType, WireType, FarType, nearVars, farVars
<1>7. ASSUME NEW k \in Links, OnConnectError(k) PROVE ClusterType'
  <2>1. from' \in [Links -> Seq(Items)]
    BY <1>0, <1>7, ToldIs DEF OnConnectError
  <2>2. /\ outcome' \in [Requests -> {"none", "waiting", "ok", "false", "timeout"}]
        /\ stray' \subseteq Requests
    BY <1>0, <1>7, AnswerType DEF OnConnectError, LinkType
  <2> QED
    BY <1>0, <1>7, <2>1, <2>2
       DEF OnConnectError, ClusterType, NearType, LinkType, WireType, FarType, linkVars, farVars
<1>8. ASSUME NEW k \in Links, OnClose(k) PROVE ClusterType'
  <2>1. from' \in [Links -> Seq(Items)]
    BY <1>0, <1>8, ToldIs DEF OnClose
  <2> QED
    BY <1>0, <1>8, <2>1
       DEF OnClose, TableAfterClose, ClusterType, NearType, LinkType, WireType, FarType,
           nearVars, farVars
<1>9. ASSUME NEW k \in Links, NEW n \in DOMAIN from[k], OnClientResponse(k, n)
      PROVE  ClusterType'
  <2>1. from[k] \in Seq(Items) /\ n \in 1..Len(from[k])
    BY <1>0, <1>9 DEF OnClientResponse, WireType
  <2>2. from' = [from EXCEPT ![k] = Cut(@, n)]
    BY <1>9 DEF OnClientResponse, Cut
  <2>3. from' \in [Links -> Seq(Items)]
    BY <1>0, <2>1, <2>2, CutType DEF WireType
  <2>4. SubSeq(from[k], 1, n)[1].req \in Requests
    BY <2>1, ReadIs DEF Items
  <2>5. /\ outcome' \in [Requests -> {"none", "waiting", "ok", "false", "timeout"}]
        /\ stray' \subseteq Requests /\ dropping' \subseteq {"near", "far"}
    <3> DEFINE read == SubSeq(from[k], 1, n)
    <3>1. CASE IsWhole(read) /\ Understood(read[1].kind)
      <4>1. Response(read[1].req, Result(read[1].kind)) /\ UNCHANGED dropping
        BY <1>9, <3>1 DEF OnClientResponse
      <4>2. Result(read[1].kind) \in {"ok", "false"}
        BY DEF Result
      <4> QED
        BY <1>0, <2>4, <4>1, <4>2, AnswerType DEF NearType
    <3>2. CASE ~(IsWhole(read) /\ Understood(read[1].kind))
      BY <1>0, <1>9, <3>2 DEF OnClientResponse, NoResponse, NearType
    <3> QED
      BY <3>1, <3>2
  <2> QED
    BY <1>0, <1>9, <2>3, <2>5
       DEF OnClientResponse, ClusterType, NearType, LinkType, WireType, FarType, linkVars, farVars
<1> QED
  BY <1>1, <1>2, <1>3, <1>4, <1>5, <1>6, <1>7, <1>8, <1>9 DEF NearStep

LEMMA TypeFar == ASSUME ClusterType, FarStep PROVE ClusterType'
<1>0. NearType /\ LinkType /\ WireType /\ FarType
  BY DEF ClusterType
<1>1. ASSUME DropFar PROVE ClusterType'
  <2>1. to' \in [Links -> Seq(Items)]
    <3>1. CASE UNCHANGED to
      BY <3>1, <1>0 DEF WireType
    <3>2. CASE \E k \in Links : to[k] # <<>> /\ to' = [to EXCEPT ![k] = Tail(@)]
      <4>1. PICK k \in Links : to[k] # <<>> /\ to' = [to EXCEPT ![k] = Tail(@)]
        BY <3>2
      <4> QED
        BY <4>1, <1>0, TailIsCut, CutType DEF WireType
    <3> QED
      BY <1>1, <3>1, <3>2 DEF DropFar
  <2> QED
    BY <1>0, <1>1, <2>1 DEF DropFar, ClusterType, NearType, LinkType, WireType, FarType,
                            nearVars, linkVars, farVars
<1>2. ASSUME NEW k \in Links, NEW n \in DOMAIN to[k], OnMsg(k, n) PROVE ClusterType'
  <2> DEFINE r == SubSeq(to[k], 1, n)[1].req
  <2>1. to[k] \in Seq(Items) /\ n \in 1..Len(to[k])
    BY <1>0, <1>2 DEF OnMsg, WireType
  <2>2. r \in Requests
    BY <2>1, ReadIs DEF Items
  <2>3. to' = [to EXCEPT ![k] = Cut(@, n)]
    BY <1>2 DEF OnMsg, Cut
  <2> HIDE DEF r
  <2>4. to' \in [Links -> Seq(Items)]
    BY <1>0, <2>1, <2>3, CutType DEF WireType
  <2>5. UNCHANGED <<nearVars, linkVars, httpVars>>
    BY <1>2 DEF OnMsg
  <2>6. CASE UNCHANGED <<executed, serving, from>> /\ dropping' = dropping \union {"far"}
    BY <1>0, <2>4, <2>5, <2>6 DEF ClusterType, NearType, LinkType, WireType, FarType,
                                  nearVars, linkVars
  <2>7. ASSUME NEW id \in {0, 1},
               executed' = [executed EXCEPT ![r] = @ + id],
               serving' = IF r \in Sends THEN serving ELSE
                            serving \union {[req |-> r, on |-> k, id |-> id]},
               SendResponse(k, "text", r) \/ UNCHANGED from,
               UNCHANGED dropping
        PROVE  ClusterType'
    <3>1. executed' \in [Requests -> Nat]
      BY <1>0, <2>2, <2>7 DEF FarType
    <3>2. serving' \subseteq [req : Requests \ Sends, on : Links, id : {0, 1}]
      BY <1>0, <2>2, <2>7 DEF FarType
    <3>3. from' \in [Links -> Seq(Items)]
      BY <1>0, <2>2, <2>7, ResponseType DEF WireType
    <3> QED
      BY <1>0, <2>4, <2>5, <2>7, <3>1, <3>2, <3>3
         DEF ClusterType, NearType, LinkType, WireType, FarType, nearVars, linkVars
  <2> QED
    BY <1>2, <2>6, <2>7 DEF OnMsg, r
<1>3. ASSUME NEW call \in serving, NEW isOk \in BOOLEAN, CallReturns(call, isOk)
      PROVE  ClusterType'
  <2>1. call.on \in Links /\ call.req \in Requests
    BY <1>0 DEF FarType
  <2>2. PICK kind \in {"ok", "fail"} : SendResponse(call.on, kind, call.req)
    BY <1>3 DEF CallReturns
  <2>3. from' \in [Links -> Seq(Items)]
    BY <1>0, <2>1, <2>2, ResponseType
  <2> QED
    BY <1>0, <1>3, <2>3 DEF CallReturns, ClusterType, NearType, LinkType, WireType, FarType,
                            nearVars, linkVars
<1> QED
  BY <1>1, <1>2, <1>3 DEF FarStep

LEMMA TypeOther ==
  ASSUME ClusterType, Caller \/ Network \/ Http \/ UNCHANGED vars
  PROVE  ClusterType'
<1>0. NearType /\ LinkType /\ WireType /\ FarType
  BY DEF ClusterType
<1>1. CASE Caller
  <2>1. NearType'
    BY <1>0, <1>1 DEF Caller, StartCluster, Ask, TimeOut, NearType, LookedUp, SetPc, Pcs
  <2> QED
    BY <1>0, <1>1, <2>1 DEF Caller, StartCluster, Ask, TimeOut, ClusterType, LinkType,
                            WireType, FarType, linkVars, farVars
<1>2. ASSUME NEW k \in Links, NEW kind \in {"connect", "error", "close"},
             \/ from' = [from EXCEPT ![k] = Event(kind, k)]
             \/ from' = [from EXCEPT ![k] = @ \o Event(kind, k)],
             NEW st \in {"up", "closed"}, link' = [link EXCEPT ![k] = st],
             UNCHANGED <<nearVars, tcpClients, alive, links, owner, to, farVars, dropping>>
      PROVE  ClusterType'
  <2>1. Event(kind, k) \in Seq(Items) /\ from[k] \o Event(kind, k) \in Seq(Items)
    BY <1>0, EventIs, JoinIs DEF LinkType, WireType
  <2>2. from' \in [Links -> Seq(Items)]
    BY <1>0, <1>2, <2>1 DEF WireType
  <2> QED
    BY <1>0, <1>2, <2>2 DEF ClusterType, NearType, LinkType, WireType, FarType, nearVars, farVars
<1>3. CASE Network
  BY <1>2, <1>3 DEF Network, Connected, Disconnected
<1>4. CASE Http \/ UNCHANGED vars
  BY <1>0, <1>4 DEF Http, vars, ClusterType, NearType, LinkType, WireType, FarType,
                    nearVars, linkVars, farVars
<1> QED
  BY <1>1, <1>3, <1>4

LEMMA TypeStep == ClusterType /\ [Next]_vars => ClusterType'
BY TypeNear, TypeFar, TypeOther DEF Next

(* The cluster keeps its types, and its pool of http clients too.           *)
THEOREM ClusterTypeCorrect == Spec => []TypeOK
<1>1. HttpTypeOK /\ ClusterType => TypeOK
  BY DEF TypeOK, ClusterType, NearType, LinkType, WireType, FarType
<1> QED
  BY <1>1, TypeInit, TypeStep, ClusterUsesPool, PoolTypeCorrect, PTL DEF Spec

-----------------------------------------------------------------------------
(* What is on a connection.                                                 *)
ToFine ==
  \A k \in Links : \A i \in DOMAIN to'[k] :
    (\E j \in DOMAIN to[k] : to'[k][i] = to[k][j]) \/ to'[k][i].kind = "request"

FromFine ==
  \A k \in Links :
    /\ k > links => from'[k] = <<>>
    /\ \A i \in DOMAIN from'[k] :
         \/ \E j \in DOMAIN from[k] : from'[k][i] = from[k][j]
         \/ from'[k][i].kind \notin {"connect", "error"}
         \/ IsEvent(from'[k][i]) /\ from'[k][i].req = owner[k]

LEMMA LinkKept ==
  ASSUME LinkInv, UNCHANGED <<links, owner>>, ToFine, FromFine,
         \A k \in Links : k > links => link'[k] = "none"
  PROVE  LinkInv'
<1> SUFFICES ASSUME NEW k \in Links
             PROVE  /\ k > links' => link'[k] = "none" /\ from'[k] = <<>>
                    /\ \A i \in DOMAIN to'[k] : to'[k][i].kind = "request"
                    /\ \A i \in DOMAIN from'[k] :
                         from'[k][i].kind \in {"connect", "error"} =>
                           IsEvent(from'[k][i]) /\ from'[k][i].req = owner'[k]
  BY DEF LinkInv, IsEvent
<1>1. \A i \in DOMAIN to'[k] : to'[k][i].kind = "request"
  BY DEF LinkInv, ToFine
<1>2. ASSUME NEW i \in DOMAIN from'[k], from'[k][i].kind \in {"connect", "error"}
      PROVE  IsEvent(from'[k][i]) /\ from'[k][i].req = owner'[k]
  <2>1. CASE \E j \in DOMAIN from[k] : from'[k][i] = from[k][j]
    BY <1>2, <2>1 DEF LinkInv
  <2>2. CASE ~\E j \in DOMAIN from[k] : from'[k][i] = from[k][j]
    BY <1>2, <2>2 DEF FromFine
  <2> QED
    BY <2>1, <2>2
<1>3. k > links' => link'[k] = "none" /\ from'[k] = <<>>
  BY DEF FromFine
<1> QED
  BY <1>1, <1>2, <1>3

LEMMA SameFine ==
  /\ UNCHANGED to => ToFine
  /\ LinkInv /\ UNCHANGED from => FromFine
BY DEF ToFine, FromFine, LinkInv

LEMMA CutToFine ==
  ASSUME WireType, NEW k \in Links, NEW n \in 1..Len(to[k]),
         to' = [to EXCEPT ![k] = Cut(@, n)]
  PROVE  ToFine
<1>1. \A i \in DOMAIN Cut(to[k], n) : \E j \in DOMAIN to[k] : Cut(to[k], n)[i] = to[k][j]
  BY CutIs DEF WireType
<1>2. \A j \in Links : to'[j] = IF j = k THEN Cut(to[k], n) ELSE to[j]
  BY DEF WireType
<1> QED
  BY <1>1, <1>2 DEF ToFine

LEMMA CutFromFine ==
  ASSUME WireType, LinkInv, NEW k \in Links, NEW n \in 1..Len(from[k]),
         from' = [from EXCEPT ![k] = Cut(@, n)]
  PROVE  FromFine
<1>1. \A i \in DOMAIN Cut(from[k], n) :
        \E j \in DOMAIN from[k] : Cut(from[k], n)[i] = from[k][j]
  BY CutIs DEF WireType
<1>2. \A j \in Links : from'[j] = IF j = k THEN Cut(from[k], n) ELSE from[j]
  BY DEF WireType
<1>3. from[k] # <<>>
  BY DEF WireType
<1> QED
  BY <1>1, <1>2, <1>3 DEF FromFine, LinkInv

LEMMA SendFine ==
  ASSUME WireType, NEW k \in Links, NEW r \in Requests, SendPacket(k, r)
  PROVE  ToFine
<1>1. CASE link[k] # "up"
  BY <1>1, SameFine DEF SendPacket
<1>2. CASE link[k] = "up"
  <2>1. PICK w \in Written(Packet("request", r)) :
          to' = [to EXCEPT ![k] = to[k] \o w]
    BY <1>2 DEF SendPacket
  <2>2. \A i \in DOMAIN (to[k] \o w) :
          \/ \E j \in DOMAIN to[k] : (to[k] \o w)[i] = to[k][j]
          \/ (to[k] \o w)[i].kind = "request"
    BY JoinIs, WrittenIs DEF WireType
  <2>3. \A j \in Links : to'[j] = IF j = k THEN to[k] \o w ELSE to[j]
    BY <2>1 DEF WireType
  <2> QED
    BY <2>2, <2>3 DEF ToFine
<1> QED
  BY <1>1, <1>2

LEMMA ResponseFine ==
  ASSUME WireType, LinkInv, NEW k \in Links, NEW r \in Requests,
         NEW kind \in {"ok", "fail", "text"}, SendResponse(k, kind, r)
  PROVE  FromFine
<1>1. CASE link[k] # "up"
  BY <1>1, SameFine DEF SendResponse
<1>2. CASE link[k] = "up"
  <2>1. PICK w \in Written(Packet(kind, r)) :
          from' = [from EXCEPT ![k] = from[k] \o w]
    BY <1>2 DEF SendResponse
  <2>2. \A i \in DOMAIN (from[k] \o w) :
          \/ \E j \in DOMAIN from[k] : (from[k] \o w)[i] = from[k][j]
          \/ (from[k] \o w)[i].kind = kind
    BY JoinIs, WrittenIs DEF WireType
  <2>3. \A j \in Links : from'[j] = IF j = k THEN from[k] \o w ELSE from[j]
    BY <2>1 DEF WireType
  <2>4. ~(k > links)
    BY <1>2 DEF LinkInv
  <2> DEFINE x == from[k] \o w
  <2>5. \A i \in DOMAIN x : (\E j \in DOMAIN from[k] : x[i] = from[k][j])
                              \/ x[i].kind \notin {"connect", "error"}
    BY <2>2
  <2> HIDE DEF x
  <2>6. \A j \in Links : from'[j] = IF j = k THEN x ELSE from[j]
    BY <2>3 DEF x
  <2>7. \A j \in Links : j > links => from'[j] = <<>>
    BY <2>4, <2>6 DEF LinkInv
  <2> QED
    BY <2>5, <2>6, <2>7 DEF FromFine
<1> QED
  BY <1>1, <1>2

LEMMA EventFine ==
  ASSUME LinkType, WireType, LinkInv, NEW k \in Links, k <= links,
         NEW kind \in {"connect", "error", "close"},
         \/ from' = [from EXCEPT ![k] = Event(kind, k)]
         \/ from' = [from EXCEPT ![k] = @ \o Event(kind, k)]
  PROVE  FromFine
<1> DEFINE e == Event(kind, k)
<1>1. e \in Seq(Items) /\ DOMAIN e = {1} /\ e[1].req = owner[k] /\ e[1].part = 0
  BY EventIs DEF LinkType
<1> HIDE DEF e
<1>2. \A i \in DOMAIN (from[k] \o e) :
        \/ \E j \in DOMAIN from[k] : (from[k] \o e)[i] = from[k][j]
        \/ IsEvent((from[k] \o e)[i]) /\ (from[k] \o e)[i].req = owner[k]
  BY <1>1, JoinIs DEF WireType, IsEvent
<1>3. \A i \in DOMAIN e : IsEvent(e[i]) /\ e[i].req = owner[k]
  BY <1>1 DEF IsEvent
<1>4. PICK x : /\ x = e \/ x = from[k] \o e
               /\ \A j \in Links : from'[j] = IF j = k THEN x ELSE from[j]
  BY DEF e, WireType
<1>5. ~(k > links)
  BY DEF LinkType, Links
<1>6. \A i \in DOMAIN x :
        \/ \E j \in DOMAIN from[k] : x[i] = from[k][j]
        \/ IsEvent(x[i]) /\ x[i].req = owner[k]
  BY <1>2, <1>3, <1>4
<1>7. \A j \in Links : j > links => from'[j] = <<>>
  BY <1>4, <1>5 DEF LinkInv
<1> QED
  BY <1>4, <1>6, <1>7 DEF FromFine

LEMMA LinkStep == ClusterType /\ LinkInv /\ [Next]_vars => LinkInv'
<1> SUFFICES ASSUME ClusterType, LinkInv, [Next]_vars PROVE LinkInv'
  OBVIOUS
<1>0. LinkType /\ WireType /\ FarType /\ NearType
  BY DEF ClusterType
<1>1. \A k \in Links : k > links => link[k] = "none"
  BY DEF LinkInv
<1>2. ASSUME UNCHANGED <<links, owner, link>>, ToFine, FromFine PROVE LinkInv'
  BY <1>1, <1>2, LinkKept
<1>3. CASE Caller \/ Http \/ UNCHANGED vars
  <2>1. UNCHANGED <<links, owner, link, to, from>>
    BY <1>3 DEF Caller, StartCluster, Ask, TimeOut, Http, vars, linkVars
  <2> QED
    BY <2>1, <1>2, SameFine
<1>4. CASE NearStep
  <2>1. ASSUME StopCluster PROVE LinkInv'
    BY <2>1, <1>2, SameFine DEF StopCluster
  <2>2. ASSUME DropNear PROVE LinkInv'
    <3>1. UNCHANGED <<links, owner, link, to>>
      BY <2>2 DEF DropNear, linkVars
    <3>2. CASE UNCHANGED from
      BY <3>1, <3>2, <1>2, SameFine
    <3>3. ASSUME NEW k \in Links, from[k] # <<>>, from' = [from EXCEPT ![k] = Tail(@)]
          PROVE  LinkInv'
      BY <3>1, <3>3, <1>0, <1>2, TailIsCut, CutFromFine, SameFine DEF WireType
    <3> QED
      BY <2>2, <3>2, <3>3 DEF DropNear
  <2>3. ASSUME NEW r \in Requests, Dispatch(r) \/ NoClient(r) \/ Lookup(r)
        PROVE  LinkInv'
    <3>1. UNCHANGED <<links, owner, link, to, from>>
      BY <2>3 DEF Dispatch, NoClient, Lookup, linkVars
    <3> QED
      BY <3>1, <1>2, SameFine
  <2>4. ASSUME NEW r \in Requests, SendOnClient(r) PROVE LinkInv'
    <3>1. tcpClients \in Links /\ UNCHANGED <<links, owner, link, from>>
      BY <1>0, <2>4 DEF SendOnClient, LinkType
    <3>2. SendPacket(tcpClients, r) \/ UNCHANGED to
      BY <2>4 DEF SendOnClient
    <3> QED
      BY <3>1, <3>2, <1>0, <1>2, SendFine, SameFine
  <2>5. ASSUME NEW r \in Requests, Found(r) PROVE LinkInv'
    <3>1. UNCHANGED <<to, from>>
      BY <2>5 DEF Found
    <3>2. CASE UNCHANGED <<alive, links, owner, link>>
      BY <3>1, <3>2, <1>2, SameFine
    <3>3. CASE /\ links < MaxLinks /\ links' = links + 1
               /\ owner' = [owner EXCEPT ![links'] = r]
               /\ \/ link' = [link EXCEPT ![links'] = "connecting"]
                  \/ UNCHANGED link
      <4>1. links \in Nat /\ links' \in Links /\ links' > links
            /\ \A k \in Links : k \in Nat
        BY <1>0, <3>3, RequestAssumption DEF LinkType, Links
      <4>2. \A k \in Links : k > links' => k > links /\ k # links'
        BY <4>1
      <4>3. from[links'] = <<>> /\ DOMAIN from[links'] = {}
        BY <4>1 DEF LinkInv
      <4>4. \A k \in Links : k # links' => owner'[k] = owner[k] /\ link'[k] = link[k]
        BY <1>0, <3>3 DEF LinkType
      <4> QED
        BY <3>1, <4>2, <4>3, <4>4 DEF LinkInv, IsEvent
    <3> QED
      BY <2>5, <3>2, <3>3 DEF Found
  <2>6. ASSUME NEW k \in Links, OnConnect(k) PROVE LinkInv'
    <3>1. owner[k] \in Requests /\ SendPacket(k, owner[k]) /\ Told(k, "connect")
          /\ UNCHANGED <<links, owner, link>>
      BY <1>0, <2>6 DEF OnConnect, LinkType
    <3>2. FromFine
      BY <1>0, <3>1, ToldIs, CutFromFine
    <3>3. ToFine
      BY <1>0, <3>1, SendFine
    <3> QED
      BY <3>1, <3>2, <3>3, <1>2
  <2>7. ASSUME NEW k \in Links, OnConnectError(k) \/ OnClose(k) PROVE LinkInv'
    <3>1. PICK kind : Told(k, kind)
      BY <2>7 DEF OnConnectError, OnClose
    <3>2. FromFine
      BY <1>0, <3>1, ToldIs, CutFromFine
    <3>3. UNCHANGED <<links, owner, link, to>>
      BY <2>7 DEF OnConnectError, OnClose, linkVars
    <3> QED
      BY <3>2, <3>3, <1>2, SameFine
  <2>8. ASSUME NEW k \in Links, NEW n \in DOMAIN from[k], OnClientResponse(k, n)
        PROVE  LinkInv'
    <3>1. n \in 1..Len(from[k]) /\ from' = [from EXCEPT ![k] = Cut(@, n)]
      BY <2>8 DEF OnClientResponse, Cut
    <3>2. UNCHANGED <<links, owner, link, to>>
      BY <2>8 DEF OnClientResponse, linkVars
    <3> QED
      BY <1>0, <3>1, <3>2, <1>2, CutFromFine, SameFine
  <2> QED
    BY <1>4, <2>1, <2>2, <2>3, <2>4, <2>5, <2>6, <2>7, <2>8 DEF NearStep
<1>5. CASE FarStep
  <2>1. ASSUME DropFar PROVE LinkInv'
    <3>1. UNCHANGED <<links, owner, link, from>>
      BY <2>1 DEF DropFar, linkVars
    <3>2. CASE UNCHANGED to
      BY <3>1, <3>2, <1>2, SameFine
    <3>3. ASSUME NEW k \in Links, to[k] # <<>>, to' = [to EXCEPT ![k] = Tail(@)]
          PROVE  LinkInv'
      BY <3>1, <3>3, <1>0, <1>2, TailIsCut, CutToFine, SameFine DEF WireType
    <3> QED
      BY <2>1, <3>2, <3>3 DEF DropFar
  <2>2. ASSUME NEW k \in Links, NEW n \in DOMAIN to[k], OnMsg(k, n) PROVE LinkInv'
    <3> DEFINE r == SubSeq(to[k], 1, n)[1].req
    <3>1. n \in 1..Len(to[k]) /\ to' = [to EXCEPT ![k] = Cut(@, n)]
      BY <2>2 DEF OnMsg, Cut
    <3>2. UNCHANGED <<links, owner, link>>
      BY <2>2 DEF OnMsg, linkVars
    <3>3. r \in Requests
      BY <1>0, <3>1, ReadIs DEF WireType, Items
    <3>4. UNCHANGED from \/ SendResponse(k, "text", r)
      BY <2>2 DEF OnMsg
    <3> HIDE DEF r
    <3>5. FromFine
      BY <1>0, <3>3, <3>4, ResponseFine, SameFine
    <3> QED
      BY <1>0, <3>1, <3>2, <3>5, <1>2, CutToFine
  <2>3. ASSUME NEW call \in serving, NEW isOk \in BOOLEAN, CallReturns(call, isOk)
        PROVE  LinkInv'
    <3>1. call.on \in Links /\ call.req \in Requests
      BY <1>0 DEF FarType
    <3>2. PICK kind \in {"ok", "fail"} : SendResponse(call.on, kind, call.req)
      BY <2>3 DEF CallReturns
    <3>3. FromFine
      BY <1>0, <3>1, <3>2, ResponseFine
    <3>4. UNCHANGED <<links, owner, link, to>>
      BY <2>3 DEF CallReturns, linkVars
    <3> QED
      BY <3>3, <3>4, <1>2, SameFine
  <2> QED
    BY <1>5, <2>1, <2>2, <2>3 DEF FarStep
<1>6. ASSUME NEW k \in Links, Disconnected(k) \/ \E ok \in BOOLEAN : Connected(k, ok)
      PROVE  LinkInv'
  <2>1. link[k] # "none"
    BY <1>6 DEF Disconnected, Connected
  <2>2. k <= links
    BY <1>0, <2>1 DEF LinkInv, LinkType, Links
  <2>3. PICK kind \in {"connect", "error", "close"} :
          \/ from' = [from EXCEPT ![k] = Event(kind, k)]
          \/ from' = [from EXCEPT ![k] = @ \o Event(kind, k)]
    BY <1>6 DEF Disconnected, Connected
  <2>4. UNCHANGED <<links, owner, to>>
    BY <1>6 DEF Disconnected, Connected
  <2>5. \A j \in Links : j > links => link'[j] = "none"
    <3>1. ~(k > links)
      BY <1>0, <2>2 DEF LinkType, Links
    <3>2. \A j \in Links : j # k => link'[j] = link[j]
      BY <1>0, <1>6 DEF Disconnected, Connected, LinkType
    <3> QED
      BY <1>1, <3>1, <3>2
  <2> QED
    BY <1>0, <2>2, <2>3, <2>4, <2>5, EventFine, SameFine, LinkKept
<1> QED
  BY <1>3, <1>4, <1>5, <1>6 DEF Next, Network

-----------------------------------------------------------------------------
(* A step that adds nothing of a request.                                   *)
LessLinks(r) ==
  /\ Opens(r)' => Opens(r)
  /\ \A k \in 1..links' : owner'[k] = r => k \in 1..links /\ owner[k] = r

LessTo(r)   == \A k \in Links : Less(to'[k], to[k], r)
LessFrom(r) == \A k \in Links : Less(from'[k], from[k], r)

LessServing(r) == \A c \in serving' : c.req = r => c \in serving

Calm(r) ==
  /\ executed'[r] = executed[r]
  /\ pc'[r] # "done" => pc[r] # "done"
  /\ outcome'[r] = outcome[r] \/ outcome'[r] \notin {"ok", "false"}

LEMMA NothingNew ==
  ASSUME NEW r \in Requests, Once(r), LessLinks(r), LessTo(r), LessFrom(r),
         LessServing(r), Calm(r)
  PROVE  Once(r)'
<1>1. /\ Goes(r)' => Goes(r)
      /\ \A k \in Links : In(to'[k], r) => In(to[k], r)
  BY LessIn DEF LessTo, Goes
<1>2. /\ Comes(r)' => Comes(r)
      /\ \A k \in Links : In(from'[k], r) => In(from[k], r)
  BY LessIn DEF LessFrom, Comes
<1>3. Serves(r)' => Serves(r)
  BY DEF LessServing, Serves
<1>4. Opens(r)' => Opens(r)
  BY DEF LessLinks
<1>5. Anywhere(r)' => Anywhere(r)
  BY <1>1, <1>2, <1>3, <1>4 DEF Anywhere
<1>6. OnePlace(r)'
  <2>1. OneOpens(r)'
    BY DEF Once, OnePlace, OneOpens, LessLinks
  <2>2. OneGoes(r)'
    BY <1>1 DEF Once, OnePlace, OneGoes, LessTo, Less
  <2>3. OneServes(r)'
    BY DEF Once, OnePlace, OneServes, LessServing
  <2>4. OneComes(r)'
    BY <1>2 DEF Once, OnePlace, OneComes, LessFrom, Less
  <2> QED
    BY <1>1, <1>2, <1>3, <1>4, <2>1, <2>2, <2>3, <2>4 DEF Once, OnePlace
<1>7. Unsent(r)'
  <2>1. \A k \in 1..links' : owner'[k] = r => k \in 1..links /\ owner[k] = r
    BY DEF LessLinks
  <2> QED
    BY <1>5, <2>1 DEF Once, Unsent, Calm
<1>8. Ran(r)'
  <2>1. ASSUME NEW k \in Links, NEW i \in DOMAIN from'[k], Carries(from'[k][i], r)
        PROVE  /\ from'[k][i].kind \in {"connect", "error"} => executed'[r] = 0
               /\ from'[k][i].kind = "ok" => executed'[r] = 1
    <3>1. PICK j \in DOMAIN from[k] : from'[k][i] = from[k][j]
      BY <2>1 DEF LessFrom, Less
    <3> QED
      BY <2>1, <3>1 DEF Once, Ran, Calm
  <2>2. \A c \in serving' : c.req = r /\ c.id # 0 => executed'[r] = 1
    BY DEF Once, Ran, Calm, LessServing
  <2> QED
    BY <1>1, <1>4, <2>1, <2>2 DEF Once, Ran, Calm
<1>9. Answered(r)'
  BY <1>5 DEF Once, Answered, Calm
<1> QED
  BY <1>6, <1>7, <1>8, <1>9 DEF Once

(* A step that moves a request to its next place, or takes it away.         *)
Settled(r) ==
  /\ pc'[r] = "done" /\ OneOpens(r)'
  /\ executed'[r] \in {0, 1}
  /\ outcome'[r] = "ok" => executed'[r] = 1

LEMMA NowGone ==
  ASSUME NEW r \in Requests, Settled(r), ~Anywhere(r)'
  PROVE  Once(r)'
BY DEF Settled, Anywhere, Goes, Comes, Serves, In, Single, Once, OnePlace, OneGoes,
       OneServes, OneComes, Unsent, Ran, Answered

LEMMA NowOpens ==
  ASSUME NEW r \in Requests, Settled(r), ~Goes(r)', ~Serves(r)', ~Comes(r)',
         executed'[r] = 0, outcome'[r] \notin {"ok", "false"}
  PROVE  Once(r)'
BY DEF Settled, Anywhere, Goes, Comes, Serves, In, Single, Once, OnePlace, OneGoes,
       OneServes, OneComes, Unsent, Ran, Answered

LEMMA NowGoes ==
  ASSUME NEW r \in Requests, Settled(r), ~Opens(r)', ~Serves(r)', ~Comes(r)',
         OneGoes(r)', executed'[r] = 0, outcome'[r] \notin {"ok", "false"}
  PROVE  Once(r)'
BY DEF Settled, Anywhere, Comes, Serves, In, Single, Once, OnePlace,
       OneServes, OneComes, Unsent, Ran, Answered

LEMMA NowServes ==
  ASSUME NEW r \in Requests, Settled(r), ~Opens(r)', ~Goes(r)', ~Comes(r)',
         OneServes(r)', outcome'[r] \notin {"ok", "false"},
         \A c \in serving' : c.req = r /\ c.id # 0 => executed'[r] = 1
  PROVE  Once(r)'
BY DEF Settled, Anywhere, Goes, Comes, In, Single, Once, OnePlace, OneGoes,
       OneComes, Unsent, Ran, Answered

LEMMA NowComes ==
  ASSUME NEW r \in Requests, Settled(r), ~Opens(r)', ~Goes(r)', ~Serves(r)',
         OneComes(r)', outcome'[r] \notin {"ok", "false"},
         \A k \in Links : \A i \in DOMAIN from'[k] :
           Carries(from'[k][i], r) =>
             /\ from'[k][i].kind \in {"connect", "error"} => executed'[r] = 0
             /\ from'[k][i].kind = "ok" => executed'[r] = 1
  PROVE  Once(r)'
BY DEF Settled, Anywhere, Goes, Serves, In, Single, Once, OnePlace, OneGoes,
       OneServes, Unsent, Ran, Answered

-----------------------------------------------------------------------------
(* What the steps do to the queues, request by request.                     *)
LEMMA SameLess ==
  ASSUME NEW r
  PROVE  /\ UNCHANGED to => LessTo(r)
         /\ UNCHANGED from => LessFrom(r)
         /\ UNCHANGED serving => LessServing(r)
         /\ UNCHANGED <<links, owner, link>> => LessLinks(r)
BY LessSame DEF LessTo, LessFrom, LessServing, LessLinks, Opens

LEMMA CutToLess ==
  ASSUME WireType, NEW k \in Links, NEW n \in 1..Len(to[k]),
         to' = [to EXCEPT ![k] = Cut(@, n)], NEW r
  PROVE  /\ LessTo(r)
         /\ OneGoes(r) /\ Carries(to[k][1], r) => ~Goes(r)'
<1>1. \A j \in Links : to'[j] = IF j = k THEN Cut(to[k], n) ELSE to[j]
  BY DEF WireType
<1>2. to[k] \in Seq(Items)
  BY DEF WireType
<1>3. LessTo(r)
  BY <1>1, <1>2, LessCut, LessSame DEF LessTo
<1>4. ASSUME OneGoes(r), Carries(to[k][1], r) PROVE ~Goes(r)'
  <2>1. In(to[k], r)
    BY <1>2, <1>4, ReadIs DEF In
  <2>2. ~In(Cut(to[k], n), r)
    BY <1>2, <1>4, CutTakes DEF OneGoes
  <2>3. \A j \in Links : j # k => ~In(to[j], r)
    BY <1>4, <2>1 DEF OneGoes
  <2> QED
    BY <1>1, <2>2, <2>3 DEF Goes
<1> QED
  BY <1>3, <1>4

LEMMA CutFromLess ==
  ASSUME WireType, NEW k \in Links, NEW n \in 1..Len(from[k]),
         from' = [from EXCEPT ![k] = Cut(@, n)], NEW r
  PROVE  /\ LessFrom(r)
         /\ Carries(from[k][1], r) => Comes(r)
         /\ OneComes(r) /\ Carries(from[k][1], r) => ~Comes(r)'
<1>1. \A j \in Links : from'[j] = IF j = k THEN Cut(from[k], n) ELSE from[j]
  BY DEF WireType
<1>2. from[k] \in Seq(Items)
  BY DEF WireType
<1>3. LessFrom(r)
  BY <1>1, <1>2, LessCut, LessSame DEF LessFrom
<1>4. ASSUME Carries(from[k][1], r) PROVE In(from[k], r) /\ Comes(r)
  BY <1>2, <1>4, ReadIs DEF In, Comes
<1>5. ASSUME OneComes(r), Carries(from[k][1], r) PROVE ~Comes(r)'
  <2>1. In(from[k], r)
    BY <1>4, <1>5
  <2>2. ~In(Cut(from[k], n), r)
    BY <1>2, <1>5, CutTakes DEF OneComes
  <2>3. \A j \in Links : j # k => ~In(from[j], r)
    BY <1>5, <2>1 DEF OneComes
  <2> QED
    BY <1>1, <2>2, <2>3 DEF Comes
<1> QED
  BY <1>3, <1>4, <1>5

LEMMA SendLess ==
  ASSUME WireType, NEW k \in Links, NEW r \in Requests, SendPacket(k, r)
  PROVE  /\ \A q \in Requests : q # r => LessTo(q)
         /\ ~Goes(r) => OneGoes(r)'
<1>1. CASE link[k] # "up"
  BY <1>1, SameLess DEF SendPacket, OneGoes, Goes, In, Single
<1>2. CASE link[k] = "up"
  <2>1. PICK w \in Written(Packet("request", r)) :
          to' = [to EXCEPT ![k] = to[k] \o w]
    BY <1>2 DEF SendPacket
  <2>2. w \in Seq(Items) /\ to[k] \in Seq(Items)
    BY WrittenIs DEF WireType
  <2> DEFINE x == to[k] \o w
  <2>3. \A j \in Links : to'[j] = IF j = k THEN x ELSE to[j]
    BY <2>1 DEF WireType
  <2>4. ASSUME NEW q \in Requests, q # r PROVE Less(x, to[k], q)
    BY <2>2, <2>4, LessJoin, WrittenCarries
  <2>5. ~In(to[k], r) => Single(x, r)
    BY <2>2, JoinAdds, WrittenCarries
  <2> HIDE DEF x
  <2>6. \A q \in Requests : q # r => LessTo(q)
    BY <2>3, <2>4, LessSame DEF LessTo
  <2>7. ASSUME ~Goes(r) PROVE OneGoes(r)'
    <3>1. \A j \in Links : ~In(to[j], r)
      BY <2>7 DEF Goes
    <3>2. \A j \in Links : Single(to[j], r)
      BY <3>1 DEF In, Single
    <3> QED
      BY <2>3, <2>5, <3>1, <3>2 DEF OneGoes
  <2> QED
    BY <2>6, <2>7
<1> QED
  BY <1>1, <1>2

LEMMA ResponseLess ==
  ASSUME WireType, NEW k \in Links, NEW r \in Requests,
         NEW kind \in {"ok", "fail", "text"}, SendResponse(k, kind, r)
  PROVE  /\ \A q \in Requests : q # r \/ kind = "text" => LessFrom(q)
         /\ ~Comes(r) =>
              /\ OneComes(r)'
              /\ \A j \in Links : \A i \in DOMAIN from'[j] :
                   Carries(from'[j][i], r) => from'[j][i].kind = kind
<1>1. CASE link[k] # "up"
  BY <1>1, SameLess DEF SendResponse, OneComes, Comes, In, Single
<1>2. CASE link[k] = "up"
  <2>1. PICK w \in Written(Packet(kind, r)) :
          from' = [from EXCEPT ![k] = from[k] \o w]
    BY <1>2 DEF SendResponse
  <2>2. w \in Seq(Items) /\ from[k] \in Seq(Items)
    BY WrittenIs DEF WireType
  <2> DEFINE x == from[k] \o w
  <2>3. \A j \in Links : from'[j] = IF j = k THEN x ELSE from[j]
    BY <2>1 DEF WireType
  <2>4. ASSUME NEW q \in Requests, q # r \/ kind = "text" PROVE Less(x, from[k], q)
    BY <2>2, <2>4, LessJoin, WrittenCarries
  <2>5. ~In(from[k], r) => /\ Single(x, r)
                           /\ \A i \in DOMAIN x : Carries(x[i], r) => x[i].kind = kind
    <3>1. \A i \in DOMAIN w : Carries(w[i], r) => i = 1
      BY WrittenCarries
    <3>2. ~In(from[k], r) =>
            /\ Single(x, r)
            /\ \A i \in DOMAIN x : Carries(x[i], r) => 1 \in DOMAIN w /\ x[i] = w[1]
      BY <2>2, <3>1, JoinAdds
    <3>3. \A i \in DOMAIN w : w[i].kind = kind
      BY WrittenIs
    <3> QED
      BY <3>2, <3>3
  <2> HIDE DEF x
  <2>6. \A q \in Requests : q # r \/ kind = "text" => LessFrom(q)
    BY <2>3, <2>4, LessSame DEF LessFrom
  <2>7. ASSUME ~Comes(r)
        PROVE  /\ OneComes(r)'
               /\ \A j \in Links : \A i \in DOMAIN from'[j] :
                    Carries(from'[j][i], r) => from'[j][i].kind = kind
    <3>1. \A j \in Links : ~In(from[j], r)
      BY <2>7 DEF Comes
    <3>2. \A j \in Links : Single(from[j], r)
      BY <3>1 DEF In, Single
    <3>3. \A j \in Links : j # k => \A i \in DOMAIN from[j] : ~Carries(from[j][i], r)
      BY <3>1 DEF In
    <3> QED
      BY <2>3, <2>5, <3>1, <3>2, <3>3 DEF OneComes
  <2> QED
    BY <2>6, <2>7
<1> QED
  BY <1>1, <1>2

-----------------------------------------------------------------------------
(* The steps.                                                               *)
AllOnce == ClusterType /\ LinkInv /\ \A r \in Requests : Once(r)

LEMMA OnceParts ==
  ASSUME AllOnce
  PROVE  /\ NearType /\ LinkType /\ WireType /\ FarType /\ LinkInv
         /\ \A q \in Requests : /\ Once(q) /\ OnePlace(q) /\ Unsent(q) /\ Ran(q)
                                /\ Answered(q) /\ OneOpens(q) /\ OneGoes(q)
                                /\ OneServes(q) /\ OneComes(q)
BY DEF AllOnce, ClusterType, Once, OnePlace

(* Where the links are as they were.                                        *)
LEMMA KeptLinks ==
  ASSUME UNCHANGED <<links, owner, link>>, NEW r
  PROVE  /\ Opens(r)' = Opens(r) /\ OneOpens(r)' = OneOpens(r) /\ LessLinks(r)
BY DEF Opens, OneOpens, LessLinks

LEMMA OnceSend ==
  ASSUME AllOnce, NEW r \in Requests, SendOnClient(r), NEW q \in Requests
  PROVE  Once(q)'
<1>0. /\ NearType /\ LinkType /\ WireType /\ Once(q)
      /\ OnePlace(r) /\ Unsent(r) /\ OneOpens(r)
  BY OnceParts
<1>1. /\ pc[r] = "queued" /\ tcpClients \in Links
      /\ UNCHANGED <<outcome, links, owner, link, from, executed, serving>>
  BY <1>0 DEF SendOnClient, LinkType, farVars
<1>2. PICK l \in {"done", "lookup"} : /\ pc' = [pc EXCEPT ![r] = l]
                                      /\ \/ UNCHANGED to /\ l = "lookup"
                                         \/ SendPacket(tcpClients, r) /\ l = "done"
  BY DEF SendOnClient, SetPc, AfterSend
<1>3. ASSUME LessTo(q), q # r \/ l = "lookup" PROVE Once(q)'
  <2>1. pc'[q] # "done" => pc[q] # "done"
    BY <1>0, <1>1, <1>2, <1>3 DEF NearType
  <2>2. Calm(q)
    BY <1>1, <2>1 DEF Calm
  <2> QED
    BY <1>0, <1>1, <1>3, <2>2, SameLess, NothingNew
<1>4. CASE UNCHANGED to /\ l = "lookup"
  BY <1>3, <1>4, SameLess
<1>5. CASE SendPacket(tcpClients, r) /\ l = "done" /\ q # r
  BY <1>0, <1>1, <1>3, <1>5, SendLess
<1>6. CASE SendPacket(tcpClients, r) /\ l = "done" /\ q = r
  <2>1. ~Anywhere(r) /\ executed[r] = 0 /\ outcome[r] \notin {"ok", "false"}
    BY <1>0, <1>1 DEF Unsent
  <2>2. ~Opens(r)' /\ ~Serves(r)' /\ ~Comes(r)'
    BY <1>1, <2>1 DEF Anywhere, Opens, Serves, Comes
  <2>3. OneGoes(r)'
    BY <1>0, <1>1, <1>6, <2>1, SendLess DEF Anywhere
  <2>4. Settled(r)
    BY <1>0, <1>1, <1>2, <1>6, <2>1, KeptLinks DEF Settled, NearType
  <2> QED
    BY <1>1, <1>6, <2>1, <2>2, <2>3, <2>4, NowGoes
<1> QED
  BY <1>2, <1>4, <1>5, <1>6

LEMMA OnceFound ==
  ASSUME AllOnce, NEW r \in Requests, Found(r), NEW q \in Requests
  PROVE  Once(q)'
<1>0. /\ NearType /\ LinkType /\ LinkInv /\ Once(q)
      /\ OnePlace(r) /\ Unsent(r) /\ OneOpens(r)
  BY OnceParts
<1>1. /\ pc[r] = "lookup"
      /\ UNCHANGED <<to, from, executed, serving>>
  BY DEF Found, farVars
<1>2. ~Anywhere(r) /\ executed[r] = 0 /\ outcome[r] \notin {"ok", "false"}
      /\ \A k \in 1..links : owner[k] # r
  BY <1>0, <1>1 DEF Unsent
<1>3. ~Goes(r)' /\ ~Serves(r)' /\ ~Comes(r)' /\ ~Opens(r)
  BY <1>1, <1>2 DEF Anywhere, Goes, Serves, Comes
<1>4. CASE pc' = [pc EXCEPT ![r] = "lost"] /\ UNCHANGED <<outcome, links, owner, link>>
  <2>1. Calm(q)
    BY <1>0, <1>1, <1>4 DEF Calm, NearType
  <2> QED
    BY <1>0, <1>1, <1>4, <2>1, SameLess, NothingNew
<1>5. ASSUME links < MaxLinks, links' = links + 1,
             owner' = [owner EXCEPT ![links'] = r],
             \/ link' = [link EXCEPT ![links'] = "connecting"] /\ NoResponse
             \/ UNCHANGED link /\ Response(r, "false"),
             pc' = [pc EXCEPT ![r] = "done"]
      PROVE  Once(q)'
  <2>1. /\ links \in Nat /\ links' \in Links
        /\ \A k \in 1..links' : k \in Links /\ (k \in 1..links \/ k = links')
    BY <1>0, <1>5, RequestAssumption DEF LinkType, Links
  <2>2. /\ owner'[links'] = r
        /\ \A k \in Links : k # links' => owner'[k] = owner[k] /\ link'[k] = link[k]
    BY <1>0, <1>5, <2>1 DEF LinkType
  <2>3. link[links'] = "none"
    BY <1>0, <1>5, <2>1 DEF LinkInv
  <2>4. CASE q # r
    <3>1. LessLinks(q)
      BY <2>1, <2>2, <2>4 DEF LessLinks, Opens
    <3>2. outcome'[q] = outcome[q] /\ pc'[q] = pc[q]
      BY <1>0, <1>5, <2>4 DEF Response, NoResponse, NearType
    <3>3. Calm(q)
      BY <1>1, <3>2 DEF Calm
    <3> QED
      BY <1>0, <1>1, <3>1, <3>3, SameLess, NothingNew
  <2>5. CASE q = r
    <3>1. OneOpens(r)'
      BY <1>2, <2>1, <2>2 DEF OneOpens
    <3>2. pc'[r] = "done" /\ executed'[r] = 0
      BY <1>0, <1>1, <1>2, <1>5 DEF NearType
    <3>3. CASE link' = [link EXCEPT ![links'] = "connecting"] /\ NoResponse
      <4>1. outcome'[r] \notin {"ok", "false"}
        BY <1>2, <3>3 DEF NoResponse
      <4> QED
        BY <1>3, <2>5, <3>1, <3>2, <4>1, NowOpens DEF Settled
    <3>4. CASE UNCHANGED link /\ Response(r, "false")
      <4>1. outcome'[r] # "ok"
        BY <1>0, <1>2, <3>4 DEF Response, NearType
      <4>2. ~Opens(r)'
        BY <1>3, <2>2, <2>3, <3>4 DEF Opens
      <4> QED
        BY <1>3, <2>5, <3>1, <3>2, <4>1, <4>2, NowGone DEF Settled, Anywhere
    <3> QED
      BY <1>5, <3>3, <3>4
  <2> QED
    BY <2>4, <2>5
<1> QED
  BY <1>4, <1>5 DEF Found, SetPc, NoResponse

(* A message of a connection that stands for the request of its coroutine.  *)
LEMMA ToldCarries ==
  ASSUME AllOnce, NEW k \in Links, NEW kind \in {"connect", "error"}, Told(k, kind),
         NEW r \in Requests, r = owner[k]
  PROVE  /\ Comes(r) /\ ~Comes(r)' /\ executed[r] = 0
         /\ pc[r] = "done" /\ outcome[r] \notin {"ok", "false"}
         /\ ~Opens(r) /\ ~Goes(r) /\ ~Serves(r)
         /\ \A q \in Requests : LessFrom(q)
<1>1. WireType /\ LinkInv
  BY OnceParts
<1>2. /\ 1 \in 1..Len(from[k]) /\ 1 \in DOMAIN from[k] /\ from[k][1].kind = kind
      /\ from' = [from EXCEPT ![k] = Cut(@, 1)]
  BY <1>1, ToldIs
<1>3. Carries(from[k][1], r)
  BY <1>1, <1>2 DEF LinkInv, Carries
<1>4. OnePlace(r) /\ Unsent(r) /\ Ran(r) /\ Answered(r) /\ OneComes(r)
  BY OnceParts
<1>5. Comes(r) /\ ~Comes(r)' /\ \A q \in Requests : LessFrom(q)
  BY <1>1, <1>2, <1>3, <1>4, CutFromLess
<1>6. executed[r] = 0
  BY <1>2, <1>3, <1>4 DEF Ran
<1>7. pc[r] = "done" /\ outcome[r] \notin {"ok", "false"}
      /\ ~Opens(r) /\ ~Goes(r) /\ ~Serves(r)
  BY <1>4, <1>5 DEF OnePlace, Unsent, Answered, Anywhere
<1> QED
  BY <1>5, <1>6, <1>7

LEMMA OnceConnect ==
  ASSUME AllOnce, NEW k \in Links, OnConnect(k), NEW q \in Requests
  PROVE  Once(q)'
<1>r. PICK r \in Requests : r = owner[k]
  BY OnceParts DEF LinkType
<1>0. WireType /\ Once(q)
  BY OnceParts
<1>1. /\ UNCHANGED <<pc, outcome, links, owner, link, executed, serving>>
      /\ Told(k, "connect") /\ SendPacket(k, r)
  BY <1>r DEF OnConnect, nearVars, farVars
<1>2. /\ Comes(r) /\ ~Comes(r)' /\ executed[r] = 0
      /\ pc[r] = "done" /\ outcome[r] \notin {"ok", "false"}
      /\ ~Opens(r) /\ ~Goes(r) /\ ~Serves(r) /\ LessFrom(q)
  BY <1>r, <1>1, ToldCarries
<1>3. CASE q # r
  <2>1. LessTo(q) /\ Calm(q)
    BY <1>0, <1>1, <1>2, <1>3, SendLess DEF Calm
  <2> QED
    BY <1>0, <1>1, <1>2, <2>1, SameLess, NothingNew
<1>4. CASE q = r
  <2>1. OneGoes(r)'
    BY <1>0, <1>1, <1>2, SendLess
  <2>2. ~Opens(r)' /\ OneOpens(r)'
    BY <1>1, <1>2, KeptLinks, OnceParts
  <2>3. ~Serves(r)'
    BY <1>1, <1>2 DEF Serves
  <2> QED
    BY <1>1, <1>2, <1>4, <2>1, <2>2, <2>3, NowGoes DEF Settled
<1> QED
  BY <1>3, <1>4

(* An answer to a request.                                                  *)
LEMMA ResponseIs ==
  ASSUME NearType, NEW r \in Requests, NEW v \in {"ok", "false"}, Response(r, v)
  PROVE  /\ \A q \in Requests : q # r => outcome'[q] = outcome[q]
         /\ outcome'[r] = v \/ outcome'[r] = outcome[r]
BY DEF Response, NearType

LEMMA OnceError ==
  ASSUME AllOnce, NEW k \in Links, OnConnectError(k), NEW q \in Requests
  PROVE  Once(q)'
<1>r. PICK r \in Requests : r = owner[k]
  BY OnceParts DEF LinkType
<1>0. NearType /\ Once(q)
  BY OnceParts
<1>1. /\ UNCHANGED <<pc, links, owner, link, to, executed, serving>>
      /\ Told(k, "error") /\ Response(r, "false")
  BY <1>r DEF OnConnectError, linkVars, farVars
<1>2. /\ Comes(r) /\ ~Comes(r)' /\ executed[r] = 0
      /\ pc[r] = "done" /\ outcome[r] \notin {"ok", "false"}
      /\ ~Opens(r) /\ ~Goes(r) /\ ~Serves(r) /\ LessFrom(q)
  BY <1>r, <1>1, ToldCarries
<1>3. /\ q # r => outcome'[q] = outcome[q]
      /\ outcome'[r] # "ok"
  BY <1>0, <1>1, <1>2, ResponseIs
<1>4. CASE q # r
  BY <1>0, <1>1, <1>2, <1>3, <1>4, SameLess, NothingNew DEF Calm
<1>5. CASE q = r
  <2>1. ~Opens(r)' /\ OneOpens(r)'
    BY <1>1, <1>2, KeptLinks, OnceParts
  <2>2. ~Serves(r)' /\ ~Goes(r)'
    BY <1>1, <1>2 DEF Serves, Goes
  <2> QED
    BY <1>1, <1>2, <1>3, <1>5, <2>1, <2>2, NowGone DEF Settled, Anywhere
<1> QED
  BY <1>4, <1>5

LEMMA ReadCarries ==
  ASSUME AllOnce, NEW k \in Links, NEW n \in DOMAIN from[k], OnClientResponse(k, n),
         IsWhole(SubSeq(from[k], 1, n)), Understood(from[k][1].kind)
  PROVE  LET r == from[k][1].req IN
           /\ r \in Requests /\ Carries(from[k][1], r)
           /\ 1 \in DOMAIN from[k]
           /\ Response(r, Result(from[k][1].kind))
<1>1. from[k] \in Seq(Items) /\ n \in 1..Len(from[k])
  BY OnceParts DEF WireType, OnClientResponse
<1>2. /\ SubSeq(from[k], 1, n)[1] = from[k][1] /\ from[k][1] \in Items
      /\ 1 \in DOMAIN from[k]
  BY <1>1, ReadIs
<1>3. from[k][1].part = 1 /\ from[k][1].kind # "text"
  BY <1>2 DEF IsWhole, Understood
<1>4. Response(from[k][1].req, Result(from[k][1].kind))
  BY <1>2 DEF OnClientResponse
<1> QED
  BY <1>2, <1>3, <1>4 DEF Carries, Items

LEMMA OnceRead ==
  ASSUME AllOnce, NEW k \in Links, NEW n \in DOMAIN from[k], OnClientResponse(k, n),
         NEW q \in Requests
  PROVE  Once(q)'
<1>0. NearType /\ WireType /\ Once(q)
  BY OnceParts
<1>1. /\ UNCHANGED <<pc, links, owner, link, to, executed, serving>>
      /\ n \in 1..Len(from[k]) /\ from' = [from EXCEPT ![k] = Cut(@, n)]
  BY DEF OnClientResponse, linkVars, farVars, Cut
<1>2. LessFrom(q)
  BY <1>0, <1>1, CutFromLess
<1>3. ASSUME outcome'[q] = outcome[q] PROVE Once(q)'
  BY <1>0, <1>1, <1>2, <1>3, SameLess, NothingNew DEF Calm
<1>4. CASE IsWhole(SubSeq(from[k], 1, n)) /\ Understood(from[k][1].kind)
  <2>1. PICK r \in Requests : /\ Carries(from[k][1], r) /\ 1 \in DOMAIN from[k]
                              /\ Response(r, Result(from[k][1].kind))
    BY <1>4, ReadCarries
  <2>2. CASE q # r
    BY <1>0, <1>3, <2>1, <2>2, ResponseIs DEF Result
  <2>3. CASE q = r
    <3>1. /\ OnePlace(r) /\ Unsent(r) /\ Ran(r) /\ OneComes(r) /\ OneOpens(r)
      BY <2>1, OnceParts
    <3>2. Comes(r) /\ ~Comes(r)'
      BY <1>0, <1>1, <2>1, <3>1, CutFromLess
    <3>3. pc[r] = "done" /\ ~Opens(r) /\ ~Goes(r) /\ ~Serves(r)
      BY <3>1, <3>2 DEF OnePlace, Unsent, Anywhere
    <3>4. ~Opens(r)' /\ OneOpens(r)' /\ ~Goes(r)' /\ ~Serves(r)'
      BY <1>1, <3>1, <3>3, KeptLinks DEF Goes, Serves
    <3>5. outcome'[r] = "ok" => executed[r] = 1
      <4>1. outcome'[r] = "ok" => outcome[r] = "ok" \/ from[k][1].kind = "ok"
        BY <1>0, <2>1, ResponseIs DEF Result
      <4> QED
        BY <2>1, <3>1, <4>1 DEF Ran
    <3>6. executed[r] \in {0, 1}
      BY <2>1, <3>1, OnceParts DEF Ran, FarType
    <3> QED
      BY <1>1, <2>3, <3>2, <3>3, <3>4, <3>5, <3>6, NowGone DEF Settled, Anywhere
  <2> QED
    BY <2>2, <2>3
<1>5. CASE ~(IsWhole(SubSeq(from[k], 1, n)) /\ Understood(from[k][1].kind))
  <2>1. SubSeq(from[k], 1, n)[1] = from[k][1]
    BY <1>0, <1>1, ReadIs DEF WireType
  <2>2. NoResponse
    BY <1>5, <2>1 DEF OnClientResponse
  <2> QED
    BY <1>3, <2>2 DEF NoResponse
<1> QED
  BY <1>4, <1>5

LEMMA OnceRun ==
  ASSUME AllOnce, NEW k \in Links, NEW n \in DOMAIN to[k], OnMsg(k, n), NEW q \in Requests
  PROVE  Once(q)'
<1>0. NearType /\ WireType /\ FarType /\ LinkInv /\ Once(q)
  BY OnceParts
<1>1. /\ UNCHANGED <<pc, outcome, links, owner, link>>
      /\ n \in 1..Len(to[k]) /\ to' = [to EXCEPT ![k] = Cut(@, n)]
  BY DEF OnMsg, nearVars, linkVars, Cut
<1>2. LessTo(q)
  BY <1>0, <1>1, CutToLess
<1>3. ASSUME executed'[q] = executed[q], LessServing(q), LessFrom(q) PROVE Once(q)'
  BY <1>0, <1>1, <1>2, <1>3, SameLess, NothingNew DEF Calm
<1>4. CASE UNCHANGED <<executed, serving, from>>
  BY <1>3, <1>4, SameLess
<1>5. to[k] \in Seq(Items)
  BY <1>0 DEF WireType
<1>6. PICK r \in Requests : r = to[k][1].req
  BY <1>1, <1>5, ReadIs DEF Items
<1>7. SubSeq(to[k], 1, n)[1] = to[k][1] /\ 1 \in DOMAIN to[k]
  BY <1>1, <1>5, ReadIs
<1>8. ASSUME IsWhole(SubSeq(to[k], 1, n)), NEW id \in {0, 1},
             executed' = [executed EXCEPT ![r] = @ + id],
             serving' = IF r \in Sends THEN serving ELSE
                          serving \union {[req |-> r, on |-> k, id |-> id]},
             IF id = 0 /\ r \notin Sends THEN SendResponse(k, "text", r)
                                       ELSE UNCHANGED from
      PROVE  Once(q)'
  <2>1. Carries(to[k][1], r)
    BY <1>0, <1>6, <1>7, <1>8 DEF Carries, IsWhole, LinkInv
  <2>2. /\ OnePlace(r) /\ Unsent(r) /\ Ran(r) /\ Answered(r) /\ OneGoes(r) /\ OneOpens(r)
    BY OnceParts
  <2>3. Goes(r) /\ ~Goes(r)'
    BY <1>0, <1>1, <1>7, <2>1, <2>2, CutToLess DEF Goes, In
  <2>4. /\ pc[r] = "done" /\ ~Opens(r) /\ ~Serves(r) /\ ~Comes(r)
        /\ executed[r] = 0 /\ outcome[r] \notin {"ok", "false"}
    BY <2>2, <2>3 DEF OnePlace, Unsent, Ran, Answered, Anywhere
  <2>5. LessFrom(q) /\ LessFrom(r)
    BY <1>0, <1>8, ResponseLess, SameLess
  <2>6. CASE q # r
    <3>1. executed'[q] = executed[q]
      BY <1>0, <1>8, <2>6 DEF FarType
    <3>2. LessServing(q)
      BY <1>8, <2>6 DEF LessServing
    <3> QED
      BY <1>3, <2>5, <3>1, <3>2
  <2>7. CASE q = r
    <3>1. ~Opens(r)' /\ OneOpens(r)'
      BY <1>1, <2>2, <2>4, KeptLinks
    <3>2. ~Comes(r)'
      BY <2>4, <2>5, LessIn DEF LessFrom, Comes
    <3>3. executed'[r] = id
      BY <1>0, <1>8, <2>4 DEF FarType
    <3>4. Settled(r)
      BY <1>1, <2>4, <3>1, <3>3 DEF Settled
    <3>5. CASE r \in Sends
      <4>1. ~Serves(r)'
        BY <1>8, <2>4, <3>5 DEF Serves
      <4> QED
        BY <2>3, <2>7, <3>1, <3>2, <3>4, <4>1, NowGone DEF Anywhere
    <3>6. CASE r \notin Sends
      <4>1. \A c \in serving' : c.req = r => c = [req |-> r, on |-> k, id |-> id]
        BY <1>8, <2>4, <3>6 DEF Serves
      <4>2. OneServes(r)' /\ \A c \in serving' : c.req = r /\ c.id # 0 => executed'[r] = 1
        BY <3>3, <4>1 DEF OneServes
      <4> QED
        BY <1>1, <2>3, <2>4, <2>7, <3>1, <3>2, <3>4, <4>2, NowServes
    <3> QED
      BY <3>5, <3>6
  <2> QED
    BY <2>6, <2>7
<1> QED
  BY <1>4, <1>6, <1>7, <1>8 DEF OnMsg

LEMMA OnceReturn ==
  ASSUME AllOnce, NEW call \in serving, NEW isOk \in BOOLEAN, CallReturns(call, isOk),
         NEW q \in Requests
  PROVE  Once(q)'
<1>0. NearType /\ WireType /\ FarType /\ Once(q)
  BY OnceParts
<1>1. /\ UNCHANGED <<pc, outcome, links, owner, link, to, executed>>
      /\ serving' = serving \ {call}
  BY DEF CallReturns, nearVars, linkVars
<1>2. PICK r \in Requests, k \in Links : r = call.req /\ k = call.on
  BY <1>0 DEF FarType
<1>3. PICK kind \in {"ok", "fail"} : /\ SendResponse(k, kind, r)
                                     /\ kind = "ok" => call.id # 0
  BY <1>2 DEF CallReturns
<1>4. CASE q # r
  <2>1. LessFrom(q)
    BY <1>0, <1>3, <1>4, ResponseLess
  <2>2. LessServing(q)
    BY <1>1 DEF LessServing
  <2> QED
    BY <1>0, <1>1, <2>1, <2>2, SameLess, NothingNew DEF Calm
<1>5. CASE q = r
  <2>1. /\ OnePlace(r) /\ Unsent(r) /\ Ran(r) /\ Answered(r) /\ OneServes(r)
    BY OnceParts
  <2>2. Serves(r) /\ ~Serves(r)'
    BY <1>1, <1>2, <2>1 DEF Serves, OneServes
  <2>3. /\ pc[r] = "done" /\ ~Opens(r) /\ ~Goes(r) /\ ~Comes(r)
        /\ outcome[r] \notin {"ok", "false"}
    BY <2>1, <2>2 DEF OnePlace, Unsent, Answered, Anywhere
  <2>4. ~Opens(r)' /\ OneOpens(r)'
    BY <1>1, <2>1, <2>3, KeptLinks, OnceParts
  <2>5. ~Goes(r)'
    BY <1>1, <2>3 DEF Goes
  <2>6. /\ OneComes(r)'
        /\ \A j \in Links : \A i \in DOMAIN from'[j] :
             Carries(from'[j][i], r) => from'[j][i].kind = kind
    BY <1>0, <1>3, <2>3, ResponseLess
  <2>7. kind = "ok" => executed[r] = 1
    BY <1>2, <1>3, <2>1 DEF Ran
  <2>8. Settled(r)
    BY <1>0, <1>1, <2>1, <2>3, <2>4 DEF Settled, Ran, FarType
  <2> QED
    BY <1>1, <1>5, <2>2, <2>3, <2>4, <2>5, <2>6, <2>7, <2>8, NowComes
<1> QED
  BY <1>4, <1>5

LEMMA OnceConnected ==
  ASSUME AllOnce, NEW k \in Links, NEW ok \in BOOLEAN, Connected(k, ok), NEW q \in Requests
  PROVE  Once(q)'
<1>0. NearType /\ LinkType /\ WireType /\ FarType /\ LinkInv /\ Once(q)
  BY OnceParts
<1>1. /\ UNCHANGED <<pc, outcome, links, owner, to, executed, serving>>
      /\ link[k] = "connecting"
  BY DEF Connected, nearVars, farVars
<1>2. PICK kind \in {"connect", "error"}, st \in {"up", "closed"} :
        /\ link' = [link EXCEPT ![k] = st]
        /\ from' = [from EXCEPT ![k] = Event(kind, k)]
  BY DEF Connected
<1>3. PICK r \in Requests : r = owner[k]
  BY <1>0 DEF LinkType
<1> DEFINE e == Event(kind, k)
<1>4. DOMAIN e = {1} /\ e[1].kind = kind /\ e[1].req = r
  BY <1>0, <1>3, EventIs DEF LinkType
<1>5. \A j \in Links : from'[j] = IF j = k THEN e ELSE from[j]
  BY <1>0, <1>2 DEF WireType
<1>6. \A j \in Links : link'[j] = IF j = k THEN st ELSE link[j]
  BY <1>0, <1>2 DEF LinkType
<1> HIDE DEF e
<1>7. CASE q # r
  <2>1. Less(e, from[k], q)
    BY <1>4, <1>7 DEF Less, Single, Carries
  <2>2. LessFrom(q)
    BY <1>5, <2>1, LessSame DEF LessFrom
  <2>3. LessLinks(q)
    BY <1>1, <1>6 DEF LessLinks, Opens
  <2> QED
    BY <1>0, <1>1, <2>2, <2>3, SameLess, NothingNew DEF Calm
<1>8. CASE q = r
  <2>1. /\ OnePlace(r) /\ Unsent(r) /\ Ran(r) /\ Answered(r) /\ OneOpens(r)
    BY OnceParts
  <2>2. Opens(r)
    BY <1>1, <1>3 DEF Opens
  <2>3. /\ pc[r] = "done" /\ ~Goes(r) /\ ~Serves(r) /\ ~Comes(r)
        /\ executed[r] = 0 /\ outcome[r] \notin {"ok", "false"}
    BY <2>1, <2>2 DEF OnePlace, Unsent, Ran, Answered, Anywhere
  <2>4. \A j \in Links : link[j] = "connecting" => j \in 1..links
    BY <1>0 DEF LinkInv, LinkType, Links
  <2>5. ~Opens(r)'
    BY <1>1, <1>3, <1>6, <2>1, <2>4 DEF Opens, OneOpens
  <2>6. ~Goes(r)' /\ ~Serves(r)' /\ OneOpens(r)'
    BY <1>1, <2>1, <2>3 DEF Goes, Serves, OneOpens
  <2>7. \A j \in Links : j # k => ~In(from'[j], r)
    BY <1>5, <2>3 DEF Comes
  <2>8. Single(from'[k], r) /\ \A i \in DOMAIN from'[k] : from'[k][i].kind = kind
    BY <1>4, <1>5 DEF Single
  <2>9. OneComes(r)'
    BY <2>7, <2>8 DEF OneComes, In, Single
  <2>10. \A j \in Links : \A i \in DOMAIN from'[j] :
           Carries(from'[j][i], r) => from'[j][i].kind = kind
    BY <2>7, <2>8 DEF In
  <2> QED
    BY <1>1, <1>8, <2>3, <2>5, <2>6, <2>9, <2>10, NowComes DEF Settled
<1> QED
  BY <1>7, <1>8

LEMMA OnceDisconnected ==
  ASSUME AllOnce, NEW k \in Links, Disconnected(k), NEW q \in Requests
  PROVE  Once(q)'
<1>0. LinkType /\ WireType /\ Once(q)
  BY OnceParts
<1>1. /\ UNCHANGED <<pc, outcome, links, owner, to, executed, serving>>
      /\ link' = [link EXCEPT ![k] = "closed"]
      /\ from' = [from EXCEPT ![k] = @ \o Event("close", k)]
  BY DEF Disconnected, nearVars, farVars
<1> DEFINE e == Event("close", k)
<1>2. e \in Seq(Items) /\ DOMAIN e = {1} /\ e[1].kind = "close" /\ e[1].part = 0
  BY <1>0, EventIs DEF LinkType
<1>3. ~In(e, q)
  BY <1>2 DEF In, Carries
<1>4. from[k] \in Seq(Items)
  BY <1>0 DEF WireType
<1>5. Less(from[k] \o e, from[k], q)
  BY <1>2, <1>3, <1>4, LessJoin
<1>6. \A j \in Links : from'[j] = IF j = k THEN from[k] \o e ELSE from[j]
  BY <1>0, <1>1 DEF WireType
<1>7. LessFrom(q)
  BY <1>5, <1>6, LessSame DEF LessFrom
<1>8. LessLinks(q)
  BY <1>0, <1>1 DEF LessLinks, Opens, LinkType
<1> QED
  BY <1>0, <1>1, <1>7, <1>8, SameLess, NothingNew DEF Calm

LEMMA OnceCalm ==
  ASSUME AllOnce, NEW q \in Requests,
         Caller \/ Http \/ UNCHANGED vars \/ StopCluster \/ DropNear \/ DropFar
           \/ (\E r \in Requests : Dispatch(r) \/ NoClient(r) \/ Lookup(r))
           \/ (\E k \in Links : OnClose(k))
  PROVE  Once(q)'
<1>0. NearType /\ WireType /\ Once(q)
  BY OnceParts
<1>1. ASSUME UNCHANGED <<links, owner, link, executed, serving>>,
             pc'[q] # "done" => pc[q] # "done",
             outcome'[q] = outcome[q] \/ outcome'[q] \notin {"ok", "false"},
             LessTo(q), LessFrom(q)
      PROVE  Once(q)'
  BY <1>0, <1>1, SameLess, NothingNew DEF Calm
<1>2. ASSUME UNCHANGED <<links, owner, link, executed, serving, pc, outcome>>,
             LessTo(q), LessFrom(q)
      PROVE  Once(q)'
  BY <1>1, <1>2
<1>3. ASSUME UNCHANGED <<links, owner, link, executed, serving, to, from>>,
             pc'[q] # "done" => pc[q] # "done",
             outcome'[q] = outcome[q] \/ outcome'[q] \notin {"ok", "false"}
      PROVE  Once(q)'
  BY <1>1, <1>3, SameLess
<1>4. CASE Caller
  <2>1. UNCHANGED <<links, owner, link, executed, serving, to, from>>
    BY <1>4 DEF Caller, StartCluster, Ask, TimeOut, linkVars, farVars
  <2>2. pc'[q] # "done" => pc[q] # "done"
    BY <1>0, <1>4 DEF Caller, StartCluster, Ask, TimeOut, SetPc, NearType
  <2>3. outcome'[q] = outcome[q] \/ outcome'[q] \notin {"ok", "false"}
    BY <1>0, <1>4 DEF Caller, StartCluster, Ask, TimeOut, NearType
  <2> QED
    BY <1>3, <2>1, <2>2, <2>3
<1>5. CASE Http \/ UNCHANGED vars \/ StopCluster
  BY <1>3, <1>5 DEF Http, vars, StopCluster, nearVars, linkVars, farVars
<1>6. CASE DropNear
  <2>1. UNCHANGED <<links, owner, link, executed, serving, to, outcome>>
    BY <1>6 DEF DropNear, linkVars, farVars
  <2>2. CASE UNCHANGED <<from, pc>>
    BY <1>3, <2>1, <2>2
  <2>3. ASSUME NEW k \in Links, from[k] # <<>>, from' = [from EXCEPT ![k] = Tail(@)],
               UNCHANGED pc
        PROVE  Once(q)'
    <3>1. from[k] \in Seq(Items)
      BY <1>0 DEF WireType
    <3>2. 1 \in 1..Len(from[k]) /\ from' = [from EXCEPT ![k] = Cut(@, 1)]
      BY <2>3, <3>1, TailIsCut
    <3> QED
      BY <1>0, <1>2, <2>1, <2>3, <3>2, CutFromLess, SameLess
  <2>4. ASSUME NEW r \in Requests, pc[r] # "done", pc' = [pc EXCEPT ![r] = "lost"],
               UNCHANGED from
        PROVE  Once(q)'
    BY <1>0, <1>3, <2>1, <2>4 DEF NearType
  <2> QED
    BY <1>6, <2>2, <2>3, <2>4 DEF DropNear, SetPc
<1>7. CASE DropFar
  <2>1. UNCHANGED <<links, owner, link, executed, serving, from, pc, outcome>>
    BY <1>7 DEF DropFar, nearVars, linkVars, farVars
  <2>2. CASE UNCHANGED to
    BY <1>3, <2>1, <2>2
  <2>3. ASSUME NEW k \in Links, to[k] # <<>>, to' = [to EXCEPT ![k] = Tail(@)]
        PROVE  Once(q)'
    <3>1. to[k] \in Seq(Items)
      BY <1>0 DEF WireType
    <3>2. 1 \in 1..Len(to[k]) /\ to' = [to EXCEPT ![k] = Cut(@, 1)]
      BY <2>3, <3>1, TailIsCut
    <3> QED
      BY <1>0, <1>2, <2>1, <3>2, CutToLess, SameLess
  <2> QED
    BY <1>7, <2>2, <2>3 DEF DropFar
<1>8. ASSUME NEW r \in Requests, Dispatch(r) \/ NoClient(r) \/ Lookup(r)
      PROVE  Once(q)'
  <2>1. UNCHANGED <<links, owner, link, executed, serving, to, from, outcome>>
    BY <1>8 DEF Dispatch, NoClient, Lookup, linkVars, farVars
  <2>2. pc'[q] # "done" => pc[q] # "done"
    BY <1>0, <1>8 DEF Dispatch, NoClient, Lookup, SetPc, NearType
  <2> QED
    BY <1>3, <2>1, <2>2
<1>9. ASSUME NEW k \in Links, OnClose(k) PROVE Once(q)'
  <2>1. /\ UNCHANGED <<links, owner, link, executed, serving, to, pc, outcome>>
        /\ Told(k, "close")
    BY <1>9 DEF OnClose, nearVars, farVars
  <2> QED
    BY <1>0, <1>2, <2>1, ToldIs, CutFromLess, SameLess
<1> QED
  BY <1>4, <1>5, <1>6, <1>7, <1>8, <1>9

LEMMA OnceInit == Init => AllOnce
<1> SUFFICES ASSUME Init PROVE AllOnce
  OBVIOUS
<1>1. /\ \A k \in Links : to[k] = <<>> /\ from[k] = <<>> /\ link[k] = "none"
      /\ links = 0 /\ serving = {}
      /\ \A r \in Requests : pc[r] = "new" /\ outcome[r] = "none" /\ executed[r] = 0
  BY DEF Init
<1>2. \A k \in Links : DOMAIN to[k] = {} /\ DOMAIN from[k] = {}
  BY <1>1
<1>3. LinkInv
  BY <1>1, <1>2 DEF LinkInv
<1>4. ASSUME NEW r \in Requests PROVE Once(r)
  <2>1. ~Opens(r) /\ ~Goes(r) /\ ~Serves(r) /\ ~Comes(r)
    BY <1>1, <1>2 DEF Opens, Goes, Serves, Comes, In
  <2>2. \A k \in 1..links : FALSE
    BY <1>1
  <2>3. OnePlace(r)
    BY <1>1, <1>2, <2>1, <2>2 DEF OnePlace, OneOpens, OneGoes, OneServes, OneComes, In, Single
  <2> QED
    BY <1>1, <1>2, <2>1, <2>2, <2>3 DEF Once, Unsent, Ran, Answered, Anywhere
<1> QED
  BY <1>3, <1>4, TypeInit DEF AllOnce

LEMMA OnceStep == AllOnce /\ [Next]_vars => AllOnce'
<1> SUFFICES ASSUME AllOnce, [Next]_vars PROVE AllOnce'
  OBVIOUS
<1>1. ClusterType' /\ LinkInv'
  BY TypeStep, LinkStep DEF AllOnce
<1>2. ASSUME NEW q \in Requests PROVE Once(q)'
  <2>1. CASE NearStep
    BY <2>1, OnceCalm, OnceSend, OnceFound, OnceConnect, OnceError, OnceRead DEF NearStep
  <2>2. CASE FarStep
    BY <2>2, OnceCalm, OnceRun, OnceReturn DEF FarStep
  <2>3. CASE Network
    BY <2>3, OnceConnected, OnceDisconnected DEF Network
  <2>4. CASE Caller \/ Http \/ UNCHANGED vars
    BY <2>4, OnceCalm
  <2> QED
    BY <2>1, <2>2, <2>3, <2>4 DEF Next
<1> QED
  BY <1>1, <1>2 DEF AllOnce

(* However connections break and reads are cut, the far node runs a request *)
(* once at most, and a call that returned true was run: for any requests,   *)
(* sends and number of connections.                                         *)
THEOREM ExecutedOnceHolds == Spec => []ExecutedOnce
<1>1. TypeOK /\ AllOnce => ExecutedOnce
  BY DEF AllOnce, Once, Ran, ExecutedOnce, AtMostOnce, NoFalseSuccess
<1> QED
  BY <1>1, OnceInit, OnceStep, ClusterTypeCorrect, PTL DEF Spec
-----------------------------------------------------------------------------
(* Late answers.                                                            *)
Moves(q) ==
  \/ pc'[q] = pc[q]
  \/ pc[q] \notin {"new", "refused"} /\ pc'[q] # "new"

LEMMA WaitsSame ==
  ASSUME NEW q \in Requests, Waits(q), Moves(q), UNCHANGED <<outcome, stray>>
  PROVE  Waits(q)'
BY DEF Waits, Moves

LEMMA WaitsResponse ==
  ASSUME NearType, NEW r \in Requests, NEW v \in {"ok", "false"}, Response(r, v),
         pc[r] \notin {"new", "refused"}, outcome[r] \notin {"ok", "false"}, Waits(r),
         NEW q \in Requests, Waits(q), Moves(q)
  PROVE  Waits(q)'
<1>1. CASE outcome[r] = "waiting"
  <2>1. UNCHANGED stray /\ outcome' = [outcome EXCEPT ![r] = v]
    BY <1>1 DEF Response
  <2>2. CASE q = r
    BY <1>1, <2>1, <2>2 DEF Waits, Moves, NearType
  <2>3. CASE q # r
    BY <2>1, <2>3 DEF Waits, Moves, NearType
  <2> QED
    BY <2>2, <2>3
<1>2. CASE outcome[r] # "waiting"
  <2>1. UNCHANGED outcome /\ stray' = stray \union {r}
    BY <1>2 DEF Response
  <2>2. r \in Sends \/ outcome[r] = "timeout"
    BY <1>2 DEF Waits, NearType
  <2> QED
    BY <2>1, <2>2 DEF Waits, Moves
<1> QED
  BY <1>1, <1>2

LEMMA WaitsAsk ==
  ASSUME NearType, NEW r \in Requests, Ask(r), NEW q \in Requests, Waits(q)
  PROVE  Waits(q)'
<1>1. /\ pc[r] = "new" /\ UNCHANGED stray
      /\ pc' = [pc EXCEPT ![r] = IF LookedUp = "none" THEN "refused"
                                 ELSE IF cluster = "running" THEN "posted" ELSE "lost"]
      /\ outcome' = IF LookedUp = "found" /\ r \notin Sends
                    THEN [outcome EXCEPT ![r] = "waiting"] ELSE outcome
  BY DEF Ask, SetPc
<1>2. LookedUp \in {"none", "found"}
  BY DEF LookedUp, NearType
<1>3. CASE q # r
  BY <1>1, <1>3 DEF NearType, Waits
<1>4. CASE q = r
  <2>1. outcome[r] = "none" /\ (r \in stray => r \in Sends)
    BY <1>1, <1>4 DEF Waits
  <2>2. pc'[r] # "new" /\ (pc'[r] # "refused" => LookedUp = "found")
    BY <1>1, <1>2 DEF NearType
  <2>3. LookedUp = "found" /\ r \notin Sends => outcome'[r] = "waiting"
    BY <1>1 DEF NearType
  <2> QED
    BY <1>1, <1>4, <2>1, <2>2, <2>3 DEF Waits
<1> QED
  BY <1>3, <1>4

LEMMA WaitsStep ==
  ASSUME AllOnce, [Next]_vars, \A r \in Requests : Waits(r), NEW q \in Requests
  PROVE  Waits(q)'
<1>0. NearType /\ Waits(q)
  BY OnceParts
<1>1. ASSUME UNCHANGED <<outcome, stray>>, Moves(q) PROVE Waits(q)'
  BY <1>0, <1>1, WaitsSame
<1>2. CASE Caller
  <2>1. ASSUME NEW r \in Requests, TimeOut(r) PROVE Waits(q)'
    <3>1. /\ outcome[r] = "waiting" /\ outcome' = [outcome EXCEPT ![r] = "timeout"]
          /\ UNCHANGED <<pc, stray>>
      BY <2>1 DEF TimeOut
    <3> QED
      BY <1>0, <3>1 DEF Waits, NearType
  <2>2. ASSUME StartCluster PROVE Waits(q)'
    BY <1>1, <2>2 DEF StartCluster, Moves
  <2> QED
    BY <1>0, <1>2, <2>1, <2>2, WaitsAsk DEF Caller
<1>3. CASE NearStep
  <2>1. ASSUME StopCluster PROVE Waits(q)'
    BY <1>1, <2>1 DEF StopCluster, Moves
  <2>2. ASSUME DropNear PROVE Waits(q)'
    BY <1>0, <1>1, <2>2 DEF DropNear, SetPc, Moves, NearType
  <2>3. ASSUME NEW r \in Requests,
               Dispatch(r) \/ NoClient(r) \/ Lookup(r) \/ SendOnClient(r)
        PROVE  Waits(q)'
    <3>1. UNCHANGED <<outcome, stray>>
      BY <2>3 DEF Dispatch, NoClient, Lookup, SendOnClient
    <3>2. Moves(q)
      BY <1>0, <2>3 DEF Dispatch, NoClient, Lookup, SendOnClient, SetPc, AfterSend,
                        Moves, NearType
    <3> QED
      BY <1>1, <3>1, <3>2
  <2>4. ASSUME NEW r \in Requests, Found(r) PROVE Waits(q)'
    <3>1. pc[r] = "lookup" /\ outcome[r] \notin {"ok", "false"}
      BY <2>4, OnceParts DEF Found, Unsent
    <3>2. Moves(q)
      BY <1>0, <2>4, <3>1 DEF Found, SetPc, Moves, NearType
    <3>3. UNCHANGED <<outcome, stray>> \/ Response(r, "false")
      BY <2>4 DEF Found, NoResponse
    <3> QED
      BY <1>0, <1>1, <3>1, <3>2, <3>3, WaitsResponse
  <2>5. ASSUME NEW k \in Links, OnConnect(k) \/ OnClose(k) PROVE Waits(q)'
    BY <1>1, <2>5 DEF OnConnect, OnClose, nearVars, Moves
  <2>6. ASSUME NEW k \in Links, OnConnectError(k) PROVE Waits(q)'
    <3>1. PICK r \in Requests : r = owner[k]
      BY OnceParts DEF LinkType
    <3>2. Told(k, "error") /\ Response(r, "false") /\ UNCHANGED pc
      BY <2>6, <3>1 DEF OnConnectError
    <3>3. pc[r] = "done" /\ outcome[r] \notin {"ok", "false"}
      BY <3>1, <3>2, ToldCarries
    <3>4. Moves(q)
      BY <3>2 DEF Moves
    <3> QED
      BY <1>0, <3>2, <3>3, <3>4, WaitsResponse
  <2>7. ASSUME NEW k \in Links, NEW n \in DOMAIN from[k], OnClientResponse(k, n)
        PROVE  Waits(q)'
    <3>1. UNCHANGED pc /\ Moves(q)
      BY <2>7 DEF OnClientResponse, Moves
    <3>2. CASE IsWhole(SubSeq(from[k], 1, n)) /\ Understood(from[k][1].kind)
      <4>1. PICK r \in Requests : /\ Carries(from[k][1], r) /\ 1 \in DOMAIN from[k]
                                  /\ Response(r, Result(from[k][1].kind))
        BY <2>7, <3>2, ReadCarries
      <4>2. Unsent(r) /\ Answered(r) /\ Comes(r)
        BY <4>1, OnceParts DEF Comes, In
      <4>3. pc[r] = "done" /\ outcome[r] \notin {"ok", "false"}
        BY <4>2 DEF Unsent, Answered, Anywhere
      <4>4. Result(from[k][1].kind) \in {"ok", "false"}
        BY DEF Result
      <4> QED
        BY <1>0, <3>1, <4>1, <4>3, <4>4, WaitsResponse
    <3>3. CASE ~(IsWhole(SubSeq(from[k], 1, n)) /\ Understood(from[k][1].kind))
      <4>1. from[k] \in Seq(Items) /\ n \in 1..Len(from[k])
        BY <2>7, OnceParts DEF WireType, OnClientResponse
      <4>2. SubSeq(from[k], 1, n)[1] = from[k][1]
        BY <4>1, ReadIs
      <4>3. NoResponse
        BY <2>7, <3>3, <4>2 DEF OnClientResponse
      <4> QED
        BY <1>1, <3>1, <4>3 DEF NoResponse
    <3> QED
      BY <3>2, <3>3
  <2> QED
    BY <1>3, <2>1, <2>2, <2>3, <2>4, <2>5, <2>6, <2>7 DEF NearStep
<1>4. CASE FarStep \/ Network \/ Http \/ UNCHANGED vars
  <2>1. UNCHANGED <<pc, outcome, stray>>
    BY <1>4 DEF FarStep, DropFar, OnMsg, CallReturns, Network, Connected, Disconnected,
                Http, vars, nearVars
  <2> QED
    BY <1>1, <2>1 DEF Moves
<1> QED
  BY <1>2, <1>3, <1>4 DEF Next

(* No call is answered twice: an answer nobody waits for comes after the    *)
(* timeout of its call, or of a send.                                       *)
THEOREM StrayOnlyLateHolds == Spec => []StrayOnlyLate
<1> DEFINE AllWait == \A r \in Requests : Waits(r)
<1>1. Init => AllWait
  BY DEF Init, Waits
<1>2. AllOnce /\ AllWait /\ [Next]_vars => AllWait'
  BY WaitsStep
<1>3. AllWait /\ AllOnce => StrayOnlyLate
  BY OnceParts DEF Waits, StrayOnlyLate, NearType
<1> HIDE DEF AllWait
<1> QED
  BY <1>1, <1>2, <1>3, OnceInit, OnceStep, PTL DEF Spec
=============================================================================

-------------------------- MODULE LuaRuntime_proofs --------------------------
(***************************************************************************)
(* Where the coroutines of a service are, for any number of services,      *)
(* coroutines and calls: queued by api.async, running, or suspended in the *)
(* call that callCoro lists.                                               *)
(***************************************************************************)
EXTENDS LuaRuntime, SequenceTheorems, TLAPS

USE DEF pollVars, tableVars, coVars, netVars

(* SuspendedIffListed and QueuedOnce of one service.                        *)
Suspended(s) ==
  \A n \in Sessions \ {forget[s]}, c \in Coros :
    (callCoro[s][n] # Nil /\ callCoro[s][n].co = c) <=> waits[s][c] = n

Queued(s) ==
  /\ IsInjective(nextCoro[s])
  /\ \A c \in ToSet(nextCoro[s]) : running[s] # c /\ waits[s][c] = 0

(* A new coroutine is none of those the service has.                        *)
CoroInv(s) ==
  /\ \A c \in ToSet(nextCoro[s]) : c <= created[s]
  /\ running[s] <= created[s]
  /\ \A c \in Coros : waits[s][c] # 0 => c <= created[s] /\ c # running[s]
  /\ phase[s] = "async" => i[s] <= Len(nextCoro[s])

(* A new call is none of those listed, and what the second loop of onPoll   *)
(* has yet to visit is listed.                                              *)
EntryInv(s) ==
  /\ \A c \in Coros : waits[s][c] < autoSessionId[s]
  /\ \A n \in Sessions : autoSessionId[s] <= n => callCoro[s][n] = Nil
  /\ forget[s] < autoSessionId[s]
  /\ forget[s] # 0 =>
       phase[s] = "timeouts" /\ \A c \in Coros : waits[s][c] # forget[s]
  /\ phase[s] = "timeouts" =>
       \A n \in due[s] : callCoro[s][n] # Nil /\ n # forget[s]

PlaceInv(s) == Suspended(s) /\ Queued(s) /\ CoroInv(s) /\ EntryInv(s)

(* The Close of a service is in one place, and at its end the last of the   *)
(* coroutines is created.                                                   *)
Free(q)    == \A k \in DOMAIN q : q[k].type # "Close"
Single(q)  == \A j, k \in DOMAIN q : q[j].type = "Close" /\ q[k].type = "Close" => j = k
Closing(s) == isExit[s] /\ phase[s] = "messages"

CloseInv(s) ==
  /\ s \notin closeSent \/ created[s] = MaxCoros =>
       Free(inbox[s]) /\ Free(batch[s]) /\ ~Closing(s)
  /\ s \notin closeSent => created[s] # MaxCoros
  /\ Closing(s) => Free(inbox[s]) /\ Free(batch[s])
  /\ Free(batch[s]) \/ Free(inbox[s])
  /\ Single(batch[s]) /\ Single(inbox[s])
  /\ phase[s] \in {"async", "timeouts"} => ~isExit[s]

RuntimeInv == TypeOK /\ \A s \in Services : PlaceInv(s) /\ CloseInv(s)
-----------------------------------------------------------------------------
LEMMA AppendPost ==
  ASSUME NEW q \in Seq(Messages), NEW m \in Posts
  PROVE  /\ Append(q, m) \in Seq(Messages)
         /\ Free(q) => Free(Append(q, m))
         /\ Single(q) => Single(Append(q, m))
<1>1. m \in Messages /\ m.type # "Close"
  BY DEF Posts, Messages
<1>2. /\ DOMAIN q = 1..Len(q) /\ Len(q) \in Nat
      /\ DOMAIN Append(q, m) = 1..(Len(q) + 1)
      /\ \A k \in 1..Len(q) : Append(q, m)[k] = q[k]
      /\ Append(q, m)[Len(q) + 1] = m
  OBVIOUS
<1>3. Append(q, m) \in Seq(Messages)
  BY <1>1
<1>4. \A k \in 1..(Len(q) + 1) : k # Len(q) + 1 => k \in 1..Len(q)
  BY <1>2
<1> QED
  BY <1>1, <1>2, <1>3, <1>4 DEF Free, Single

LEMMA AppendClose ==
  ASSUME NEW q \in Seq(Messages), Free(q)
  PROVE  /\ Append(q, [type |-> "Close"]) \in Seq(Messages)
         /\ Single(Append(q, [type |-> "Close"]))
<1> DEFINE m == [type |-> "Close"]
<1>1. m \in Messages
  BY DEF Messages
<1> HIDE DEF m
<1>2. /\ DOMAIN q = 1..Len(q) /\ Len(q) \in Nat
      /\ DOMAIN Append(q, m) = 1..(Len(q) + 1)
      /\ \A k \in 1..Len(q) : Append(q, m)[k] = q[k]
  OBVIOUS
<1>3. Append(q, m) \in Seq(Messages)
  BY <1>1
<1>4. \A k \in 1..(Len(q) + 1) : k # Len(q) + 1 => k \in 1..Len(q)
  BY <1>2
<1> QED
  BY <1>2, <1>3, <1>4 DEF Free, Single, m

LEMMA TailMessages ==
  ASSUME NEW q \in Seq(Messages), q # <<>>
  PROVE  /\ Head(q) \in Messages /\ Tail(q) \in Seq(Messages)
         /\ Free(q) => Free(Tail(q))
         /\ Single(q) => Single(Tail(q))
         /\ Single(q) /\ Head(q).type = "Close" => Free(Tail(q))
         /\ Head(q).type = "Close" => ~Free(q)
<1>1. /\ Len(q) \in Nat \ {0} /\ DOMAIN q = 1..Len(q) /\ Head(q) = q[1]
      /\ DOMAIN Tail(q) = 1..(Len(q) - 1)
      /\ \A k \in 1..(Len(q) - 1) : Tail(q)[k] = q[k + 1]
      /\ Head(q) \in Messages /\ Tail(q) \in Seq(Messages)
  OBVIOUS
<1>2. 1 \in DOMAIN q /\ \A k \in 1..(Len(q) - 1) : k + 1 \in DOMAIN q /\ k + 1 # 1
  BY <1>1
<1>3. Free(q) => Free(Tail(q))
  BY <1>1, <1>2 DEF Free
<1>4. Single(q) => Single(Tail(q))
  <2> SUFFICES ASSUME Single(q), NEW j \in 1..(Len(q) - 1),
                      NEW k \in 1..(Len(q) - 1), q[j + 1].type = "Close",
                      q[k + 1].type = "Close"
               PROVE  j = k
    BY <1>1 DEF Single
  <2>1. j + 1 = k + 1
    BY <1>2 DEF Single
  <2> QED
    BY <2>1
<1>5. Single(q) /\ Head(q).type = "Close" => Free(Tail(q))
  BY <1>1, <1>2 DEF Free, Single
<1> QED
  BY <1>1, <1>2, <1>3, <1>4, <1>5 DEF Free

(* api.async and table.remove on a table without repetitions.               *)
LEMMA AppendCoro ==
  ASSUME NEW q \in Seq(Coros), NEW c \in Coros, c \notin ToSet(q), IsInjective(q)
  PROVE  /\ Append(q, c) \in Seq(Coros) /\ IsInjective(Append(q, c))
         /\ ToSet(Append(q, c)) = ToSet(q) \union {c}
         /\ Len(Append(q, c)) = Len(q) + 1
<1>1. /\ DOMAIN q = 1..Len(q) /\ Len(q) \in Nat
      /\ DOMAIN Append(q, c) = 1..(Len(q) + 1)
      /\ \A k \in 1..Len(q) : Append(q, c)[k] = q[k]
      /\ Append(q, c)[Len(q) + 1] = c
      /\ Append(q, c) \in Seq(Coros)
  OBVIOUS
<1>2. \A k \in 1..(Len(q) + 1) : k # Len(q) + 1 => k \in 1..Len(q)
  BY <1>1
<1>3. \A k \in 1..Len(q) : k \in 1..(Len(q) + 1) /\ q[k] # c
  BY <1>1 DEF ToSet
<1>4. Len(q) + 1 \in 1..(Len(q) + 1)
  BY <1>1
<1>5. IsInjective(Append(q, c))
  BY <1>1, <1>2, <1>3 DEF IsInjective
<1>6. ToSet(Append(q, c)) = ToSet(q) \union {c}
  BY <1>1, <1>2, <1>3, <1>4 DEF ToSet
<1> QED
  BY <1>1, <1>5, <1>6

LEMMA TakeOutCoro ==
  ASSUME NEW q \in Seq(Coros), NEW k \in 1..Len(q), IsInjective(q)
  PROVE  /\ TakeOut(q, k) \in Seq(Coros) /\ IsInjective(TakeOut(q, k))
         /\ ToSet(TakeOut(q, k)) = ToSet(q) \ {q[k]}
         /\ Len(TakeOut(q, k)) = Len(q) - 1
<1> DEFINE r == TakeOut(q, k)
           n == Len(q)
           a == SubSeq(q, 1, k - 1)
           b == SubSeq(q, k + 1, n)
           up(j) == IF j < k THEN j ELSE j + 1
<1>1. /\ n \in Nat /\ k \in Nat /\ k >= 1 /\ k <= n /\ DOMAIN q = 1..n
      /\ \A j \in 1..n : q[j] \in Coros
  OBVIOUS
<1>4. r = a \o b
  BY DEF TakeOut, RemoveAt
<1> HIDE DEF n
<1>2. /\ a \in Seq(Coros) /\ Len(a) = k - 1
      /\ \A j \in 1..(k - 1) : a[j] = q[j]
  <2>1. \A j \in 1..(k - 1) : q[j] \in Coros
    BY <1>1
  <2>2. /\ SubSeq(q, 1, k - 1) \in Seq(Coros)
        /\ Len(SubSeq(q, 1, k - 1)) = IF 1 <= k - 1 THEN (k - 1) - 1 + 1 ELSE 0
        /\ \A j \in 1..((k - 1) - 1 + 1) : SubSeq(q, 1, k - 1)[j] = q[1 + j - 1]
    BY <1>1, <2>1, SubSeqProperties
  <2> HIDE DEF a
  <2>3. a = SubSeq(q, 1, k - 1)
    BY DEF a
  <2> QED
    BY <1>1, <2>2, <2>3
<1>3. /\ b \in Seq(Coros) /\ Len(b) = n - k
      /\ \A j \in 1..(n - k) : b[j] = q[k + j]
  <2>1. \A j \in (k + 1)..n : q[j] \in Coros
    BY <1>1
  <2>2. /\ SubSeq(q, k + 1, n) \in Seq(Coros)
        /\ Len(SubSeq(q, k + 1, n)) = IF k + 1 <= n THEN n - (k + 1) + 1 ELSE 0
        /\ \A j \in 1..(n - (k + 1) + 1) : SubSeq(q, k + 1, n)[j] = q[(k + 1) + j - 1]
    BY <1>1, <2>1, SubSeqProperties
  <2> HIDE DEF b
  <2>3. b = SubSeq(q, k + 1, n)
    BY DEF b
  <2> QED
    BY <1>1, <2>2, <2>3
<1> HIDE DEF a, b, r
<1>5. /\ r \in Seq(Coros) /\ Len(r) = n - 1 /\ DOMAIN r = 1..(n - 1)
      /\ \A j \in 1..(n - 1) : r[j] = IF j <= k - 1 THEN a[j] ELSE b[j - (k - 1)]
  <2>1. /\ a \o b \in Seq(Coros)
        /\ Len(a \o b) = Len(a) + Len(b)
        /\ \A j \in 1..(Len(a) + Len(b)) :
             (a \o b)[j] = IF j <= Len(a) THEN a[j] ELSE b[j - Len(a)]
    BY <1>2, <1>3, ConcatProperties
  <2>2. Len(a) + Len(b) = n - 1
    BY <1>1, <1>2, <1>3
  <2>3. r \in Seq(Coros) /\ Len(r) = n - 1
    BY <1>4, <2>1, <2>2
  <2>4. DOMAIN r = 1..(n - 1)
    BY <2>3
  <2> QED
    BY <1>2, <1>4, <2>1, <2>2, <2>3, <2>4
<1>6. \A j \in 1..(n - 1) : r[j] = q[up(j)]
  <2> SUFFICES ASSUME NEW j \in 1..(n - 1) PROVE r[j] = q[up(j)]
    OBVIOUS
  <2>1. CASE j < k
    <3>1. j \in 1..(k - 1) /\ j <= k - 1
      BY <1>1, <2>1
    <3> QED
      BY <1>2, <1>5, <2>1, <3>1
  <2>2. CASE ~(j < k)
    <3>1. /\ j - (k - 1) \in 1..(n - k) /\ k + (j - (k - 1)) = j + 1
          /\ ~(j <= k - 1)
      BY <1>1, <2>2
    <3> QED
      BY <1>3, <1>5, <2>2, <3>1
  <2> QED
    BY <2>1, <2>2
<1>7. /\ \A j \in 1..(n - 1) : up(j) \in 1..n /\ up(j) # k
      /\ \A j, l \in 1..(n - 1) : up(j) = up(l) => j = l
      /\ \A l \in 1..n : l # k => \E j \in 1..(n - 1) : up(j) = l
  <2>1. \A j \in 1..(n - 1) : up(j) \in 1..n /\ up(j) # k
    BY <1>1
  <2>2. \A j, l \in 1..(n - 1) : up(j) = up(l) => j = l
    BY <1>1
  <2>3. ASSUME NEW l \in 1..n, l # k PROVE \E j \in 1..(n - 1) : up(j) = l
    <3>1. CASE l < k
      <4>1. l \in 1..(n - 1) /\ up(l) = l
        BY <1>1, <3>1
      <4> QED
        BY <4>1
    <3>2. CASE ~(l < k)
      <4>1. l - 1 \in 1..(n - 1) /\ up(l - 1) = l
        BY <1>1, <2>3, <3>2
      <4> QED
        BY <4>1
    <3> QED
      BY <3>1, <3>2
  <2> QED
    BY <2>1, <2>2, <2>3
<1> HIDE DEF up
<1>8. IsInjective(r)
  <2> SUFFICES ASSUME NEW j \in 1..(n - 1), NEW l \in 1..(n - 1), r[j] = r[l]
               PROVE  j = l
    BY <1>5 DEF IsInjective
  <2>1. q[up(j)] = q[up(l)] /\ up(j) \in DOMAIN q /\ up(l) \in DOMAIN q
    BY <1>1, <1>6, <1>7
  <2> QED
    BY <1>7, <2>1 DEF IsInjective
<1>9. ToSet(r) = ToSet(q) \ {q[k]}
  <2>1. ASSUME NEW x \in ToSet(r) PROVE x \in ToSet(q) /\ x # q[k]
    <3>1. PICK j \in 1..(n - 1) : x = r[j]
      BY <1>5, <2>1 DEF ToSet
    <3>2. x = q[up(j)] /\ up(j) \in DOMAIN q /\ up(j) # k /\ k \in DOMAIN q
      BY <1>1, <1>6, <1>7, <3>1
    <3> QED
      BY <3>2 DEF ToSet, IsInjective
  <2>2. ASSUME NEW x \in ToSet(q), x # q[k] PROVE x \in ToSet(r)
    <3>1. PICK l \in 1..n : x = q[l]
      BY <1>1, <2>2 DEF ToSet
    <3>2. PICK j \in 1..(n - 1) : up(j) = l
      BY <1>7, <2>2, <3>1
    <3>3. r[j] = x /\ j \in DOMAIN r
      BY <1>5, <1>6, <3>1, <3>2
    <3> QED
      BY <3>3 DEF ToSet
  <2> QED
    BY <2>1, <2>2
<1> QED
  BY <1>5, <1>8, <1>9 DEF r, n
-----------------------------------------------------------------------------
(* Types.                                                                   *)

LEMMA HeadPost ==
  ASSUME TypeOK, NEW s \in Services, NEW t \in {"Lua", "LuaResponse"}, At(s, t)
  PROVE  /\ batch[s] \in Seq(Messages) /\ batch[s] # <<>>
         /\ Head(batch[s]) \in Posts /\ Head(batch[s]).type = t
         /\ Tail(batch[s]) \in Seq(Messages)
         /\ phase[s] = "messages" /\ running[s] = 0
<1>1. batch[s] \in Seq(Messages) /\ batch[s] # <<>> /\ Head(batch[s]).type = t
  BY DEF At, TypeOK
<1>2. Head(batch[s]) \in Messages /\ Tail(batch[s]) \in Seq(Messages)
  BY <1>1
<1>3. Head(batch[s]) \in Posts
  BY <1>1, <1>2 DEF Messages
<1> QED
  BY <1>1, <1>2, <1>3 DEF At

LEMMA SendPost ==
  ASSUME TypeOK, NEW r \in Services, NEW m \in Posts, Send(r, m)
  PROVE  /\ inbox' \in [Services -> Seq(Messages)]
         /\ \A u \in Services :
              /\ Free(inbox[u]) => Free(inbox'[u])
              /\ Single(inbox[u]) => Single(inbox'[u])
<1>1. CASE r \in destroyed
  BY <1>1 DEF Send, TypeOK
<1>2. CASE r \notin destroyed
  <2>1. inbox' = [inbox EXCEPT ![r] = Append(inbox[r], m)]
    BY <1>2 DEF Send
  <2>2. /\ Append(inbox[r], m) \in Seq(Messages)
        /\ Free(inbox[r]) => Free(Append(inbox[r], m))
        /\ Single(inbox[r]) => Single(Append(inbox[r], m))
    BY AppendPost DEF TypeOK
  <2> QED
    BY <2>1, <2>2 DEF TypeOK
<1> QED
  BY <1>1, <1>2

(* The message of api.send.                                                 *)
LEMMA SentPost ==
  ASSUME NEW s \in Services
  PROVE  [type |-> "Lua", from |-> s, session |-> 0, isOk |-> FALSE] \in Posts
BY DEF Posts

(* What follows api.async of a service that may still create a coroutine.   *)
LEMMA AsyncQueues ==
  ASSUME RuntimeInv, NEW s \in Services, created[s] + 1 <= MaxCoros, Async(s)
  PROVE  LET c == created[s] + 1
         IN  /\ c \in Coros /\ c \notin ToSet(nextCoro[s])
             /\ created' = [created EXCEPT ![s] = c]
             /\ nextCoro' = [nextCoro EXCEPT ![s] = Append(nextCoro[s], c)]
             /\ Append(nextCoro[s], c) \in Seq(Coros)
             /\ IsInjective(Append(nextCoro[s], c))
             /\ ToSet(Append(nextCoro[s], c)) = ToSet(nextCoro[s]) \union {c}
             /\ Len(Append(nextCoro[s], c)) = Len(nextCoro[s]) + 1
             /\ created' \in [Services -> 0..MaxCoros]
             /\ nextCoro' \in [Services -> Seq(Coros)]
<1> DEFINE c == created[s] + 1
<1>1. /\ created[s] \in 0..MaxCoros /\ MaxCoros \in Nat
      /\ nextCoro[s] \in Seq(Coros) /\ IsInjective(nextCoro[s])
      /\ \A d \in ToSet(nextCoro[s]) : d <= created[s]
  BY RuntimeAssumption DEF RuntimeInv, TypeOK, PlaceInv, Queued, CoroInv
<1>2. c \in Coros /\ c \in 0..MaxCoros /\ c > created[s]
  BY <1>1 DEF Coros
<1>3. c \notin ToSet(nextCoro[s])
  BY <1>1, <1>2
<1>4. /\ created' = [created EXCEPT ![s] = c]
      /\ nextCoro' = [nextCoro EXCEPT ![s] = Append(nextCoro[s], c)]
  BY DEF Async, With
<1> HIDE DEF c
<1>5. /\ Append(nextCoro[s], c) \in Seq(Coros)
      /\ IsInjective(Append(nextCoro[s], c))
      /\ ToSet(Append(nextCoro[s], c)) = ToSet(nextCoro[s]) \union {c}
      /\ Len(Append(nextCoro[s], c)) = Len(nextCoro[s]) + 1
  BY <1>1, <1>2, <1>3, AppendCoro
<1>6. /\ created' \in [Services -> 0..MaxCoros]
      /\ nextCoro' \in [Services -> Seq(Coros)]
  BY <1>2, <1>4, <1>5 DEF RuntimeInv, TypeOK
<1> QED
  BY <1>2, <1>3, <1>4, <1>5, <1>6 DEF c

LEMMA ResumeType ==
  ASSUME TypeOK, NEW s \in Services, NEW c \in Coros, NEW n \in Sessions,
         NEW res \in Results, Resume(s, c, n, res)
  PROVE  /\ running' \in [Services -> Coros \union {0}]
         /\ waits' \in [Services -> [Coros -> Sessions \union {0}]]
         /\ result' \in [Services -> [Sessions -> Results \union {Nil}]]
BY DEF Resume, With, TypeOK

LEMMA RuntimeType == Init => TypeOK
<1> SUFFICES ASSUME Init PROVE TypeOK
  OBVIOUS
<1>1. /\ <<>> \in Seq(Messages) /\ <<>> \in Seq(Coros) /\ Len(<<>>) = 0
      /\ <<1>> \in Seq(Coros) /\ Len(<<1>>) = 1
      /\ <<1, 2>> \in Seq(Coros) /\ Len(<<1, 2>>) = 2
  BY RuntimeAssumption DEF Coros
<1>2. nextCoro \in [Services -> Seq(Coros)]
  BY <1>1 DEF Init
<1>3. \A s \in Services : nextCoro[s] \in {<<>>, <<1>>, <<1, 2>>}
  BY DEF Init
<1>4. \A s \in Services : Len(nextCoro[s]) \in 0..MaxCoros
  <2>1. {0, 1, 2} \subseteq 0..MaxCoros
    BY RuntimeAssumption
  <2> QED
    BY <1>1, <1>3, <2>1
<1>5. created \in [Services -> 0..MaxCoros]
  BY <1>4 DEF Init
<1> QED
  BY <1>1, <1>2, <1>5, RuntimeAssumption DEF Init, TypeOK

LEMMA PollStepType ==
  ASSUME RuntimeInv, NEW s \in Services, PollStep(s)
  PROVE  TypeOK'
<1>0. TypeOK /\ PlaceInv(s) /\ CloseInv(s)
  BY DEF RuntimeInv
<1> USE DEF With
<1>1. CASE Poll(s)
  <2>1. LoopStart(s) \in Nat
    BY <1>0 DEF LoopStart, TypeOK
  <2>2. <<>> \in Seq(Messages)
    OBVIOUS
  <2> QED
    BY <1>0, <1>1, <2>1, <2>2 DEF Poll, TypeOK
<1>2. CASE RunAsync(s)
  <2>1. i[s] \in 1..Len(nextCoro[s]) /\ nextCoro[s] \in Seq(Coros)
        /\ IsInjective(nextCoro[s])
    BY <1>0, <1>2 DEF RunAsync, PlaceInv, CoroInv, Queued, TypeOK
  <2>2. TakeOut(nextCoro[s], i[s]) \in Seq(Coros) /\ nextCoro[s][i[s]] \in Coros
    BY <2>1, TakeOutCoro
  <2>3. i[s] - 1 \in Nat
    BY <2>1
  <2> QED
    BY <1>0, <1>2, <2>2, <2>3 DEF RunAsync, TypeOK
<1>3. CASE EndAsync(s)
  BY <1>0, <1>3 DEF EndAsync, Expired, TypeOK
<1>4. ASSUME NEW n \in Sessions, TimeOut(s, n) PROVE TypeOK'
  <2>1. callCoro[s][n] # Nil /\ callCoro[s][n] \in Entries
    BY <1>0, <1>4 DEF TimeOut, PlaceInv, EntryInv, TypeOK
  <2>2. callCoro[s][n].co \in Coros /\ CallResult(FALSE, FALSE, Nil) \in Results
    BY <2>1 DEF Entries, CallResult, Results
  <2>3. /\ running' \in [Services -> Coros \union {0}]
        /\ waits' \in [Services -> [Coros -> Sessions \union {0}]]
        /\ result' \in [Services -> [Sessions -> Results \union {Nil}]]
    BY <1>0, <1>4, <2>2, ResumeType DEF TimeOut
  <2> QED
    BY <1>0, <1>4, <2>3 DEF TimeOut, ClearAfter, TypeOK
<1>5. CASE Forget(s)
  BY <1>0, <1>5 DEF Forget, TypeOK
<1>6. CASE EndTimeouts(s)
  BY <1>0, <1>6 DEF EndTimeouts, TypeOK
<1>7. CASE OnClose(s)
  <2>1. Tail(batch[s]) \in Seq(Messages)
    BY <1>0, <1>7 DEF OnClose, At, TypeOK
  <2> QED
    BY <1>0, <1>7, <2>1 DEF OnClose, TakeMessage, TypeOK
<1>8. CASE OnLateResponse(s) \/ OnLuaError(s)
  <2>1. /\ phase' = [phase EXCEPT ![s] = "idle"]
        /\ batch' = [batch EXCEPT ![s] = <<>>]
        /\ UNCHANGED <<i, due, grown, forget, isExit, tableVars, coVars, netVars,
                       result>>
    BY <1>8 DEF OnLateResponse, OnLuaError, Abandon
  <2>2. closeLost' \in [Services -> BOOLEAN]
    <3> DEFINE lost == \/ closeLost[s] \/ isExit[s]
                       \/ \E k \in DOMAIN batch[s] : batch[s][k].type = "Close"
    <3>1. closeLost' = [closeLost EXCEPT ![s] = lost]
      BY <1>8 DEF OnLateResponse, OnLuaError, Abandon
    <3>2. lost \in BOOLEAN
      OBVIOUS
    <3> HIDE DEF lost
    <3> QED
      BY <1>0, <3>1, <3>2 DEF TypeOK
  <2>3. <<>> \in Seq(Messages)
    OBVIOUS
  <2> QED
    BY <1>0, <2>1, <2>2, <2>3 DEF TypeOK
<1>9. CASE OnResponse(s)
  <2> DEFINE m == Head(batch[s])
             e == callCoro[s][m.session]
  <2>1. m \in Posts /\ Tail(batch[s]) \in Seq(Messages)
    BY <1>0, <1>9, HeadPost DEF OnResponse
  <2>2. m.session \in Sessions /\ m.isOk \in BOOLEAN
    BY <1>9, <2>1 DEF Posts, OnResponse, Waited
  <2>3. /\ e # Nil
        /\ callCoro' = [callCoro EXCEPT ![s][m.session] = Nil]
        /\ Resume(s, e.co, m.session, CallResult(TRUE, m.isOk, "values"))
    BY <1>9 DEF OnResponse, Waited
  <2>4. e.co \in Coros /\ CallResult(TRUE, m.isOk, "values") \in Results
    BY <1>0, <2>2, <2>3 DEF Entries, CallResult, Results, TypeOK
  <2>5. /\ running' \in [Services -> Coros \union {0}]
        /\ waits' \in [Services -> [Coros -> Sessions \union {0}]]
        /\ result' \in [Services -> [Sessions -> Results \union {Nil}]]
    BY <1>0, <2>2, <2>3, <2>4, ResumeType
  <2>6. callCoro' \in [Services -> [Sessions -> Entries \union {Nil}]]
    BY <1>0, <2>2, <2>3 DEF TypeOK
  <2> HIDE DEF m, e
  <2> QED
    BY <1>0, <1>9, <2>1, <2>5, <2>6 DEF OnResponse, TakeMessage, TypeOK
<1>10. ASSUME NEW isOk \in BOOLEAN, OnLuaAnswer(s, isOk) PROVE TypeOK'
  <2>1. Head(batch[s]) \in Posts /\ Tail(batch[s]) \in Seq(Messages)
    BY <1>0, <1>10, HeadPost DEF OnLuaAnswer
  <2> DEFINE a == [type |-> "LuaResponse", from |-> s,
                   session |-> Head(batch[s]).session, isOk |-> isOk]
  <2>2. a \in Posts /\ Head(batch[s]).from \in Services
    BY <2>1 DEF Posts
  <2>3. Send(Head(batch[s]).from, a)
    BY <1>10 DEF OnLuaAnswer
  <2> HIDE DEF a
  <2>4. inbox' \in [Services -> Seq(Messages)]
    BY <1>0, <2>2, <2>3, SendPost
  <2> QED
    BY <1>0, <1>10, <2>1, <2>4 DEF OnLuaAnswer, TakeMessage, TypeOK
<1>11. ASSUME NEW c \in {0, 1}, OnLuaDefer(s, c) PROVE TypeOK'
  <2>1. Head(batch[s]) \in Posts /\ Tail(batch[s]) \in Seq(Messages)
    BY <1>0, <1>11, HeadPost DEF OnLuaDefer
  <2>2. /\ created' \in [Services -> 0..MaxCoros]
        /\ nextCoro' \in [Services -> Seq(Coros)]
    <3>1. CASE c = 0
      BY <1>0, <1>11, <3>1 DEF OnLuaDefer, TypeOK
    <3>2. CASE c # 0
      <4>1. MayAsync(s) /\ Async(s)
        BY <1>11, <3>2 DEF OnLuaDefer
      <4>2. created[s] + 1 <= MaxCoros
        BY <1>0, <4>1, RuntimeAssumption DEF MayAsync, TypeOK
      <4> QED
        BY <4>1, <4>2, AsyncQueues
    <3> QED
      BY <3>1, <3>2
  <2>3. owed' \in [Services -> SUBSET Posts]
    <3>1. owed' = owed \/ owed' = [owed EXCEPT ![s] = owed[s] \union {Head(batch[s])}]
      BY <1>11 DEF OnLuaDefer
    <3>2. owed \in [Services -> SUBSET Posts]
      BY <1>0 DEF TypeOK
    <3>3. owed[s] \union {Head(batch[s])} \in SUBSET Posts
      BY <2>1, <3>2
    <3> QED
      BY <3>1, <3>2, <3>3
  <2> QED
    BY <1>0, <1>11, <2>1, <2>2, <2>3 DEF OnLuaDefer, TakeMessage, TypeOK
<1>12. CASE EndPoll(s)
  <2>1. /\ created' \in [Services -> 0..MaxCoros]
        /\ nextCoro' \in [Services -> Seq(Coros)]
        /\ closers' \in [Services -> SUBSET Coros]
    <3>1. CASE ~isExit[s]
      BY <1>0, <1>12, <3>1 DEF EndPoll, TypeOK
    <3>2. CASE isExit[s]
      <4>1. /\ Async(s)
            /\ closers' = [closers EXCEPT ![s] = closers[s] \union {created[s] + 1}]
        BY <1>12, <3>2 DEF EndPoll
      <4>2. created[s] + 1 <= MaxCoros
        BY <1>0, <1>12, <3>2, RuntimeAssumption
           DEF EndPoll, CloseInv, Closing, TypeOK
      <4>3. /\ created[s] + 1 \in Coros
            /\ created' \in [Services -> 0..MaxCoros]
            /\ nextCoro' \in [Services -> Seq(Coros)]
        BY <4>1, <4>2, AsyncQueues
      <4> QED
        BY <1>0, <4>1, <4>3 DEF TypeOK
    <3> QED
      BY <3>1, <3>2
  <2> QED
    BY <1>0, <1>12, <2>1 DEF EndPoll, TypeOK
<1> QED
  BY <1>1, <1>2, <1>3, <1>4, <1>5, <1>6, <1>7, <1>8, <1>9, <1>10, <1>11, <1>12
     DEF PollStep

LEMMA ScriptStepType ==
  ASSUME RuntimeInv, NEW s \in Services, ScriptStep(s)
  PROVE  TypeOK'
<1>0. TypeOK /\ PlaceInv(s) /\ CloseInv(s)
  BY DEF RuntimeInv
<1> USE DEF With
<1>1. ASSUME NEW r \in Services, Call(s, r) PROVE TypeOK'
  <2> DEFINE n == autoSessionId[s]
             m == [type |-> "Lua", from |-> s, session |-> n, isOk |-> FALSE]
             e == [co |-> running[s], left |-> callTimeout]
  <2>1. /\ running[s] # 0 /\ n <= MaxCalls
        /\ autoSessionId' = [autoSessionId EXCEPT ![s] = n + 1]
        /\ callCoro' = [callCoro EXCEPT ![s][n] = e]
        /\ Send(r, m)
        /\ waits' = [waits EXCEPT ![s][running[s]] = n]
        /\ grown' = [grown EXCEPT ![s] = TRUE]
        /\ running' = [running EXCEPT ![s] = 0]
        /\ UNCHANGED <<phase, batch, i, due, forget, isExit, nextCoro, created,
                       closers, owed, destroyed, closeSent, result, closeLost>>
    BY <1>1 DEF Call, NextSession
  <2>2. running[s] \in Coros /\ n \in Sessions /\ n + 1 \in 1..(MaxCalls + 1)
    <3>1. /\ running[s] \in Coros \union {0}
          /\ autoSessionId[s] \in 1..(MaxCalls + 1) /\ MaxCalls \in Nat
      BY <1>0, RuntimeAssumption DEF TypeOK
    <3> QED
      BY <2>1, <3>1 DEF Sessions
  <2>3. m \in Posts /\ e \in Entries
    BY <2>2, RuntimeAssumption DEF Posts, Entries
  <2> HIDE DEF n, m, e
  <2>4. inbox' \in [Services -> Seq(Messages)]
    BY <1>0, <2>1, <2>3, SendPost
  <2>5. /\ callCoro' \in [Services -> [Sessions -> Entries \union {Nil}]]
        /\ waits' \in [Services -> [Coros -> Sessions \union {0}]]
        /\ autoSessionId' \in [Services -> 1..(MaxCalls + 1)]
    BY <1>0, <2>1, <2>2, <2>3 DEF TypeOK
  <2> QED
    BY <1>0, <2>1, <2>4, <2>5 DEF TypeOK
<1>2. CASE CoAsync(s)
  <2>1. MayAsync(s) /\ Async(s)
    BY <1>2 DEF CoAsync
  <2>2. created[s] + 1 <= MaxCoros
    BY <1>0, <2>1, RuntimeAssumption DEF MayAsync, TypeOK
  <2>3. /\ created' \in [Services -> 0..MaxCoros]
        /\ nextCoro' \in [Services -> Seq(Coros)]
    BY <2>1, <2>2, AsyncQueues
  <2> QED
    BY <1>0, <1>2, <2>3 DEF CoAsync, TypeOK
<1>3. ASSUME NEW m \in owed[s], NEW isOk \in BOOLEAN, Response(s, m, isOk)
      PROVE  TypeOK'
  <2> DEFINE a == [type |-> "LuaResponse", from |-> s, session |-> m.session,
                   isOk |-> isOk]
  <2>1. m \in Posts
    BY <1>0, <1>3 DEF TypeOK
  <2>2. a \in Posts /\ m.from \in Services
    BY <2>1 DEF Posts
  <2>3. Send(m.from, a)
    BY <1>3 DEF Response
  <2> HIDE DEF a
  <2>4. inbox' \in [Services -> Seq(Messages)]
    BY <1>0, <2>2, <2>3, SendPost
  <2> QED
    BY <1>0, <1>3, <2>4 DEF Response, TypeOK
<1>4. ASSUME NEW ok \in BOOLEAN, Finish(s, ok) PROVE TypeOK'
  <2>1. destroyed' \subseteq Services /\ closeLost' \in [Services -> BOOLEAN]
    <3>1. \/ destroyed' = destroyed
          \/ destroyed' = destroyed \union {s}
      BY <1>4 DEF Finish
    <3>2. \/ closeLost' = closeLost
          \/ closeLost' = [closeLost EXCEPT ![s] = closeLost[s] \/ ~ok]
      BY <1>4 DEF Finish
    <3>3. (closeLost[s] \/ ~ok) \in BOOLEAN
      OBVIOUS
    <3>4. closeLost' \in [Services -> BOOLEAN]
      BY <1>0, <3>2, <3>3 DEF TypeOK
    <3> QED
      BY <1>0, <3>1, <3>4 DEF TypeOK
  <2> QED
    BY <1>0, <1>4, <2>1 DEF Finish, TypeOK
<1>5. ASSUME NEW r \in Services, ApiSend(s, r) PROVE TypeOK'
  <2>1. inbox' \in [Services -> Seq(Messages)]
    BY <1>0, <1>5, SentPost, SendPost DEF ApiSend
  <2> QED
    BY <1>0, <1>5, <2>1 DEF ApiSend, TypeOK
<1> QED
  BY <1>1, <1>2, <1>3, <1>4, <1>5 DEF ScriptStep
-----------------------------------------------------------------------------
(* What a step leaves as it is.                                             *)

LEMMA QueuedCoros ==
  ASSUME TypeOK, NEW s \in Services
  PROVE  ToSet(nextCoro[s]) \subseteq Coros /\ \A c \in Coros : c # 0 /\ c \in Nat
<1>1. nextCoro[s] \in Seq(Coros)
  BY DEF TypeOK
<1>2. \A k \in DOMAIN nextCoro[s] : nextCoro[s][k] \in Coros
  BY <1>1
<1> QED
  BY <1>2 DEF ToSet, Coros

(* A step that moves no coroutine and neither adds nor drops a call.        *)
LEMMA PlaceKept ==
  ASSUME NEW s \in Services, PlaceInv(s),
         nextCoro'[s] = nextCoro[s], running'[s] = running[s],
         waits'[s] = waits[s], created'[s] = created[s],
         autoSessionId'[s] = autoSessionId[s], callCoro'[s] = callCoro[s],
         forget'[s] = forget[s],
         phase'[s] = "async" => i'[s] <= Len(nextCoro[s]),
         forget[s] # 0 => phase'[s] = "timeouts",
         phase'[s] = "timeouts" =>
           \A n \in due'[s] : callCoro[s][n] # Nil /\ n # forget[s]
  PROVE  PlaceInv(s)'
BY DEF PlaceInv, Suspended, Queued, CoroInv, EntryInv

(* A step that neither sends nor takes a Close.                             *)
LEMMA CloseKept ==
  ASSUME NEW s \in Services, CloseInv(s),
         Free(inbox[s]) => Free(inbox'[s]), Single(inbox[s]) => Single(inbox'[s]),
         Free(batch[s]) => Free(batch'[s]), Single(batch[s]) => Single(batch'[s]),
         created'[s] = MaxCoros => created[s] = MaxCoros,
         closeSent' = closeSent,
         Closing(s)' => Closing(s),
         phase'[s] \in {"async", "timeouts"} => ~isExit'[s]
  PROVE  CloseInv(s)'
<1>1. Free(inbox[s])' <=> Free(inbox'[s])
  OBVIOUS
<1> QED
  BY DEF CloseInv, Free, Single

(* What a step of s leaves alone of the other services: all but the end of  *)
(* their queues.                                                            *)
Elsewhere(s) ==
  \A r \in Services \ {s} :
    /\ nextCoro'[r] = nextCoro[r] /\ running'[r] = running[r]
    /\ waits'[r] = waits[r] /\ created'[r] = created[r]
    /\ autoSessionId'[r] = autoSessionId[r] /\ callCoro'[r] = callCoro[r]
    /\ forget'[r] = forget[r] /\ phase'[r] = phase[r]
    /\ i'[r] = i[r] /\ due'[r] = due[r]
    /\ batch'[r] = batch[r] /\ isExit'[r] = isExit[r]

LEMMA ElsewhereKept ==
  ASSUME RuntimeInv, NEW s \in Services, Elsewhere(s),
         \A r \in Services \ {s} :
           /\ Free(inbox[r]) => Free(inbox'[r])
           /\ Single(inbox[r]) => Single(inbox'[r]),
         closeSent' = closeSent,
         PlaceInv(s)', CloseInv(s)'
  PROVE  \A r \in Services : PlaceInv(r)' /\ CloseInv(r)'
<1> SUFFICES ASSUME NEW r \in Services \ {s}
             PROVE  PlaceInv(r)' /\ CloseInv(r)'
  OBVIOUS
<1>1. PlaceInv(r) /\ CloseInv(r)
  BY DEF RuntimeInv
<1>2. PlaceInv(r)'
  <2>1. /\ phase[r] = "async" => i[r] <= Len(nextCoro[r])
        /\ forget[r] # 0 => phase[r] = "timeouts"
        /\ phase[r] = "timeouts" =>
             \A n \in due[r] : callCoro[r][n] # Nil /\ n # forget[r]
    BY <1>1 DEF PlaceInv, CoroInv, EntryInv
  <2> QED
    BY <1>1, <2>1, PlaceKept DEF Elsewhere
<1>3. CloseInv(r)'
  <2>1. Closing(r)' <=> Closing(r)
    BY DEF Closing, Elsewhere
  <2>2. phase[r] \in {"async", "timeouts"} => ~isExit[r]
    BY <1>1 DEF CloseInv
  <2> QED
    BY <1>1, <2>1, <2>2, CloseKept DEF Elsewhere
<1> QED
  BY <1>2, <1>3

(* What api.async of s does to the places of its coroutines.                *)
LEMMA AsyncPlace ==
  ASSUME RuntimeInv, NEW s \in Services, created[s] + 1 <= MaxCoros, Async(s),
         running'[s] = running[s], waits'[s] = waits[s],
         autoSessionId'[s] = autoSessionId[s], callCoro'[s] = callCoro[s],
         forget'[s] = forget[s], due'[s] = due[s], i'[s] = i[s],
         phase'[s] = phase[s] \/ (phase[s] = "messages" /\ phase'[s] = "idle")
  PROVE  PlaceInv(s)' /\ created'[s] = created[s] + 1
<1> DEFINE c == created[s] + 1
<1>0. /\ TypeOK /\ PlaceInv(s)
      /\ created[s] \in Nat /\ running[s] \in Nat /\ i[s] \in Nat
      /\ Len(nextCoro[s]) \in Nat /\ \A d \in Coros : d \in Nat
  BY DEF RuntimeInv, TypeOK, Coros
<1>1. /\ c \in Coros /\ created'[s] = c
      /\ nextCoro'[s] = Append(nextCoro[s], c)
      /\ IsInjective(Append(nextCoro[s], c))
      /\ ToSet(Append(nextCoro[s], c)) = ToSet(nextCoro[s]) \union {c}
      /\ Len(Append(nextCoro[s], c)) = Len(nextCoro[s]) + 1
  BY <1>0, AsyncQueues DEF TypeOK
<1>2. c > created[s] /\ c # 0
  BY <1>0
<1> HIDE DEF c
<1>3. running[s] # c /\ waits[s][c] = 0
  BY <1>0, <1>1, <1>2 DEF PlaceInv, CoroInv
<1>4. Queued(s)'
  BY <1>0, <1>1, <1>3 DEF PlaceInv, Queued
<1>5. CoroInv(s)'
  <2>1. \A d \in ToSet(nextCoro[s]) : d <= created[s] /\ d \in Nat
    <3>1. ToSet(nextCoro[s]) \subseteq Coros
      BY <1>0 DEF TypeOK, ToSet
    <3> QED
      BY <1>0, <3>1 DEF PlaceInv, CoroInv
  <2>2. c = created[s] + 1
    BY DEF c
  <2>3. \A d \in ToSet(nextCoro'[s]) : d <= created'[s]
    BY <1>0, <1>1, <2>1, <2>2
  <2>4. running'[s] <= created'[s]
    BY <1>0, <1>1, <2>2 DEF PlaceInv, CoroInv
  <2>5. \A d \in Coros : waits'[s][d] # 0 => d <= created'[s] /\ d # running'[s]
    BY <1>0, <1>1, <2>2 DEF PlaceInv, CoroInv
  <2>6. phase'[s] = "async" => i'[s] <= Len(nextCoro'[s])
    BY <1>0, <1>1 DEF PlaceInv, CoroInv
  <2> QED
    BY <2>3, <2>4, <2>5, <2>6 DEF CoroInv
<1>6. Suspended(s)' /\ EntryInv(s)'
  BY <1>0 DEF PlaceInv, Suspended, EntryInv
<1> QED
  BY <1>1, <1>4, <1>5, <1>6 DEF PlaceInv, c
-----------------------------------------------------------------------------
(* The steps of onPoll.                                                     *)

(* Those that only move on: they take a part of the batch, and at most post *)
(* an answer.                                                               *)
LEMMA PlainSteps ==
  ASSUME RuntimeInv, NEW s \in Services,
         UNCHANGED <<nextCoro, running, waits, created, autoSessionId, callCoro,
                     forget, isExit, closeSent>>,
         \A r \in Services \ {s} :
           /\ phase'[r] = phase[r] /\ i'[r] = i[r] /\ due'[r] = due[r]
           /\ batch'[r] = batch[r],
         \A r \in Services :
           /\ Free(inbox[r]) => Free(inbox'[r])
           /\ Single(inbox[r]) => Single(inbox'[r]),
         Free(batch[s]) => Free(batch'[s]), Single(batch[s]) => Single(batch'[s]),
         phase'[s] = "async" => phase[s] = "async" /\ i'[s] = i[s],
         phase'[s] = "timeouts" =>
           \/ phase[s] = "timeouts" /\ due'[s] = due[s]
           \/ /\ phase[s] = "async" /\ due'[s] = Expired(s),
         phase'[s] = "messages" =>
           phase[s] = "messages" \/ (phase[s] = "timeouts" /\ forget[s] = 0),
         phase[s] = "timeouts" => phase'[s] \in {"timeouts", "messages"}
  PROVE  \A r \in Services : PlaceInv(r)' /\ CloseInv(r)'
<1>0. PlaceInv(s) /\ CloseInv(s)
  BY DEF RuntimeInv
<1>1. forget[s] # 0 => phase'[s] = "timeouts"
  <2>1. forget[s] # 0 => phase[s] = "timeouts"
    BY <1>0 DEF PlaceInv, EntryInv
  <2> QED
    BY <2>1
<1>2. phase'[s] = "timeouts" =>
        \A n \in due'[s] : callCoro[s][n] # Nil /\ n # forget[s]
  <2>1. CASE phase[s] = "timeouts" /\ due'[s] = due[s]
    BY <1>0, <2>1 DEF PlaceInv, EntryInv
  <2>2. CASE phase[s] = "async" /\ due'[s] = Expired(s)
    <3>1. forget[s] = 0
      BY <1>0, <2>2 DEF PlaceInv, EntryInv
    <3>2. \A n \in Sessions : n # 0
      BY DEF Sessions
    <3> QED
      BY <2>2, <3>1, <3>2 DEF Expired
  <2> QED
    BY <2>1, <2>2
<1>3. phase'[s] = "async" => i'[s] <= Len(nextCoro[s])
  BY <1>0 DEF PlaceInv, CoroInv
<1>4. PlaceInv(s)'
  BY <1>0, <1>1, <1>2, <1>3, PlaceKept
<1>5. Closing(s)' => Closing(s)
  BY <1>0 DEF Closing, CloseInv
<1>6. phase'[s] \in {"async", "timeouts"} => ~isExit'[s]
  BY <1>0 DEF CloseInv
<1>7. CloseInv(s)'
  BY <1>0, <1>5, <1>6, CloseKept
<1>8. Elsewhere(s)
  BY DEF Elsewhere
<1> QED
  BY <1>4, <1>7, <1>8, ElsewhereKept

LEMMA PollMoves ==
  ASSUME RuntimeInv, NEW s \in Services, Poll(s)
  PROVE  \A r \in Services : PlaceInv(r)' /\ CloseInv(r)'
<1>0. TypeOK /\ PlaceInv(s) /\ CloseInv(s)
  BY DEF RuntimeInv
<1>1. /\ phase[s] = "idle"
      /\ batch' = [batch EXCEPT ![s] = inbox[s]]
      /\ inbox' = [inbox EXCEPT ![s] = <<>>]
      /\ i' = [i EXCEPT ![s] = Len(nextCoro[s])]
      /\ isExit' = [isExit EXCEPT ![s] = FALSE]
      /\ phase' = [phase EXCEPT ![s] = "async"]
      /\ UNCHANGED <<nextCoro, running, waits, created, autoSessionId, callCoro,
                     forget, due, closeSent>>
  BY DEF Poll, With, LoopStart
<1>2. /\ batch'[s] = inbox[s] /\ inbox'[s] = <<>> /\ i'[s] = Len(nextCoro[s])
      /\ isExit'[s] = FALSE /\ phase'[s] = "async" /\ Len(nextCoro[s]) \in Nat
      /\ \A r \in Services \ {s} : inbox'[r] = inbox[r]
  BY <1>0, <1>1 DEF TypeOK
<1>3. PlaceInv(s)'
  <2>1. forget[s] = 0
    BY <1>0, <1>1 DEF PlaceInv, EntryInv
  <2> QED
    BY <1>0, <1>1, <1>2, <2>1, PlaceKept
<1>4. CloseInv(s)'
  <2>1. Free(<<>>) /\ Single(<<>>)
    BY DEF Free, Single
  <2>2. ~Closing(s)'
    BY <1>2 DEF Closing
  <2> QED
    BY <1>0, <1>1, <1>2, <2>1, <2>2 DEF CloseInv, Free, Single
<1>5. Elsewhere(s)
  BY <1>0, <1>1 DEF Elsewhere, TypeOK
<1> QED
  BY <1>1, <1>2, <1>3, <1>4, <1>5, ElsewhereKept

LEMMA RunAsyncMoves ==
  ASSUME RuntimeInv, NEW s \in Services, RunAsync(s)
  PROVE  \A r \in Services : PlaceInv(r)' /\ CloseInv(r)'
<1> DEFINE c == nextCoro[s][i[s]]
           q == TakeOut(nextCoro[s], i[s])
<1>0. TypeOK /\ PlaceInv(s) /\ CloseInv(s)
  BY DEF RuntimeInv
<1>1. /\ phase[s] = "async" /\ running[s] = 0 /\ i[s] > 0
      /\ running' = [running EXCEPT ![s] = c]
      /\ nextCoro' = [nextCoro EXCEPT ![s] = q]
      /\ i' = [i EXCEPT ![s] = i[s] - 1]
      /\ UNCHANGED <<phase, batch, due, forget, isExit, callCoro, autoSessionId,
                     created, waits, inbox, closeSent>>
  BY DEF RunAsync, With
<1>2. i[s] \in 1..Len(nextCoro[s]) /\ nextCoro[s] \in Seq(Coros)
      /\ IsInjective(nextCoro[s])
  BY <1>0, <1>1 DEF PlaceInv, CoroInv, Queued, TypeOK
<1>3. /\ q \in Seq(Coros) /\ IsInjective(q) /\ ToSet(q) = ToSet(nextCoro[s]) \ {c}
      /\ Len(q) = Len(nextCoro[s]) - 1
      /\ c \in ToSet(nextCoro[s]) /\ c \in Coros
  <2>1. i[s] \in DOMAIN nextCoro[s] /\ nextCoro[s][i[s]] \in Coros
    BY <1>2
  <2>2. c \in ToSet(nextCoro[s]) /\ c \in Coros
    BY <2>1 DEF ToSet
  <2>3. /\ q \in Seq(Coros) /\ IsInjective(q) /\ ToSet(q) = ToSet(nextCoro[s]) \ {c}
        /\ Len(q) = Len(nextCoro[s]) - 1
    BY <1>2, TakeOutCoro
  <2> QED
    BY <2>2, <2>3
<1> HIDE DEF c, q
<1>4. running'[s] = c /\ nextCoro'[s] = q /\ i'[s] = i[s] - 1
  BY <1>0, <1>1 DEF TypeOK
<1>5. waits[s][c] = 0 /\ c <= created[s] /\ c # 0
  <2>1. c # 0
    BY <1>3 DEF Coros
  <2> QED
    BY <1>0, <1>3, <2>1 DEF PlaceInv, Queued, CoroInv
<1>6. Queued(s)'
  BY <1>0, <1>1, <1>3, <1>4 DEF PlaceInv, Queued
<1>7. CoroInv(s)'
  <2>1. i'[s] <= Len(q)
    BY <1>0, <1>1, <1>2, <1>3, <1>4 DEF PlaceInv, CoroInv
  <2> QED
    BY <1>0, <1>1, <1>3, <1>4, <1>5, <2>1 DEF PlaceInv, CoroInv
<1>8. Suspended(s)' /\ EntryInv(s)'
  BY <1>0, <1>1 DEF PlaceInv, Suspended, EntryInv
<1>9. CloseInv(s)'
  BY <1>0, <1>1 DEF CloseInv, Closing
<1>10. Elsewhere(s)
  BY <1>0, <1>1 DEF Elsewhere, TypeOK
<1> QED
  BY <1>1, <1>6, <1>7, <1>8, <1>9, <1>10, ElsewhereKept DEF PlaceInv

(* A coroutine that waits for call n is resumed and its entry goes: at once *)
(* (an answer), or once it gives control back (a timeout).                  *)
LEMMA ResumeMoves ==
  ASSUME RuntimeInv, NEW s \in Services, NEW n \in Sessions, NEW res,
         running[s] = 0, forget[s] = 0, callCoro[s][n] # Nil,
         Resume(s, callCoro[s][n].co, n, res),
         \/ /\ phase[s] = "timeouts" /\ due' = [due EXCEPT ![s] = due[s] \ {n}]
            /\ forget' = [forget EXCEPT ![s] = n]
            /\ UNCHANGED callCoro
         \/ /\ phase[s] = "messages"
            /\ callCoro' = [callCoro EXCEPT ![s][n] = Nil]
            /\ UNCHANGED <<due, forget>>,
         UNCHANGED <<nextCoro, created, autoSessionId, phase, i>>
  PROVE  /\ PlaceInv(s)'
         /\ \A r \in Services \ {s} :
              /\ running'[r] = running[r] /\ waits'[r] = waits[r]
              /\ callCoro'[r] = callCoro[r] /\ due'[r] = due[r]
              /\ forget'[r] = forget[r]
<1> DEFINE c == callCoro[s][n].co
<1>0. TypeOK /\ PlaceInv(s)
  BY DEF RuntimeInv
<1>1. c \in Coros /\ c # 0 /\ c \in Nat /\ n # 0 /\ n \in Nat
  <2>1. callCoro[s][n] \in Entries
    BY <1>0 DEF TypeOK
  <2>2. c \in Coros
    BY <2>1 DEF Entries
  <2> HIDE DEF c
  <2> QED
    BY <2>2 DEF Coros, Sessions
<1>2. waits[s][c] = n
  BY <1>0, <1>1 DEF PlaceInv, Suspended
<1>3. /\ running' = [running EXCEPT ![s] = c]
      /\ waits' = [waits EXCEPT ![s][c] = 0]
  BY DEF Resume, With
<1>4. /\ running'[s] = c /\ waits'[s][c] = 0
      /\ \A d \in Coros \ {c} : waits'[s][d] = waits[s][d]
      /\ \A r \in Services \ {s} : running'[r] = running[r] /\ waits'[r] = waits[r]
  BY <1>0, <1>1, <1>3 DEF TypeOK
<1>5. \A d \in Coros : waits[s][d] = n <=> d = c
  BY <1>0, <1>1 DEF PlaceInv, Suspended
<1>6. /\ c \notin ToSet(nextCoro[s]) /\ c <= created[s] /\ n < autoSessionId[s]
  BY <1>0, <1>1, <1>2 DEF PlaceInv, Queued, CoroInv, EntryInv
<1> HIDE DEF c
<1>7. Queued(s)'
  <2>1. ToSet(nextCoro[s]) \subseteq Coros
    BY <1>0 DEF TypeOK, ToSet
  <2> QED
    BY <1>0, <1>4, <1>6, <2>1 DEF PlaceInv, Queued
<1>8. CoroInv(s)'
  BY <1>0, <1>1, <1>4, <1>6 DEF PlaceInv, CoroInv
<1>9. CASE phase[s] = "timeouts"
  <2>1. /\ due'[s] = due[s] \ {n} /\ forget'[s] = n /\ UNCHANGED callCoro
        /\ \A r \in Services \ {s} : due'[r] = due[r] /\ forget'[r] = forget[r]
    BY <1>0, <1>9 DEF TypeOK
  <2>2. Suspended(s)'
    <3> SUFFICES ASSUME NEW m \in Sessions \ {n}, NEW d \in Coros
                 PROVE  (callCoro[s][m] # Nil /\ callCoro[s][m].co = d)
                          <=> waits'[s][d] = m
      BY <2>1 DEF Suspended
    <3>1. m # 0
      BY DEF Sessions
    <3>2. (callCoro[s][m] # Nil /\ callCoro[s][m].co = d) <=> waits[s][d] = m
      BY <1>0, <3>1 DEF PlaceInv, Suspended
    <3> QED
      BY <1>2, <1>4, <3>1, <3>2
  <2>3. EntryInv(s)'
    <3>1. \A d \in Coros : waits'[s][d] # n /\ waits'[s][d] < autoSessionId[s]
      <4>1. 0 < autoSessionId[s]
        BY <1>0 DEF TypeOK
      <4>2. \A d \in Coros : waits[s][d] < autoSessionId[s]
        BY <1>0 DEF PlaceInv, EntryInv
      <4> QED
        BY <1>1, <1>4, <1>5, <4>1, <4>2
    <3>2. \A m \in due'[s] : callCoro'[s][m] # Nil /\ m # forget'[s]
      BY <1>0, <1>9, <2>1 DEF PlaceInv, EntryInv
    <3> QED
      BY <1>0, <1>6, <1>9, <2>1, <3>1, <3>2 DEF PlaceInv, EntryInv
  <2> QED
    BY <1>4, <1>7, <1>8, <2>1, <2>2, <2>3 DEF PlaceInv
<1>10. CASE phase[s] = "messages"
  <2>1. /\ callCoro'[s][n] = Nil
        /\ \A m \in Sessions \ {n} : callCoro'[s][m] = callCoro[s][m]
        /\ UNCHANGED <<due, forget>>
        /\ \A r \in Services \ {s} : callCoro'[r] = callCoro[r]
    BY <1>0, <1>10 DEF TypeOK
  <2>2. Suspended(s)'
    <3> SUFFICES ASSUME NEW m \in Sessions, NEW d \in Coros
                 PROVE  (callCoro'[s][m] # Nil /\ callCoro'[s][m].co = d)
                          <=> waits'[s][d] = m
      BY DEF Suspended
    <3>1. m # 0
      BY DEF Sessions
    <3>2. (callCoro[s][m] # Nil /\ callCoro[s][m].co = d) <=> waits[s][d] = m
      BY <1>0, <3>1 DEF PlaceInv, Suspended
    <3>3. CASE m = n
      BY <1>4, <1>5, <2>1, <3>1, <3>3
    <3>4. CASE m # n
      BY <1>2, <1>4, <2>1, <3>1, <3>2, <3>4
    <3> QED
      BY <3>3, <3>4
  <2>3. EntryInv(s)'
    <3>1. \A d \in Coros : waits'[s][d] < autoSessionId[s]
      <4>1. 0 < autoSessionId[s]
        BY <1>0 DEF TypeOK
      <4>2. \A d \in Coros : waits[s][d] < autoSessionId[s]
        BY <1>0 DEF PlaceInv, EntryInv
      <4> QED
        BY <1>1, <1>4, <4>1, <4>2
    <3>2. \A m \in Sessions : autoSessionId[s] <= m => callCoro'[s][m] = Nil
      BY <1>0, <2>1 DEF PlaceInv, EntryInv
    <3> QED
      BY <1>0, <1>10, <2>1, <3>1, <3>2 DEF PlaceInv, EntryInv
  <2> QED
    BY <1>4, <1>7, <1>8, <2>1, <2>2, <2>3 DEF PlaceInv
<1> QED
  BY <1>9, <1>10

LEMMA PollStepMoves ==
  ASSUME RuntimeInv, NEW s \in Services, PollStep(s)
  PROVE  \A r \in Services : PlaceInv(r)' /\ CloseInv(r)'
<1>0. TypeOK /\ PlaceInv(s) /\ CloseInv(s)
  BY DEF RuntimeInv
<1> USE DEF With
<1>1. CASE Poll(s)
  BY <1>1, PollMoves
<1>2. CASE RunAsync(s)
  BY <1>2, RunAsyncMoves
<1>3. CASE EndAsync(s) \/ EndTimeouts(s)
  <2>1. /\ UNCHANGED <<nextCoro, running, waits, created, autoSessionId, callCoro,
                       forget, isExit, closeSent, inbox, batch, i>>
        /\ \/ /\ phase[s] = "async" /\ phase' = [phase EXCEPT ![s] = "timeouts"]
              /\ due' = [due EXCEPT ![s] = Expired(s)]
           \/ /\ phase[s] = "timeouts" /\ phase' = [phase EXCEPT ![s] = "messages"]
              /\ due' = [due EXCEPT ![s] = {}] /\ forget[s] = 0
    BY <1>3 DEF EndAsync, EndTimeouts
  <2>2. /\ \/ phase[s] = "async" /\ phase'[s] = "timeouts" /\ due'[s] = Expired(s)
           \/ phase[s] = "timeouts" /\ phase'[s] = "messages" /\ forget[s] = 0
        /\ \A r \in Services \ {s} : phase'[r] = phase[r] /\ due'[r] = due[r]
    BY <1>0, <2>1 DEF TypeOK
  <2> QED
    BY <2>1, <2>2, PlainSteps
<1>4. ASSUME NEW n \in Sessions, TimeOut(s, n)
      PROVE  \A r \in Services : PlaceInv(r)' /\ CloseInv(r)'
  <2>1. /\ phase[s] = "timeouts" /\ running[s] = 0 /\ forget[s] = 0 /\ n \in due[s]
        /\ Resume(s, callCoro[s][n].co, n, CallResult(FALSE, FALSE, Nil))
        /\ due' = [due EXCEPT ![s] = due[s] \ {n}]
        /\ forget' = [forget EXCEPT ![s] = n]
        /\ UNCHANGED <<phase, batch, i, isExit, nextCoro, callCoro, autoSessionId,
                       created, inbox, closeSent>>
    BY <1>4 DEF TimeOut, ClearAfter
  <2>2. callCoro[s][n] # Nil
    BY <1>0, <2>1 DEF PlaceInv, EntryInv
  <2>3. PlaceInv(s)' /\ Elsewhere(s)
    BY <2>1, <2>2, ResumeMoves DEF Elsewhere
  <2>4. CloseInv(s)'
    BY <1>0, <2>1 DEF CloseInv, Closing
  <2> QED
    BY <2>1, <2>3, <2>4, ElsewhereKept
<1>5. CASE Forget(s)
  <2> DEFINE f == forget[s]
  <2>1. /\ f # 0 /\ f \in Sessions
        /\ callCoro' = [callCoro EXCEPT ![s][f] = Nil]
        /\ forget' = [forget EXCEPT ![s] = 0]
        /\ UNCHANGED <<phase, batch, i, due, isExit, nextCoro, running, waits,
                       autoSessionId, created, inbox, closeSent>>
    BY <1>0, <1>5 DEF Forget, TypeOK
  <2>2. /\ callCoro'[s][f] = Nil /\ forget'[s] = 0
        /\ \A m \in Sessions \ {f} : callCoro'[s][m] = callCoro[s][m]
        /\ \A r \in Services \ {s} : callCoro'[r] = callCoro[r] /\ forget'[r] = forget[r]
    BY <1>0, <2>1 DEF TypeOK
  <2>3. /\ \A d \in Coros : waits[s][d] # f
        /\ \A m \in due[s] : callCoro[s][m] # Nil /\ m # f
        /\ phase[s] = "timeouts"
    BY <1>0, <2>1 DEF PlaceInv, EntryInv
  <2> HIDE DEF f
  <2>4. Suspended(s)'
    <3> SUFFICES ASSUME NEW m \in Sessions, NEW d \in Coros
                 PROVE  (callCoro'[s][m] # Nil /\ callCoro'[s][m].co = d)
                          <=> waits[s][d] = m
      BY <2>1 DEF Suspended
    <3>1. CASE m = f
      BY <2>2, <2>3, <3>1
    <3>2. CASE m # f
      BY <1>0, <2>2, <3>2 DEF PlaceInv, Suspended, f
    <3> QED
      BY <3>1, <3>2
  <2>5. EntryInv(s)'
    <3>1. \A m \in due[s] : callCoro'[s][m] # Nil /\ m # 0
      <4>1. due[s] \subseteq Sessions /\ \A m \in Sessions : m # 0
        BY <1>0 DEF TypeOK, Sessions
      <4> QED
        BY <2>2, <2>3, <4>1
    <3>2. \A m \in Sessions : autoSessionId[s] <= m => callCoro'[s][m] = Nil
      BY <1>0, <2>2 DEF PlaceInv, EntryInv
    <3>3. 0 < autoSessionId[s]
      BY <1>0 DEF TypeOK
    <3> QED
      BY <1>0, <2>1, <2>2, <3>1, <3>2, <3>3 DEF PlaceInv, EntryInv
  <2>6. Queued(s)' /\ CoroInv(s)'
    BY <1>0, <2>1 DEF PlaceInv, Queued, CoroInv
  <2>7. CloseInv(s)'
    BY <1>0, <2>1 DEF CloseInv, Closing
  <2>8. Elsewhere(s)
    BY <2>1, <2>2 DEF Elsewhere
  <2> QED
    BY <2>1, <2>4, <2>5, <2>6, <2>7, <2>8, ElsewhereKept DEF PlaceInv
<1>6. CASE OnClose(s)
  <2>1. /\ phase[s] = "messages" /\ batch[s] # <<>> /\ Head(batch[s]).type = "Close"
        /\ batch' = [batch EXCEPT ![s] = Tail(batch[s])]
        /\ isExit' = [isExit EXCEPT ![s] = TRUE]
        /\ UNCHANGED <<phase, i, due, forget, nextCoro, callCoro, running, waits,
                       autoSessionId, created, inbox, closeSent>>
    BY <1>6 DEF OnClose, At, TakeMessage
  <2>2. /\ batch'[s] = Tail(batch[s]) /\ batch[s] \in Seq(Messages)
        /\ Elsewhere(s)
    BY <1>0, <2>1 DEF TypeOK, Elsewhere
  <2>3. Free(batch'[s]) /\ Single(batch'[s]) /\ ~Free(batch[s])
    BY <1>0, <2>1, <2>2, TailMessages DEF CloseInv
  <2>4. CloseInv(s)'
    BY <1>0, <2>1, <2>3 DEF CloseInv, Closing, Free, Single
  <2>5. PlaceInv(s)'
    BY <1>0, <2>1 DEF PlaceInv, Suspended, Queued, CoroInv, EntryInv
  <2> QED
    BY <2>1, <2>2, <2>4, <2>5, ElsewhereKept
<1>7. CASE OnLateResponse(s) \/ OnLuaError(s)
  <2>1. /\ phase[s] = "messages"
        /\ phase' = [phase EXCEPT ![s] = "idle"]
        /\ batch' = [batch EXCEPT ![s] = <<>>]
        /\ UNCHANGED <<nextCoro, running, waits, created, autoSessionId, callCoro,
                       forget, isExit, closeSent, inbox, i, due>>
    BY <1>7 DEF OnLateResponse, OnLuaError, At, Abandon
  <2>2. /\ phase'[s] = "idle" /\ batch'[s] = <<>>
        /\ \A r \in Services \ {s} : phase'[r] = phase[r] /\ batch'[r] = batch[r]
    BY <1>0, <2>1 DEF TypeOK
  <2>3. Free(<<>>) /\ Single(<<>>)
    BY DEF Free, Single
  <2> QED
    BY <2>1, <2>2, <2>3, PlainSteps
<1>8. CASE OnResponse(s)
  <2> DEFINE m == Head(batch[s])
             n == m.session
  <2>1. /\ m \in Posts /\ batch[s] \in Seq(Messages) /\ batch[s] # <<>>
        /\ phase[s] = "messages" /\ running[s] = 0
    BY <1>0, <1>8, HeadPost DEF OnResponse
  <2>2. n \in Sessions
    BY <1>8 DEF OnResponse, Waited
  <2>3. /\ callCoro[s][n] # Nil
        /\ callCoro' = [callCoro EXCEPT ![s][n] = Nil]
        /\ Resume(s, callCoro[s][n].co, n, CallResult(TRUE, m.isOk, "values"))
        /\ batch' = [batch EXCEPT ![s] = Tail(batch[s])]
        /\ UNCHANGED <<phase, i, due, forget, isExit, nextCoro, autoSessionId,
                       created, inbox, closeSent>>
    BY <1>8 DEF OnResponse, Waited, TakeMessage
  <2>4. forget[s] = 0
    BY <1>0, <2>1 DEF PlaceInv, EntryInv
  <2> HIDE DEF n, m
  <2>5. PlaceInv(s)' /\ \A r \in Services \ {s} :
          running'[r] = running[r] /\ waits'[r] = waits[r] /\ callCoro'[r] = callCoro[r]
    BY <2>1, <2>2, <2>3, <2>4, ResumeMoves
  <2>6. /\ batch'[s] = Tail(batch[s])
        /\ \A r \in Services \ {s} : batch'[r] = batch[r]
    BY <1>0, <2>3 DEF TypeOK
  <2>7. Elsewhere(s)
    BY <2>3, <2>5, <2>6 DEF Elsewhere
  <2>8. /\ Free(batch[s]) => Free(batch'[s])
        /\ Single(batch[s]) => Single(batch'[s])
    BY <2>1, <2>6, TailMessages
  <2>9. CloseInv(s)'
    <3>1. phase'[s] \in {"async", "timeouts"} => ~isExit'[s]
      BY <1>0, <2>3 DEF CloseInv
    <3>2. Closing(s)' => Closing(s)
      BY <2>3 DEF Closing
    <3> QED
      BY <1>0, <2>3, <2>8, <3>1, <3>2, CloseKept
  <2> QED
    BY <2>3, <2>5, <2>7, <2>9, ElsewhereKept
<1>9. ASSUME NEW isOk \in BOOLEAN, OnLuaAnswer(s, isOk)
      PROVE  \A r \in Services : PlaceInv(r)' /\ CloseInv(r)'
  <2>1. /\ Head(batch[s]) \in Posts /\ batch[s] \in Seq(Messages) /\ batch[s] # <<>>
        /\ phase[s] = "messages"
    BY <1>0, <1>9, HeadPost DEF OnLuaAnswer
  <2> DEFINE a == [type |-> "LuaResponse", from |-> s,
                   session |-> Head(batch[s]).session, isOk |-> isOk]
  <2>2. a \in Posts /\ Head(batch[s]).from \in Services
    BY <2>1 DEF Posts
  <2>3. /\ Send(Head(batch[s]).from, a)
        /\ batch' = [batch EXCEPT ![s] = Tail(batch[s])]
        /\ UNCHANGED <<nextCoro, running, waits, created, autoSessionId, callCoro,
                       forget, isExit, closeSent, phase, i, due>>
    BY <1>9 DEF OnLuaAnswer, TakeMessage
  <2> HIDE DEF a
  <2>4. \A r \in Services : /\ Free(inbox[r]) => Free(inbox'[r])
                            /\ Single(inbox[r]) => Single(inbox'[r])
    BY <1>0, <2>2, <2>3, SendPost
  <2>5. /\ batch'[s] = Tail(batch[s])
        /\ \A r \in Services \ {s} : batch'[r] = batch[r]
    BY <1>0, <2>3 DEF TypeOK
  <2>6. /\ Free(batch[s]) => Free(batch'[s])
        /\ Single(batch[s]) => Single(batch'[s])
    BY <2>1, <2>5, TailMessages
  <2> QED
    BY <2>1, <2>3, <2>4, <2>5, <2>6, PlainSteps
<1>10. ASSUME NEW c \in {0, 1}, OnLuaDefer(s, c)
       PROVE  \A r \in Services : PlaceInv(r)' /\ CloseInv(r)'
  <2>1. /\ Head(batch[s]) \in Posts /\ batch[s] \in Seq(Messages) /\ batch[s] # <<>>
        /\ phase[s] = "messages"
    BY <1>0, <1>10, HeadPost DEF OnLuaDefer
  <2>2. /\ batch' = [batch EXCEPT ![s] = Tail(batch[s])]
        /\ UNCHANGED <<running, waits, autoSessionId, callCoro, forget, isExit,
                       inbox, closeSent, phase, i, due>>
    BY <1>10 DEF OnLuaDefer, TakeMessage
  <2>3. /\ batch'[s] = Tail(batch[s])
        /\ \A r \in Services \ {s} : batch'[r] = batch[r]
    BY <1>0, <2>2 DEF TypeOK
  <2>4. /\ Free(batch[s]) => Free(batch'[s])
        /\ Single(batch[s]) => Single(batch'[s])
    BY <2>1, <2>3, TailMessages
  <2>5. CASE c = 0
    <3>1. UNCHANGED <<created, nextCoro>>
      BY <1>10, <2>5 DEF OnLuaDefer
    <3> QED
      BY <2>1, <2>2, <2>3, <2>4, <3>1, PlainSteps
  <2>6. CASE c # 0
    <3>1. MayAsync(s) /\ Async(s)
      BY <1>10, <2>6 DEF OnLuaDefer
    <3>2. created[s] + 1 <= MaxCoros /\ created[s] + 1 # MaxCoros
      BY <1>0, <3>1, RuntimeAssumption DEF MayAsync, TypeOK
    <3>3. PlaceInv(s)' /\ created'[s] = created[s] + 1
      BY <2>2, <3>1, <3>2, AsyncPlace
    <3>4. Elsewhere(s)
      BY <1>0, <2>2, <2>3, <3>1 DEF Elsewhere, Async, TypeOK
    <3>5. CloseInv(s)'
      <4>1. phase'[s] \in {"async", "timeouts"} => ~isExit'[s]
        BY <2>1, <2>2
      <4>2. Closing(s)' => Closing(s)
        BY <2>2 DEF Closing
      <4> QED
        BY <1>0, <2>2, <2>4, <3>2, <3>3, <4>1, <4>2, CloseKept
    <3> QED
      BY <2>2, <3>3, <3>4, <3>5, ElsewhereKept
  <2> QED
    BY <2>5, <2>6
<1>11. CASE EndPoll(s)
  <2>1. /\ phase[s] = "messages" /\ batch[s] = <<>>
        /\ phase' = [phase EXCEPT ![s] = "idle"]
        /\ UNCHANGED <<batch, i, due, forget, isExit, callCoro, autoSessionId,
                       running, waits, inbox, closeSent>>
    BY <1>11 DEF EndPoll
  <2>2. phase'[s] = "idle" /\ \A r \in Services \ {s} : phase'[r] = phase[r]
    BY <1>0, <2>1 DEF TypeOK
  <2>3. CASE ~isExit[s]
    <3>1. UNCHANGED <<created, nextCoro>>
      BY <1>11, <2>3 DEF EndPoll
    <3> QED
      BY <2>1, <2>2, <3>1, PlainSteps
  <2>4. CASE isExit[s]
    <3>1. Async(s) /\ Closing(s)
      BY <1>11, <2>1, <2>4 DEF EndPoll, Closing
    <3>2. created[s] # MaxCoros /\ Free(inbox[s]) /\ Free(batch[s]) /\ s \in closeSent
      BY <1>0, <3>1 DEF CloseInv
    <3>3. created[s] + 1 <= MaxCoros
      BY <1>0, <3>2, RuntimeAssumption DEF TypeOK
    <3>4. PlaceInv(s)'
      BY <2>1, <2>2, <3>1, <3>3, AsyncPlace
    <3>5. Elsewhere(s)
      BY <1>0, <2>1, <2>2, <3>1 DEF Elsewhere, Async, TypeOK
    <3>6. CloseInv(s)'
      BY <1>0, <2>1, <2>2, <3>2 DEF CloseInv, Closing
    <3> QED
      BY <2>1, <3>4, <3>5, <3>6, ElsewhereKept
  <2> QED
    BY <2>3, <2>4
<1> QED
  BY <1>1, <1>2, <1>3, <1>4, <1>5, <1>6, <1>7, <1>8, <1>9, <1>10, <1>11
     DEF PollStep

-----------------------------------------------------------------------------
(* The steps of the script, of main and of time.                            *)

LEMMA CallMoves ==
  ASSUME RuntimeInv, NEW s \in Services, NEW r \in Services, Call(s, r)
  PROVE  \A u \in Services : PlaceInv(u)' /\ CloseInv(u)'
<1> DEFINE n == autoSessionId[s]
           c == running[s]
           m == [type |-> "Lua", from |-> s, session |-> n, isOk |-> FALSE]
           e == [co |-> c, left |-> callTimeout]
<1>0. TypeOK /\ PlaceInv(s) /\ CloseInv(s)
  BY DEF RuntimeInv
<1>1. /\ c # 0 /\ n <= MaxCalls
      /\ autoSessionId' = [autoSessionId EXCEPT ![s] = n + 1]
      /\ callCoro' = [callCoro EXCEPT ![s][n] = e]
      /\ Send(r, m)
      /\ waits' = [waits EXCEPT ![s][c] = n]
      /\ running' = [running EXCEPT ![s] = 0]
      /\ UNCHANGED <<phase, batch, i, due, forget, isExit, nextCoro, created,
                     closeSent>>
  BY DEF Call, NextSession, With
<1>2. /\ c \in Coros /\ n \in Sessions /\ n \in Nat /\ n # 0
  <2>1. /\ running[s] \in Coros \union {0}
        /\ autoSessionId[s] \in 1..(MaxCalls + 1) /\ MaxCalls \in Nat
    BY <1>0, RuntimeAssumption DEF TypeOK
  <2> QED
    BY <1>1, <2>1 DEF Sessions
<1>3. m \in Posts /\ e \in Entries /\ e.co = c /\ e # Nil
  BY <1>2, RuntimeAssumption DEF Posts, Entries
<1>4. /\ waits[s][c] = 0 /\ callCoro[s][n] = Nil /\ forget[s] < n /\ c <= created[s]
      /\ c \notin ToSet(nextCoro[s])
      /\ \A d \in Coros : waits[s][d] < n
  BY <1>0, <1>2 DEF PlaceInv, Queued, CoroInv, EntryInv
<1> HIDE DEF n, c, m, e
<1>5. /\ callCoro'[s][n] = e /\ waits'[s][c] = n /\ running'[s] = 0
      /\ autoSessionId'[s] = n + 1
      /\ \A k \in Sessions \ {n} : callCoro'[s][k] = callCoro[s][k]
      /\ \A d \in Coros \ {c} : waits'[s][d] = waits[s][d]
  BY <1>0, <1>1, <1>2 DEF TypeOK
<1>6. Suspended(s)'
  <2> SUFFICES ASSUME NEW k \in Sessions \ {forget[s]}, NEW d \in Coros
               PROVE  (callCoro'[s][k] # Nil /\ callCoro'[s][k].co = d)
                        <=> waits'[s][d] = k
    BY <1>1 DEF Suspended
  <2>1. (callCoro[s][k] # Nil /\ callCoro[s][k].co = d) <=> waits[s][d] = k
    BY <1>0 DEF PlaceInv, Suspended
  <2>2. k # 0 /\ (k = n => waits[s][d] # k)
    <3>1. waits[s][d] \in Nat /\ waits[s][d] < n
      BY <1>0, <1>4 DEF TypeOK, Sessions
    <3> QED
      BY <1>2, <3>1 DEF Sessions
  <2>3. CASE k = n
    BY <1>3, <1>5, <2>2, <2>3
  <2>4. CASE k # n
    BY <1>4, <1>5, <2>1, <2>2, <2>4
  <2> QED
    BY <2>3, <2>4
<1>7. Queued(s)' /\ CoroInv(s)'
  <2>1. ToSet(nextCoro[s]) \subseteq Coros /\ \A d \in Coros : d # 0
    BY <1>0, QueuedCoros
  <2>2. Queued(s)'
    BY <1>0, <1>1, <1>4, <1>5, <2>1 DEF PlaceInv, Queued
  <2>3. 0 <= created[s]
    BY <1>0, RuntimeAssumption DEF TypeOK
  <2>4. CoroInv(s)'
    BY <1>0, <1>1, <1>4, <1>5, <2>1, <2>3 DEF PlaceInv, CoroInv
  <2> QED
    BY <2>2, <2>4
<1>8. EntryInv(s)'
  <2>1. \A d \in Coros : waits'[s][d] < n + 1 /\ (waits'[s][d] # forget[s] \/ forget[s] = 0)
    <3> SUFFICES ASSUME NEW d \in Coros
                 PROVE  waits'[s][d] < n + 1 /\ (waits'[s][d] # forget[s] \/ forget[s] = 0)
      OBVIOUS
    <3>1. waits[s][d] \in Nat /\ forget[s] \in Nat
      BY <1>0 DEF TypeOK, Sessions
    <3>2. waits[s][d] < n /\ (forget[s] # 0 => waits[s][d] # forget[s])
      BY <1>0, <1>4 DEF PlaceInv, EntryInv
    <3>3. CASE d = c
      BY <1>2, <1>4, <1>5, <3>1, <3>3
    <3>4. CASE d # c
      BY <1>2, <1>5, <3>1, <3>2, <3>4
    <3> QED
      BY <3>3, <3>4
  <2>2. \A d \in Coros : waits'[s][d] < n + 1
    <3> SUFFICES ASSUME NEW d \in Coros PROVE waits'[s][d] < n + 1
      OBVIOUS
    <3>1. waits[s][d] \in Nat /\ waits[s][d] < n
      BY <1>0, <1>4 DEF TypeOK, Sessions
    <3> QED
      BY <1>2, <1>5, <3>1
  <2>3. \A k \in Sessions : n + 1 <= k => callCoro'[s][k] = Nil
    <3> SUFFICES ASSUME NEW k \in Sessions, n + 1 <= k PROVE callCoro'[s][k] = Nil
      OBVIOUS
    <3>1. k # n /\ n <= k
      BY <1>2 DEF Sessions
    <3> QED
      BY <1>0, <1>5, <3>1 DEF PlaceInv, EntryInv, n
  <2>4. forget[s] < n + 1
    <3>1. forget[s] \in Nat
      BY <1>0 DEF TypeOK, Sessions
    <3> QED
      BY <1>2, <1>4, <3>1
  <2>5. phase[s] = "timeouts" =>
          \A k \in due[s] : callCoro'[s][k] # Nil /\ k # forget[s]
    BY <1>0, <1>3, <1>5 DEF PlaceInv, EntryInv, TypeOK
  <2>6. forget[s] # 0 => phase[s] = "timeouts"
    BY <1>0 DEF PlaceInv, EntryInv
  <2> QED
    BY <1>1, <1>5, <2>1, <2>2, <2>3, <2>4, <2>5, <2>6 DEF EntryInv
<1>9. \A u \in Services : /\ Free(inbox[u]) => Free(inbox'[u])
                          /\ Single(inbox[u]) => Single(inbox'[u])
  BY <1>0, <1>1, <1>3, SendPost
<1>10. CloseInv(s)'
  <2>1. Closing(s)' <=> Closing(s)
    BY <1>1 DEF Closing
  <2>2. phase'[s] \in {"async", "timeouts"} => ~isExit'[s]
    BY <1>0, <1>1 DEF CloseInv
  <2> QED
    BY <1>0, <1>1, <1>9, <2>1, <2>2, CloseKept
<1>11. Elsewhere(s)
  BY <1>0, <1>1 DEF Elsewhere, TypeOK
<1> QED
  BY <1>1, <1>6, <1>7, <1>8, <1>9, <1>10, <1>11, ElsewhereKept DEF PlaceInv

LEMMA ScriptStepMoves ==
  ASSUME RuntimeInv, NEW s \in Services, ScriptStep(s)
  PROVE  \A r \in Services : PlaceInv(r)' /\ CloseInv(r)'
<1>0. TypeOK /\ PlaceInv(s) /\ CloseInv(s)
  BY DEF RuntimeInv
<1>1. ASSUME NEW r \in Services, Call(s, r)
      PROVE  \A u \in Services : PlaceInv(u)' /\ CloseInv(u)'
  BY <1>1, CallMoves
<1>2. CASE CoAsync(s)
  <2>1. /\ MayAsync(s) /\ Async(s)
        /\ UNCHANGED <<phase, batch, i, due, forget, isExit, callCoro,
                       autoSessionId, running, waits, inbox, closeSent>>
    BY <1>2 DEF CoAsync
  <2>2. created[s] + 1 <= MaxCoros /\ created[s] + 1 # MaxCoros
    BY <1>0, <2>1, RuntimeAssumption DEF MayAsync, TypeOK
  <2>3. PlaceInv(s)' /\ created'[s] = created[s] + 1
    BY <2>1, <2>2, AsyncPlace
  <2>4. Elsewhere(s)
    BY <1>0, <2>1 DEF Elsewhere, Async, With, TypeOK
  <2>5. CloseInv(s)'
    BY <1>0, <2>1, <2>2, <2>3 DEF CloseInv, Closing
  <2> QED
    BY <2>1, <2>3, <2>4, <2>5, ElsewhereKept
<1>3. ASSUME NEW m \in owed[s], NEW isOk \in BOOLEAN, Response(s, m, isOk)
      PROVE  \A r \in Services : PlaceInv(r)' /\ CloseInv(r)'
  <2> DEFINE a == [type |-> "LuaResponse", from |-> s, session |-> m.session,
                   isOk |-> isOk]
  <2>1. m \in Posts
    BY <1>0, <1>3 DEF TypeOK
  <2>2. a \in Posts /\ m.from \in Services
    BY <2>1 DEF Posts
  <2>3. /\ Send(m.from, a)
        /\ UNCHANGED <<nextCoro, running, waits, created, autoSessionId, callCoro,
                       forget, isExit, closeSent, phase, i, due, batch>>
    BY <1>3 DEF Response
  <2> HIDE DEF a
  <2>4. \A r \in Services : /\ Free(inbox[r]) => Free(inbox'[r])
                            /\ Single(inbox[r]) => Single(inbox'[r])
    BY <1>0, <2>2, <2>3, SendPost
  <2> QED
    BY <2>3, <2>4, PlainSteps
<1>4. ASSUME NEW ok \in BOOLEAN, Finish(s, ok)
      PROVE  \A r \in Services : PlaceInv(r)' /\ CloseInv(r)'
  <2>1. /\ running' = [running EXCEPT ![s] = 0]
        /\ UNCHANGED <<phase, batch, i, due, forget, isExit, nextCoro, callCoro,
                       autoSessionId, created, waits, inbox, closeSent>>
    BY <1>4 DEF Finish, With
  <2>2. running'[s] = 0 /\ Elsewhere(s)
    BY <1>0, <2>1 DEF Elsewhere, TypeOK
  <2>3. ToSet(nextCoro[s]) \subseteq Coros /\ \A d \in Coros : d # 0
    BY <1>0, QueuedCoros
  <2>4. 0 <= created[s]
    BY <1>0, RuntimeAssumption DEF TypeOK
  <2>5. PlaceInv(s)'
    <3>1. Suspended(s)' /\ EntryInv(s)'
      BY <1>0, <2>1 DEF PlaceInv, Suspended, EntryInv
    <3>2. Queued(s)' /\ CoroInv(s)'
      BY <1>0, <2>1, <2>2, <2>3, <2>4 DEF PlaceInv, Queued, CoroInv
    <3> QED
      BY <3>1, <3>2 DEF PlaceInv
  <2>6. CloseInv(s)'
    BY <1>0, <2>1 DEF CloseInv, Closing
  <2> QED
    BY <2>1, <2>2, <2>5, <2>6, ElsewhereKept
<1>5. ASSUME NEW r \in Services, ApiSend(s, r)
      PROVE  \A u \in Services : PlaceInv(u)' /\ CloseInv(u)'
  <2>1. UNCHANGED <<nextCoro, running, waits, created, autoSessionId, callCoro,
                    forget, isExit, closeSent, phase, i, due, batch>>
    BY <1>5 DEF ApiSend
  <2>2. \A u \in Services : /\ Free(inbox[u]) => Free(inbox'[u])
                            /\ Single(inbox[u]) => Single(inbox'[u])
    BY <1>0, <1>5, SentPost, SendPost DEF ApiSend
  <2> QED
    BY <2>1, <2>2, PlainSteps
<1> QED
  BY <1>1, <1>2, <1>3, <1>4, <1>5 DEF ScriptStep

LEMMA SendCloseMoves ==
  ASSUME RuntimeInv, NEW s \in Services, SendClose(s)
  PROVE  TypeOK' /\ \A r \in Services : PlaceInv(r)' /\ CloseInv(r)'
<1> DEFINE m == [type |-> "Close"]
<1>0. TypeOK /\ \A r \in Services : PlaceInv(r) /\ CloseInv(r)
  BY DEF RuntimeInv
<1>1. /\ s \notin closeSent /\ closeSent' = closeSent \union {s}
      /\ Send(s, m)
      /\ UNCHANGED <<pollVars, tableVars, coVars, destroyed, result, closeLost>>
  BY DEF SendClose
<1>2. Free(inbox[s]) /\ Free(batch[s]) /\ ~Closing(s) /\ inbox[s] \in Seq(Messages)
  BY <1>0, <1>1 DEF CloseInv, TypeOK
<1>3. Append(inbox[s], m) \in Seq(Messages) /\ Single(Append(inbox[s], m))
  BY <1>2, AppendClose
<1> HIDE DEF m
<1>4. /\ inbox' \in [Services -> Seq(Messages)]
      /\ \A r \in Services \ {s} : inbox'[r] = inbox[r]
      /\ Single(inbox'[s])
  <2>1. CASE s \in destroyed
    <3>1. inbox' = inbox
      BY <1>1, <2>1 DEF Send
    <3> QED
      BY <1>0, <3>1 DEF CloseInv, TypeOK
  <2>2. CASE s \notin destroyed
    <3>1. inbox' = [inbox EXCEPT ![s] = Append(inbox[s], m)]
      BY <1>1, <2>2 DEF Send
    <3> QED
      BY <1>0, <1>3, <3>1 DEF TypeOK
  <2> QED
    BY <2>1, <2>2
<1>5. TypeOK'
  BY <1>0, <1>1, <1>4 DEF TypeOK
<1>6. ASSUME NEW r \in Services PROVE PlaceInv(r)'
  <2>1. PlaceInv(r)
    BY <1>0
  <2> QED
    BY <1>1, <2>1 DEF PlaceInv, Suspended, Queued, CoroInv, EntryInv
<1>7. CloseInv(s)'
  BY <1>0, <1>1, <1>2, <1>4 DEF CloseInv, Closing, Free, Single
<1>8. ASSUME NEW r \in Services \ {s} PROVE CloseInv(r)'
  BY <1>0, <1>1, <1>4 DEF CloseInv, Closing, Free, Single
<1> QED
  BY <1>5, <1>6, <1>7, <1>8

LEMMA TickMoves ==
  ASSUME RuntimeInv, Tick
  PROVE  TypeOK' /\ \A r \in Services : PlaceInv(r)' /\ CloseInv(r)'
<1>0. TypeOK /\ \A r \in Services : PlaceInv(r) /\ CloseInv(r)
  BY DEF RuntimeInv
<1>1. /\ UNCHANGED <<pollVars, nextCoro, autoSessionId, coVars, netVars, result,
                     closeLost>>
      /\ callCoro' = [s \in Services |-> [n \in Sessions |->
           IF callCoro[s][n] = Nil \/ callCoro[s][n].left < 0
           THEN callCoro[s][n]
           ELSE [callCoro[s][n] EXCEPT !.left = @ - 1]]]
  BY DEF Tick
<1>2. ASSUME NEW s \in Services, NEW n \in Sessions
      PROVE  /\ callCoro'[s][n] \in Entries \union {Nil}
             /\ callCoro'[s][n] = Nil <=> callCoro[s][n] = Nil
             /\ callCoro[s][n] # Nil => callCoro'[s][n].co = callCoro[s][n].co
  <2> DEFINE e == callCoro[s][n]
  <2>1. e \in Entries \union {Nil}
    BY <1>0 DEF TypeOK
  <2>2. callCoro'[s][n] = IF e = Nil \/ e.left < 0 THEN e
                                                   ELSE [e EXCEPT !.left = @ - 1]
    BY <1>1
  <2> HIDE DEF e
  <2>3. CASE e = Nil \/ e.left < 0
    BY <2>1, <2>2, <2>3 DEF e
  <2>4. CASE ~(e = Nil \/ e.left < 0)
    <3>1. /\ e \in Entries /\ e.left \in -1..callTimeout /\ e.left >= 0
          /\ e.co \in Coros
      BY <2>1, <2>4, RuntimeAssumption DEF Entries
    <3>2. e.left - 1 \in -1..callTimeout
      BY <3>1, RuntimeAssumption
    <3>3. callCoro'[s][n] = [e EXCEPT !.left = e.left - 1]
      BY <2>2, <2>4
    <3>4. [e EXCEPT !.left = e.left - 1] \in Entries
          /\ [e EXCEPT !.left = e.left - 1].co = e.co
      BY <3>1, <3>2 DEF Entries
    <3> QED
      BY <2>4, <3>3, <3>4, RuntimeAssumption DEF e
  <2> QED
    BY <2>3, <2>4
<1>3. callCoro' \in [Services -> [Sessions -> Entries \union {Nil}]]
  BY <1>1, <1>2
<1>4. TypeOK'
  BY <1>0, <1>1, <1>3 DEF TypeOK
<1>5. ASSUME NEW r \in Services PROVE PlaceInv(r)' /\ CloseInv(r)'
  <2>1. PlaceInv(r) /\ CloseInv(r)
    BY <1>0
  <2>2. Suspended(r)'
    BY <1>1, <1>2, <2>1 DEF PlaceInv, Suspended
  <2>3. Queued(r)' /\ CoroInv(r)'
    BY <1>1, <2>1 DEF PlaceInv, Queued, CoroInv
  <2>4. EntryInv(r)'
    <3>1. due[r] \subseteq Sessions
      BY <1>0 DEF TypeOK
    <3> QED
      BY <1>1, <1>2, <2>1, <3>1 DEF PlaceInv, EntryInv
  <2>5. CloseInv(r)'
    BY <1>1, <2>1 DEF CloseInv, Closing
  <2> QED
    BY <2>2, <2>3, <2>4, <2>5 DEF PlaceInv
<1> QED
  BY <1>4, <1>5

LEMMA RuntimeInit == Init => RuntimeInv
<1> SUFFICES ASSUME Init PROVE RuntimeInv
  OBVIOUS
<1>1. TypeOK
  BY RuntimeType
<1>2. ASSUME NEW s \in Services PROVE PlaceInv(s) /\ CloseInv(s)
  <2>1. /\ nextCoro[s] \in {<<>>, <<1>>, <<1, 2>>} /\ created[s] = Len(nextCoro[s])
        /\ running[s] = 0 /\ \A c \in Coros : waits[s][c] = 0
        /\ \A n \in Sessions : callCoro[s][n] = Nil
        /\ autoSessionId[s] = 1 /\ forget[s] = 0 /\ phase[s] = "idle"
        /\ inbox[s] = <<>> /\ batch[s] = <<>> /\ isExit[s] = FALSE
        /\ closeSent = {}
    BY DEF Init
  <2>2. /\ created[s] \in {0, 1, 2} /\ IsInjective(nextCoro[s])
        /\ \A c \in ToSet(nextCoro[s]) : c <= created[s]
    <3>1. CASE nextCoro[s] = <<>>
      BY <2>1, <3>1 DEF ToSet, IsInjective
    <3>2. CASE nextCoro[s] = <<1>>
      <4>1. Len(<<1>>) = 1 /\ DOMAIN <<1>> = {1} /\ <<1>>[1] = 1
        OBVIOUS
      <4> QED
        BY <2>1, <3>2, <4>1 DEF ToSet, IsInjective
    <3>3. CASE nextCoro[s] = <<1, 2>>
      <4>1. /\ Len(<<1, 2>>) = 2 /\ DOMAIN <<1, 2>> = {1, 2}
            /\ <<1, 2>>[1] = 1 /\ <<1, 2>>[2] = 2
        OBVIOUS
      <4> QED
        BY <2>1, <3>3, <4>1 DEF ToSet, IsInjective
    <3> QED
      BY <2>1, <3>1, <3>2, <3>3
  <2>3. \A n \in Sessions : n # 0
    BY DEF Sessions
  <2>4. Suspended(s)
    BY <2>1, <2>3 DEF Suspended
  <2>5. Queued(s) /\ CoroInv(s)
    <3>1. ToSet(nextCoro[s]) \subseteq Coros /\ \A c \in Coros : c # 0
      BY <1>1, QueuedCoros
    <3>2. Queued(s)
      BY <2>1, <2>2, <3>1 DEF Queued
    <3>3. CoroInv(s)
      BY <2>1, <2>2, <3>1 DEF CoroInv
    <3> QED
      BY <3>2, <3>3
  <2>6. EntryInv(s)
    BY <2>1 DEF EntryInv
  <2>7. CloseInv(s)
    <3>1. Free(<<>>) /\ Single(<<>>)
      BY DEF Free, Single
    <3> QED
      BY <2>1, <2>2, <3>1, RuntimeAssumption DEF CloseInv, Closing
  <2> QED
    BY <2>4, <2>5, <2>6, <2>7 DEF PlaceInv
<1> QED
  BY <1>1, <1>2 DEF RuntimeInv

LEMMA RuntimeStep ==
  ASSUME RuntimeInv, [Next]_vars
  PROVE  RuntimeInv'
<1>1. ASSUME NEW s \in Services, PollStep(s) PROVE RuntimeInv'
  BY <1>1, PollStepType, PollStepMoves DEF RuntimeInv
<1>2. ASSUME NEW s \in Services, ScriptStep(s) PROVE RuntimeInv'
  BY <1>2, ScriptStepType, ScriptStepMoves DEF RuntimeInv
<1>3. ASSUME NEW s \in Services, SendClose(s) PROVE RuntimeInv'
  BY <1>3, SendCloseMoves DEF RuntimeInv
<1>4. CASE Tick
  BY <1>4, TickMoves DEF RuntimeInv
<1>5. CASE UNCHANGED vars
  <2>1. TypeOK'
    BY <1>5 DEF RuntimeInv, TypeOK, vars
  <2>2. ASSUME NEW s \in Services PROVE PlaceInv(s)' /\ CloseInv(s)'
    <3>1. PlaceInv(s) /\ CloseInv(s)
      BY DEF RuntimeInv
    <3>2. PlaceInv(s)'
      BY <1>5, <3>1 DEF PlaceInv, Suspended, Queued, CoroInv, EntryInv, vars
    <3>3. CloseInv(s)'
      BY <1>5, <3>1 DEF CloseInv, Closing, vars
    <3> QED
      BY <3>2, <3>3
  <2> QED
    BY <2>1, <2>2 DEF RuntimeInv
<1> QED
  BY <1>1, <1>2, <1>3, <1>4, <1>5 DEF Next

-----------------------------------------------------------------------------
(* Every coroutine of a service is in one place: queued once, running, or   *)
(* suspended in the call whose entry names it.  So an answer or a timeout   *)
(* resumes the coroutine of its own call, and no call loses its coroutine.  *)
THEOREM CorosInPlaceHolds == Spec => []CorosInPlace
<1>1. RuntimeInv => CorosInPlace
  BY DEF RuntimeInv, PlaceInv, Suspended, Queued, CorosInPlace,
         SuspendedIffListed, QueuedOnce
<1>2. RuntimeInv /\ [Next]_vars => RuntimeInv'
  BY RuntimeStep
<1> QED
  BY RuntimeInit, <1>1, <1>2, PTL DEF Spec

-----------------------------------------------------------------------------
(* Nobody waits in a call that returned.                                    *)
Returned ==
  \A s \in Services, n \in Sessions : result[s][n] # Nil =>
    n < autoSessionId[s] /\ \A c \in Coros : waits[s][c] # n

ReturnsStep ==
  \A s \in Services, n \in Sessions :
    result[s][n] # Nil => result'[s][n] = result[s][n]

(* A resume is of a call somebody waits in.                                 *)
LEMMA ResumeReturns ==
  ASSUME RuntimeInv, Returned, NEW s \in Services, NEW n \in Sessions, NEW res,
         forget[s] = 0, callCoro[s][n] # Nil,
         Resume(s, callCoro[s][n].co, n, res), UNCHANGED autoSessionId
  PROVE  Returned' /\ ReturnsStep
<1> DEFINE c == callCoro[s][n].co
<1>0. TypeOK /\ Suspended(s) /\ EntryInv(s)
  BY DEF RuntimeInv, PlaceInv
<1>1. c \in Coros /\ n # 0
  <2>1. callCoro[s][n] \in Entries
    BY <1>0 DEF TypeOK
  <2> QED
    BY <2>1 DEF Entries, Sessions
<1>2. \A d \in Coros : waits[s][d] = n <=> d = c
  BY <1>0, <1>1 DEF Suspended
<1>3. /\ waits' = [waits EXCEPT ![s][c] = 0]
      /\ result' = [result EXCEPT ![s][n] = res]
  BY DEF Resume
<1>4. n < autoSessionId[s] /\ result[s][n] = Nil
  BY <1>0, <1>1, <1>2 DEF EntryInv, Returned
<1> HIDE DEF c
<1>5. /\ \A r \in Services, m \in Sessions :
           r # s \/ m # n => result'[r][m] = result[r][m]
      /\ \A r \in Services, d \in Coros :
           waits'[r][d] = IF r = s /\ d = c THEN 0 ELSE waits[r][d]
  BY <1>0, <1>1, <1>3 DEF TypeOK
<1>6. ReturnsStep
  BY <1>4, <1>5 DEF ReturnsStep
<1>7. Returned'
  <2> SUFFICES ASSUME NEW r \in Services, NEW m \in Sessions, result'[r][m] # Nil
               PROVE  m < autoSessionId[r] /\ \A d \in Coros : waits'[r][d] # m
    BY DEF Returned
  <2>1. m # 0
    BY DEF Sessions
  <2>2. CASE r = s /\ m = n
    BY <1>2, <1>4, <1>5, <2>1, <2>2
  <2>3. CASE r # s \/ m # n
    BY <1>5, <2>1, <2>3 DEF Returned
  <2> QED
    BY <2>2, <2>3
<1> QED
  BY <1>6, <1>7

LEMMA CallReturned ==
  ASSUME RuntimeInv, Returned, NEW s \in Services, NEW r \in Services, Call(s, r)
  PROVE  Returned' /\ ReturnsStep
<1> DEFINE n == autoSessionId[s]
           c == running[s]
<1>0. TypeOK
  BY DEF RuntimeInv
<1>1. /\ c # 0 /\ n <= MaxCalls
      /\ autoSessionId' = [autoSessionId EXCEPT ![s] = n + 1]
      /\ waits' = [waits EXCEPT ![s][c] = n]
      /\ UNCHANGED result
  BY DEF Call, NextSession, With
<1>2. c \in Coros /\ n \in Nat
  BY <1>0, <1>1 DEF TypeOK
<1> HIDE DEF c, n
<1>3. /\ \A u \in Services : autoSessionId'[u] = IF u = s THEN n + 1
                                                         ELSE autoSessionId[u]
      /\ \A u \in Services, d \in Coros :
           waits'[u][d] = IF u = s /\ d = c THEN n ELSE waits[u][d]
  BY <1>0, <1>1, <1>2 DEF TypeOK
<1>4. Returned'
  <2> SUFFICES ASSUME NEW u \in Services, NEW m \in Sessions, result[u][m] # Nil
               PROVE  /\ m < autoSessionId'[u]
                      /\ \A d \in Coros : waits'[u][d] # m
    BY <1>1 DEF Returned
  <2>1. m < autoSessionId[u] /\ \A d \in Coros : waits[u][d] # m
    BY DEF Returned
  <2>2. m \in Nat
    BY DEF Sessions
  <2>3. CASE u = s
    <3>1. m < n /\ m # n
      BY <1>2, <2>1, <2>2, <2>3 DEF n
    <3> QED
      BY <1>2, <1>3, <2>1, <2>2, <2>3, <3>1
  <2>4. CASE u # s
    BY <1>3, <2>1, <2>4
  <2> QED
    BY <2>3, <2>4
<1>5. ReturnsStep
  BY <1>1 DEF ReturnsStep
<1> QED
  BY <1>4, <1>5

LEMMA ReturnsStepHolds ==
  ASSUME RuntimeInv, Returned, [Next]_vars
  PROVE  Returned' /\ ReturnsStep
<1>0. TypeOK /\ \A s \in Services : PlaceInv(s)
  BY DEF RuntimeInv
<1>1. ASSUME UNCHANGED <<autoSessionId, waits, result>>
      PROVE  Returned' /\ ReturnsStep
  BY <1>1 DEF Returned, ReturnsStep
<1>2. ASSUME NEW s \in Services, NEW n \in Sessions, TimeOut(s, n)
      PROVE  Returned' /\ ReturnsStep
  <2>1. callCoro[s][n] # Nil
    BY <1>0, <1>2 DEF TimeOut, PlaceInv, EntryInv
  <2> QED
    BY <1>2, <2>1, ResumeReturns DEF TimeOut
<1>3. ASSUME NEW s \in Services, OnResponse(s)
      PROVE  Returned' /\ ReturnsStep
  <2> DEFINE m == Head(batch[s])
  <2>1. m \in Posts /\ phase[s] = "messages"
    BY <1>0, <1>3, HeadPost DEF OnResponse
  <2>2. m.session \in Waited(s) /\ forget[s] = 0
    BY <1>0, <1>3, <2>1 DEF OnResponse, PlaceInv, EntryInv
  <2> QED
    BY <1>3, <2>2, ResumeReturns DEF OnResponse, Waited
<1>4. ASSUME NEW s \in Services, NEW r \in Services, Call(s, r)
      PROVE  Returned' /\ ReturnsStep
  BY <1>4, CallReturned
<1>5. ASSUME NEW s \in Services, PollStep(s), ~OnResponse(s),
             ~\E n \in Sessions : TimeOut(s, n)
      PROVE  UNCHANGED <<autoSessionId, waits, result>>
  BY <1>5 DEF PollStep, Poll, RunAsync, EndAsync, Forget, EndTimeouts, OnClose,
              OnLateResponse, OnLuaAnswer, OnLuaDefer, OnLuaError, EndPoll
<1>6. ASSUME NEW s \in Services, ScriptStep(s), ~\E r \in Services : Call(s, r)
      PROVE  UNCHANGED <<autoSessionId, waits, result>>
  BY <1>6 DEF ScriptStep, ApiSend, CoAsync, Response, Finish
<1>7. ASSUME \/ \E s \in Services : SendClose(s)
             \/ Tick
             \/ UNCHANGED vars
      PROVE  UNCHANGED <<autoSessionId, waits, result>>
  BY <1>7 DEF SendClose, Tick, vars
<1> QED
  BY <1>1, <1>2, <1>3, <1>4, <1>5, <1>6, <1>7 DEF Next

(* A call returns once, whichever of answer and timeout comes first and     *)
(* whatever comes after it.                                                 *)
THEOREM ReturnsOnceHolds == Spec => ReturnsOnce
<1>1. Init => Returned
  BY DEF Init, Returned
<1>2. RuntimeInv /\ Returned /\ [Next]_vars => Returned' /\ ReturnsStep
  BY ReturnsStepHolds
<1>3. RuntimeInv /\ Returned /\ [Next]_vars
        => [\A s \in Services, n \in Sessions :
              result[s][n] # Nil => result'[s][n] = result[s][n]]_vars
  BY <1>2 DEF ReturnsStep
<1>4. RuntimeInv /\ [Next]_vars => RuntimeInv'
  BY RuntimeStep
<1> QED
  BY RuntimeInit, <1>1, <1>2, <1>3, <1>4, PTL DEF Spec, ReturnsOnce
=============================================================================

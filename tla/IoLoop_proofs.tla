---------------------------- MODULE IoLoop_proofs ----------------------------
(* Theorems about IoLoop, for any timers and sockets.                       *)
EXTENDS IoLoop, TLAPS

USE DEF ioVars, vars

(* Where the operations are: a handler waits for an operation that was      *)
(* started, and the timer that posted is not waited for any more, so that   *)
(* it posts once.                                                           *)
InPlace ==
  /\ ready \subseteq pending /\ pending \subseteq started /\ started \subseteq Ops
  /\ aborted \subseteq Sockets
  /\ posted \subseteq started \ pending

LEMMA InPlaceStep == ASSUME InPlace, [Next]_vars PROVE InPlace'
<1>1. ASSUME NEW o \in Ops, Begin(o) PROVE InPlace'
  BY <1>1 DEF Begin, InPlace
<1>2. ASSUME NEW o \in Ops, Complete(o) PROVE InPlace'
  BY <1>2 DEF Complete, InPlace
<1>3. ASSUME NEW o \in Ops, RunTimer(o) PROVE InPlace'
  BY <1>3 DEF RunTimer, InPlace, Unqueue, Outcome
<1>4. ASSUME NEW o \in Ops, RunSocket(o) PROVE InPlace'
  BY <1>4 DEF RunSocket, InPlace, Unqueue
<1>5. CASE PollBegin \/ PollEnd \/ LuaExit \/ UNCHANGED vars
  BY <1>5 DEF PollBegin, PollEnd, LuaExit, InPlace
<1> QED
  BY <1>1, <1>2, <1>3, <1>4, <1>5 DEF Next, Handler

(* A timer posts at most once, and only after its time is over: nothing     *)
(* that posted is outstanding, whatever the sockets of the loop do.         *)
THEOREM OperationsInPlace == Spec => []InPlace
<1>1. Init => InPlace
  BY DEF Init, InPlace, Ops
<1> QED
  BY <1>1, InPlaceStep, PTL DEF Spec
=============================================================================

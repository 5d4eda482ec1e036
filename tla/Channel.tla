------------------------------ MODULE Channel ------------------------------
(***************************************************************************)
(* What the message path of a service promises, apart from when: each      *)
(* message is accepted at most once, the Lua side sees the accepted        *)
(* messages in the order of acceptance, none twice and none skipped, and   *)
(* what it has seen stays seen.  ServiceQueue is shown to implement this.  *)
(***************************************************************************)
EXTENDS Naturals, Sequences, Functions

CONSTANTS Services, Messages

VARIABLES
  accepted,  (* per service: every message its queue took, oldest first     *)
  seen       (* per service: how many of them its onPoll has been given     *)

Init ==
  /\ accepted = [s \in Services |-> <<>>]
  /\ seen = [s \in Services |-> 0]

Accept(s, m) ==
  /\ \A r \in Services : m \notin Range(accepted[r])
  /\ accepted' = [accepted EXCEPT ![s] = Append(@, m)]
  /\ UNCHANGED seen

(* One onPoll is given everything accepted so far.                          *)
Deliver(s) ==
  /\ seen' = [seen EXCEPT ![s] = Len(accepted[s])]
  /\ UNCHANGED accepted

Next ==
  \E s \in Services : Deliver(s) \/ \E m \in Messages : Accept(s, m)

Spec == Init /\ [][Next]_<<accepted, seen>>
=============================================================================

--------------------------- MODULE MCServiceQueue ---------------------------
(* A small instance of ServiceQueue: two services that post to each other   *)
(* and to themselves.                                                       *)
EXTENDS ServiceQueue, TLC

CONSTANTS a, b, io

OneService  == {a}
TwoServices == {a, b}
OneSender   == {io}
NoSender    == {}
Swap        == Permutations(Services)
LuaOnly     == {"Lua"}
=============================================================================

---------------------------- MODULE MCLuaRuntime ----------------------------
(* A small instance of LuaRuntime: a service that calls itself.             *)
EXTENDS LuaRuntime, TLC

CONSTANT a

OneService == {a}
=============================================================================

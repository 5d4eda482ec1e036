---------------------------- MODULE MCTcpServer ----------------------------
(* Small instances of TcpServer.                                            *)
EXTENDS TcpServer, TLC

CONSTANTS a, b

OneService  == {a}
TwoServices == {a, b}
Swap        == Permutations(Services)

(* One server is in use: servers share nothing but mLock and main, unless   *)
(* their services share one server.                                         *)
OneListens == Cardinality({o \in Services : mAcceptor[o]}) <= 1
=============================================================================

---------------------------- MODULE MCTcpClient ----------------------------
(* A small instance of TcpClient: one client that connects again and again. *)
EXTENDS TcpClient, TLC

CONSTANT a

OneClient == {a}
=============================================================================

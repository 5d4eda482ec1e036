----------------------------- MODULE MCCluster -----------------------------
(* A small instance of Cluster: a call and a send.                          *)
EXTENDS Cluster, TLC

CONSTANTS call, send
=============================================================================

------------------------------ MODULE MCIoLoop ------------------------------
(* A small instance of IoLoop: two timers and two sockets.                  *)
EXTENDS IoLoop

CONSTANTS t1, t2, k1, k2

TwoTimers  == {t1, t2}
TwoSockets == {k1, k2}
=============================================================================

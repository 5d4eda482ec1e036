----------------------------- MODULE MCMsgPath -----------------------------
(* Small instances of MsgPath: up to two services, main, a connection       *)
(* thread, and a pool of one message.                                       *)
EXTENDS MsgPath

CONSTANTS a, b, main, io

OneService  == {a}
TwoServices == {a, b}
MainAndIo   == {main, io}
TimerOnly   == {"Timer", "Close"}
=============================================================================

---------------------------- MODULE MCServiceMgr ----------------------------
(* Small instances of ServiceMgr.  In the safety run the number of services *)
(* is one more than the number of workers, so that it reaches the call that *)
(* finds none; in the liveness run every creation gets its worker.          *)
EXTENDS ServiceMgr

CONSTANTS s1, s2, s3

TwoServices   == {s1, s2}
ThreeServices == {s1, s2, s3}
AnyContext    == Contexts

(* Lua may destroy any service; lualib only ever destroys its own.          *)
AnyDestroy    == Contexts \X Services
OwnDestroy    == {<<s1, s1>>}
=============================================================================

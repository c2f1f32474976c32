---------------------------- MODULE MCLifecycle ----------------------------
(* Lifecycle with one connection more than the limit allows and two         *)
(* trackers.                                                                *)
EXTENDS Lifecycle

MCConn    == {"c1", "c2", "c3"}
MCTracker == {"r1", "r2"}
=============================================================================

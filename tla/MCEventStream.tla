---------------------------- MODULE MCEventStream ----------------------------
(***************************************************************************)
(* Instances of EventStream for TLC.                                       *)
(***************************************************************************)
EXTENDS EventStream, TLC

CONSTANTS c1, c2, u1

SameUser == (c1 :> u1) @@ (c2 :> u1)
OneClient == c1 :> u1

None == {}
Second == {2}
=============================================================================

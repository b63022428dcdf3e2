----------------------------- MODULE MCWorkflows -----------------------------
(* Small instances of Workflows for TLC. *)
EXTENDS Workflows, TLC

CONSTANTS w1, r1, r2, p1, p2

\* every instant, so that one run ends when the next is due
EveryInstant == w1 :> {1, 2, 3}

=============================================================================

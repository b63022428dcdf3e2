---------------------------- MODULE MCSessionStore ----------------------------
(* Small instances of SessionStore for TLC. *)
EXTENDS SessionStore, TLC

CONSTANTS s1, s2, w1, w2, c1, c2

\* both commands go to the same session
OneSession == (c1 :> s1) @@ (c2 :> s1)

\* one command for each session
TwoSessions == (c1 :> s1) @@ (c2 :> s2)

WorkerSymmetry == Permutations({w1, w2})
=============================================================================

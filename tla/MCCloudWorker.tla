---------------------------- MODULE MCCloudWorker ----------------------------
(* Small instances of CloudWorker for TLC. *)
EXTENDS CloudWorker, TLC

CONSTANTS s1, s2, w1, w2, c1, c2, i1, i2

\* all commands go to one session
OneSession == [c \in Commands |-> s1]

\* one command for each session
TwoSessions == (c1 :> s1) @@ (c2 :> s2)

\* one lane in each of two workers
LanePerWorker == (i1 :> w1) @@ (i2 :> w2)

\* every lane in the same worker
OneWorker == [i \in Lanes |-> w1]

\* exchanges lanes, and sessions together with their commands
PairSymmetry ==
  {p \in Permutations({s1, s2, c1, c2, i1, i2}) :
     \A c \in Commands : p[c] \in Commands /\ p[TwoSessions[c]] = TwoSessions[p[c]]}

\* exchanges the workers together with their lanes
WorkerSymmetry ==
  {p \in Permutations({w1, w2, i1, i2}) :
     p[w1] \in Workers /\ \A i \in Lanes : p[i] \in Lanes /\ p[LanePerWorker[i]] = LanePerWorker[p[i]]}
=============================================================================

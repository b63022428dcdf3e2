------------------------------- MODULE WorkQueue -------------------------------
(***************************************************************************)
(* What the command tables promise, said without leases, clocks, deadlines *)
(* or quotas.  Items wait in lines and are served first come, first        *)
(* served.  An item is held by at most one holder; it may go back to its   *)
(* place in the line, or pass to another holder, any number of times, and  *)
(* once it is done it stays as it is.                                      *)
(*                                                                         *)
(* Next lets several items move in one step: a reaper recovers all the     *)
(* items of several lines in one transaction.                              *)
(***************************************************************************)
EXTENDS Naturals

CONSTANTS Items, LineOf, Nobody

VARIABLE entry

Absent == [state |-> "absent", holder |-> Nobody, takes |-> 0, place |-> 0]

Line(i) == {j \in Items : LineOf[j] = LineOf[i] /\ entry[j].state # "absent"}

\* The item keeps its place in the line.
Moved(i, state, h, k) ==
  entry'[i] = [state |-> state, holder |-> h, takes |-> k, place |-> entry[i].place]

\* The item joins its line behind everything that ever stood there.
Submit(i) ==
  /\ entry[i].state = "absent"
  /\ entry'[i].state = "open"
  /\ entry'[i].holder = Nobody
  /\ entry'[i].takes = 0
  /\ \A j \in Line(i) : entry[j].place < entry'[i].place

\* Whoever takes an item has not got it yet, and has got, or finds finished,
\* everything before it in the line.
Take(i) ==
  LET h == entry'[i].holder
  IN  /\ entry[i].state \in {"open", "held"}
      /\ h \notin {Nobody, entry[i].holder}
      /\ \A j \in Line(i) : entry[j].place < entry[i].place =>
           \/ entry[j].state = "done"
           \/ entry[j].state = "held" /\ entry[j].holder = h
      /\ Moved(i, "held", h, entry[i].takes + 1)

GiveBack(i) ==
  /\ entry[i].state = "held"
  /\ Moved(i, "open", Nobody, entry[i].takes)

Finish(i) ==
  /\ entry[i].state = "held"
  /\ Moved(i, "done", entry[i].holder, entry[i].takes)

Step(i) == Submit(i) \/ Take(i) \/ GiveBack(i) \/ Finish(i)

Init == entry = [i \in Items |-> Absent]

Next == \A i \in Items : entry'[i] = entry[i] \/ Step(i)

Spec == Init /\ [][Next]_entry
=============================================================================

-------------------------- MODULE SessionEventsProofs --------------------------
(* Theorems about SessionEvents, for every script of the runtime, every set   *)
(* of asks and writers, every number of processes and every bound.            *)
EXTENDS SessionEvents, FiniteSetTheorems, WellFoundedInduction, TLAPS

-----------------------------------------------------------------------------
(* Induction, and the fold of a log.  The induction theorems of the library  *)
(* take a predicate; this one takes the set of numbers that satisfy it.      *)

LEMMA SetInduction ==
  ASSUME NEW S, 0 \in S, \A n \in Nat : n \in S => n + 1 \in S
  PROVE  Nat \subseteq S
<1> DEFINE T == Nat \ S
           R == OpToRel(<, Nat)
<1> SUFFICES ASSUME T # {} PROVE FALSE
  OBVIOUS
<1>1. IsWellFoundedOn(R, Nat)
  BY NatLessThanWellFounded, Zenon
<1>2. \A x, y \in Nat : x < y => <<x, y>> \in R
  BY DEF OpToRel
<1> HIDE DEF R
<1>3. PICK x \in T : \A y \in T : ~(<<y, x>> \in R)
  BY <1>1, WFMin
<1>4. x # 0 /\ x - 1 \in Nat /\ x - 1 < x /\ x \in Nat
  OBVIOUS
<1>5. x - 1 \in T
  <2>1. (x - 1) + 1 = x
    BY <1>4
  <2> QED
    BY <1>4, <2>1
<1> QED
  BY <1>2, <1>3, <1>4, <1>5

\* f holds the folds of the first 1 .. n events of q
Folds(q, n, f) ==
  /\ DOMAIN f = 1 .. n
  /\ n # 0 => f[1] = q[1]
  /\ \A i \in 1 .. n : i + 1 <= n => f[i + 1] = f[i] \o q[i + 1]

LEMMA FoldsExist ==
  ASSUME NEW S, NEW q \in Seq(Seq(S)), NEW n \in Nat, n <= Len(q)
  PROVE  \E f \in [1 .. n -> Seq(S)] : Folds(q, n, f)
<1> DEFINE G == {m \in Nat : m <= Len(q) => \E f \in [1 .. m -> Seq(S)] : Folds(q, m, f)}
<1>1. 0 \in G
  <2> DEFINE f == [i \in 1 .. 0 |-> <<>>]
  <2>1. f \in [1 .. 0 -> Seq(S)] /\ Folds(q, 0, f)
    BY DEF Folds
  <2> QED
    BY <2>1
<1>2. ASSUME NEW m \in Nat, m \in G PROVE m + 1 \in G
  <2> SUFFICES ASSUME m + 1 <= Len(q)
               PROVE  \E f \in [1 .. m + 1 -> Seq(S)] : Folds(q, m + 1, f)
    OBVIOUS
  <2>1. PICK f \in [1 .. m -> Seq(S)] : Folds(q, m, f)
    BY <1>2
  <2> DEFINE last == IF m = 0 THEN q[1] ELSE f[m] \o q[m + 1]
             h == [i \in 1 .. m + 1 |-> IF i <= m THEN f[i] ELSE last]
  <2>2. q[m + 1] \in Seq(S) /\ q[1] \in Seq(S)
    OBVIOUS
  <2>3. last \in Seq(S)
    <3>1. CASE m = 0
      BY <2>2, <3>1
    <3>2. CASE m # 0
      <4>1. f[m] \in Seq(S)
        BY <3>2
      <4> QED
        BY <2>2, <3>2, <4>1
    <3> QED
      BY <3>1, <3>2
  <2>4. /\ m = 0 => last = q[1]
        /\ m # 0 => last = f[m] \o q[m + 1]
    OBVIOUS
  <2> HIDE DEF last
  <2>5. h \in [1 .. m + 1 -> Seq(S)]
    BY <2>3
  <2>6. /\ DOMAIN h = 1 .. m + 1 /\ h[m + 1] = last
        /\ \A i \in 1 .. m : h[i] = f[i]
    OBVIOUS
  <2> HIDE DEF h
  <2>7. h[1] = q[1]
    BY <2>1, <2>4, <2>6 DEF Folds
  <2>8. ASSUME NEW i \in 1 .. m + 1, i + 1 <= m + 1
        PROVE  h[i + 1] = h[i] \o q[i + 1]
    <3>1. CASE i = m
      <4>1. m # 0 /\ m \in 1 .. m
        BY <2>8, <3>1
      <4>2. h[m] = f[m] /\ h[m + 1] = f[m] \o q[m + 1]
        BY <2>4, <2>6, <4>1, Zenon
      <4> QED
        BY <3>1, <4>2, Zenon
    <3>2. CASE i + 1 <= m
      <4>1. i \in 1 .. m /\ i + 1 \in 1 .. m
        BY <3>2
      <4>2. h[i] = f[i] /\ h[i + 1] = f[i + 1]
        BY <2>6, <4>1
      <4>3. f[i + 1] = f[i] \o q[i + 1]
        BY <2>1, <3>2, <4>1, Zenon DEF Folds
      <4> QED
        BY <4>2, <4>3, Zenon
    <3>3. i = m \/ i + 1 <= m
      BY <2>8
    <3> QED
      BY <3>1, <3>2, <3>3, Zenon
  <2>9. Folds(q, m + 1, h)
    BY <2>6, <2>7, <2>8, Zenon DEF Folds
  <2> QED
    BY <2>5, <2>9
<1> HIDE DEF G
<1>3. n \in G
  BY <1>1, <1>2, SetInduction
<1> QED
  BY <1>3 DEF G

\* f and g hold the folds of q and of r, of which q is a prefix
FoldsOfPrefix(q, m, f, r, n, g) ==
  /\ m \in Nat /\ n \in Nat /\ m <= n
  /\ Folds(q, m, f) /\ Folds(r, n, g)
  /\ \A i \in 1 .. m : q[i] = r[i]

LEMMA FoldsAgree ==
  ASSUME NEW q, NEW r, NEW m, NEW n, NEW f, NEW g, FoldsOfPrefix(q, m, f, r, n, g)
  PROVE  \A i \in 1 .. m : f[i] = g[i]
<1> USE DEF FoldsOfPrefix
<1> DEFINE G == {i \in Nat : i \in 1 .. m => f[i] = g[i]}
<1>1. 0 \in G
  OBVIOUS
<1>2. ASSUME NEW i \in Nat, i \in G PROVE i + 1 \in G
  <2> SUFFICES ASSUME i + 1 \in 1 .. m PROVE f[i + 1] = g[i + 1]
    OBVIOUS
  <2>1. CASE i = 0
    <3>1. i + 1 = 1 /\ m # 0 /\ n # 0 /\ q[1] = r[1]
      BY <2>1
    <3>2. f[1] = g[1]
      BY <3>1, Zenon DEF Folds
    <3> QED
      BY <3>1, <3>2, Zenon
  <2>2. CASE i # 0
    <3>1. /\ i \in 1 .. m /\ i + 1 <= m /\ i \in 1 .. n /\ i + 1 <= n
          /\ q[i + 1] = r[i + 1] /\ f[i] = g[i]
      BY <1>2, <2>2
    <3>2. f[i + 1] = f[i] \o q[i + 1] /\ g[i + 1] = g[i] \o r[i + 1]
      BY <3>1, Zenon DEF Folds
    <3> QED
      BY <3>1, <3>2, Zenon
  <2> QED
    BY <2>1, <2>2
<1> HIDE DEF G
<1>3. Nat \subseteq G
  BY <1>1, <1>2, SetInduction
<1> QED
  BY <1>3 DEF G

SameAt(m, f, g) == f[m] = g[m]

LEMMA FoldsMeet ==
  ASSUME NEW q, NEW r, NEW m, NEW n, NEW f, NEW g,
         FoldsOfPrefix(q, m, f, r, n, g), m # 0
  PROVE  SameAt(m, f, g)
<1>1. m \in 1 .. m
  BY DEF FoldsOfPrefix
<1>2. \A i \in 1 .. m : f[i] = g[i]
  BY FoldsAgree
<1> QED
  BY <1>1, <1>2 DEF SameAt

\* FlattenSeq is the last of the folds.
LEMMA FlattenIsFold ==
  ASSUME NEW S, NEW q \in Seq(Seq(S)), Len(q) # 0
  PROVE  \E f \in [1 .. Len(q) -> Seq(S)] : Folds(q, Len(q), f) /\ FlattenSeq(q) = f[Len(q)]
<1> DEFINE G == CHOOSE g : g = [i \in 1 .. Len(q) |-> IF i = 1 THEN q[i] ELSE g[i-1] \o q[i]]
<1>0. Len(q) \in Nat /\ Len(q) <= Len(q) /\ Len(q) \in 1 .. Len(q)
  OBVIOUS
<1>1. PICK f \in [1 .. Len(q) -> Seq(S)] : Folds(q, Len(q), f)
  BY <1>0, FoldsExist
<1>2. f = [i \in 1 .. Len(q) |-> IF i = 1 THEN q[i] ELSE f[i-1] \o q[i]]
  <2>1. ASSUME NEW i \in 1 .. Len(q)
        PROVE  f[i] = IF i = 1 THEN q[i] ELSE f[i-1] \o q[i]
    <3>1. CASE i = 1
      BY <1>1, <3>1 DEF Folds
    <3>2. CASE i # 1
      <4>1. i - 1 \in 1 .. Len(q) /\ (i - 1) + 1 = i /\ i <= Len(q)
        BY <3>2
      <4>2. f[(i - 1) + 1] = f[i - 1] \o q[(i - 1) + 1]
        BY <1>1, <4>1, Zenon DEF Folds
      <4> QED
        BY <3>2, <4>1, <4>2, Zenon
    <3> QED
      BY <3>1, <3>2
  <2> QED
    BY <2>1, Zenon
<1>3. G = [i \in 1 .. Len(q) |-> IF i = 1 THEN q[i] ELSE G[i-1] \o q[i]]
  BY <1>2, Zenon
<1>4. FlattenSeq(q) = G[Len(q)]
  BY DEF FlattenSeq
<1> HIDE DEF G
<1>5. Folds(q, Len(q), G)
  <2>1. DOMAIN G = 1 .. Len(q)
    BY <1>3, Zenon
  <2>2. ASSUME NEW i \in 1 .. Len(q)
        PROVE  G[i] = IF i = 1 THEN q[i] ELSE G[i-1] \o q[i]
    BY <1>3, Zenon
  <2>3. Len(q) # 0 => G[1] = q[1]
    <3>1. 1 \in 1 .. Len(q)
      BY <1>0
    <3> QED
      BY <2>2, <3>1, Zenon
  <2>4. ASSUME NEW i \in 1 .. Len(q), i + 1 <= Len(q)
        PROVE  G[i + 1] = G[i] \o q[i + 1]
    <3>1. i + 1 \in 1 .. Len(q) /\ i + 1 # 1 /\ (i + 1) - 1 = i
      BY <2>4
    <3>2. G[i + 1] = G[(i + 1) - 1] \o q[i + 1]
      BY <2>2, <3>1, Zenon
    <3> QED
      BY <3>1, <3>2, Zenon
  <2> QED
    BY <2>1, <2>3, <2>4, Zenon DEF Folds
<1>6. G[Len(q)] = f[Len(q)]
  <2>1. FoldsOfPrefix(q, Len(q), G, q, Len(q), f)
    BY <1>0, <1>1, <1>5, Zenon DEF FoldsOfPrefix
  <2>2. SameAt(Len(q), G, f)
    BY <2>1, FoldsMeet, SMT
  <2> QED
    BY <2>2, Zenon DEF SameAt
<1>7. FlattenSeq(q) = f[Len(q)]
  BY <1>4, <1>6, Zenon
<1> QED
  BY <1>1, <1>7, Zenon

\* An event is folded in at the end.
LEMMA FlattenAppend ==
  ASSUME NEW S, NEW q \in Seq(Seq(S)), NEW e \in Seq(S)
  PROVE  /\ FlattenSeq(q) \in Seq(S)
         /\ FlattenSeq(Append(q, e)) = FlattenSeq(q) \o e
<1> DEFINE r == Append(q, e)
           n == Len(q)
<1>1. /\ r \in Seq(Seq(S)) /\ Len(r) = n + 1 /\ n \in Nat /\ Len(r) \in Nat /\ Len(r) # 0
      /\ n <= Len(r) /\ r[n + 1] = e /\ \A i \in 1 .. n : q[i] = r[i]
  OBVIOUS
<1>2. PICK g \in [1 .. Len(r) -> Seq(S)] : Folds(r, Len(r), g) /\ FlattenSeq(r) = g[Len(r)]
  BY <1>1, FlattenIsFold
<1>3. CASE n = 0
  <2>1. q = <<>> /\ FlattenSeq(q) = <<>>
    BY <1>3 DEF FlattenSeq
  <2>2. FlattenSeq(r) = e
    <3> HIDE DEF r
    <3>1. Len(r) = 1 /\ r[1] = e
      BY <1>1, <1>3
    <3> QED
      BY <1>1, <1>2, <3>1, Zenon DEF Folds
  <2>3. <<>> \in Seq(S) /\ <<>> \o e = e
    OBVIOUS
  <2> QED
    BY <2>1, <2>2, <2>3, Zenon
<1>4. CASE n # 0
  <2>0. n \in 1 .. n /\ n \in 1 .. Len(r) /\ n + 1 <= Len(r)
    <3> HIDE DEF r, n
    <3> QED
      BY <1>1, <1>4
  <2>1. PICK f \in [1 .. n -> Seq(S)] : Folds(q, n, f) /\ FlattenSeq(q) = f[n]
    BY <1>4, FlattenIsFold
  <2>2. f[n] = g[n]
    <3> HIDE DEF r, n
    <3>1. FoldsOfPrefix(q, n, f, r, Len(r), g)
      BY <1>1, <1>2, <2>1, Zenon DEF FoldsOfPrefix
    <3>2. SameAt(n, f, g)
      BY <1>4, <3>1, FoldsMeet, SMT
    <3> QED
      BY <3>2, Zenon DEF SameAt
  <2>3. FlattenSeq(r) = g[n] \o e
    <3> HIDE DEF r, n
    <3>1. g[n + 1] = g[n] \o r[n + 1]
      BY <1>2, <2>0, Zenon DEF Folds
    <3> QED
      BY <1>1, <1>2, <3>1, Zenon
  <2>4. f[n] \in Seq(S)
    BY <2>0
  <2> QED
    BY <2>1, <2>2, <2>3, <2>4, Zenon
<1> QED
  BY <1>3, <1>4

-----------------------------------------------------------------------------
(* The shapes of the variables *)

Line == {Timer} \cup FromRuntime \cup Asks

Views == [seq : Nat, view : Seq(Atoms)]

ActRows ==
  [pc : {"none", "commit", "cache", "summary", "done"},
   entry : Seq(Atoms), view : Seq(Atoms), seq : Nat]

FeedShapes ==
  /\ running \in BOOLEAN /\ cursor \in Nat /\ stream \in Nat
  /\ ingest \in [event : Nat, by : {"none", "stream", "history"}]
  /\ monitor \in {"watch", "history", "idle", "settled"}
  /\ asked \subseteq Asks

LineShapes == ops \in Seq(Line) /\ pending \in Seq(Events) /\ armed \in BOOLEAN

\* a writer appends its own event
ActShapes(t) ==
  /\ t \in [Appenders -> ActRows]
  /\ \A w \in Writers : t[w].pc \notin {"none", "done"} => t[w].entry = <<w>>

StoreShapes ==
  /\ log \in Seq(Seq(Atoms)) /\ projection \in Views
  /\ overtaken \in BOOLEAN /\ written \in Nat

RepairRows == [pc : {"none", "write", "summary"}, view : Seq(Atoms), seq : Nat]

\* the coalescer awaits a route for the operation at its head
Busy == act[Runtime].pc # "none" => ops # <<>>

Shapes ==
  /\ FeedShapes /\ LineShapes /\ ActShapes(act) /\ StoreShapes /\ Busy
  /\ cache \in [Procs -> Views] /\ repair \in RepairRows

LEMMA ConstantTypes ==
  /\ Len(Script) \in Nat /\ IdleEvent \in Nat /\ Events \subseteq Nat /\ Timer \in Nat
  /\ \A x \in Events : x >= 1 /\ x <= Len(Script)
  /\ \A x \in Asks \cup Writers : x \in Nat /\ x > IdleEvent
  /\ Runtime \in Appenders /\ Writers \subseteq Appenders
  /\ \A a \in Appenders : ProcOf[a] \in Procs
  /\ FromRuntime \subseteq Atoms /\ Asks \subseteq Atoms /\ Writers \subseteq Atoms
  /\ Events \subseteq Atoms /\ Line \subseteq Nat /\ Atoms \subseteq Nat
BY EventConstants DEF Events, IdleEvent, Timer, Appenders, Procs, FromRuntime, Atoms, Line

LEMMA RowTypes ==
  /\ NoAct \in ActRows /\ Done \in ActRows
  /\ NoAct.pc = "none" /\ NoAct.entry = <<>> /\ NoAct.seq = 0 /\ NoAct.view = <<>>
  /\ Done.pc = "done" /\ Done.seq = 0 /\ Done.view = <<>>
  /\ \A e \in Seq(Atoms) :
       /\ Starting(e) \in ActRows /\ Starting(e).pc = "commit" /\ Starting(e).entry = e
       /\ Starting(e).seq = 0 /\ Starting(e).view = <<>>
<1>1. NoAct = [pc |-> "none", entry |-> <<>>, view |-> <<>>, seq |-> 0]
  BY DEF NoAct
<1>2. Done = [pc |-> "done", entry |-> <<>>, view |-> <<>>, seq |-> 0]
  BY DEF NoAct, Done
<1>3. <<>> \in Seq(Atoms)
  OBVIOUS
<1>5. NoAct \in ActRows /\ NoAct.pc = "none" /\ NoAct.entry = <<>> /\ NoAct.seq = 0 /\ NoAct.view = <<>>
  BY <1>1, <1>3 DEF ActRows
<1>6. Done \in ActRows /\ Done.pc = "done" /\ Done.seq = 0 /\ Done.view = <<>>
  BY <1>2, <1>3 DEF ActRows
<1>7. ASSUME NEW e \in Seq(Atoms)
      PROVE  /\ Starting(e) \in ActRows /\ Starting(e).pc = "commit" /\ Starting(e).entry = e
             /\ Starting(e).seq = 0 /\ Starting(e).view = <<>>
  BY <1>5 DEF ActRows, Starting
<1> QED
  BY <1>5, <1>6, <1>7

LEMMA RowUpdates ==
  ASSUME NEW r \in ActRows
  PROVE  /\ \A c \in {"commit", "summary"} :
              LET q == [r EXCEPT !.pc = c] IN
              /\ q \in ActRows /\ q.pc = c /\ q.entry = r.entry
              /\ q.seq = r.seq /\ q.view = r.view
         /\ \A n \in Nat, v \in Seq(Atoms) :
              LET q == [r EXCEPT !.pc = "cache", !.seq = n, !.view = v] IN
              /\ q \in ActRows /\ q.pc = "cache" /\ q.entry = r.entry
              /\ q.seq = n /\ q.view = v
BY DEF ActRows

LEMMA ShapesInit == Init => Shapes
<1> SUFFICES ASSUME Init PROVE Shapes
  OBVIOUS
<1>1. act \in [Appenders -> ActRows]
  BY RowTypes DEF Init
<1>2. \A w \in Writers : act[w].pc \in {"none", "done"}
  BY RowTypes, ConstantTypes DEF Init
<1>3. /\ <<>> \in Seq(Line) /\ <<>> \in Seq(Events) /\ <<>> \in Seq(Seq(Atoms)) /\ <<>> \in Seq(Atoms)
      /\ asked \subseteq Asks
  BY DEF Init
<1>4. projection \in Views /\ cache \in [Procs -> Views]
  BY <1>3 DEF Init, Views
<1>5. repair \in RepairRows
  BY <1>3 DEF Init, NoRepair, RepairRows
<1>6. FeedShapes
  BY <1>3 DEF Init, NoIngest, FeedShapes
<1>7. LineShapes
  BY <1>3 DEF Init, LineShapes
<1>8. StoreShapes
  BY <1>3, <1>4 DEF Init, StoreShapes
<1>9. Busy
  BY RowTypes, ConstantTypes, EventConstants DEF Init, Busy
<1> QED
  BY <1>1, <1>2, <1>4, <1>5, <1>6, <1>7, <1>8, <1>9, Zenon DEF Shapes, ActShapes


LEMMA ActUpdates ==
  ASSUME NEW t, ActShapes(t), NEW a \in Appenders, NEW r \in ActRows,
         a \in Writers => (r.pc \notin {"none", "done"} => r.entry = <<a>>)
  PROVE  /\ ActShapes([t EXCEPT ![a] = r])
         /\ [t EXCEPT ![a] = r][a] = r
         /\ \A b \in Appenders : b # a => [t EXCEPT ![a] = r][b] = t[b]
BY ConstantTypes DEF ActShapes

\* the listener's promise settles
LEMMA SettleShapes ==
  ASSUME FeedShapes, NEW op \in Line, Resolved(op) \/ Rejected(op)
  PROVE  FeedShapes'
<1>1. NoIngest \in [event : Nat, by : {"none", "stream", "history"}]
  BY DEF NoIngest
<1>2. op \in Nat
  BY ConstantTypes
<1>3. CASE Resolved(op)
  BY <1>1, <1>2, <1>3 DEF FeedShapes, Resolved
<1>4. CASE Rejected(op)
  BY <1>1, <1>2, <1>4 DEF FeedShapes, Rejected
<1> QED
  BY <1>3, <1>4

LEMMA UpsertShapes ==
  ASSUME StoreShapes, NEW seq \in Nat, NEW view, Upsert(seq, view)
  PROVE  StoreShapes'
BY DEF StoreShapes, Upsert, Views

\* An operation at the head of the line, and what is left of the line.
LEMMA OpTyped ==
  ASSUME LineShapes, ops # <<>>
  PROVE  /\ Op \in Line /\ Tail(ops) \in Seq(Line)
         /\ Op # Timer => Op \in Atoms /\ <<Op>> \in Seq(Atoms)
         /\ IsDelta(Op) => Op \in Events
<1>1. Op \in Line /\ Tail(ops) \in Seq(Line)
  BY DEF LineShapes, Op
<1>2. Op # Timer => Op \in Atoms
  BY <1>1, ConstantTypes DEF Line
<1> QED
  BY <1>1, <1>2 DEF IsDelta
\* What an append does to the store and to its own row.
LEMMA CommitShapes ==
  ASSUME Shapes, NEW a \in Appenders, Commit(a)
  PROVE  ActShapes(act') /\ StoreShapes'
<1>0. ActShapes(act) /\ StoreShapes /\ act[a] \in ActRows /\ act[a].entry \in Seq(Atoms)
  BY DEF Shapes, ActShapes, ActRows
<1>1. CurrentView(ProcOf[a]) \in Seq(Atoms)
  BY ConstantTypes DEF Shapes, StoreShapes, CurrentView, Views
<1>2. StoreShapes'
  <2>1. CurrentView(ProcOf[a]) \o act[a].entry \in Seq(Atoms)
    BY <1>0, <1>1
  <2>2. CASE Known(act[a].entry)
    BY <1>0, <2>2 DEF Commit, StoreShapes
  <2>3. CASE ~Known(act[a].entry)
    <3>1. /\ log' = Append(log, act[a].entry)
          /\ projection' = [seq |-> Len(log) + 1, view |-> CurrentView(ProcOf[a]) \o act[a].entry]
          /\ overtaken' = overtaken /\ written' = written
      BY <2>3 DEF Commit
    <3> QED
      BY <1>0, <2>1, <3>1 DEF StoreShapes, Views
  <2> QED
    BY <2>2, <2>3
<1>3. projection'.seq \in Nat /\ projection'.view \in Seq(Atoms)
  BY <1>2 DEF StoreShapes, Views
<1> DEFINE r == [act[a] EXCEPT !.pc = "cache", !.seq = projection'.seq, !.view = projection'.view]
<1>4. act' = [act EXCEPT ![a] = r]
  BY DEF Commit
<1>5. r \in ActRows /\ r.entry = act[a].entry
  BY <1>0, <1>3 DEF ActRows
<1>6. a \in Writers => r.entry = <<a>>
  BY <1>0, <1>5 DEF Commit, ActShapes
<1> HIDE DEF r
<1>7. ActShapes([act EXCEPT ![a] = r])
  BY <1>0, <1>5, <1>6, ActUpdates
<1> QED
  BY <1>2, <1>4, <1>7

LEMMA ShapesAsk ==
  ASSUME Shapes, NEW q \in Asks, AskHeard(q) \/ AskMissed(q)
  PROVE  Shapes'
<1> USE DEF Shapes, coalescer, store
<1>1. q \in Line
  BY DEF Line
<1>2. CASE AskHeard(q)
  BY <1>1, <1>2, SMTT(30) DEF AskHeard, FeedShapes, LineShapes, StoreShapes, Busy
<1>3. CASE AskMissed(q)
  BY <1>3 DEF AskMissed, FeedShapes, LineShapes, StoreShapes, Busy
<1> QED
  BY <1>2, <1>3

LEMMA ShapesFeed ==
  ASSUME Shapes, RuntimeEnds \/ Subscribes \/ Disconnect \/ Monitors
  PROVE  Shapes'
<1> USE DEF Shapes, coalescer, store
<1>0. (\E x \in Line : ops' = Append(ops, x)) \/ ops' = ops => (ops # <<>> => ops' # <<>>)
  BY DEF LineShapes
<1>1. IdleEvent \in Line /\ \A i \in Nat : i > cursor /\ i <= Len(Script) => i \in Line
  BY ConstantTypes DEF Line, FromRuntime, Events, FeedShapes
<1>2. CASE RuntimeEnds
  BY <1>2 DEF RuntimeEnds, FeedShapes, LineShapes, StoreShapes, Busy
<1>5. CASE Connect
  BY <1>5 DEF Connect, FeedShapes, LineShapes, StoreShapes, Busy
<1>6. CASE SkipKnown
  BY <1>6 DEF SkipKnown, FeedShapes, LineShapes, StoreShapes, Busy
<1>7. ASSUME NEW i \in Nat, NEW by \in {"stream", "history"}, Ingest(i, by)
      PROVE  Shapes'
  <2>1. i \in Line
    BY <1>1, <1>7 DEF Ingest
  <2>2. LineShapes'
    BY <1>7, <2>1 DEF Ingest, LineShapes
  <2>3. FeedShapes'
    BY <1>7 DEF Ingest, FeedShapes
  <2> QED
    BY <1>0, <1>7, <2>1, <2>2, <2>3 DEF Ingest, StoreShapes, Busy
<1>8. CASE StreamDelivers
  BY <1>7, <1>8 DEF StreamDelivers, FeedShapes
<1>9. CASE HistoryDelivers
  <2>1. cursor + 1 \in Nat
    BY DEF FeedShapes
  <2> QED
    BY <1>7, <1>9, <2>1 DEF HistoryDelivers
<1>10. CASE WatchIdle
  BY <1>10 DEF WatchIdle, FeedShapes, LineShapes, StoreShapes, Busy
<1>11. CASE DeliverIdle
  BY <1>0, <1>1, <1>11 DEF DeliverIdle, FeedShapes, LineShapes, StoreShapes, Busy
<1>12. CASE Disconnect
  BY <1>12 DEF Disconnect, FeedShapes, LineShapes, StoreShapes, Busy
<1> QED
  BY <1>2, <1>5, <1>6, <1>8, <1>9, <1>10, <1>11, <1>12 DEF Subscribes, Monitors

LEMMA ShapesCoalesce ==
  ASSUME Shapes, Coalesces \/ TimerFires
  PROVE  Shapes'
<1> USE DEF Shapes, subscription, coalescer, store
<1>0. Runtime \in Appenders /\ Runtime \notin Writers /\ act[Runtime] \in ActRows /\ Events \subseteq Atoms
  BY ConstantTypes, EventConstants DEF ActShapes
<1>1. CASE Buffer
  <2>1. ops # <<>> /\ IsDelta(Op) /\ Resolved(Op)
    BY <1>1 DEF Buffer, Turn, Joins
  <2>2. Op \in Line /\ Tail(ops) \in Seq(Line) /\ Op \in Events
    BY <2>1, OpTyped
  <2>3. FeedShapes'
    BY <2>1, <2>2, SettleShapes
  <2>4. LineShapes'
    BY <1>1, <2>2 DEF Buffer, LineShapes
  <2>5. Busy'
    BY <1>1 DEF Buffer, Turn, Busy
  <2> QED
    BY <1>1, <2>3, <2>4, <2>5 DEF Buffer, StoreShapes
<1>2. CASE FlushSession
  <2>1. Starting(pending) \in ActRows
    BY <1>0, RowTypes DEF LineShapes
  <2>2. ActShapes([act EXCEPT ![Runtime] = Starting(pending)])
    BY <1>0, <2>1, ActUpdates
  <2>3. LineShapes'
    <3>1. armed' \in BOOLEAN
      BY <1>2, Zenon DEF FlushSession
    <3>2. ops' = ops /\ pending' = <<>>
      BY <1>2 DEF FlushSession
    <3> QED
      BY <3>1, <3>2 DEF LineShapes
  <2>4. Busy'
    BY <1>2 DEF FlushSession, Turn, Busy
  <2> QED
    BY <1>2, <2>2, <2>3, <2>4 DEF FlushSession, FeedShapes, StoreShapes
<1>3. CASE RouteBoundary
  <2>1. <<Op>> \in Seq(Atoms)
    BY <1>3, OpTyped DEF RouteBoundary, Turn
  <2>2. Starting(<<Op>>) \in ActRows
    BY <2>1, RowTypes
  <2>3. ActShapes([act EXCEPT ![Runtime] = Starting(<<Op>>)])
    BY <1>0, <2>2, ActUpdates
  <2>4. Busy'
    BY <1>3 DEF RouteBoundary, Turn, Busy
  <2> QED
    BY <1>3, <2>3, <2>4 DEF RouteBoundary, FeedShapes, LineShapes, StoreShapes
<1>4. CASE TimerEnds
  <2>1. LineShapes'
    BY <1>4, OpTyped DEF TimerEnds, Turn, LineShapes
  <2>2. Busy'
    BY <1>4 DEF TimerEnds, Turn, Busy
  <2> QED
    BY <1>4, <2>1, <2>2 DEF TimerEnds, FeedShapes, StoreShapes
<1>5. CASE TimerFires
  <2>1. LineShapes'
    <3>1. armed' \in BOOLEAN
      BY <1>5, Zenon DEF TimerFires
    <3>2. ops' = Append(ops, Timer) /\ pending' = pending /\ Timer \in Line
      BY <1>5 DEF TimerFires, Line
    <3> QED
      BY <3>1, <3>2 DEF LineShapes
  <2>2. Busy'
    BY <1>5 DEF TimerFires, Busy, LineShapes
  <2> QED
    BY <1>5, <2>1, <2>2 DEF TimerFires, FeedShapes, StoreShapes
<1> QED
  BY <1>1, <1>2, <1>3, <1>4, <1>5 DEF Coalesces
LEMMA ShapesAppend ==
  ASSUME Shapes, NEW a \in Appenders,
         Appends(a) \/ RouteReturns \/ RouteSwallows \/ RouteErrors \/ RouteGivesUp
  PROVE  Shapes'
<1> USE DEF Shapes, subscription, coalescer, store
<1>0. /\ Runtime \in Appenders /\ Runtime \notin Writers
      /\ \A b \in Appenders : act[b] \in ActRows /\ act[b].seq \in Nat
  BY ConstantTypes, EventConstants DEF ActShapes, ActRows
<1>1. NoAct \in ActRows /\ Done \in ActRows /\ NoAct.pc = "none" /\ Done.pc = "done"
  BY RowTypes
<1>2. CASE Commit(a)
  <2>1. act'[Runtime].pc # "none" => act[Runtime].pc # "none"
    BY <1>0, <1>2 DEF Commit, ActShapes
  <2> QED
    BY <1>2, <2>1, CommitShapes DEF Commit, FeedShapes, LineShapes, Busy
<1>3. CASE CacheView(a)
  <2> DEFINE r == [act[a] EXCEPT !.pc = "summary"]
  <2>1. r \in ActRows /\ r.entry = act[a].entry
    BY <1>0 DEF ActRows
  <2>2. act' = [act EXCEPT ![a] = r]
    BY <1>3 DEF CacheView
  <2>3. a \in Writers => r.entry = <<a>>
    BY <1>3, <2>1 DEF CacheView, ActShapes
  <2> HIDE DEF r
  <2>4. ActShapes(act')
    BY <2>1, <2>2, <2>3, ActUpdates
  <2>5. cache' \in [Procs -> Views]
    <3>1. [seq |-> act[a].seq, view |-> act[a].view] \in Views
      BY <1>0 DEF ActRows, Views
    <3> QED
      BY <1>3, <3>1 DEF CacheView
  <2>6. Busy'
    BY <1>0, <1>3, <2>2 DEF Busy, CacheView, ActShapes
  <2> QED
    BY <1>3, <2>4, <2>5, <2>6 DEF CacheView, FeedShapes, LineShapes, StoreShapes
<1>4. CASE RouteReturns
  <2>1. ActShapes([act EXCEPT ![Runtime] = NoAct]) /\ [act EXCEPT ![Runtime] = NoAct][Runtime] = NoAct
    BY <1>0, <1>1, ActUpdates
  <2>2. StoreShapes'
    BY <1>0, <1>4, UpsertShapes DEF RouteReturns
  <2>3. Op \in Line /\ Tail(ops) \in Seq(Line)
    BY <1>4, OpTyped DEF RouteReturns, Busy
  <2>4. FeedShapes' /\ LineShapes'
    <3>1. CASE act[Runtime].entry = <<Op>>
      <4>1. ops' = Tail(ops) /\ Resolved(Op) /\ pending' = pending /\ armed' = armed
        BY <1>4, <3>1 DEF RouteReturns
      <4> QED
        BY <2>3, <4>1, SettleShapes DEF LineShapes
    <3>2. CASE act[Runtime].entry # <<Op>>
      BY <1>4, <3>2 DEF RouteReturns, FeedShapes, LineShapes
    <3> QED
      BY <3>1, <3>2
  <2>5. Busy'
    BY <1>1, <1>4, <2>1 DEF RouteReturns, Busy
  <2> QED
    BY <1>4, <2>1, <2>2, <2>4, <2>5 DEF RouteReturns
<1>5. CASE RouteErrors
  <2> DEFINE r == [act[Runtime] EXCEPT !.pc = "commit"]
  <2>1. r \in ActRows
    BY <1>0 DEF ActRows
  <2>2. act' = [act EXCEPT ![Runtime] = r]
    BY <1>5 DEF RouteErrors
  <2> HIDE DEF r
  <2>3. ActShapes(act')
    BY <1>0, <2>1, <2>2, ActUpdates
  <2>4. Busy'
    BY <1>5 DEF RouteErrors, Busy
  <2> QED
    BY <1>5, <2>3, <2>4 DEF RouteErrors, FeedShapes, LineShapes, StoreShapes
<1>6. CASE RouteGivesUp
  <2>1. ActShapes([act EXCEPT ![Runtime] = NoAct]) /\ [act EXCEPT ![Runtime] = NoAct][Runtime] = NoAct
    BY <1>0, <1>1, ActUpdates
  <2>2. Op \in Line /\ Tail(ops) \in Seq(Line)
    BY <1>6, OpTyped DEF RouteGivesUp, Busy
  <2>3. FeedShapes'
    BY <1>6, <2>2, SettleShapes DEF RouteGivesUp
  <2>4. StoreShapes'
    <3>1. overtaken' \in BOOLEAN
      BY <1>6, Zenon DEF RouteGivesUp, StoreShapes
    <3> QED
      BY <1>6, <3>1 DEF RouteGivesUp, StoreShapes
  <2>5. LineShapes' /\ Busy'
    BY <1>1, <1>6, <2>1, <2>2 DEF RouteGivesUp, LineShapes, Busy
  <2> QED
    BY <1>6, <2>1, <2>3, <2>4, <2>5 DEF RouteGivesUp
<1>7. CASE RouteSwallows
  <2>1. ActShapes([act EXCEPT ![Runtime] = NoAct]) /\ [act EXCEPT ![Runtime] = NoAct][Runtime] = NoAct
    BY <1>0, <1>1, ActUpdates
  <2>2. StoreShapes'
    <3>1. overtaken' \in BOOLEAN
      BY <1>7, Zenon DEF RouteSwallows, StoreShapes
    <3> QED
      BY <1>7, <3>1 DEF RouteSwallows, StoreShapes
  <2>3. Op \in Line /\ Tail(ops) \in Seq(Line)
    BY <1>7, OpTyped DEF RouteSwallows, Busy
  <2>4. FeedShapes' /\ LineShapes'
    <3>1. CASE act[Runtime].entry = <<Op>>
      <4>1. ops' = Tail(ops) /\ Resolved(Op) /\ pending' = pending /\ armed' = armed
        BY <1>7, <3>1 DEF RouteSwallows
      <4> QED
        BY <2>3, <4>1, SettleShapes DEF LineShapes
    <3>2. CASE act[Runtime].entry # <<Op>>
      BY <1>7, <3>2 DEF RouteSwallows, FeedShapes, LineShapes
    <3> QED
      BY <3>1, <3>2
  <2>5. Busy'
    BY <1>1, <1>7, <2>1 DEF RouteSwallows, Busy
  <2> QED
    BY <1>7, <2>1, <2>2, <2>4, <2>5 DEF RouteSwallows
<1> QED
  BY <1>2, <1>3, <1>4, <1>5, <1>6, <1>7 DEF Appends

LEMMA ShapesWriter ==
  ASSUME Shapes, NEW w \in Writers, WriterStarts(w) \/ WriterReturns(w) \/ WriterFails(w)
  PROVE  Shapes'
<1> USE DEF Shapes, subscription, coalescer, store
<1>0. /\ Runtime \in Appenders /\ Runtime \notin Writers /\ w \in Appenders /\ <<w>> \in Seq(Atoms)
      /\ \A b \in Appenders : act[b] \in ActRows /\ act[b].seq \in Nat
  BY ConstantTypes, EventConstants DEF ActShapes, ActRows
<1>1. NoAct \in ActRows /\ Done \in ActRows /\ NoAct.pc = "none" /\ Done.pc = "done"
  BY RowTypes
<1>7. ASSUME NEW r \in ActRows, act' = [act EXCEPT ![w] = r],
             r.pc \notin {"none", "done"} => r.entry = <<w>>, ops' = ops
      PROVE  ActShapes(act') /\ Busy'
  <2>0. Runtime # w
    BY <1>0
  <2>1. /\ ActShapes([act EXCEPT ![w] = r])
        /\ \A b \in Appenders : b # w => [act EXCEPT ![w] = r][b] = act[b]
    <3>1. ActShapes(act) /\ w \in Appenders /\ (r.pc \notin {"none", "done"} => r.entry = <<w>>)
      BY <1>0, <1>7
    <3> HIDE DEF Shapes
    <3> QED
      BY <3>1, ActUpdates
  <2>2. ActShapes(act') /\ act'[Runtime] = act[Runtime]
    BY <1>0, <1>7, <2>0, <2>1, Zenon
  <2> QED
    BY <1>7, <2>2 DEF Busy
<1>8. CASE WriterStarts(w)
  <2>1. Starting(<<w>>) \in ActRows /\ Starting(<<w>>).entry = <<w>>
    BY <1>0, RowTypes
  <2>2. ActShapes(act') /\ Busy'
    BY <1>7, <1>8, <2>1 DEF WriterStarts
  <2> QED
    BY <1>8, <2>2 DEF WriterStarts, FeedShapes, LineShapes, StoreShapes
<1>9. CASE WriterReturns(w)
  <2>1. ActShapes(act') /\ Busy'
    BY <1>1, <1>7, <1>9 DEF WriterReturns
  <2>2. StoreShapes'
    BY <1>0, <1>9, UpsertShapes DEF WriterReturns
  <2> QED
    BY <1>9, <2>1, <2>2 DEF WriterReturns, FeedShapes, LineShapes
<1>10. CASE WriterFails(w)
  <2>1. ActShapes(act') /\ Busy'
    BY <1>1, <1>7, <1>10 DEF WriterFails
  <2>2. StoreShapes'
    <3>1. overtaken' \in BOOLEAN
      BY <1>10, Zenon DEF WriterFails, StoreShapes
    <3> QED
      BY <1>10, <3>1 DEF WriterFails, StoreShapes
  <2> QED
    BY <1>10, <2>1, <2>2 DEF WriterFails, FeedShapes, LineShapes
<1> QED
  BY <1>8, <1>9, <1>10

LEMMA ShapesRepair ==
  ASSUME Shapes, RepairReads \/ Repairs
  PROVE  Shapes'
<1> USE DEF Shapes, subscription, coalescer, store
<1>0. NoRepair \in RepairRows
  <2>1. <<>> \in Seq(Atoms)
    OBVIOUS
  <2> QED
    BY <2>1 DEF NoRepair, RepairRows
<1>1. CASE RepairReads
  <2>1. FlattenSeq(log) \in Seq(Atoms) /\ Len(log) \in Nat
    <3>1. log \in Seq(Seq(Atoms)) /\ <<>> \in Seq(Atoms)
      BY DEF StoreShapes
    <3> QED
      BY <3>1, FlattenAppend
  <2>2. repair' \in RepairRows
    BY <1>1, <2>1 DEF RepairReads, RepairRows
  <2> QED
    BY <1>1, <2>2 DEF RepairReads, FeedShapes, LineShapes, StoreShapes, Busy
<1>2. CASE RepairWrites
  <2>1. repair' \in RepairRows
    BY <1>2 DEF RepairWrites, RepairRows
  <2>2. [seq |-> repair.seq, view |-> repair.view] \in Views
    BY DEF RepairRows, Views
  <2> QED
    BY <1>2, <2>1, <2>2 DEF RepairWrites, FeedShapes, LineShapes, StoreShapes, Busy
<1>3. CASE RepairRefused
  BY <1>0, <1>3 DEF RepairRefused, FeedShapes, LineShapes, StoreShapes, Busy
<1>4. CASE RepairReturns
  <2>1. repair.seq \in Nat
    BY DEF RepairRows
  <2>2. StoreShapes'
    BY <1>4, <2>1, UpsertShapes DEF RepairReturns
  <2> QED
    BY <1>0, <1>4, <2>2 DEF RepairReturns, FeedShapes, LineShapes, Busy
<1> QED
  BY <1>1, <1>2, <1>3, <1>4 DEF Repairs

\* The variables keep their shapes through every step.
THEOREM ShapesHold == Spec => []Shapes
<1>1. ASSUME Shapes, [Next]_vars PROVE Shapes'
  <2>1. CASE UNCHANGED vars
    BY <1>1, <2>1 DEF vars, subscription, coalescer, store, Shapes, FeedShapes,
                      LineShapes, StoreShapes, Busy
  <2>2. CASE \E q \in Asks : AskHeard(q) \/ AskMissed(q)
    BY <1>1, <2>2, ShapesAsk
  <2>3. CASE RuntimeEnds \/ Subscribes \/ Disconnect \/ Monitors
    BY <1>1, <2>3, ShapesFeed
  <2>4. CASE Coalesces \/ TimerFires
    BY <1>1, <2>4, ShapesCoalesce
  <2>5. CASE \E a \in Appenders : Appends(a)
    BY <1>1, <2>5, ShapesAppend
  <2>6. CASE RouteReturns \/ RouteSwallows \/ RouteErrors \/ RouteGivesUp
    BY <1>1, <2>6, ShapesAppend, ConstantTypes
  <2>7. CASE \E w \in Writers : WriterStarts(w) \/ WriterReturns(w) \/ WriterFails(w)
    BY <1>1, <2>7, ShapesWriter
  <2>8. CASE RepairReads \/ Repairs
    BY <1>1, <2>8, ShapesRepair
  <2> QED
    BY <1>1, <2>1, <2>2, <2>3, <2>4, <2>5, <2>6, <2>7, <2>8 DEF Next
<1> QED
  BY <1>1, ShapesInit, PTL DEF Spec
-----------------------------------------------------------------------------
(* Views are folds of prefixes of the log *)

\* r holds the fold of the first r.seq events of q
Snapshot(q, r) == r.seq \in 0 .. Len(q) /\ r.view = FlattenSeq(SubSeq(q, 1, r.seq))

FoldInv ==
  /\ projection.seq = Len(log) /\ projection.view = FlattenSeq(log)
  /\ \A p \in Procs : Snapshot(log, cache[p])
  /\ \A a \in Appenders : Snapshot(log, act[a])
  /\ Snapshot(log, repair)

LEMMA SnapshotFacts ==
  ASSUME NEW q \in Seq(Seq(Atoms))
  PROVE  /\ FlattenSeq(q) \in Seq(Atoms) /\ FlattenSeq(<<>>) = <<>>
         /\ SubSeq(q, 1, Len(q)) = q /\ SubSeq(q, 1, 0) = <<>>
         /\ \A e \in Seq(Atoms) :
              /\ FlattenSeq(Append(q, e)) = FlattenSeq(q) \o e
              /\ \A n \in 0 .. Len(q) : SubSeq(Append(q, e), 1, n) = SubSeq(q, 1, n)
<1>1. <<>> \in Seq(Atoms)
  OBVIOUS
<1>2. FlattenSeq(q) \in Seq(Atoms)
  BY <1>1, FlattenAppend
<1>3. \A e \in Seq(Atoms) : FlattenSeq(Append(q, e)) = FlattenSeq(q) \o e
  BY FlattenAppend
<1>4. FlattenSeq(<<>>) = <<>>
  BY DEF FlattenSeq
<1>5. SubSeq(q, 1, Len(q)) = q /\ SubSeq(q, 1, 0) = <<>>
  OBVIOUS
<1>6. ASSUME NEW e \in Seq(Atoms), NEW n \in 0 .. Len(q)
      PROVE  SubSeq(Append(q, e), 1, n) = SubSeq(q, 1, n)
  <2> DEFINE x == SubSeq(Append(q, e), 1, n)
             y == SubSeq(q, 1, n)
  <2>1. /\ x \in Seq(Seq(Atoms)) /\ Len(x) = n /\ \A i \in 1 .. n : x[i] = q[i]
        /\ y \in Seq(Seq(Atoms)) /\ Len(y) = n /\ \A i \in 1 .. n : y[i] = q[i]
    OBVIOUS
  <2> HIDE DEF x, y
  <2> QED
    BY <2>1
<1> QED
  BY <1>2, <1>3, <1>4, <1>5, <1>6

LEMMA SnapshotRules ==
  ASSUME NEW q \in Seq(Seq(Atoms)), NEW r
  PROVE  /\ r.seq = 0 /\ r.view = <<>> => Snapshot(q, r)
         /\ r.seq = Len(q) /\ r.view = FlattenSeq(q) => Snapshot(q, r)
         /\ Snapshot(q, r) /\ r.seq >= Len(q) => r.seq = Len(q) /\ r.view = FlattenSeq(q)
         /\ \A e \in Seq(Atoms) : Snapshot(q, r) => Snapshot(Append(q, e), r)
         /\ \A s : s.seq = r.seq /\ s.view = r.view /\ Snapshot(q, r) => Snapshot(q, s)
<1>0. /\ 0 \in 0 .. Len(q) /\ Len(q) \in 0 .. Len(q)
      /\ FlattenSeq(SubSeq(q, 1, 0)) = <<>> /\ FlattenSeq(SubSeq(q, 1, Len(q))) = FlattenSeq(q)
  <2>1. SubSeq(q, 1, 0) = <<>> /\ SubSeq(q, 1, Len(q)) = q /\ FlattenSeq(<<>>) = <<>>
    BY SnapshotFacts
  <2>2. 0 \in 0 .. Len(q) /\ Len(q) \in 0 .. Len(q)
    OBVIOUS
  <2> QED
    BY <2>1, <2>2, Zenon
<1>1. r.seq = 0 /\ r.view = <<>> => Snapshot(q, r)
  BY <1>0, Zenon DEF Snapshot
<1>2. r.seq = Len(q) /\ r.view = FlattenSeq(q) => Snapshot(q, r)
  BY <1>0, Zenon DEF Snapshot
<1>3. Snapshot(q, r) /\ r.seq >= Len(q) => r.seq = Len(q) /\ r.view = FlattenSeq(q)
  <2> SUFFICES ASSUME Snapshot(q, r), r.seq >= Len(q)
               PROVE  r.seq = Len(q) /\ r.view = FlattenSeq(q)
    OBVIOUS
  <2>1. r.seq = Len(q)
    BY DEF Snapshot
  <2>2. r.view = FlattenSeq(SubSeq(q, 1, Len(q)))
    BY <2>1, Zenon DEF Snapshot
  <2> QED
    BY <2>1, <2>2, SnapshotFacts
<1>4. ASSUME NEW e \in Seq(Atoms), Snapshot(q, r) PROVE Snapshot(Append(q, e), r)
  <2>1. r.seq \in 0 .. Len(q)
    BY <1>4 DEF Snapshot
  <2>2. r.seq \in 0 .. Len(Append(q, e))
    BY <2>1
  <2>3. SubSeq(Append(q, e), 1, r.seq) = SubSeq(q, 1, r.seq)
    BY <2>1, SnapshotFacts
  <2> QED
    BY <1>4, <2>2, <2>3, Zenon DEF Snapshot
<1>5. \A s : s.seq = r.seq /\ s.view = r.view /\ Snapshot(q, r) => Snapshot(q, s)
  BY Zenon DEF Snapshot
<1> QED
  BY <1>1, <1>2, <1>3, <1>4, <1>5

LEMMA FoldInit == Init => FoldInv
<1> SUFFICES ASSUME Init PROVE FoldInv
  OBVIOUS
<1>1. log = <<>> /\ log \in Seq(Seq(Atoms))
  BY DEF Init
<1>2. projection.seq = Len(log) /\ projection.view = FlattenSeq(log)
  BY <1>1, SnapshotFacts DEF Init
<1>3. ASSUME NEW p \in Procs PROVE Snapshot(log, cache[p])
  <2>1. cache[p].seq = 0 /\ cache[p].view = <<>>
    BY DEF Init
  <2> QED
    BY <1>1, <2>1, SnapshotRules
<1>4. ASSUME NEW a \in Appenders PROVE Snapshot(log, act[a])
  <2>1. act[a].seq = 0 /\ act[a].view = <<>>
    BY RowTypes DEF Init
  <2> QED
    BY <1>1, <2>1, SnapshotRules
<1>5. Snapshot(log, repair)
  <2>1. repair.seq = 0 /\ repair.view = <<>>
    BY DEF Init, NoRepair
  <2> QED
    BY <1>1, <2>1, SnapshotRules
<1> QED
  BY <1>2, <1>3, <1>4, <1>5 DEF FoldInv

\* One append or route changes its own row.
LEMMA FoldRow ==
  ASSUME Shapes, FoldInv, NEW a \in Appenders, NEW r, act' = [act EXCEPT ![a] = r],
         Snapshot(log, r), UNCHANGED <<log, projection, cache, repair>>
  PROVE  FoldInv'
<1>1. ASSUME NEW b \in Appenders PROVE Snapshot(log', act'[b])
  <2>1. CASE b = a
    BY <2>1 DEF Shapes, ActShapes
  <2>2. CASE b # a
    BY <2>2 DEF Shapes, ActShapes, FoldInv
  <2> QED
    BY <2>1, <2>2
<1> QED
  BY <1>1 DEF FoldInv
LEMMA FoldCommit ==
  ASSUME Shapes, Shapes', FoldInv, NEW a \in Appenders, Commit(a)
  PROVE  FoldInv'
<1>0. log \in Seq(Seq(Atoms)) /\ act[a] \in ActRows /\ act[a].entry \in Seq(Atoms) /\ ProcOf[a] \in Procs
  BY ConstantTypes DEF Shapes, ActShapes, ActRows, StoreShapes
<1> DEFINE r == [act[a] EXCEPT !.pc = "cache", !.seq = projection'.seq, !.view = projection'.view]
<1>1. act' = [act EXCEPT ![a] = r] /\ UNCHANGED <<cache, repair>>
  BY DEF Commit
<1>2. r.seq = projection'.seq /\ r.view = projection'.view
  BY <1>0 DEF ActRows
<1> HIDE DEF r
<1>3. CASE Known(act[a].entry)
  <2>1. UNCHANGED <<log, projection>>
    BY <1>3 DEF Commit
  <2>2. Snapshot(log, r)
    <3>1. r.seq = Len(log) /\ r.view = FlattenSeq(log)
      BY <1>2, <2>1 DEF FoldInv
    <3> QED
      BY <1>0, <3>1, SnapshotRules
  <2> QED
    BY <1>1, <2>1, <2>2, FoldRow
<1>4. CASE ~Known(act[a].entry)
  <2>1. /\ log' = Append(log, act[a].entry)
        /\ projection' = [seq |-> Len(log) + 1, view |-> CurrentView(ProcOf[a]) \o act[a].entry]
    BY <1>4 DEF Commit
  <2>2. CurrentView(ProcOf[a]) = FlattenSeq(log)
    <3>1. CASE Warm(ProcOf[a])
      <4>1. Snapshot(log, cache[ProcOf[a]]) /\ cache[ProcOf[a]].seq = Len(log) /\ Len(log) \in Nat
        BY <1>0, <3>1 DEF Warm, FoldInv
      <4>2. cache[ProcOf[a]].seq >= Len(log)
        BY <4>1
      <4>3. cache[ProcOf[a]].view = FlattenSeq(log)
        BY <1>0, <4>1, <4>2, SnapshotRules
      <4> QED
        BY <3>1, <4>3 DEF CurrentView
    <3>2. CASE ~Warm(ProcOf[a])
      BY <3>2 DEF CurrentView, FoldInv
    <3> QED
      BY <3>1, <3>2
  <2>3. Len(log') = Len(log) + 1 /\ FlattenSeq(log') = FlattenSeq(log) \o act[a].entry
    <3>1. FlattenSeq(Append(log, act[a].entry)) = FlattenSeq(log) \o act[a].entry
      BY <1>0, SnapshotFacts
    <3>2. Len(log') = Len(log) + 1
      BY <1>0, <2>1
    <3> QED
      BY <2>1, <3>1, <3>2, Zenon
  <2>4. projection'.seq = Len(log') /\ projection'.view = FlattenSeq(log')
    <3>1. /\ projection'.seq = Len(log) + 1
          /\ projection'.view = CurrentView(ProcOf[a]) \o act[a].entry
      BY <2>1
    <3> QED
      BY <2>2, <2>3, <3>1, Zenon
  <2>5. ASSUME NEW s, Snapshot(log, s) PROVE Snapshot(log', s)
    <3>1. Snapshot(Append(log, act[a].entry), s)
      BY <1>0, <2>5, SnapshotRules
    <3> QED
      BY <2>1, <3>1, Zenon
  <2>6. Snapshot(log', r)
    <3>1. log' \in Seq(Seq(Atoms))
      BY DEF Shapes, StoreShapes
    <3> QED
      BY <1>2, <2>4, <3>1, SnapshotRules
  <2>7. ASSUME NEW b \in Appenders PROVE Snapshot(log', act'[b])
    <3>1. CASE b = a
      BY <1>1, <2>6, <3>1 DEF Shapes, ActShapes
    <3>2. CASE b # a
      <4>1. act'[b] = act[b]
        BY <1>1, <3>2 DEF Shapes, ActShapes
      <4> QED
        BY <2>5, <4>1 DEF FoldInv
    <3> QED
      BY <3>1, <3>2
  <2>8. (\A p \in Procs : Snapshot(log', cache'[p])) /\ Snapshot(log', repair')
    BY <1>1, <2>5 DEF FoldInv
  <2> QED
    BY <2>4, <2>7, <2>8 DEF FoldInv
<1> QED
  BY <1>3, <1>4

LEMMA FoldRoute ==
  ASSUME Shapes, FoldInv,
         \/ FlushSession \/ RouteBoundary
         \/ RouteReturns \/ RouteSwallows \/ RouteErrors \/ RouteGivesUp
         \/ \E a \in Appenders : CacheView(a)
         \/ \E w \in Writers : WriterStarts(w) \/ WriterReturns(w) \/ WriterFails(w)
  PROVE  FoldInv'
<1> USE DEF subscription, coalescer, store
<1>0. /\ log \in Seq(Seq(Atoms)) /\ Runtime \in Appenders /\ Writers \subseteq Appenders
      /\ \A b \in Appenders : act[b] \in ActRows /\ Snapshot(log, act[b]) /\ ProcOf[b] \in Procs
      /\ pending \in Seq(Atoms) /\ \A w \in Writers : <<w>> \in Seq(Atoms)
  <2>1. Events \subseteq Atoms /\ Writers \subseteq Atoms /\ pending \in Seq(Events)
    BY ConstantTypes DEF Shapes, LineShapes
  <2>2. pending \in Seq(Atoms) /\ \A w \in Writers : <<w>> \in Seq(Atoms)
    BY <2>1
  <2> QED
    BY <2>2, ConstantTypes DEF Shapes, ActShapes, StoreShapes, FoldInv
<1>1. Snapshot(log, NoAct) /\ Snapshot(log, Done)
  BY <1>0, RowTypes, SnapshotRules
<1>2. ASSUME NEW e \in Seq(Atoms) PROVE Snapshot(log, Starting(e))
  BY <1>0, RowTypes, SnapshotRules
<1>3. ASSUME NEW b \in Appenders, NEW c \in {"commit", "summary"}
      PROVE  Snapshot(log, [act[b] EXCEPT !.pc = c])
  <2> DEFINE r == [act[b] EXCEPT !.pc = c]
  <2>1. r.seq = act[b].seq /\ r.view = act[b].view
    BY <1>0 DEF ActRows
  <2> HIDE DEF r
  <2>2. Snapshot(log, r)
    BY <1>0, <2>1, SnapshotRules
  <2> QED
    BY <2>2 DEF r
<1>4. CASE FlushSession
  BY <1>0, <1>2, <1>4, FoldRow DEF FlushSession
<1>5. CASE RouteBoundary
  <2>1. <<Op>> \in Seq(Atoms)
    BY <1>5, OpTyped DEF RouteBoundary, Turn, Shapes
  <2> QED
    BY <1>0, <1>2, <1>5, <2>1, FoldRow DEF RouteBoundary
<1>6. CASE RouteReturns
  BY <1>0, <1>1, <1>6, FoldRow DEF RouteReturns, Upsert
<1>7. CASE RouteErrors
  <2>1. Snapshot(log, [act[Runtime] EXCEPT !.pc = "commit"])
    BY <1>0, <1>3
  <2>2. act' = [act EXCEPT ![Runtime] = [act[Runtime] EXCEPT !.pc = "commit"]]
    BY <1>7 DEF RouteErrors
  <2> QED
    BY <1>0, <1>7, <2>1, <2>2, FoldRow DEF RouteErrors
<1>8. CASE RouteGivesUp
  BY <1>0, <1>1, <1>8, FoldRow DEF RouteGivesUp
<1>11. CASE RouteSwallows
  BY <1>0, <1>1, <1>11, FoldRow DEF RouteSwallows
<1>9. ASSUME NEW a \in Appenders, CacheView(a) PROVE FoldInv'
  <2>1. Snapshot(log, [act[a] EXCEPT !.pc = "summary"])
    BY <1>0, <1>3
  <2>2. /\ act' = [act EXCEPT ![a] = [act[a] EXCEPT !.pc = "summary"]]
        /\ cache' = [cache EXCEPT ![ProcOf[a]] = [seq |-> act[a].seq, view |-> act[a].view]]
        /\ UNCHANGED <<log, projection, repair>>
    BY <1>9 DEF CacheView
  <2>3. ASSUME NEW b \in Appenders PROVE Snapshot(log, act'[b])
    <3>1. CASE b = a
      BY <2>1, <2>2, <3>1 DEF Shapes, ActShapes
    <3>2. CASE b # a
      BY <1>0, <2>2, <3>2 DEF Shapes, ActShapes
    <3> QED
      BY <3>1, <3>2
  <2> DEFINE v == [seq |-> act[a].seq, view |-> act[a].view]
  <2>4. Snapshot(log, v)
    <3>1. v.seq = act[a].seq /\ v.view = act[a].view
      OBVIOUS
    <3> HIDE DEF v
    <3> QED
      BY <1>0, <3>1, SnapshotRules
  <2>5. ASSUME NEW p \in Procs PROVE Snapshot(log, cache'[p])
    <3>1. cache' = [cache EXCEPT ![ProcOf[a]] = v]
      BY <2>2
    <3> HIDE DEF v
    <3>2. CASE p = ProcOf[a]
      BY <2>4, <3>1, <3>2 DEF Shapes
    <3>3. CASE p # ProcOf[a]
      BY <3>1, <3>3 DEF Shapes, FoldInv
    <3> QED
      BY <3>2, <3>3
  <2> QED
    BY <2>2, <2>3, <2>5 DEF FoldInv
<1>10. ASSUME NEW w \in Writers, WriterStarts(w) \/ WriterReturns(w) \/ WriterFails(w)
       PROVE  FoldInv'
  <2>1. CASE WriterStarts(w)
    BY <1>0, <1>2, <2>1, FoldRow DEF WriterStarts
  <2>2. CASE WriterReturns(w)
    BY <1>0, <1>1, <2>2, FoldRow DEF WriterReturns, Upsert
  <2>3. CASE WriterFails(w)
    BY <1>0, <1>1, <2>3, FoldRow DEF WriterFails
  <2> QED
    BY <1>10, <2>1, <2>2, <2>3
<1> QED
  BY <1>4, <1>5, <1>6, <1>7, <1>8, <1>9, <1>10, <1>11

LEMMA FoldRepair ==
  ASSUME Shapes, FoldInv, RepairReads \/ Repairs
  PROVE  FoldInv'
<1> USE DEF subscription, coalescer, store
<1>0. log \in Seq(Seq(Atoms)) /\ repair \in RepairRows /\ Len(log) \in Nat
  BY DEF Shapes, StoreShapes
<1>1. Snapshot(log, NoRepair)
  <2>1. NoRepair.seq = 0 /\ NoRepair.view = <<>>
    BY DEF NoRepair
  <2> QED
    BY <1>0, <2>1, SnapshotRules
<1>2. CASE RepairReads
  <2>1. repair'.seq = Len(log) /\ repair'.view = FlattenSeq(log)
    BY <1>2 DEF RepairReads
  <2>2. Snapshot(log, repair')
    BY <1>0, <2>1, SnapshotRules
  <2> QED
    BY <1>2, <2>2 DEF RepairReads, FoldInv
<1>3. CASE RepairWrites
  <2>1. Snapshot(log, repair) /\ repair.seq >= Len(log)
    BY <1>3 DEF RepairWrites, Writable, FoldInv
  <2>2. repair.seq = Len(log) /\ repair.view = FlattenSeq(log)
    BY <1>0, <2>1, SnapshotRules
  <2>3. projection'.seq = repair.seq /\ projection'.view = repair.view
    BY <1>3 DEF RepairWrites
  <2>4. repair'.seq = repair.seq /\ repair'.view = repair.view
    BY <1>0, <1>3 DEF RepairWrites, RepairRows
  <2>5. Snapshot(log, repair')
    BY <1>0, <2>1, <2>4, SnapshotRules
  <2> QED
    BY <1>3, <2>2, <2>3, <2>5 DEF RepairWrites, FoldInv
<1>4. CASE RepairRefused
  BY <1>1, <1>4 DEF RepairRefused, FoldInv
<1>5. CASE RepairReturns
  BY <1>1, <1>5 DEF RepairReturns, Upsert, FoldInv
<1> QED
  BY <1>2, <1>3, <1>4, <1>5 DEF Repairs

\* the steps that leave the views and the log alone
LEMMA FeedFrame ==
  ASSUME \/ UNCHANGED vars \/ RuntimeEnds \/ Subscribes \/ Disconnect \/ Monitors
         \/ Buffer \/ TimerEnds \/ TimerFires
         \/ \E q \in Asks : AskHeard(q) \/ AskMissed(q)
  PROVE  UNCHANGED <<act, store, cache, repair>>
BY DEF vars, subscription, coalescer, store, RuntimeEnds, Subscribes, Connect, SkipKnown,
       StreamDelivers, Ingest, Disconnect, Monitors, WatchIdle, HistoryDelivers, DeliverIdle,
       Buffer, TimerEnds, TimerFires, AskHeard, AskMissed

LEMMA FoldStep ==
  ASSUME Shapes, Shapes', FoldInv, [Next]_vars
  PROVE  FoldInv'
<1>1. CASE \/ UNCHANGED vars \/ RuntimeEnds \/ Subscribes \/ Disconnect \/ Monitors
           \/ Buffer \/ TimerEnds \/ TimerFires
           \/ \E q \in Asks : AskHeard(q) \/ AskMissed(q)
  <2>1. UNCHANGED <<act, store, cache, repair>>
    BY <1>1, FeedFrame
  <2> QED
    BY <2>1 DEF FoldInv, store
<1>2. CASE \E a \in Appenders : Commit(a)
  BY <1>2, FoldCommit
<1>3. CASE \/ FlushSession \/ RouteBoundary
           \/ RouteReturns \/ RouteSwallows \/ RouteErrors \/ RouteGivesUp
           \/ \E a \in Appenders : CacheView(a)
           \/ \E w \in Writers : WriterStarts(w) \/ WriterReturns(w) \/ WriterFails(w)
  BY <1>3, FoldRoute
<1>4. CASE RepairReads \/ Repairs
  BY <1>4, FoldRepair
<1> QED
  BY <1>1, <1>2, <1>3, <1>4 DEF Next, Coalesces, Appends

\* Whatever view a projection, a process's cache, an append under way or a repair
\* holds is the fold of the log up to the sequence number it carries.
THEOREM FoldsHold == Spec => []FoldInv
<1>1. ASSUME Shapes, Shapes', FoldInv, [Next]_vars PROVE FoldInv'
  BY <1>1, FoldStep
<1> QED
  BY <1>1, FoldInit, ShapesHold, PTL DEF Spec

\* However the appenders of several processes, their caches and a repair
\* interleave, the stored projection is the fold of the whole log and every
\* cached view that of a prefix.
THEOREM ProjectionFolds == Spec => []ProjectionIsFold
<1>1. ASSUME Shapes, FoldInv PROVE ProjectionIsFold
  <2>1. projection = [seq |-> projection.seq, view |-> projection.view]
    BY <1>1 DEF Shapes, StoreShapes, Views
  <2>2. projection = [seq |-> Len(log), view |-> FlattenSeq(log)]
    BY <1>1, <2>1 DEF FoldInv
  <2> QED
    BY <1>1, <2>2, Zenon DEF FoldInv, Snapshot, ProjectionIsFold
<1> QED
  BY <1>1, ShapesHold, FoldsHold, PTL
-----------------------------------------------------------------------------
(* The launchpad summary *)

\* the log q has the event, whatever it was coalesced from
Has(q, entry) == \E n \in DOMAIN q : q[n][1] = entry[1]

\* the append r will write the summary of the newest event of the log q
Carries(q, r) ==
  \/ r.pc \in {"cache", "summary"} /\ r.seq = Len(q)
  \/ r.pc = "commit" /\ Has(q, r.entry)

SummaryOf(q, n) == Open(FlattenSeq(SubSeq(q, 1, n)))

SummaryInv ==
  /\ written \in 0 .. Len(log) /\ summary = SummaryOf(log, written)
  /\ \A a \in Appenders : act[a].pc \in {"cache", "summary"} => Has(log, act[a].entry)
  /\ ~overtaken => written = Len(log) \/ \E a \in Appenders : Carries(log, act[a])

LEMMA SummaryInit == Init => SummaryInv
<1> SUFFICES ASSUME Init PROVE SummaryInv
  OBVIOUS
<1>1. log = <<>> /\ log \in Seq(Seq(Atoms)) /\ written = 0 /\ Len(log) = 0 /\ summary = {}
  BY DEF Init
<1>2. FlattenSeq(SubSeq(log, 1, 0)) = <<>>
  BY <1>1, SnapshotFacts
<1>3. Open(<<>>) = {}
  BY DEF Open, ToSet
<1>4. \A a \in Appenders : act[a].pc \in {"none", "done"}
  BY RowTypes DEF Init
<1>5. summary = SummaryOf(log, written)
  BY <1>1, <1>2, <1>3, Zenon DEF SummaryOf
<1> QED
  BY <1>1, <1>4, <1>5 DEF SummaryInv

\* one row changes, and nothing is written
LEMMA SummaryRow ==
  ASSUME Shapes, SummaryInv, NEW a \in Appenders, NEW r, act' = [act EXCEPT ![a] = r],
         UNCHANGED <<log, summary, written>>,
         r.pc \in {"cache", "summary"} => Has(log, r.entry),
         ~overtaken' => ~overtaken /\ (Carries(log, act[a]) => Carries(log, r))
  PROVE  SummaryInv'
<1>1. act'[a] = r /\ \A b \in Appenders : b # a => act'[b] = act[b]
  BY DEF Shapes, ActShapes
<1>2. \A b \in Appenders : act'[b].pc \in {"cache", "summary"} => Has(log', act'[b].entry)
  <2> SUFFICES ASSUME NEW b \in Appenders, act'[b].pc \in {"cache", "summary"}
               PROVE  Has(log, act'[b].entry)
    OBVIOUS
  <2>1. CASE b = a
    BY <1>1, <2>1
  <2>2. CASE b # a
    BY <1>1, <2>2 DEF SummaryInv
  <2> QED
    BY <2>1, <2>2
<1>3. ASSUME ~overtaken', written # Len(log) PROVE \E b \in Appenders : Carries(log, act'[b])
  <2>1. PICK b \in Appenders : Carries(log, act[b])
    BY <1>3 DEF SummaryInv
  <2>2. CASE b = a
    BY <1>1, <1>3, <2>1, <2>2
  <2>3. CASE b # a
    <3>1. act'[b] = act[b]
      BY <1>1, <2>3
    <3> QED
      BY <2>1, <3>1
  <2> QED
    BY <2>2, <2>3
<1> QED
  BY <1>2, <1>3, Zenon DEF SummaryInv

\* A view is written that is the fold of a prefix; if it is not the newest and
\* nothing was overtaken, somebody else has the newest.
LEMMA SummaryUpsert ==
  ASSUME Shapes, FoldInv, SummaryInv, NEW r, Snapshot(log, r), Upsert(r.seq, r.view),
         \A b \in Appenders : act'[b].pc \in {"cache", "summary"} => Has(log, act'[b].entry),
         \A b \in Appenders : Carries(log, act[b]) => Carries(log, act'[b]) \/ r.seq = Len(log)
  PROVE  SummaryInv'
<1>0. log' = log /\ written' = r.seq /\ summary' = Open(r.view) /\ projection.seq = Len(log)
      /\ Len(log) \in Nat /\ r.seq \in 0 .. Len(log) /\ written \in 0 .. Len(log)
  BY DEF Upsert, FoldInv, Snapshot, Shapes, StoreShapes, SummaryInv
<1>1. summary' = SummaryOf(log', written')
  BY <1>0, Zenon DEF Snapshot, SummaryOf
<1>2. ASSUME ~overtaken', r.seq # Len(log)
      PROVE  \E b \in Appenders : Carries(log, act'[b])
  <2>1. ~(r.seq < written) /\ ~(overtaken /\ r.seq < Len(log))
    BY <1>0, <1>2 DEF Upsert
  <2>2. ~overtaken /\ written # Len(log)
    BY <1>0, <1>2, <2>1
  <2>3. PICK b \in Appenders : Carries(log, act[b])
    BY <2>2 DEF SummaryInv
  <2> QED
    BY <1>2, <2>3
<1> QED
  BY <1>0, <1>1, <1>2, Zenon DEF SummaryInv

LEMMA SummaryRowUpsert ==
  ASSUME Shapes, FoldInv, SummaryInv, NEW a \in Appenders, act[a].pc = "summary",
         Upsert(act[a].seq, act[a].view), act'[a].pc \in {"none", "done"},
         \A b \in Appenders : b # a => act'[b] = act[b]
  PROVE  SummaryInv'
<1>2. \A b \in Appenders : act'[b].pc \in {"cache", "summary"} => Has(log, act'[b].entry)
  <2> SUFFICES ASSUME NEW b \in Appenders, act'[b].pc \in {"cache", "summary"}
               PROVE  Has(log, act'[b].entry)
    OBVIOUS
  <2>1. b # a
    OBVIOUS
  <2> QED
    BY <2>1 DEF SummaryInv
<1>3. \A b \in Appenders : Carries(log, act[b]) => Carries(log, act'[b]) \/ act[a].seq = Len(log)
  <2> SUFFICES ASSUME NEW b \in Appenders, Carries(log, act[b])
               PROVE  Carries(log, act'[b]) \/ act[a].seq = Len(log)
    OBVIOUS
  <2>1. CASE b = a
    BY <2>1 DEF Carries
  <2>2. CASE b # a
    <3>1. act'[b] = act[b]
      BY <2>2
    <3> QED
      BY <3>1
  <2> QED
    BY <2>1, <2>2
<1>4. Snapshot(log, act[a])
  BY DEF FoldInv
<1> QED
  BY <1>2, <1>3, <1>4, SummaryUpsert

LEMMA SummaryCommit ==
  ASSUME Shapes, Shapes', FoldInv, FoldInv', SummaryInv, NEW a \in Appenders, Commit(a)
  PROVE  SummaryInv'
<1>0. log \in Seq(Seq(Atoms)) /\ act[a] \in ActRows /\ act[a].entry \in Seq(Atoms) /\ Len(log) \in Nat
  BY DEF Shapes, ActShapes, ActRows, StoreShapes
<1> DEFINE r == [act[a] EXCEPT !.pc = "cache", !.seq = projection'.seq, !.view = projection'.view]
<1>1. act' = [act EXCEPT ![a] = r] /\ UNCHANGED <<summary, written, overtaken>>
  BY DEF Commit
<1>2. r.seq = Len(log') /\ r.pc = "cache" /\ r.entry = act[a].entry
  BY <1>0 DEF ActRows, FoldInv
<1> HIDE DEF r
<1>3. act'[a] = r /\ \A b \in Appenders : b # a => act'[b] = act[b]
  BY <1>1 DEF Shapes, ActShapes
<1>4. Carries(log', act'[a])
  BY <1>2, <1>3 DEF Carries
<1>5. CASE Known(act[a].entry)
  <2>1. log' = log
    BY <1>5 DEF Commit
  <2>2. Has(log, r.entry)
    BY <1>2, <1>5, Zenon DEF Has, Known
  <2> QED
    BY <1>1, <1>2, <1>3, <1>4, <2>1, <2>2, SummaryRow
<1>6. CASE ~Known(act[a].entry)
  <2>1. log' = Append(log, act[a].entry)
    BY <1>6 DEF Commit
  <2>2. written' \in 0 .. Len(log') /\ written \in 0 .. Len(log)
    BY <1>0, <1>1, <2>1 DEF SummaryInv
  <2>3. SubSeq(log', 1, written) = SubSeq(log, 1, written)
    BY <1>0, <2>1, <2>2, SnapshotFacts
  <2>4. summary' = SummaryOf(log', written')
    BY <1>1, <2>3, Zenon DEF SummaryInv, SummaryOf
  <2>5. DOMAIN log \subseteq DOMAIN log' /\ \A n \in DOMAIN log : log'[n] = log[n]
    BY <1>0, <2>1
  <2>6. Len(log) + 1 \in DOMAIN log' /\ log'[Len(log) + 1] = act[a].entry
    BY <1>0, <2>1
  <2>7. ASSUME NEW b \in Appenders, act'[b].pc \in {"cache", "summary"}
        PROVE  Has(log', act'[b].entry)
    <3>1. CASE b = a
      <4>1. act'[b].entry = act[a].entry
        BY <1>2, <1>3, <3>1
      <4> QED
        BY <2>6, <4>1, Zenon DEF Has
    <3>2. CASE b # a
      <4>1. act'[b] = act[b] /\ Has(log, act[b].entry)
        BY <1>3, <2>7, <3>2 DEF SummaryInv
      <4>2. PICK n \in DOMAIN log : log[n][1] = act[b].entry[1]
        BY <4>1, Zenon DEF Has
      <4> QED
        BY <2>5, <4>1, <4>2, Zenon DEF Has
    <3> QED
      BY <3>1, <3>2
  <2> QED
    BY <1>4, <2>2, <2>4, <2>7, Zenon DEF SummaryInv
<1> QED
  BY <1>5, <1>6

LEMMA SummaryRoute ==
  ASSUME Shapes, FoldInv, SummaryInv,
         \/ FlushSession \/ RouteBoundary
         \/ RouteReturns \/ RouteSwallows \/ RouteErrors \/ RouteGivesUp
         \/ \E a \in Appenders : CacheView(a)
         \/ \E w \in Writers : WriterStarts(w) \/ WriterReturns(w) \/ WriterFails(w)
  PROVE  SummaryInv'
<1> USE DEF subscription, coalescer, store
<1>0. /\ Runtime \in Appenders /\ Writers \subseteq Appenders
      /\ \A b \in Appenders : act[b] \in ActRows
      /\ pending \in Seq(Atoms) /\ \A w \in Writers : <<w>> \in Seq(Atoms)
      /\ \A b \in Appenders : act[b].pc \in {"cache", "summary"} => Has(log, act[b].entry)
  <2>1. Events \subseteq Atoms /\ Writers \subseteq Atoms /\ pending \in Seq(Events)
    BY ConstantTypes DEF Shapes, LineShapes
  <2>2. pending \in Seq(Atoms) /\ \A w \in Writers : <<w>> \in Seq(Atoms)
    BY <2>1
  <2> QED
    BY <2>2, ConstantTypes DEF Shapes, ActShapes, SummaryInv
<1>1. NoAct.pc = "none" /\ Done.pc = "done" /\ \A e \in Seq(Atoms) : Starting(e).pc = "commit"
  BY RowTypes
<1>2. \A a \in Appenders : act[a].pc = "none" => ~Carries(log, act[a])
  BY DEF Carries
<1>3. CASE FlushSession
  BY <1>0, <1>1, <1>2, <1>3, SummaryRow DEF FlushSession, Turn
<1>4. CASE RouteBoundary
  <2>1. <<Op>> \in Seq(Atoms)
    BY <1>4, OpTyped DEF RouteBoundary, Turn, Shapes
  <2> QED
    BY <1>0, <1>1, <1>2, <1>4, <2>1, SummaryRow DEF RouteBoundary, Turn
<1>5. CASE RouteReturns
  <2>1. /\ act[Runtime].pc = "summary" /\ Upsert(act[Runtime].seq, act[Runtime].view)
        /\ act'[Runtime].pc \in {"none", "done"}
        /\ \A b \in Appenders : b # Runtime => act'[b] = act[b]
    BY <1>0, <1>1, <1>5 DEF RouteReturns, Shapes, ActShapes
  <2> QED
    BY <1>0, <2>1, SummaryRowUpsert
<1>6. CASE RouteErrors
  <2> DEFINE r == [act[Runtime] EXCEPT !.pc = "commit"]
  <2>1. r.pc = "commit" /\ r.entry = act[Runtime].entry
    BY <1>0 DEF ActRows
  <2>2. act' = [act EXCEPT ![Runtime] = r] /\ UNCHANGED <<log, summary, written, overtaken>>
    BY <1>6 DEF RouteErrors
  <2> HIDE DEF r
  <2>3. Carries(log, act[Runtime]) => Carries(log, r)
    BY <1>0, <2>1 DEF Carries
  <2> QED
    BY <1>0, <2>1, <2>2, <2>3, SummaryRow
<1>7. CASE RouteGivesUp
  <2>1. ~overtaken' => ~overtaken /\ ~Carries(log, act[Runtime])
    BY <1>7, Zenon DEF RouteGivesUp, Carries, Known, Has
  <2> QED
    BY <1>0, <1>1, <1>7, <2>1, SummaryRow DEF RouteGivesUp
<1>10. CASE RouteSwallows
  <2>1. ~overtaken' => ~overtaken /\ ~Carries(log, act[Runtime])
    BY <1>10, Zenon DEF RouteSwallows, Carries, Known, Has
  <2> QED
    BY <1>0, <1>1, <1>10, <2>1, SummaryRow DEF RouteSwallows
<1>8. ASSUME NEW a \in Appenders, CacheView(a) PROVE SummaryInv'
  <2> DEFINE r == [act[a] EXCEPT !.pc = "summary"]
  <2>1. r.pc = "summary" /\ r.entry = act[a].entry /\ r.seq = act[a].seq
    BY <1>0 DEF ActRows
  <2>2. act' = [act EXCEPT ![a] = r] /\ UNCHANGED <<log, summary, written, overtaken>>
    BY <1>8 DEF CacheView
  <2> HIDE DEF r
  <2>3. Carries(log, act[a]) => Carries(log, r)
    BY <1>8, <2>1 DEF Carries, CacheView
  <2>4. Has(log, r.entry)
    BY <1>0, <1>8, <2>1 DEF CacheView
  <2> QED
    BY <2>2, <2>3, <2>4, SummaryRow
<1>9. ASSUME NEW w \in Writers, WriterStarts(w) \/ WriterReturns(w) \/ WriterFails(w)
      PROVE  SummaryInv'
  <2>0. w \in Appenders
    BY <1>0
  <2>1. CASE WriterStarts(w)
    BY <1>0, <1>1, <1>2, <2>0, <2>1, SummaryRow DEF WriterStarts
  <2>2. CASE WriterReturns(w)
    <3>1. /\ act[w].pc = "summary" /\ Upsert(act[w].seq, act[w].view)
          /\ act'[w].pc \in {"none", "done"}
          /\ \A b \in Appenders : b # w => act'[b] = act[b]
      BY <1>1, <2>0, <2>2 DEF WriterReturns, Shapes, ActShapes
    <3> QED
      BY <2>0, <3>1, SummaryRowUpsert
  <2>3. CASE WriterFails(w)
    <3>1. act[w].entry = <<w>>
      BY <2>3 DEF WriterFails, Shapes, ActShapes
    <3>2. ~overtaken' => ~overtaken /\ ~Carries(log, act[w])
      BY <2>3, <3>1, Zenon DEF WriterFails, Carries, Known, Has
    <3> QED
      BY <1>0, <1>1, <2>0, <2>3, <3>2, SummaryRow DEF WriterFails
  <2> QED
    BY <1>9, <2>1, <2>2, <2>3
<1> QED
  BY <1>3, <1>4, <1>5, <1>6, <1>7, <1>8, <1>9, <1>10

LEMMA SummaryStep ==
  ASSUME Shapes, Shapes', FoldInv, FoldInv', SummaryInv, [Next]_vars
  PROVE  SummaryInv'
<1>1. CASE \/ UNCHANGED vars \/ RuntimeEnds \/ Subscribes \/ Disconnect \/ Monitors
           \/ Buffer \/ TimerEnds \/ TimerFires
           \/ \E q \in Asks : AskHeard(q) \/ AskMissed(q)
  <2>1. UNCHANGED <<act, store, cache, repair>>
    BY <1>1, FeedFrame
  <2> QED
    BY <2>1 DEF SummaryInv, store
<1>2. CASE \E a \in Appenders : Commit(a)
  BY <1>2, SummaryCommit
<1>3. CASE \/ FlushSession \/ RouteBoundary
           \/ RouteReturns \/ RouteSwallows \/ RouteErrors \/ RouteGivesUp
           \/ \E a \in Appenders : CacheView(a)
           \/ \E w \in Writers : WriterStarts(w) \/ WriterReturns(w) \/ WriterFails(w)
  BY <1>3, SummaryRoute
<1>4. CASE RepairReads \/ RepairWrites \/ RepairRefused
  <2>1. UNCHANGED <<act, log, summary, overtaken, written>>
    BY <1>4 DEF RepairReads, RepairWrites, RepairRefused, store
  <2> QED
    BY <2>1 DEF SummaryInv
<1>5. CASE RepairReturns
  <2>1. Snapshot(log, repair) /\ act' = act /\ Upsert(repair.seq, repair.view)
    BY <1>5 DEF FoldInv, RepairReturns
  <2>2. \A b \in Appenders : act'[b].pc \in {"cache", "summary"} => Has(log, act'[b].entry)
    BY <2>1 DEF SummaryInv
  <2> QED
    BY <2>1, <2>2, SummaryUpsert
<1> QED
  BY <1>1, <1>2, <1>3, <1>4, <1>5 DEF Next, Coalesces, Appends, Repairs

\* The summary row is the one of the view written last, and as long as no write
\* of a summary was lost or overtaken the newest view is written or on its way.
THEOREM SummaryHolds == Spec => []SummaryInv
<1>1. ASSUME Shapes, Shapes', FoldInv, FoldInv', SummaryInv, [Next]_vars PROVE SummaryInv'
  BY <1>1, SummaryStep
<1> QED
  BY <1>1, SummaryInit, ShapesHold, FoldsHold, PTL DEF Spec

\* At rest the launchpad shows what the transcript leaves open, unless an
\* older summary has overwritten a newer one or one was lost: any appends of
\* any processes and any repairs may have come between.
THEOREM SummaryIsCurrent == Spec => []SummaryFollows
<1>2. ASSUME Shapes, FoldInv, SummaryInv PROVE SummaryFollows
  <2> SUFFICES ASSUME \A a \in Appenders : act[a].pc \in {"none", "done"}, ~overtaken
               PROVE  summary = Open(projection.view)
    BY DEF SummaryFollows
  <2>1. \A a \in Appenders : ~Carries(log, act[a])
    BY DEF Carries
  <2>2. written = Len(log) /\ log \in Seq(Seq(Atoms))
    BY <1>2, <2>1 DEF SummaryInv, Shapes, StoreShapes
  <2>3. SubSeq(log, 1, Len(log)) = log
    BY <2>2, SnapshotFacts
  <2> QED
    BY <1>2, <2>2, <2>3, Zenon DEF SummaryInv, SummaryOf, FoldInv
<1> QED
  BY <1>2, SummaryHolds, ShapesHold, FoldsHold, PTL
-----------------------------------------------------------------------------
(* The subscription and the coalescer's line *)

FeedInv ==
  /\ cursor <= Len(Script) /\ stream <= cursor + 1
  /\ ingest.by = "none" => ingest.event = 0
  /\ ingest.by # "none" => ingest.event = cursor + 1 /\ cursor + 1 \in Events
  /\ monitor = "idle" => cursor = Len(Script)

\* An operation of the line, given the cursor, the event being delivered, the
\* monitor and what was asked: an event of the runtime is the next one.
Fits(x, c, event, m, heard) ==
  /\ x \in FromRuntime => x = c + 1
  /\ x \in Events => x = event
  /\ x = IdleEvent => m = "idle"
  /\ x \in Asks => x \in heard

\* of the runtime's events there is one in the line, and of every ask
Apart(x, y) == ~(x \in FromRuntime /\ y \in FromRuntime) /\ (x \in Asks => x # y)

LineInv ==
  /\ \A k \in DOMAIN ops : Fits(ops[k], cursor, ingest.event, monitor, asked)
  /\ \A j, k \in DOMAIN ops : j # k => Apart(ops[j], ops[k])

LEMMA TailIndex ==
  ASSUME NEW q \in Seq(Line), q # <<>>
  PROVE  /\ Head(q) = q[1] /\ 1 \in DOMAIN q
         /\ \A k \in DOMAIN Tail(q) :
              k \in Nat /\ k + 1 \in DOMAIN q /\ k + 1 # 1 /\ Tail(q)[k] = q[k + 1]
OBVIOUS

LEMMA AppendIndex ==
  ASSUME NEW q \in Seq(Line), NEW x \in Line
  PROVE  \A k \in DOMAIN Append(q, x) :
           /\ k \in Nat
           /\ \/ k \in DOMAIN q /\ k <= Len(q) /\ Append(q, x)[k] = q[k]
              \/ k = Len(q) + 1 /\ Append(q, x)[k] = x
OBVIOUS

LEMMA FeedInit == Init => FeedInv /\ LineInv
<1> SUFFICES ASSUME Init PROVE FeedInv /\ LineInv
  OBVIOUS
<1>1. FeedInv
  BY ConstantTypes DEF Init, FeedInv, NoIngest
<1>2. LineInv
  BY DEF Init, LineInv
<1> QED
  BY <1>1, <1>2

\* the listener's promise settles
LEMMA FeedSettles ==
  ASSUME FeedShapes, FeedInv, NEW op \in Line,
         (op # Timer /\ Resolved(op)) \/ Rejected(op)
  PROVE  FeedInv'
<1>0. op \in Nat /\ Len(Script) \in Nat /\ Timer = 0
  BY ConstantTypes DEF Timer
<1>1. CASE op # Timer /\ Resolved(op)
  <2>1. CASE op = ingest.event
    <3>1. op = cursor + 1 /\ cursor + 1 \in Events
      BY <1>0, <1>1, <2>1 DEF FeedInv, FeedShapes
    <3>2. cursor' = cursor + 1 /\ stream' <= stream + 1 /\ ingest' = NoIngest /\ stream' \in Nat
      BY <1>1, <2>1, <3>1 DEF Resolved, FeedShapes
    <3>3. monitor' # "idle"
      BY <1>1, <2>1, <3>1 DEF Resolved, FeedInv, FeedShapes, Events
    <3> QED
      BY <1>0, <3>1, <3>2, <3>3 DEF FeedInv, FeedShapes, NoIngest, Events
  <2>2. CASE op # ingest.event
    BY <1>1, <2>2 DEF Resolved, FeedInv
  <2> QED
    BY <2>1, <2>2
<1>2. CASE Rejected(op)
  BY <1>0, <1>2 DEF Rejected, FeedInv, FeedShapes, NoIngest
<1> QED
  BY <1>1, <1>2

LEMMA FeedStep ==
  ASSUME Shapes, FeedInv, [Next]_vars
  PROVE  FeedInv'
<1> USE DEF subscription, coalescer, store
<1>0. FeedShapes /\ LineShapes /\ Len(Script) \in Nat
  BY ConstantTypes DEF Shapes
<1>1. CASE \/ UNCHANGED vars \/ RuntimeEnds
           \/ FlushSession \/ RouteBoundary \/ TimerEnds \/ TimerFires
           \/ RouteErrors \/ RepairReads \/ Repairs
           \/ \E q \in Asks : AskHeard(q) \/ AskMissed(q)
           \/ \E a \in Appenders : Appends(a)
           \/ \E w \in Writers : WriterStarts(w) \/ WriterReturns(w) \/ WriterFails(w)
  <2>1. UNCHANGED <<cursor, stream, ingest, monitor>>
    BY <1>1 DEF vars, RuntimeEnds, FlushSession, RouteBoundary, TimerEnds, TimerFires,
                RouteErrors, RepairReads, Repairs, RepairWrites, RepairRefused, RepairReturns,
                AskHeard, AskMissed, Appends, Commit, CacheView,
                WriterStarts, WriterReturns, WriterFails
  <2> QED
    BY <2>1 DEF FeedInv
<1>2. CASE Connect
  BY <1>0, <1>2 DEF Connect, FeedInv, FeedShapes
<1>3. CASE SkipKnown
  BY <1>0, <1>3 DEF SkipKnown, FeedInv, FeedShapes
<1>4. CASE StreamDelivers
  BY <1>0, <1>4 DEF StreamDelivers, Ingest, FeedInv, FeedShapes, Events
<1>5. CASE HistoryDelivers
  BY <1>0, <1>5 DEF HistoryDelivers, Ingest, FeedInv, FeedShapes, Events
<1>6. CASE Disconnect
  BY <1>0, <1>6 DEF Disconnect, FeedInv, FeedShapes
<1>7. CASE WatchIdle
  BY <1>0, <1>7 DEF WatchIdle, FeedInv, FeedShapes
<1>8. CASE DeliverIdle
  BY <1>0, <1>8 DEF DeliverIdle, Reconciled, FeedInv, FeedShapes
<1>9. CASE Buffer
  <2>1. ops # <<>> /\ IsDelta(Op) /\ Resolved(Op)
    BY <1>9 DEF Buffer, Turn, Joins
  <2>2. Op \in Line /\ Op \in Events
    BY <1>0, <2>1, OpTyped
  <2>3. Op # Timer
    BY <2>2, ConstantTypes DEF Timer
  <2> QED
    BY <1>0, <2>1, <2>2, <2>3, FeedSettles
<1>10. CASE RouteReturns \/ RouteSwallows
  <2>1. CASE act[Runtime].entry = <<Op>>
    <3>1. Op \in Line /\ Resolved(Op)
      BY <1>0, <1>10, <2>1, OpTyped DEF RouteReturns, RouteSwallows, Shapes, Busy
    <3>2. Op \in Atoms
      <4>1. <<Op>> \in Seq(Atoms)
        BY <2>1, ConstantTypes DEF Shapes, ActShapes, ActRows
      <4>2. <<Op>>[1] \in Atoms
        BY <4>1
      <4> QED
        BY <4>2
    <3>3. Op # Timer
      BY <3>2, ConstantTypes DEF Atoms, Timer, IdleEvent
    <3> QED
      BY <1>0, <3>1, <3>3, FeedSettles
  <2>2. CASE act[Runtime].entry # <<Op>>
    BY <1>10, <2>2 DEF RouteReturns, RouteSwallows, FeedInv
  <2> QED
    BY <2>1, <2>2
<1>11. CASE RouteGivesUp
  <2>1. Op \in Line /\ Rejected(Op)
    BY <1>0, <1>11, OpTyped DEF RouteGivesUp, Shapes, Busy
  <2> QED
    BY <1>0, <2>1, FeedSettles
<1> QED
  BY <1>1, <1>2, <1>3, <1>4, <1>5, <1>6, <1>7, <1>8, <1>9, <1>10, <1>11
  DEF Next, Subscribes, Monitors, Coalesces

\* The subscription delivers the event after the cursor and no other, and the
\* monitor reports idle only when the runtime's script is at its end.
THEOREM FeedHolds == Spec => []FeedInv
<1>1. ASSUME Shapes, FeedInv, [Next]_vars PROVE FeedInv'
  BY <1>1, FeedStep
<1>2. Init => FeedInv
  BY FeedInit
<1> QED
  BY <1>1, <1>2, ShapesHold, PTL DEF Spec
\* the operation at the head leaves the line
LEMMA LineTail ==
  ASSUME LineShapes, LineInv, ops # <<>>, ops' = Tail(ops)
  PROVE  /\ Fits(Op, cursor, ingest.event, monitor, asked)
         /\ \A k \in DOMAIN ops' :
              Apart(Op, ops'[k]) /\ Fits(ops'[k], cursor, ingest.event, monitor, asked)
         /\ \A j, k \in DOMAIN ops' : j # k => Apart(ops'[j], ops'[k])
<1>1. /\ Op = ops[1] /\ 1 \in DOMAIN ops
      /\ \A k \in DOMAIN ops' :
           k \in Nat /\ k + 1 \in DOMAIN ops /\ k + 1 # 1 /\ ops'[k] = ops[k + 1]
  BY TailIndex DEF LineShapes, Op
<1>2. Fits(Op, cursor, ingest.event, monitor, asked)
  BY <1>1 DEF LineInv
<1>3. ASSUME NEW k \in DOMAIN ops'
      PROVE  Apart(Op, ops'[k]) /\ Fits(ops'[k], cursor, ingest.event, monitor, asked)
  BY <1>1 DEF LineInv
<1>4. ASSUME NEW j \in DOMAIN ops', NEW k \in DOMAIN ops', j # k
      PROVE  Apart(ops'[j], ops'[k])
  <2>1. j + 1 # k + 1
    BY <1>1, <1>4
  <2> QED
    BY <1>1, <2>1 DEF LineInv
<1> QED
  BY <1>2, <1>3, <1>4

\* an operation joins the line
LEMMA LineAppend ==
  ASSUME LineShapes, LineInv, NEW x \in Line, ops' = Append(ops, x),
         Fits(x, cursor', ingest'.event, monitor', asked'),
         \A k \in DOMAIN ops : /\ Apart(ops[k], x)
                               /\ Fits(ops[k], cursor', ingest'.event, monitor', asked')
  PROVE  LineInv'
<1>1. \A k \in DOMAIN ops' :
        /\ k \in Nat
        /\ \/ k \in DOMAIN ops /\ k <= Len(ops) /\ ops'[k] = ops[k]
           \/ k = Len(ops) + 1 /\ ops'[k] = x
  BY AppendIndex DEF LineShapes
<1>2. ASSUME NEW k \in DOMAIN ops' PROVE Fits(ops'[k], cursor', ingest'.event, monitor', asked')
  <2>1. CASE k \in DOMAIN ops /\ ops'[k] = ops[k]
    BY <2>1
  <2>2. CASE ops'[k] = x
    BY <2>2
  <2> QED
    BY <1>1, <2>1, <2>2
<1>3. \A k \in DOMAIN ops : Apart(x, ops[k])
  BY DEF Apart
<1>4. ASSUME NEW j \in DOMAIN ops', NEW k \in DOMAIN ops', j # k
      PROVE  Apart(ops'[j], ops'[k])
  <2>1. CASE j \in DOMAIN ops /\ ops'[j] = ops[j] /\ k \in DOMAIN ops /\ ops'[k] = ops[k]
    BY <1>4, <2>1 DEF LineInv
  <2>2. CASE j \in DOMAIN ops /\ ops'[j] = ops[j] /\ ops'[k] = x
    BY <2>2
  <2>3. CASE k \in DOMAIN ops /\ ops'[k] = ops[k] /\ ops'[j] = x
    BY <1>3, <2>3
  <2>4. j # Len(ops) + 1 \/ k # Len(ops) + 1
    BY <1>4
  <2> QED
    BY <1>1, <2>1, <2>2, <2>3, <2>4
<1> QED
  BY <1>2, <1>4 DEF LineInv

\* the listener's promise settles and its operation leaves the line
LEMMA LineSettles ==
  ASSUME Shapes, FeedInv, LineInv, ops # <<>>, ops' = Tail(ops),
         (Op # Timer /\ Resolved(Op)) \/ Rejected(Op)
  PROVE  LineInv'
<1>0. LineShapes /\ FeedShapes /\ Op \in Line /\ asked' = asked /\ Timer = 0 /\ Op \in Nat
  BY OpTyped, ConstantTypes DEF Shapes, Resolved, Rejected, Timer
<1>1. /\ \A k \in DOMAIN ops' :
           Apart(Op, ops'[k]) /\ Fits(ops'[k], cursor, ingest.event, monitor, asked)
      /\ \A j, k \in DOMAIN ops' : j # k => Apart(ops'[j], ops'[k])
  BY <1>0, LineTail
<1>2. CASE Op \in FromRuntime
  <2>1. ASSUME NEW k \in DOMAIN ops' PROVE Fits(ops'[k], cursor', ingest'.event, monitor', asked')
    <3>1. ops'[k] \notin FromRuntime /\ (ops'[k] \in Asks => ops'[k] \in asked')
      BY <1>0, <1>1, <1>2 DEF Apart, Fits
    <3> QED
      BY <3>1 DEF Fits, FromRuntime
  <2> QED
    BY <1>1, <2>1 DEF LineInv
<1>3. CASE Op \notin FromRuntime
  <2>1. Op # IdleEvent /\ Op \notin Events
    BY <1>3 DEF FromRuntime
  <2>2. Op = ingest.event => ingest.by = "none" /\ ingest.event = 0
    BY <2>1 DEF FeedInv
  <2>3. cursor' = cursor /\ ingest'.event = ingest.event /\ monitor' = monitor
    <3>1. CASE Op # Timer /\ Resolved(Op)
      BY <1>0, <2>1, <2>2, <3>1 DEF Resolved
    <3>2. CASE Rejected(Op)
      BY <1>0, <2>1, <2>2, <3>2 DEF Rejected, NoIngest
    <3> QED
      BY <3>1, <3>2
  <2> QED
    BY <1>0, <1>1, <2>3 DEF LineInv
<1> QED
  BY <1>2, <1>3

\* The coalescer works on the head of its line, which is no timer when a route
\* for it returns.
LEMMA RouteOp ==
  ASSUME Shapes, act[Runtime].pc # "none"
  PROVE  /\ ops # <<>> /\ Op \in Line /\ Tail(ops) \in Seq(Line)
         /\ act[Runtime].entry = <<Op>> => Op # Timer
<1>1. ops # <<>> /\ Op \in Line /\ Tail(ops) \in Seq(Line)
  BY OpTyped DEF Shapes, Busy
<1>2. ASSUME act[Runtime].entry = <<Op>> PROVE Op # Timer
  <2>1. <<Op>> \in Seq(Atoms)
    BY <1>2, ConstantTypes DEF Shapes, ActShapes, ActRows
  <2>2. <<Op>>[1] \in Atoms
    BY <2>1
  <2>3. Op \in Atoms
    BY <2>2
  <2> QED
    BY <2>3, ConstantTypes DEF Atoms, Timer, IdleEvent
<1> QED
  BY <1>1, <1>2

LEMMA LineStep ==
  ASSUME Shapes, FeedInv, LineInv, [Next]_vars
  PROVE  LineInv'
<1> USE DEF subscription, coalescer, store
<1>0. FeedShapes /\ LineShapes /\ Len(Script) \in Nat
  BY ConstantTypes DEF Shapes
<1>1. CASE \/ UNCHANGED vars \/ RuntimeEnds \/ Connect \/ SkipKnown \/ Disconnect
           \/ FlushSession \/ RouteBoundary
           \/ RouteErrors \/ RepairReads \/ Repairs
           \/ \E a \in Appenders : Appends(a)
           \/ \E w \in Writers : WriterStarts(w) \/ WriterReturns(w) \/ WriterFails(w)
  <2>1. UNCHANGED <<ops, cursor, ingest, monitor, asked>>
    BY <1>1 DEF vars, RuntimeEnds, Connect, SkipKnown, Disconnect, FlushSession, RouteBoundary,
                RouteErrors, RepairReads, Repairs, RepairWrites, RepairRefused, RepairReturns,
                Appends, Commit, CacheView, WriterStarts, WriterReturns, WriterFails
  <2> QED
    BY <2>1 DEF LineInv
<1>2. ASSUME NEW q \in Asks, AskHeard(q) PROVE LineInv'
  <2>1. /\ ops' = Append(ops, q) /\ asked' = asked \cup {q} /\ q \notin asked /\ q \in Line
        /\ UNCHANGED <<cursor, ingest, monitor>> /\ q \notin FromRuntime
    BY <1>2, ConstantTypes DEF AskHeard, Line, FromRuntime, IdleEvent
  <2>2. Fits(q, cursor', ingest'.event, monitor', asked')
    BY <2>1 DEF Fits, FromRuntime
  <2>3. ASSUME NEW k \in DOMAIN ops
        PROVE  Apart(ops[k], q) /\ Fits(ops[k], cursor', ingest'.event, monitor', asked')
    <3>1. Fits(ops[k], cursor, ingest.event, monitor, asked)
      BY DEF LineInv
    <3> QED
      BY <2>1, <3>1 DEF Fits, Apart
  <2> QED
    BY <1>0, <2>1, <2>2, <2>3, LineAppend
<1>3. ASSUME NEW q \in Asks, AskMissed(q) PROVE LineInv'
  <2>1. /\ asked \subseteq asked' /\ UNCHANGED <<ops, cursor, ingest, monitor>>
    BY <1>3 DEF AskMissed
  <2>2. ASSUME NEW k \in DOMAIN ops PROVE Fits(ops'[k], cursor', ingest'.event, monitor', asked')
    <3>1. Fits(ops[k], cursor, ingest.event, monitor, asked)
      BY DEF LineInv
    <3> QED
      BY <2>1, <3>1 DEF Fits
  <2> QED
    BY <2>1, <2>2 DEF LineInv
<1>4. ASSUME NEW i \in Nat, NEW by \in {"stream", "history"}, Ingest(i, by), i <= cursor + 1
      PROVE  LineInv'
  <2>1. /\ i = cursor + 1 /\ i \in Events /\ i \in Line /\ ops' = Append(ops, i)
        /\ ingest'.event = i /\ UNCHANGED <<cursor, monitor, asked>>
        /\ ingest.event = 0 /\ cursor # Len(Script) /\ i # IdleEvent /\ i \notin Asks
    BY <1>0, <1>4, ConstantTypes DEF Ingest, Events, FeedShapes, FeedInv, Line, FromRuntime, IdleEvent
  <2>2. Fits(i, cursor', ingest'.event, monitor', asked')
    BY <2>1 DEF Fits
  <2>3. ASSUME NEW k \in DOMAIN ops
        PROVE  Apart(ops[k], i) /\ Fits(ops[k], cursor', ingest'.event, monitor', asked')
    <3>1. Fits(ops[k], cursor, ingest.event, monitor, asked)
      BY DEF LineInv
    <3>2. ops[k] \notin Events /\ ops[k] # IdleEvent
      BY <2>1, <3>1, ConstantTypes DEF Fits, FeedInv
    <3> QED
      BY <2>1, <3>1, <3>2, ConstantTypes DEF Fits, Apart, FromRuntime
  <2> QED
    BY <1>0, <2>1, <2>2, <2>3, LineAppend
<1>5. CASE StreamDelivers
  BY <1>0, <1>4, <1>5 DEF StreamDelivers, FeedInv, FeedShapes
<1>6. CASE HistoryDelivers
  <2>1. cursor + 1 \in Nat /\ cursor + 1 <= cursor + 1
    BY <1>0 DEF FeedShapes
  <2> QED
    BY <1>4, <1>6, <2>1 DEF HistoryDelivers
<1>7. CASE WatchIdle
  <2>1. UNCHANGED <<ops, cursor, ingest, asked>> /\ monitor # "idle"
    BY <1>7 DEF WatchIdle
  <2>2. ASSUME NEW k \in DOMAIN ops PROVE Fits(ops'[k], cursor', ingest'.event, monitor', asked')
    <3>1. Fits(ops[k], cursor, ingest.event, monitor, asked)
      BY DEF LineInv
    <3> QED
      BY <2>1, <3>1 DEF Fits
  <2> QED
    BY <2>1, <2>2 DEF LineInv
<1>8. CASE DeliverIdle
  <2>1. /\ ops' = Append(ops, IdleEvent) /\ UNCHANGED <<cursor, ingest, asked>>
        /\ monitor' = "idle" /\ monitor # "idle" /\ cursor = Len(Script)
        /\ IdleEvent \in Line /\ IdleEvent = cursor + 1 /\ IdleEvent \notin Events /\ IdleEvent \notin Asks
    BY <1>8, ConstantTypes DEF DeliverIdle, Reconciled, Line, FromRuntime, IdleEvent, Events
  <2>2. Fits(IdleEvent, cursor', ingest'.event, monitor', asked')
    BY <2>1 DEF Fits
  <2>3. ASSUME NEW k \in DOMAIN ops
        PROVE  Apart(ops[k], IdleEvent) /\ Fits(ops[k], cursor', ingest'.event, monitor', asked')
    <3>1. Fits(ops[k], cursor, ingest.event, monitor, asked)
      BY DEF LineInv
    <3>2. ops[k] # IdleEvent /\ ops[k] \notin FromRuntime
      BY <2>1, <3>1 DEF Fits, FromRuntime
    <3> QED
      BY <2>1, <3>1, <3>2 DEF Fits, Apart, FromRuntime
  <2> QED
    BY <1>0, <2>1, <2>2, <2>3, LineAppend
<1>9. CASE TimerFires
  <2>1. /\ ops' = Append(ops, Timer) /\ UNCHANGED <<cursor, ingest, monitor, asked>>
        /\ Timer \in Line /\ Timer \notin FromRuntime /\ Timer \notin Asks
    BY <1>9, ConstantTypes DEF TimerFires, Line, FromRuntime, Timer, IdleEvent
  <2>2. ASSUME NEW k \in DOMAIN ops PROVE Apart(ops[k], Timer)
    BY <2>1 DEF Apart
  <2> QED
    BY <1>0, <2>1, <2>2, LineAppend DEF Fits, LineInv, FromRuntime
<1>10. CASE TimerEnds
  <2>1. ops # <<>> /\ ops' = Tail(ops) /\ UNCHANGED <<cursor, ingest, monitor, asked>>
    BY <1>10 DEF TimerEnds, Turn
  <2> QED
    BY <1>0, <2>1, LineTail DEF LineInv
<1>11. CASE Buffer
  <2>1. ops # <<>> /\ IsDelta(Op) /\ Resolved(Op) /\ ops' = Tail(ops)
    BY <1>11 DEF Buffer, Turn, Joins
  <2>2. Op # Timer
    BY <2>1, ConstantTypes DEF Timer, IsDelta
  <2> QED
    BY <2>1, <2>2, LineSettles
<1>12. CASE RouteReturns \/ RouteSwallows
  <2>1. CASE act[Runtime].entry = <<Op>>
    <3>1. ops # <<>> /\ Op # Timer
      BY <1>12, <2>1, RouteOp DEF RouteReturns, RouteSwallows
    <3>2. ops' = Tail(ops) /\ Resolved(Op)
      BY <1>12, <2>1 DEF RouteReturns, RouteSwallows
    <3> QED
      BY <3>1, <3>2, LineSettles
  <2>2. CASE act[Runtime].entry # <<Op>>
    BY <1>12, <2>2 DEF RouteReturns, RouteSwallows, LineInv
  <2> QED
    BY <2>1, <2>2
<1>13. CASE RouteGivesUp
  <2>1. ops # <<>>
    BY <1>13, RouteOp DEF RouteGivesUp
  <2>2. ops' = Tail(ops) /\ Rejected(Op)
    BY <1>13 DEF RouteGivesUp
  <2> QED
    BY <2>1, <2>2, LineSettles
<1> QED
  BY <1>1, <1>2, <1>3, <1>5, <1>6, <1>7, <1>8, <1>9, <1>10, <1>11, <1>12, <1>13
  DEF Next, Subscribes, Monitors, Coalesces

\* The coalescer's line holds at most one event of the runtime, the one after the
\* cursor, and each ask at most once.
THEOREM LineHolds == Spec => []LineInv
<1>1. ASSUME Shapes, FeedInv, LineInv, [Next]_vars PROVE LineInv'
  BY <1>1, LineStep
<1>2. Init => LineInv
  BY FeedInit
<1> QED
  BY <1>1, <1>2, ShapesHold, FeedHolds, PTL DEF Spec
-----------------------------------------------------------------------------
(* The flushes in the line.  An armed timer counts as a flush behind it: at   *)
(* most one flush is behind an event, and two are there in all.               *)

Marked(x) == x = Timer \/ x \in FromRuntime

Timers(q, on) ==
  /\ \A i, j, k \in DOMAIN q :
       i < j /\ j < k => ~(Marked(q[i]) /\ q[j] = Timer /\ q[k] = Timer)
  /\ on => \A i, j \in DOMAIN q : i < j => ~(Marked(q[i]) /\ q[j] = Timer)

LEMMA TimersTail ==
  ASSUME NEW q \in Seq(Line), q # <<>>, NEW on \in BOOLEAN, Timers(q, on)
  PROVE  /\ Timers(Tail(q), on)
         /\ (Head(q) \in FromRuntime /\ \A k \in DOMAIN q : k # 1 => q[k] \notin FromRuntime)
              => Timers(Tail(q), TRUE)
<1>1. /\ Head(q) = q[1] /\ 1 \in DOMAIN q
      /\ \A k \in DOMAIN Tail(q) :
           k \in Nat /\ k + 1 \in DOMAIN q /\ k + 1 # 1 /\ Tail(q)[k] = q[k + 1]
  BY TailIndex
<1> DEFINE t == Tail(q)
<1> HIDE DEF t
<1>2. \A k \in DOMAIN t : k \in Nat /\ k + 1 \in DOMAIN q /\ k + 1 # 1 /\ 1 < k + 1 /\ t[k] = q[k + 1]
  <2>1. \A k \in DOMAIN Tail(q) : 1 < k + 1
    OBVIOUS
  <2> QED
    BY <1>1, <2>1 DEF t
<1>3. ASSUME NEW i \in DOMAIN t, NEW j \in DOMAIN t, NEW k \in DOMAIN t, i < j, j < k
      PROVE  ~(Marked(t[i]) /\ t[j] = Timer /\ t[k] = Timer)
  <2>1. i + 1 < j + 1 /\ j + 1 < k + 1
    BY <1>2, <1>3
  <2> QED
    BY <1>2, <2>1 DEF Timers
<1>4. ASSUME on, NEW i \in DOMAIN t, NEW j \in DOMAIN t, i < j
      PROVE  ~(Marked(t[i]) /\ t[j] = Timer)
  <2>1. i + 1 < j + 1
    BY <1>2, <1>4
  <2> QED
    BY <1>2, <1>4, <2>1 DEF Timers
<1>5. ASSUME Head(q) \in FromRuntime, \A k \in DOMAIN q : k # 1 => q[k] \notin FromRuntime,
             NEW i \in DOMAIN t, NEW j \in DOMAIN t, i < j
      PROVE  ~(Marked(t[i]) /\ t[j] = Timer)
  <2>1. 1 < i + 1 /\ i + 1 < j + 1 /\ Marked(q[1])
    BY <1>1, <1>2, <1>5 DEF Marked
  <2>2. ~(q[i + 1] = Timer /\ q[j + 1] = Timer)
    BY <1>1, <1>2, <2>1 DEF Timers
  <2> QED
    BY <1>2, <1>5, <2>2 DEF Marked
<1>6. Timers(t, on)
  BY <1>3, <1>4, Zenon DEF Timers
<1>7. (Head(q) \in FromRuntime /\ \A k \in DOMAIN q : k # 1 => q[k] \notin FromRuntime)
        => Timers(t, TRUE)
  BY <1>3, <1>5, Zenon DEF Timers
<1> QED
  BY <1>6, <1>7 DEF t

LEMMA TimersAppend ==
  ASSUME NEW q \in Seq(Line), NEW x \in Line, NEW on \in BOOLEAN, Timers(q, on)
  PROVE  /\ Timers(q, FALSE)
         /\ x # Timer => Timers(Append(q, x), on)
         /\ on => Timers(Append(q, Timer), FALSE)
<1>0. Timers(q, FALSE)
  BY Zenon DEF Timers
<1>1. ASSUME NEW y \in Line,
             NEW i \in DOMAIN Append(q, y), NEW j \in DOMAIN Append(q, y), i < j
      PROVE  /\ i \in DOMAIN q /\ Append(q, y)[i] = q[i]
             /\ (j \in DOMAIN q /\ Append(q, y)[j] = q[j]) \/ (j = Len(q) + 1 /\ Append(q, y)[j] = y)
  BY <1>1, AppendIndex
<1>2. ASSUME x # Timer PROVE Timers(Append(q, x), on)
  <2> DEFINE t == Append(q, x)
  <2>1. ASSUME NEW i \in DOMAIN t, NEW j \in DOMAIN t, i < j
        PROVE  /\ i \in DOMAIN q /\ t[i] = q[i]
               /\ (j \in DOMAIN q /\ t[j] = q[j]) \/ t[j] # Timer
    BY <1>1, <1>2, <2>1
  <2> HIDE DEF t
  <2>2. ASSUME NEW i \in DOMAIN t, NEW j \in DOMAIN t, NEW k \in DOMAIN t, i < j, j < k
        PROVE  ~(Marked(t[i]) /\ t[j] = Timer /\ t[k] = Timer)
    BY <2>1, <2>2 DEF Timers
  <2>3. ASSUME on, NEW i \in DOMAIN t, NEW j \in DOMAIN t, i < j
        PROVE  ~(Marked(t[i]) /\ t[j] = Timer)
    BY <2>1, <2>3 DEF Timers
  <2>4. Timers(t, on)
    BY <2>2, <2>3, Zenon DEF Timers
  <2> QED
    BY <2>4 DEF t
<1>3. ASSUME on PROVE Timers(Append(q, Timer), FALSE)
  <2> DEFINE t == Append(q, Timer)
  <2>0. Timer \in Line
    BY DEF Line
  <2>1. ASSUME NEW i \in DOMAIN t, NEW j \in DOMAIN t, i < j
        PROVE  i \in DOMAIN q /\ t[i] = q[i]
    BY <1>1, <2>0, <2>1
  <2> HIDE DEF t
  <2>2. ASSUME NEW i \in DOMAIN t, NEW j \in DOMAIN t, NEW k \in DOMAIN t, i < j, j < k
        PROVE  ~(Marked(t[i]) /\ t[j] = Timer /\ t[k] = Timer)
    BY <1>3, <2>1, <2>2 DEF Timers
  <2>3. Timers(t, FALSE)
    BY <2>2, Zenon DEF Timers
  <2> QED
    BY <2>3 DEF t
<1> QED
  BY <1>0, <1>2, <1>3

TimerInv == Timers(ops, armed)

LEMMA TimerStep ==
  ASSUME Shapes, LineInv, TimerInv, [Next]_vars
  PROVE  TimerInv'
<1> USE DEF subscription, coalescer, store
<1>0. ops \in Seq(Line) /\ armed \in BOOLEAN /\ Timers(ops, armed) /\ Timer \in Line
  BY DEF Shapes, LineShapes, TimerInv, Line
<1>1. CASE \/ UNCHANGED vars \/ RuntimeEnds \/ Connect \/ SkipKnown \/ Disconnect \/ WatchIdle
           \/ RouteBoundary \/ RouteErrors \/ RepairReads \/ Repairs
           \/ \E q \in Asks : AskMissed(q)
           \/ \E a \in Appenders : Appends(a)
           \/ \E w \in Writers : WriterStarts(w) \/ WriterReturns(w) \/ WriterFails(w)
  <2>1. UNCHANGED <<ops, armed>>
    BY <1>1 DEF vars, RuntimeEnds, Connect, SkipKnown, Disconnect, WatchIdle, RouteBoundary,
                RouteErrors, RepairReads, Repairs, RepairWrites, RepairRefused, RepairReturns,
                AskMissed, Appends, Commit, CacheView, WriterStarts, WriterReturns, WriterFails
  <2> QED
    BY <2>1 DEF TimerInv
<1>2. ASSUME NEW x \in Line, x # Timer, ops' = Append(ops, x), armed' = armed
      PROVE  TimerInv'
  <2>1. Timers(Append(ops, x), armed)
    BY <1>0, <1>2, TimersAppend
  <2> QED
    BY <1>2, <2>1 DEF TimerInv
<1>3. ASSUME NEW q \in Asks, AskHeard(q) PROVE TimerInv'
  <2>1. q \in Line /\ q # Timer
    BY ConstantTypes DEF Line, Timer
  <2> QED
    BY <1>2, <1>3, <2>1 DEF AskHeard
<1>4. ASSUME NEW i, NEW by, Ingest(i, by), i \in Nat PROVE TimerInv'
  <2>1. i \in Line /\ i # Timer
    BY <1>4, ConstantTypes DEF Ingest, Line, FromRuntime, Events, Timer, Shapes, FeedShapes
  <2> QED
    BY <1>2, <1>4, <2>1 DEF Ingest
<1>5. CASE StreamDelivers
  BY <1>4, <1>5 DEF StreamDelivers, Shapes, FeedShapes
<1>6. CASE HistoryDelivers
  <2>1. cursor + 1 \in Nat
    BY DEF Shapes, FeedShapes
  <2> QED
    BY <1>4, <1>6, <2>1 DEF HistoryDelivers
<1>7. CASE DeliverIdle
  <2>1. IdleEvent \in Line /\ IdleEvent # Timer
    BY ConstantTypes DEF Line, FromRuntime, IdleEvent, Timer
  <2> QED
    BY <1>2, <1>7, <2>1 DEF DeliverIdle
<1>8. CASE TimerFires
  <2>1. ops' = Append(ops, Timer) /\ armed /\ armed' = FALSE
    BY <1>8, Zenon DEF TimerFires
  <2>2. Timers(Append(ops, Timer), FALSE)
    BY <1>0, <2>1, TimersAppend
  <2> QED
    BY <2>1, <2>2, Zenon DEF TimerInv
<1>9. CASE FlushSession
  <2>1. ops' = ops /\ armed' = FALSE
    BY <1>9, Zenon DEF FlushSession
  <2>2. Timers(ops, FALSE)
    BY <1>0, TimersAppend
  <2> QED
    BY <2>1, <2>2, Zenon DEF TimerInv
<1>10. ASSUME ops # <<>>, ops' = Tail(ops), armed' = armed PROVE TimerInv'
  <2>1. Timers(Tail(ops), armed)
    BY <1>0, <1>10, TimersTail
  <2> QED
    BY <1>10, <2>1, Zenon DEF TimerInv
<1>11. CASE TimerEnds
  BY <1>10, <1>11 DEF TimerEnds, Turn
<1>12. CASE Buffer
  <2>1. ops # <<>> /\ IsDelta(Op) /\ ops' = Tail(ops)
    BY <1>12 DEF Buffer, Turn, Joins
  <2>2. Head(ops) \in FromRuntime /\ Head(ops) = ops[1] /\ 1 \in DOMAIN ops
    BY <1>0, <2>1, TailIndex DEF IsDelta, Op, FromRuntime
  <2>3. \A k \in DOMAIN ops : k # 1 => ops[k] \notin FromRuntime
    BY <2>2 DEF LineInv, Apart
  <2>4. Timers(Tail(ops), TRUE)
    BY <1>0, <2>1, <2>2, <2>3, TimersTail
  <2>5. Timers(Tail(ops), armed')
    BY <2>4, Zenon DEF Timers
  <2> QED
    BY <2>1, <2>5, Zenon DEF TimerInv
<1>13. CASE RouteReturns \/ RouteSwallows
  <2>1. CASE act[Runtime].entry = <<Op>>
    <3>1. ops # <<>>
      BY <1>13, <2>1, RouteOp DEF RouteReturns, RouteSwallows
    <3> QED
      BY <1>10, <1>13, <2>1, <3>1 DEF RouteReturns, RouteSwallows
  <2>2. CASE act[Runtime].entry # <<Op>>
    BY <1>13, <2>2 DEF RouteReturns, RouteSwallows, TimerInv
  <2> QED
    BY <2>1, <2>2
<1>14. CASE RouteGivesUp
  <2>1. ops # <<>>
    BY <1>14, RouteOp DEF RouteGivesUp
  <2> QED
    BY <1>10, <1>14, <2>1 DEF RouteGivesUp
<1> QED
  BY <1>1, <1>3, <1>5, <1>6, <1>7, <1>8, <1>9, <1>11, <1>12, <1>13, <1>14
  DEF Next, Subscribes, Monitors, Coalesces

\* With an armed timer counted as one, at most one flush of the timer stands
\* behind an event in the coalescer's line, and at most two stand there in all.
THEOREM TimersHold == Spec => []TimerInv
<1>1. ASSUME Shapes, LineInv, TimerInv, [Next]_vars PROVE TimerInv'
  BY <1>1, TimerStep
<1>2. Init => TimerInv
  <2> SUFFICES ASSUME Init PROVE Timers(ops, armed)
    BY DEF TimerInv
  <2>1. DOMAIN ops = {}
    BY DEF Init
  <2> QED
    BY <2>1, Zenon DEF Timers
<1> QED
  BY <1>1, <1>2, ShapesHold, LineHolds, PTL DEF Spec

\* The line holds one event, every ask once and two flushes.
LEMMA LineIsShort ==
  ASSUME LineShapes, LineInv, TimerInv
  PROVE  Len(ops) <= 3 + Cardinality(Asks)
<1> DEFINE D == DOMAIN ops
           E == {k \in D : ops[k] \in FromRuntime}
           T == {k \in D : ops[k] = Timer}
           A == {k \in D : ops[k] \in Asks}
<1>0. ops \in Seq(Line) /\ IsFiniteSet(Asks) /\ Len(ops) \in Nat /\ D = 1 .. Len(ops)
  BY EventConstants DEF LineShapes
<1>1. IsFiniteSet(D) /\ Cardinality(D) = Len(ops)
  <2>1. IsFiniteSet(1 .. Len(ops)) /\ Cardinality(1 .. Len(ops)) = Len(ops)
    BY <1>0, FS_Interval
  <2> QED
    BY <1>0, <2>1
<1>2. D = (E \cup T) \cup A
  BY <1>0 DEF Line
<1>3. IsFiniteSet(E) /\ Cardinality(E) <= 1
  <2>1. CASE E = {}
    BY <2>1, FS_EmptySet
  <2>2. CASE E # {}
    <3>1. PICK a : a \in E
      BY <2>2
    <3>2. E = {a}
      BY <3>1 DEF LineInv, Apart
    <3> QED
      BY <3>2, FS_Singleton
  <2> QED
    BY <2>1, <2>2
<1>4. IsFiniteSet(T) /\ Cardinality(T) <= 2
  <2>0. \A i, j, k \in T : i = j \/ j = k \/ i = k
    <3> SUFFICES ASSUME NEW i \in T, NEW j \in T, NEW k \in T, i # j, j # k, i # k
                 PROVE  FALSE
      OBVIOUS
    <3>1. \A x, y, z \in T : x < y /\ y < z => FALSE
      BY DEF TimerInv, Timers, Marked
    <3>2. i \in Nat /\ j \in Nat /\ k \in Nat
      BY <1>0
    <3> HIDE DEF T
    <3>3. \/ (i < j /\ j < k) \/ (i < k /\ k < j) \/ (j < i /\ i < k)
          \/ (j < k /\ k < i) \/ (k < i /\ i < j) \/ (k < j /\ j < i)
      BY <3>2
    <3> QED
      BY <3>1, <3>3
  <2> HIDE DEF T
  <2>1. CASE T = {}
    BY <2>1, FS_EmptySet
  <2>2. CASE T # {}
    <3>1. PICK a : a \in T
      BY <2>2
    <3>2. CASE T = {a}
      BY <3>2, FS_Singleton
    <3>3. CASE T # {a}
      <4>1. PICK b : b \in T /\ b # a
        BY <3>1, <3>3
      <4>2. T = {a} \cup {b}
        BY <2>0, <3>1, <4>1
      <4>3. IsFiniteSet({a}) /\ Cardinality({a}) = 1 /\ b \notin {a}
        BY <4>1, FS_Singleton
      <4>4. IsFiniteSet({a} \cup {b}) /\ Cardinality({a} \cup {b}) = Cardinality({a}) + 1
        BY <4>3, FS_AddElement
      <4> QED
        BY <4>2, <4>3, <4>4
    <3> QED
      BY <3>2, <3>3
  <2> QED
    BY <2>1, <2>2
<1>5. IsFiniteSet(A) /\ Cardinality(A) <= Cardinality(Asks)
  <2>1. IsFiniteSet(A)
    <3>1. A \subseteq D
      OBVIOUS
    <3> HIDE DEF A, D
    <3> QED
      BY <1>1, <3>1, FS_Subset
  <2> DEFINE f == [k \in A |-> ops[k]]
  <2>2. f \in Injection(A, Asks)
    <3>1. f \in [A -> Asks]
      OBVIOUS
    <3>2. \A x, y \in A : f[x] = f[y] => x = y
      BY DEF LineInv, Apart
    <3> HIDE DEF f, A
    <3> QED
      BY <3>1, <3>2 DEF Injection, IsInjective
  <2>3. Cardinality(A) <= Cardinality(Asks)
    <3> HIDE DEF f, A
    <3> QED
      BY <1>0, <2>2, FS_Injection
  <2> QED
    BY <2>1, <2>3
<1> HIDE DEF E, T, A, D
<1>6. IsFiniteSet(E \cup T) /\ Cardinality(E \cup T) <= 3
  <2>1. /\ IsFiniteSet(E \cup T) /\ IsFiniteSet(E \cap T)
        /\ Cardinality(E \cup T) = Cardinality(E) + Cardinality(T) - Cardinality(E \cap T)
    BY <1>3, <1>4, FS_Union, FS_Intersection
  <2>2. Cardinality(E) \in Nat /\ Cardinality(T) \in Nat /\ Cardinality(E \cap T) \in Nat
    BY <1>3, <1>4, <2>1, FS_CardinalityType
  <2> QED
    BY <1>3, <1>4, <2>1, <2>2
<1>7. Cardinality(D) <= 3 + Cardinality(Asks)
  <2> DEFINE U == E \cup T
  <2>0. IsFiniteSet(U) /\ Cardinality(U) <= 3 /\ D = U \cup A
    BY <1>2, <1>6
  <2> HIDE DEF U
  <2>1. /\ IsFiniteSet(U \cap A)
        /\ Cardinality(U \cup A) = Cardinality(U) + Cardinality(A) - Cardinality(U \cap A)
    BY <1>5, <2>0, FS_Union, FS_Intersection
  <2>2. /\ Cardinality(U) \in Nat /\ Cardinality(A) \in Nat
        /\ Cardinality(U \cap A) \in Nat /\ Cardinality(Asks) \in Nat
    BY <1>0, <1>5, <2>0, <2>1, FS_CardinalityType
  <2> QED
    BY <1>5, <2>0, <2>1, <2>2
<1> QED
  BY <1>1, <1>7
-----------------------------------------------------------------------------
(* What the coalescer routes *)

\* q holds text deltas in their order that the cursor c has passed
Passed(q, c) ==
  /\ \A i, j \in DOMAIN q : i < j => q[i] < q[j]
  /\ \A i \in DOMAIN q : IsDelta(q[i]) /\ q[i] <= c

\* The coalescer awaits the route of a buffer it flushes, or of the operation
\* it works on.
Flushing ==
  /\ act[Runtime].pc # "none"
  /\ act[Runtime].entry # <<>> /\ Passed(act[Runtime].entry, cursor)

Routing ==
  /\ act[Runtime].pc # "none"
  /\ act[Runtime].entry = <<Op>> /\ ~IsDelta(Op) /\ Op # Timer

RouteInv ==
  /\ Passed(pending, cursor)
  /\ act[Runtime].pc # "done"
  /\ act[Runtime].pc = "none" => act[Runtime].entry = <<>>
  /\ act[Runtime].pc # "none" => pending = <<>> /\ (Flushing \/ Routing)
  /\ dropped \subseteq Events \cup Asks
  /\ swallowed \subseteq Events \cup {IdleEvent} \cup Asks

\* a step that the buffer and the route do not notice
Quiet ==
  /\ UNCHANGED <<pending, cursor>> /\ act'[Runtime].entry = act[Runtime].entry
  /\ act'[Runtime].pc = "none" <=> act[Runtime].pc = "none"
  /\ act[Runtime].pc # "done" => act'[Runtime].pc # "done"
  /\ act[Runtime].pc # "none" => Op' = Op
  /\ dropped \subseteq dropped' /\ dropped' \subseteq dropped \cup Asks
  /\ swallowed' = swallowed

\* and that appends nothing
Still ==
  /\ log' = log
  /\ act[Runtime].pc = "commit" => act'[Runtime].pc = "commit"
  /\ act'[Runtime].pc \in {"cache", "summary"} => act[Runtime].pc \in {"cache", "summary"}

LEMMA QuietCommit ==
  ASSUME Shapes, NEW a \in Appenders, Commit(a)
  PROVE  Quiet
<1>0. act[a] \in ActRows /\ Runtime \in Appenders
  BY ConstantTypes DEF Shapes, ActShapes
<1> DEFINE r == [act[a] EXCEPT !.pc = "cache", !.seq = projection'.seq, !.view = projection'.view]
<1>1. r.pc = "cache" /\ r.entry = act[a].entry
  BY <1>0 DEF ActRows
<1>2. /\ act' = [act EXCEPT ![a] = r] /\ act[a].pc = "commit"
      /\ UNCHANGED <<pending, cursor, ops, dropped, swallowed>>
  BY DEF Commit, subscription, coalescer
<1> HIDE DEF r
<1>3. CASE a = Runtime
  <2>1. act'[Runtime] = r
    BY <1>0, <1>2, <1>3 DEF Shapes, ActShapes
  <2> QED
    BY <1>1, <1>2, <1>3, <2>1 DEF Quiet, Op
<1>4. CASE a # Runtime
  <2>1. act'[Runtime] = act[Runtime]
    BY <1>0, <1>2, <1>4 DEF Shapes, ActShapes
  <2> QED
    BY <1>2, <2>1 DEF Quiet, Op
<1> QED
  BY <1>3, <1>4

LEMMA QuietSteps ==
  ASSUME Shapes,
         \/ UNCHANGED vars \/ RuntimeEnds \/ Subscribes \/ Disconnect \/ Monitors
         \/ TimerEnds \/ TimerFires \/ RouteErrors \/ RepairReads \/ Repairs
         \/ \E q \in Asks : AskHeard(q) \/ AskMissed(q)
         \/ \E a \in Appenders : CacheView(a)
         \/ \E w \in Writers : WriterStarts(w) \/ WriterReturns(w) \/ WriterFails(w)
  PROVE  Quiet /\ Still
<1> USE DEF subscription, coalescer, store
<1>0. /\ Runtime \in Appenders /\ ops \in Seq(Line) /\ DOMAIN act = Appenders
      /\ (act[Runtime].pc # "none" => ops # <<>>) /\ \A a \in Appenders : act[a] \in ActRows
  BY ConstantTypes DEF Shapes, ActShapes, LineShapes, Busy
<1>1. \A x : ops # <<>> => Head(Append(ops, x)) = Head(ops)
  BY <1>0
<1>2. ASSUME UNCHANGED <<log, pending, cursor, act, swallowed>>,
             dropped \subseteq dropped', dropped' \subseteq dropped \cup Asks,
             ops' = ops \/ (\E x : ops' = Append(ops, x)) \/ act[Runtime].pc = "none"
      PROVE  Quiet /\ Still
  <2>1. act[Runtime].pc # "none" => Op' = Op
    BY <1>0, <1>1, <1>2 DEF Op
  <2> QED
    BY <1>2, <2>1, Zenon DEF Quiet, Still
<1>3. CASE \/ UNCHANGED vars \/ RuntimeEnds \/ Connect \/ SkipKnown \/ Disconnect \/ WatchIdle
           \/ RepairReads \/ Repairs
  <2>1. UNCHANGED <<log, pending, cursor, act, dropped, swallowed, ops>>
    BY <1>3 DEF vars, RuntimeEnds, Connect, SkipKnown, Disconnect, WatchIdle,
                RepairReads, Repairs, RepairWrites, RepairRefused, RepairReturns, Upsert
  <2> QED
    BY <1>2, <2>1
<1>4. CASE StreamDelivers
  BY <1>2, <1>4 DEF StreamDelivers, Ingest
<1>5. CASE HistoryDelivers
  BY <1>2, <1>5 DEF HistoryDelivers, Ingest
<1>6. CASE DeliverIdle
  BY <1>2, <1>6 DEF DeliverIdle
<1>7. CASE TimerEnds
  BY <1>2, <1>7 DEF TimerEnds, Turn
<1>8. CASE TimerFires
  BY <1>2, <1>8 DEF TimerFires
<1>9. ASSUME NEW q \in Asks, AskHeard(q) \/ AskMissed(q) PROVE Quiet /\ Still
  <2>1. CASE AskHeard(q)
    BY <1>2, <2>1 DEF AskHeard
  <2>2. CASE AskMissed(q)
    BY <1>2, <2>2 DEF AskMissed
  <2> QED
    BY <1>9, <2>1, <2>2
<1>10. ASSUME UNCHANGED <<log, pending, cursor, dropped, swallowed, ops>>, act'[Runtime] = act[Runtime]
       PROVE  Quiet /\ Still
  BY <1>10 DEF Quiet, Still, Op
<1>11. ASSUME NEW w \in Writers, WriterStarts(w) \/ WriterReturns(w) \/ WriterFails(w)
       PROVE  Quiet /\ Still
  <2>1. Runtime # w
    BY EventConstants
  <2>2. UNCHANGED <<log, pending, cursor, dropped, swallowed, ops>>
    BY <1>11 DEF WriterStarts, WriterReturns, WriterFails, Upsert
  <2>3. act'[Runtime] = act[Runtime]
    BY <1>0, <1>11, <2>1 DEF WriterStarts, WriterReturns, WriterFails
  <2> QED
    BY <1>10, <2>2, <2>3
<1>12. ASSUME NEW c \in {"commit", "summary"},
              act'[Runtime] = [act[Runtime] EXCEPT !.pc = c], act[Runtime].pc # "none",
              act[Runtime].pc = "commit" => c = "commit",
              c = "summary" => act[Runtime].pc = "cache",
              UNCHANGED <<log, pending, cursor, dropped, swallowed, ops>>
       PROVE  Quiet /\ Still
  <2>1. act'[Runtime].pc = c /\ act'[Runtime].entry = act[Runtime].entry
    BY <1>0, <1>12 DEF ActRows
  <2> QED
    BY <1>12, <2>1 DEF Quiet, Still, Op
<1>13. CASE RouteErrors
  <2>1. act'[Runtime] = [act[Runtime] EXCEPT !.pc = "commit"]
    BY <1>0, <1>13 DEF RouteErrors
  <2> QED
    BY <1>12, <1>13, <2>1 DEF RouteErrors
<1>14. ASSUME NEW a \in Appenders, CacheView(a) PROVE Quiet /\ Still
  <2>1. CASE a = Runtime
    <3>1. act'[Runtime] = [act[Runtime] EXCEPT !.pc = "summary"] /\ act[Runtime].pc = "cache"
      BY <1>0, <1>14, <2>1 DEF CacheView
    <3> QED
      BY <1>12, <1>14, <3>1 DEF CacheView
  <2>2. CASE a # Runtime
    <3>1. act'[Runtime] = act[Runtime]
      BY <1>0, <1>14, <2>2 DEF CacheView
    <3> QED
      BY <1>10, <1>14, <3>1 DEF CacheView
  <2> QED
    BY <2>1, <2>2
<1> QED
  BY <1>3, <1>4, <1>5, <1>6, <1>7, <1>8, <1>9, <1>11, <1>13, <1>14 DEF Subscribes, Monitors
\* The event at the head of the line is the next one.
LEMMA HeadFits ==
  ASSUME Shapes, LineInv, ops # <<>>
  PROVE  /\ Op \in FromRuntime => Op = cursor + 1
         /\ Op \in Events => Op = ingest.event
         /\ Op \in Line
<1>1. Op = ops[1] /\ 1 \in DOMAIN ops
  BY TailIndex DEF Shapes, LineShapes, Op
<1>2. Fits(Op, cursor, ingest.event, monitor, asked)
  BY <1>1 DEF LineInv
<1>3. Op \in Line
  BY OpTyped DEF Shapes
<1> QED
  BY <1>2, <1>3 DEF Fits

LEMMA BufferFacts ==
  ASSUME Shapes, LineInv, Buffer
  PROVE  /\ IsDelta(cursor + 1) /\ cursor' = cursor + 1
         /\ pending' = Append(pending, cursor + 1) /\ act[Runtime].pc = "none"
         /\ UNCHANGED <<act, log, dropped, swallowed>>
<1>1. /\ ops # <<>> /\ IsDelta(Op) /\ Resolved(Op) /\ pending' = Append(pending, Op)
      /\ act[Runtime].pc = "none" /\ UNCHANGED <<act, log, dropped, swallowed>>
  BY DEF Buffer, Turn, Joins, store
<1>2. Op \in Events /\ Op = cursor + 1 /\ Op = ingest.event
  BY <1>1, HeadFits DEF IsDelta, FromRuntime
<1>3. cursor' = Op
  BY <1>1, <1>2 DEF Resolved
<1> QED
  BY <1>1, <1>2, <1>3

\* What the coalescer does once a route has returned, whether it stored or not.
LEMMA EndFacts ==
  ASSUME Shapes, FeedInv, act[Runtime].pc # "none", act' = [act EXCEPT ![Runtime] = NoAct],
         IF act[Runtime].entry = <<Op>>
         THEN ops' = Tail(ops) /\ Resolved(Op)
         ELSE UNCHANGED <<ops, subscription>>
  PROVE  /\ act'[Runtime].pc = "none" /\ act'[Runtime].entry = <<>>
         /\ \/ cursor' = cursor
            \/ cursor' = cursor + 1 /\ act[Runtime].entry = <<cursor + 1>>
<1>0. Runtime \in Appenders /\ DOMAIN act = Appenders
  BY ConstantTypes DEF Shapes, ActShapes
<1>1. act'[Runtime] = NoAct
  BY <1>0
<1>2. ops # <<>> /\ (act[Runtime].entry = <<Op>> => Op # Timer)
  BY RouteOp
<1>3. CASE act[Runtime].entry = <<Op>>
  <2>1. Resolved(Op)
    BY <1>3
  <2>2. CASE Op = ingest.event
    <3>1. cursor' = Op
      BY <2>1, <2>2 DEF Resolved
    <3>2. Op # 0
      BY <1>2, <1>3 DEF Timer
    <3>3. Op = cursor + 1
      BY <2>2, <3>2 DEF FeedInv
    <3> QED
      BY <1>1, <1>3, <3>1, <3>3, RowTypes
  <2>3. CASE Op # ingest.event
    BY <1>1, <2>1, <2>3, RowTypes DEF Resolved
  <2> QED
    BY <2>2, <2>3
<1>4. CASE act[Runtime].entry # <<Op>>
  BY <1>1, <1>4, RowTypes DEF subscription
<1> QED
  BY <1>3, <1>4

LEMMA ReturnFacts ==
  ASSUME Shapes, FeedInv, RouteReturns
  PROVE  /\ act[Runtime].pc = "summary" /\ UNCHANGED <<pending, log, dropped, swallowed>>
         /\ act'[Runtime].pc = "none" /\ act'[Runtime].entry = <<>>
         /\ \/ cursor' = cursor
            \/ cursor' = cursor + 1 /\ act[Runtime].entry = <<cursor + 1>>
<1>1. /\ act[Runtime].pc = "summary" /\ UNCHANGED <<pending, log, dropped, swallowed>>
      /\ act[Runtime].pc # "none" /\ act' = [act EXCEPT ![Runtime] = NoAct]
      /\ IF act[Runtime].entry = <<Op>>
         THEN ops' = Tail(ops) /\ Resolved(Op)
         ELSE UNCHANGED <<ops, subscription>>
  BY DEF RouteReturns, Upsert
<1> QED
  BY <1>1, EndFacts

LEMMA SwallowFacts ==
  ASSUME Shapes, FeedInv, RouteSwallows
  PROVE  /\ act[Runtime].pc = "commit" /\ UNCHANGED <<pending, log, dropped>>
         /\ swallowed' = Swallows(act[Runtime].entry)
         /\ act'[Runtime].pc = "none" /\ act'[Runtime].entry = <<>>
         /\ \/ cursor' = cursor
            \/ cursor' = cursor + 1 /\ act[Runtime].entry = <<cursor + 1>>
<1>1. /\ act[Runtime].pc = "commit" /\ UNCHANGED <<pending, log, dropped>>
      /\ swallowed' = Swallows(act[Runtime].entry)
      /\ act[Runtime].pc # "none" /\ act' = [act EXCEPT ![Runtime] = NoAct]
      /\ IF act[Runtime].entry = <<Op>>
         THEN ops' = Tail(ops) /\ Resolved(Op)
         ELSE UNCHANGED <<ops, subscription>>
  BY DEF RouteSwallows
<1> QED
  BY <1>1, EndFacts

LEMMA GiveUpFacts ==
  ASSUME Shapes, RouteGivesUp
  PROVE  /\ act[Runtime].pc # "none" /\ ops # <<>> /\ UNCHANGED <<pending, log, cursor, swallowed>>
         /\ act'[Runtime].pc = "none" /\ act'[Runtime].entry = <<>>
         /\ dropped \subseteq dropped'
         /\ Known(act[Runtime].entry) => dropped' = dropped
         /\ ~Known(act[Runtime].entry) =>
              /\ ToSet(act[Runtime].entry) \ {Op} \subseteq dropped'
              /\ dropped' \subseteq dropped \cup (ToSet(act[Runtime].entry) \ {Op}) \cup Asks
<1>0. Runtime \in Appenders /\ DOMAIN act = Appenders
  BY ConstantTypes DEF Shapes, ActShapes
<1>1. /\ act'[Runtime] = NoAct /\ act[Runtime].pc # "none" /\ UNCHANGED <<pending, log, swallowed>>
      /\ Rejected(Op)
      /\ dropped' = IF Known(act[Runtime].entry) THEN dropped
                    ELSE dropped \cup (ToSet(act[Runtime].entry) \ Redelivered)
                                 \cup ({Op} \cap Asks)
  BY <1>0 DEF RouteGivesUp
<1>2. ops # <<>> /\ cursor' = cursor
  BY <1>1, RouteOp DEF Rejected
<1>3. /\ dropped \subseteq dropped'
      /\ Known(act[Runtime].entry) => dropped' = dropped
      /\ ~Known(act[Runtime].entry) =>
           /\ ToSet(act[Runtime].entry) \ {Op} \subseteq dropped'
           /\ dropped' \subseteq dropped \cup (ToSet(act[Runtime].entry) \ {Op}) \cup Asks
  BY <1>1 DEF Redelivered
<1> QED
  BY <1>1, <1>2, <1>3, RowTypes

LEMMA RouteInit == Init => RouteInv
<1> SUFFICES ASSUME Init PROVE RouteInv
  OBVIOUS
<1>1. act[Runtime] = NoAct /\ pending = <<>> /\ dropped = {} /\ swallowed = {}
  BY ConstantTypes, EventConstants DEF Init
<1>2. Passed(pending, cursor)
  BY <1>1 DEF Passed
<1> QED
  BY <1>1, <1>2, RowTypes DEF RouteInv

LEMMA RouteStep ==
  ASSUME Shapes, FeedInv, LineInv, RouteInv, [Next]_vars
  PROVE  RouteInv'
<1>0. /\ cursor \in Nat /\ pending \in Seq(Events) /\ Events \subseteq Nat /\ Runtime \in Appenders
      /\ DOMAIN act = Appenders /\ pending \in Seq(Atoms) /\ act[Runtime].entry \in Seq(Atoms)
  <2>1. pending \in Seq(Events) /\ Events \subseteq Atoms
    BY ConstantTypes DEF Shapes, LineShapes
  <2>2. pending \in Seq(Atoms)
    BY <2>1
  <2> QED
    BY <2>2, ConstantTypes DEF Shapes, FeedShapes, LineShapes, ActShapes, ActRows
<1>1. ASSUME Quiet PROVE RouteInv'
  <2>1. /\ Passed(pending', cursor') /\ dropped' \subseteq Events \cup Asks
        /\ swallowed' \subseteq Events \cup {IdleEvent} \cup Asks
    BY <1>1 DEF Quiet, RouteInv
  <2>2. act'[Runtime].pc # "done" /\ (act'[Runtime].pc = "none" => act'[Runtime].entry = <<>>)
    BY <1>1 DEF Quiet, RouteInv
  <2>3. ASSUME act'[Runtime].pc # "none" PROVE pending' = <<>> /\ (Flushing' \/ Routing')
    <3>1. act[Runtime].pc # "none" /\ pending' = <<>> /\ cursor' = cursor /\ Op' = Op
          /\ act'[Runtime].entry = act[Runtime].entry
      BY <1>1, <2>3 DEF Quiet, RouteInv
    <3>2. CASE Flushing
      BY <2>3, <3>1, <3>2 DEF Flushing
    <3>3. CASE Routing
      BY <2>3, <3>1, <3>3, Zenon DEF Routing, IsDelta
    <3> QED
      BY <3>1, <3>2, <3>3 DEF RouteInv
  <2> QED
    BY <2>1, <2>2, <2>3 DEF RouteInv
<1>2. CASE \E a \in Appenders : Commit(a)
  BY <1>1, <1>2, QuietCommit
<1>3. CASE \/ UNCHANGED vars \/ RuntimeEnds \/ Subscribes \/ Disconnect \/ Monitors
           \/ TimerEnds \/ TimerFires \/ RouteErrors \/ RepairReads \/ Repairs
           \/ \E q \in Asks : AskHeard(q) \/ AskMissed(q)
           \/ \E a \in Appenders : CacheView(a)
           \/ \E w \in Writers : WriterStarts(w) \/ WriterReturns(w) \/ WriterFails(w)
  BY <1>1, <1>3, QuietSteps
<1>4. CASE Buffer
  <2>1. /\ IsDelta(cursor + 1) /\ cursor' = cursor + 1
        /\ pending' = Append(pending, cursor + 1) /\ act[Runtime].pc = "none"
        /\ UNCHANGED <<act, log, dropped, swallowed>>
    BY <1>4, BufferFacts
  <2>2. /\ DOMAIN pending' = 1 .. Len(pending) + 1 /\ DOMAIN pending = 1 .. Len(pending)
        /\ Len(pending) \in Nat /\ pending'[Len(pending) + 1] = cursor + 1
        /\ \A i \in 1 .. Len(pending) : pending'[i] = pending[i] /\ pending[i] \in Nat
    <3>1. cursor + 1 \in Events /\ pending \in Seq(Events)
      BY <1>0, <2>1 DEF IsDelta
    <3>2. /\ DOMAIN Append(pending, cursor + 1) = 1 .. Len(pending) + 1
          /\ DOMAIN pending = 1 .. Len(pending)
          /\ Len(pending) \in Nat /\ Append(pending, cursor + 1)[Len(pending) + 1] = cursor + 1
          /\ \A i \in 1 .. Len(pending) :
               Append(pending, cursor + 1)[i] = pending[i] /\ pending[i] \in Events
      BY <3>1
    <3> QED
      BY <1>0, <2>1, <3>2
  <2>3. ASSUME NEW i \in DOMAIN pending' PROVE IsDelta(pending'[i]) /\ pending'[i] <= cursor'
    <3>1. CASE i = Len(pending) + 1
      BY <1>0, <2>1, <2>2, <3>1
    <3>2. CASE i \in 1 .. Len(pending)
      <4>1. IsDelta(pending[i]) /\ pending[i] <= cursor
        BY <2>2, <3>2 DEF RouteInv, Passed
      <4> QED
        BY <1>0, <2>1, <2>2, <3>2, <4>1
    <3> QED
      BY <2>2, <3>1, <3>2
  <2>4. ASSUME NEW i \in DOMAIN pending', NEW j \in DOMAIN pending', i < j
        PROVE  pending'[i] < pending'[j]
    <3>1. i \in 1 .. Len(pending)
      BY <2>2, <2>4
    <3>2. CASE j = Len(pending) + 1
      <4>1. pending[i] <= cursor
        BY <2>2, <3>1 DEF RouteInv, Passed
      <4> QED
        BY <1>0, <2>2, <3>1, <3>2, <4>1
    <3>3. CASE j \in 1 .. Len(pending)
      <4>1. pending[i] < pending[j]
        BY <2>2, <2>4, <3>1, <3>3 DEF RouteInv, Passed
      <4> QED
        BY <2>2, <3>1, <3>3, <4>1
    <3> QED
      BY <2>2, <3>2, <3>3
  <2>5. Passed(pending', cursor')
    BY <2>3, <2>4 DEF Passed
  <2> QED
    BY <2>1, <2>5 DEF RouteInv
<1>5. CASE FlushSession
  <2>1. /\ act'[Runtime] = Starting(pending) /\ pending' = <<>> /\ pending # <<>>
        /\ UNCHANGED <<cursor, dropped, swallowed>>
    BY <1>0, <1>5 DEF FlushSession, MustFlush, subscription
  <2>2. act'[Runtime].pc = "commit" /\ act'[Runtime].entry = pending
    BY <1>0, <2>1, RowTypes
  <2>3. Flushing' /\ Passed(pending', cursor')
    BY <2>1, <2>2 DEF Flushing, RouteInv, Passed
  <2> QED
    BY <2>1, <2>2, <2>3 DEF RouteInv
<1>6. CASE RouteBoundary
  <2>1. /\ act'[Runtime] = Starting(<<Op>>) /\ pending = <<>> /\ ~IsDelta(Op) /\ Op # Timer
        /\ UNCHANGED <<cursor, dropped, swallowed, pending, ops>> /\ <<Op>> \in Seq(Atoms)
    BY <1>0, <1>6, OpTyped
    DEF RouteBoundary, MustFlush, Joins, Turn, Shapes, subscription, coalescer
  <2>2. act'[Runtime].pc = "commit" /\ act'[Runtime].entry = <<Op>> /\ Op' = Op
    BY <2>1, RowTypes DEF Op
  <2>3. Routing'
    BY <2>1, <2>2, Zenon DEF Routing, IsDelta
  <2> QED
    BY <2>1, <2>2, <2>3 DEF RouteInv
<1>7. CASE RouteReturns
  <2>1. /\ act[Runtime].pc = "summary" /\ UNCHANGED <<pending, dropped, swallowed>>
        /\ act'[Runtime].pc = "none" /\ act'[Runtime].entry = <<>>
    BY <1>7, ReturnFacts
  <2>2. pending' = <<>>
    BY <2>1 DEF RouteInv
  <2> QED
    BY <2>1, <2>2 DEF RouteInv, Passed
<1>8. CASE RouteGivesUp
  <2>1. /\ UNCHANGED <<pending, cursor, swallowed>>
        /\ act'[Runtime].pc = "none" /\ act'[Runtime].entry = <<>>
    BY <1>8, GiveUpFacts
  <2>2. dropped' \subseteq dropped \cup (ToSet(act[Runtime].entry) \ {Op}) \cup Asks
    BY <1>8, GiveUpFacts
  <2>3. ToSet(act[Runtime].entry) \ {Op} \subseteq Events
    <3>1. Flushing \/ Routing
      BY <1>8, GiveUpFacts DEF RouteInv
    <3>2. CASE Flushing
      BY <3>2 DEF Flushing, Passed, IsDelta, ToSet
    <3>3. CASE Routing
      <4>1. act[Runtime].entry = <<Op>>
        BY <3>3 DEF Routing
      <4>2. ToSet(<<Op>>) = {Op}
        BY DEF ToSet
      <4> QED
        BY <4>1, <4>2
    <3> QED
      BY <3>1, <3>2, <3>3
  <2> QED
    BY <2>1, <2>2, <2>3 DEF RouteInv
<1>9. CASE RouteSwallows
  <2>1. /\ act[Runtime].pc = "commit" /\ UNCHANGED <<pending, dropped>>
        /\ act'[Runtime].pc = "none" /\ act'[Runtime].entry = <<>>
        /\ swallowed' \subseteq swallowed \cup ToSet(act[Runtime].entry)
    BY <1>9, SwallowFacts DEF Swallows
  <2>2. pending' = <<>> /\ (Flushing \/ Routing)
    BY <2>1 DEF RouteInv
  <2>3. ToSet(act[Runtime].entry) \subseteq Events \cup {IdleEvent} \cup Asks
    <3>1. CASE Flushing
      BY <3>1 DEF Flushing, Passed, IsDelta, ToSet
    <3>2. CASE Routing
      <4>1. act[Runtime].entry = <<Op>> /\ Op # Timer
        BY <3>2 DEF Routing
      <4>2. Op \in Line
        BY <2>1, RouteOp
      <4>3. ToSet(<<Op>>) = {Op}
        BY DEF ToSet
      <4> QED
        BY <4>1, <4>2, <4>3 DEF Line, FromRuntime
    <3> QED
      BY <2>2, <3>1, <3>2
  <2> QED
    BY <2>1, <2>2, <2>3 DEF RouteInv, Passed
<1> QED
  BY <1>2, <1>3, <1>4, <1>5, <1>6, <1>7, <1>8, <1>9 DEF Next, Coalesces, Appends

\* What the coalescer buffers or flushes has been passed by the cursor, and while
\* a route is awaited the buffer is empty and the route is the head's or a flush.
THEOREM RoutesHold == Spec => []RouteInv
<1>1. ASSUME Shapes, FeedInv, LineInv, RouteInv, [Next]_vars PROVE RouteInv'
  BY <1>1, RouteStep
<1> QED
  BY <1>1, RouteInit, ShapesHold, FeedHolds, LineHolds, PTL DEF Spec

\* The variables keep their types, and the coalescer's queue stays short
\* however long the runtime streams: one event or the idle, every ask once,
\* two flushes.
THEOREM EventsTypeCorrect == Spec => []EventsTypeOK
<1>1. ASSUME Shapes, FoldInv, SummaryInv, FeedInv, LineInv, TimerInv, RouteInv
      PROVE  EventsTypeOK
  <2>1. /\ running \in BOOLEAN /\ cursor \in 0 .. Len(Script)
        /\ stream \in 0 .. Len(Script) + 1
        /\ monitor \in {"watch", "history", "idle", "settled"}
        /\ asked \subseteq Asks /\ pending \in Seq(Events) /\ armed \in BOOLEAN
    BY <1>1, ConstantTypes DEF Shapes, FeedShapes, LineShapes, FeedInv
  <2>2. ingest \in [event : 0 .. Len(Script), by : {"none", "stream", "history"}]
    BY <1>1, ConstantTypes DEF Shapes, FeedShapes, FeedInv, Events
  <2>3. ops \in Seq({Timer} \cup Atoms)
    <3>1. Line \subseteq {Timer} \cup Atoms
      BY DEF Line, FromRuntime, Atoms
    <3> QED
      BY <1>1, <3>1 DEF Shapes, LineShapes
  <2>4. Len(ops) <= 3 + Cardinality(Asks)
    BY <1>1, LineIsShort DEF Shapes
  <2>5. ASSUME NEW a \in Appenders
        PROVE  /\ act[a].pc \in {"none", "commit", "cache", "summary", "done"}
               /\ act[a].entry \in Seq(Atoms) /\ act[a].view \in Seq(Atoms)
               /\ act[a].seq \in 0 .. Len(log)
    <3>1. act[a] \in ActRows /\ Snapshot(log, act[a])
      BY <1>1 DEF Shapes, ActShapes, FoldInv
    <3> QED
      BY <3>1 DEF ActRows, Snapshot
  <2>6. log \in Seq(Seq(Atoms)) /\ projection.seq \in 0 .. Len(log)
    BY <1>1 DEF Shapes, StoreShapes, FoldInv
  <2>7. summary \subseteq Asks
    BY <1>1 DEF SummaryInv, SummaryOf, Open
  <2>8. dropped \subseteq Events \cup Asks /\ swallowed \subseteq Events \cup {IdleEvent} \cup Asks
    BY <1>1 DEF RouteInv
  <2> QED
    BY <2>1, <2>2, <2>3, <2>4, <2>5, <2>6, <2>7, <2>8, Zenon DEF EventsTypeOK
<1> QED
  BY <1>1, ShapesHold, FoldsHold, SummaryHolds, FeedHolds, LineHolds, TimersHold, RoutesHold, PTL
-----------------------------------------------------------------------------
(* The transcript *)

Stored == ToSet(FlattenSeq(log))

\* the events of the runtime are in the order in which they were produced
InOrder(t) ==
  \A i, j \in DOMAIN t :
    i < j /\ t[i] \in FromRuntime /\ t[j] \in FromRuntime => t[i] < t[j]

\* what S has of the runtime comes before all of q
Before(S, q) == \A x \in S \cap FromRuntime : \A k \in DOMAIN q : x < q[k]

\* The next event may be stored already, under its own id, if its route gave
\* up after the commit; nothing is then buffered.
NextStored ==
  cursor + 1 \in Stored =>
    Has(log, <<cursor + 1>>) /\ ~IsDelta(cursor + 1) /\ pending = <<>> /\ ~Flushing

\* A buffer is appended behind all that is stored, or is there.
FlushInv ==
  Flushing =>
    \/ act[Runtime].pc = "commit" /\ Before(Stored, act[Runtime].entry)
    \/ ToSet(act[Runtime].entry) \subseteq Stored /\ Has(log, act[Runtime].entry)

OrderInv ==
  /\ \A n \in DOMAIN log : log[n][1] \in Stored
  /\ \A x \in Stored \cap FromRuntime : x <= cursor + 1
  /\ NextStored
  /\ Before(Stored, pending)
  /\ FlushInv
  /\ act[Runtime].pc \in {"cache", "summary"} => ToSet(act[Runtime].entry) \subseteq Stored
  /\ InOrder(FlattenSeq(log))
  /\ CursorIsSafe

LEMMA InOrderConcat ==
  ASSUME NEW t \in Seq(Atoms), NEW e \in Seq(Atoms), InOrder(t), InOrder(e),
         \A x \in ToSet(t) \cap FromRuntime : \A y \in ToSet(e) \cap FromRuntime : x < y
  PROVE  InOrder(t \o e) /\ ToSet(t \o e) = ToSet(t) \cup ToSet(e)
<1> DEFINE c == t \o e
           m == Len(t)
           n == Len(e)
<1>1. /\ DOMAIN c = 1 .. m + n /\ DOMAIN t = 1 .. m /\ DOMAIN e = 1 .. n /\ m \in Nat /\ n \in Nat
      /\ \A i \in 1 .. m : c[i] = t[i]
      /\ \A i \in (m + 1) .. (m + n) : c[i] = e[i - m]
  OBVIOUS
<1> HIDE DEF c, m, n
<1>2. \A i \in DOMAIN c : (i \in DOMAIN t /\ c[i] = t[i]) \/ (i - m \in DOMAIN e /\ c[i] = e[i - m])
  BY <1>1
<1>3. \A i \in DOMAIN e : i + m \in DOMAIN c /\ c[i + m] = e[i]
  BY <1>1
<1>4. \A i \in DOMAIN t : i \in DOMAIN c /\ c[i] = t[i]
  BY <1>1
<1>5. ToSet(c) = ToSet(t) \cup ToSet(e)
  BY <1>2, <1>3, <1>4 DEF ToSet
<1>6. ASSUME NEW i \in DOMAIN c, NEW j \in DOMAIN c, i < j, c[i] \in FromRuntime, c[j] \in FromRuntime
      PROVE  c[i] < c[j]
  <2>1. CASE i \in DOMAIN t /\ j \in DOMAIN t
    BY <1>4, <1>6, <2>1 DEF InOrder
  <2>2. CASE i \in DOMAIN t /\ j \notin DOMAIN t
    <3>1. c[i] \in ToSet(t) /\ c[j] \in ToSet(e)
      BY <1>2, <1>4, <2>2 DEF ToSet
    <3> QED
      BY <1>6, <3>1
  <2>3. CASE i \notin DOMAIN t
    <3>1. /\ i - m \in DOMAIN e /\ c[i] = e[i - m] /\ j \notin DOMAIN t
      BY <1>1, <1>2, <1>6, <2>3
    <3>2. j - m \in DOMAIN e /\ c[j] = e[j - m]
      BY <1>2, <3>1
    <3>3. i - m < j - m
      BY <1>1, <1>6
    <3> QED
      BY <1>6, <3>1, <3>2, <3>3 DEF InOrder
  <2> QED
    BY <2>1, <2>2, <2>3
<1>7. InOrder(c)
  BY <1>6 DEF InOrder
<1> QED
  BY <1>5, <1>7 DEF c

LEMMA OrderInit == Init => OrderInv
<1> SUFFICES ASSUME Init PROVE OrderInv
  OBVIOUS
<1>1. /\ log = <<>> /\ pending = <<>> /\ cursor = 0 /\ act[Runtime] = NoAct
      /\ log \in Seq(Seq(Atoms)) /\ DOMAIN log = {}
  BY ConstantTypes, EventConstants DEF Init
<1>2. FlattenSeq(log) = <<>>
  BY <1>1, SnapshotFacts
<1>3. Stored = {}
  BY <1>2 DEF Stored, ToSet
<1>4. InOrder(FlattenSeq(log))
  BY <1>2 DEF InOrder
<1>5. CursorIsSafe
  BY <1>1 DEF CursorIsSafe
<1>6. ~Flushing /\ act[Runtime].pc = "none"
  BY <1>1, RowTypes DEF Flushing
<1> QED
  BY <1>1, <1>3, <1>4, <1>5, <1>6, Zenon DEF OrderInv, NextStored, Before, FlushInv

\* The facts every step is proved from.
LEMMA OrderTypes ==
  ASSUME Shapes, FeedInv
  PROVE  /\ log \in Seq(Seq(Atoms)) /\ FlattenSeq(log) \in Seq(Atoms) /\ Stored \subseteq Nat
         /\ cursor \in Nat /\ cursor + 1 \in FromRuntime /\ FromRuntime \subseteq Nat
         /\ Runtime \in Appenders /\ act[Runtime] \in ActRows /\ act[Runtime].entry \in Seq(Atoms)
         /\ pending \in Seq(Events) /\ Events \subseteq Nat /\ DOMAIN act = Appenders
<1>1. log \in Seq(Seq(Atoms))
  BY DEF Shapes, StoreShapes
<1>2. FlattenSeq(log) \in Seq(Atoms)
  BY <1>1, SnapshotFacts
<1>3. Stored \subseteq Nat
  <2> DEFINE t == FlattenSeq(log)
  <2>1. t \in Seq(Atoms) /\ Atoms \subseteq Nat /\ Stored = {t[i] : i \in DOMAIN t}
    BY <1>2, ConstantTypes DEF Stored, ToSet
  <2> HIDE DEF t
  <2>2. \A i \in DOMAIN t : t[i] \in Atoms
    BY <2>1
  <2> QED
    BY <2>1, <2>2, Zenon
<1>4. cursor \in Nat /\ cursor + 1 \in FromRuntime
  BY ConstantTypes DEF Shapes, FeedShapes, FeedInv, FromRuntime, Events, IdleEvent
<1>5. FromRuntime \subseteq Nat
  BY ConstantTypes DEF FromRuntime
<1> QED
  BY <1>1, <1>2, <1>3, <1>4, <1>5, ConstantTypes DEF Shapes, ActShapes, ActRows, LineShapes

\* a step that appends nothing and that the route does not notice
LEMMA OrderStill ==
  ASSUME Shapes, FeedInv, OrderInv, Quiet, Still
  PROVE  OrderInv'
<1>1. /\ log' = log /\ pending' = pending /\ cursor' = cursor /\ Stored' = Stored
      /\ act'[Runtime].entry = act[Runtime].entry
      /\ (act'[Runtime].pc = "none" <=> act[Runtime].pc = "none") /\ swallowed' = swallowed
  BY DEF Quiet, Still, Stored
<1>2. Flushing' <=> Flushing
  BY <1>1 DEF Flushing
<1>3. NextStored'
  BY <1>1, <1>2, Zenon DEF OrderInv, NextStored, IsDelta
<1>4. FlushInv'
  <2> SUFFICES ASSUME Flushing'
               PROVE  \/ act'[Runtime].pc = "commit" /\ Before(Stored, act[Runtime].entry)
                      \/ ToSet(act[Runtime].entry) \subseteq Stored /\ Has(log, act[Runtime].entry)
    BY <1>1, Zenon DEF FlushInv
  <2> QED
    BY <1>2 DEF OrderInv, FlushInv, Still
<1>5. act'[Runtime].pc \in {"cache", "summary"} => ToSet(act'[Runtime].entry) \subseteq Stored'
  BY <1>1 DEF OrderInv, Still
<1>6. CursorIsSafe'
  <2> SUFFICES ASSUME NEW i \in 1 .. cursor
               PROVE  \/ i \in ToSet(FlattenSeq(log)) \cup swallowed
                      \/ IsDelta(i) /\ i \in ToSet(pending) \cup ToSet(act[Runtime].entry) \cup dropped'
    BY <1>1, Zenon DEF CursorIsSafe, IsDelta
  <2>1. dropped \subseteq dropped'
    BY DEF Quiet
  <2> QED
    BY <2>1 DEF OrderInv, CursorIsSafe
<1> QED
  BY <1>1, <1>3, <1>4, <1>5, <1>6, Zenon DEF OrderInv
\* What an append of a new event leaves true by itself.
LEMMA OrderGrows ==
  ASSUME Shapes, FeedInv, OrderInv, Quiet, NEW e \in Seq(Atoms), e # <<>>, log' = Append(log, e),
         InOrder(e), \A x \in Stored \cap FromRuntime : \A y \in ToSet(e) \cap FromRuntime : x < y,
         \A y \in ToSet(e) \cap FromRuntime : y <= cursor + 1
  PROVE  /\ Stored' = Stored \cup ToSet(e) /\ Has(log', e)
         /\ \A q : Has(log, q) => Has(log', q)
         /\ \A n \in DOMAIN log' : log'[n][1] \in Stored'
         /\ \A x \in Stored' \cap FromRuntime : x <= cursor' + 1
         /\ InOrder(FlattenSeq(log'))
         /\ CursorIsSafe'
<1>0. log \in Seq(Seq(Atoms)) /\ FlattenSeq(log) \in Seq(Atoms)
  BY OrderTypes
<1>1. FlattenSeq(log') = FlattenSeq(log) \o e
  <2>1. FlattenSeq(Append(log, e)) = FlattenSeq(log) \o e
    BY <1>0, SnapshotFacts
  <2> QED
    BY <2>1, Zenon
<1>2. InOrder(FlattenSeq(log)) /\ ToSet(FlattenSeq(log)) = Stored
  BY DEF OrderInv, Stored
<1>3. InOrder(FlattenSeq(log) \o e) /\ ToSet(FlattenSeq(log) \o e) = Stored \cup ToSet(e)
  <2> DEFINE t == FlattenSeq(log)
  <2>1. t \in Seq(Atoms) /\ InOrder(t) /\ ToSet(t) = Stored
    BY <1>0, <1>2
  <2> HIDE DEF t
  <2>2. InOrder(t \o e) /\ ToSet(t \o e) = ToSet(t) \cup ToSet(e)
    BY <2>1, InOrderConcat
  <2> QED
    BY <2>1, <2>2, Zenon DEF t
<1>4. Stored' = Stored \cup ToSet(e) /\ InOrder(FlattenSeq(log'))
  BY <1>1, <1>3, Zenon DEF Stored
<1>5. /\ \A n \in DOMAIN log' : (n \in DOMAIN log /\ log'[n] = log[n]) \/ log'[n] = e
      /\ \A n \in DOMAIN log : n \in DOMAIN log' /\ log'[n] = log[n]
      /\ Len(log) + 1 \in DOMAIN log' /\ log'[Len(log) + 1] = e
  BY <1>0
<1>6. Has(log', e)
  BY <1>5, Zenon DEF Has
<1>7. ASSUME NEW q, Has(log, q) PROVE Has(log', q)
  <2>1. PICK n \in DOMAIN log : log[n][1] = q[1]
    BY <1>7, Zenon DEF Has
  <2> QED
    BY <1>5, <2>1, Zenon DEF Has
<1>8. e[1] \in ToSet(e)
  <2>1. 1 \in DOMAIN e
    OBVIOUS
  <2> QED
    BY <2>1 DEF ToSet
<1>9. ASSUME NEW n \in DOMAIN log' PROVE log'[n][1] \in Stored'
  <2>1. CASE n \in DOMAIN log /\ log'[n] = log[n]
    BY <1>4, <2>1 DEF OrderInv
  <2>2. CASE log'[n] = e
    BY <1>4, <1>8, <2>2
  <2> QED
    BY <1>5, <2>1, <2>2
<1>10. \A x \in Stored' \cap FromRuntime : x <= cursor' + 1
  BY <1>4 DEF OrderInv, Quiet
<1>11. CursorIsSafe'
  <2>1. /\ cursor' = cursor /\ pending' = pending /\ act'[Runtime].entry = act[Runtime].entry
        /\ dropped \subseteq dropped' /\ ToSet(FlattenSeq(log')) = Stored'
        /\ swallowed' = swallowed
    BY DEF Quiet, Stored
  <2> SUFFICES ASSUME NEW i \in 1 .. cursor
               PROVE  \/ i \in Stored' \cup swallowed
                      \/ IsDelta(i) /\ i \in ToSet(pending) \cup ToSet(act[Runtime].entry) \cup dropped'
    BY <2>1, Zenon DEF CursorIsSafe, IsDelta
  <2>2. \/ i \in Stored \cup swallowed
        \/ IsDelta(i) /\ i \in ToSet(pending) \cup ToSet(act[Runtime].entry) \cup dropped
    BY <1>2, Zenon DEF OrderInv, CursorIsSafe
  <2> QED
    BY <1>4, <2>1, <2>2
<1> QED
  BY <1>4, <1>6, <1>7, <1>9, <1>10, <1>11

\* an event that is not the runtime's: an ask, or what a writer appends
LEMMA OrderForeign ==
  ASSUME Shapes, FeedInv, RouteInv, OrderInv, NEW a \in Appenders, Commit(a),
         ~Known(act[a].entry), NEW x \in Atoms \ FromRuntime, act[a].entry = <<x>>
  PROVE  OrderInv'
<1>0. /\ cursor \in Nat /\ cursor + 1 \in FromRuntime /\ Runtime \in Appenders /\ DOMAIN act = Appenders
      /\ \A b \in Appenders : act[b] \in ActRows
  BY OrderTypes DEF Shapes, ActShapes
<1>1. Quiet /\ log' = Append(log, <<x>>)
  BY QuietCommit DEF Commit
<1>2. ToSet(<<x>>) = {x} /\ InOrder(<<x>>) /\ <<x>> \in Seq(Atoms) /\ <<x>> # <<>>
  BY DEF ToSet, InOrder
<1>3. /\ Stored' = Stored \cup ToSet(<<x>>) /\ Has(log', <<x>>)
      /\ \A q : Has(log, q) => Has(log', q)
      /\ \A n \in DOMAIN log' : log'[n][1] \in Stored'
      /\ \A y \in Stored' \cap FromRuntime : y <= cursor' + 1
      /\ InOrder(FlattenSeq(log')) /\ CursorIsSafe'
  BY <1>1, <1>2, OrderGrows
<1>4. /\ Stored' = Stored \cup {x} /\ Stored' \cap FromRuntime = Stored \cap FromRuntime
      /\ pending' = pending /\ cursor' = cursor
      /\ act'[Runtime].entry = act[Runtime].entry
      /\ (act'[Runtime].pc = "none" <=> act[Runtime].pc = "none")
  BY <1>1, <1>2, <1>3 DEF Quiet
<1>5. Flushing' <=> Flushing
  BY <1>4 DEF Flushing
<1>6. NextStored'
  <2> SUFFICES ASSUME cursor + 1 \in Stored'
               PROVE  Has(log', <<cursor + 1>>) /\ ~IsDelta(cursor + 1) /\ pending = <<>> /\ ~Flushing
    BY <1>4, <1>5, Zenon DEF NextStored, IsDelta
  <2>1. cursor + 1 \in Stored
    BY <1>0, <1>4
  <2> QED
    BY <1>3, <2>1 DEF OrderInv, NextStored
<1>7. Before(Stored', pending')
  BY <1>4 DEF OrderInv, Before
<1>8. a = Runtime \/ act'[Runtime] = act[Runtime]
  BY <1>0 DEF Commit
<1>9. FlushInv'
  <2> SUFFICES ASSUME Flushing
               PROVE  \/ act'[Runtime].pc = "commit" /\ Before(Stored', act[Runtime].entry)
                      \/ ToSet(act[Runtime].entry) \subseteq Stored' /\ Has(log', act[Runtime].entry)
    BY <1>4, <1>5, Zenon DEF FlushInv
  <2>1. a # Runtime
    BY DEF Flushing, Passed, IsDelta, FromRuntime
  <2>2. CASE act[Runtime].pc = "commit" /\ Before(Stored, act[Runtime].entry)
    BY <1>4, <1>8, <2>1, <2>2 DEF Before
  <2>3. CASE ToSet(act[Runtime].entry) \subseteq Stored /\ Has(log, act[Runtime].entry)
    BY <1>3, <1>4, <2>3
  <2> QED
    BY <2>2, <2>3 DEF OrderInv, FlushInv
<1>10. act'[Runtime].pc \in {"cache", "summary"} => ToSet(act'[Runtime].entry) \subseteq Stored'
  <2>1. CASE a = Runtime
    <3>1. act'[Runtime].entry = <<x>>
      BY <1>4, <2>1
    <3> QED
      BY <1>3, <3>1
  <2>2. CASE a # Runtime
    BY <1>4, <1>8, <2>2 DEF OrderInv
  <2> QED
    BY <2>1, <2>2
<1> QED
  BY <1>3, <1>6, <1>7, <1>9, <1>10, Zenon DEF OrderInv
\* The runtime's route commits an event that the log does not have: it is
\* behind everything of the runtime that is stored.
LEMMA OrderRuntime ==
  ASSUME Shapes, FeedInv, LineInv, RouteInv, OrderInv, Commit(Runtime),
         ~Known(act[Runtime].entry)
  PROVE  OrderInv'
<1> DEFINE e == act[Runtime].entry
<1>0. /\ cursor \in Nat /\ cursor + 1 \in FromRuntime /\ Runtime \in Appenders /\ DOMAIN act = Appenders
      /\ act[Runtime] \in ActRows /\ e \in Seq(Atoms) /\ FromRuntime \subseteq Nat
      /\ Stored \subseteq Nat
  BY OrderTypes
<1>1. Quiet /\ log' = Append(log, e) /\ ~Has(log, e) /\ act[Runtime].pc = "commit"
  BY <1>0, QuietCommit DEF Commit, Known, Has
<1>2. pending = <<>> /\ (Flushing \/ Routing)
  BY <1>1 DEF RouteInv
<1>3. /\ pending' = pending /\ cursor' = cursor /\ act'[Runtime].entry = e
      /\ (act'[Runtime].pc = "none" <=> act[Runtime].pc = "none")
  BY <1>1 DEF Quiet
<1>4. Flushing' <=> Flushing
  BY <1>3 DEF Flushing
<1>5. ASSUME Stored' = Stored \cup ToSet(e), Has(log', e),
             \A n \in DOMAIN log' : log'[n][1] \in Stored',
             \A y \in Stored' \cap FromRuntime : y <= cursor' + 1,
             InOrder(FlattenSeq(log')), CursorIsSafe', NextStored'
      PROVE  OrderInv'
  <2>1. ToSet(act'[Runtime].entry) \subseteq Stored' /\ Has(log', act'[Runtime].entry)
    BY <1>3, <1>5
  <2>2. FlushInv'
    BY <2>1, Zenon DEF FlushInv
  <2>3. Before(Stored', pending')
    BY <1>2, <1>3 DEF Before
  <2> QED
    BY <1>5, <2>1, <2>2, <2>3, Zenon DEF OrderInv
<1>6. CASE Flushing
  <2>1. /\ e # <<>> /\ \A i \in DOMAIN e : e[i] \in Events /\ e[i] <= cursor /\ e[i] \in Nat
        /\ \A i, j \in DOMAIN e : i < j => e[i] < e[j]
    BY <1>6, ConstantTypes DEF Flushing, Passed, IsDelta
  <2>2. Before(Stored, e)
    BY <1>1, <1>6 DEF OrderInv, FlushInv
  <2>3. InOrder(e)
    BY <2>1 DEF InOrder
  <2>4. \A y \in ToSet(e) : y \in Nat /\ y <= cursor
    BY <2>1 DEF ToSet
  <2>5. \A x \in Stored \cap FromRuntime : \A y \in ToSet(e) \cap FromRuntime : x < y
    BY <2>2 DEF Before, ToSet
  <2>6. \A y \in ToSet(e) \cap FromRuntime : y <= cursor + 1
    BY <1>0, <2>4
  <2> HIDE DEF e
  <2>7. /\ Stored' = Stored \cup ToSet(e) /\ Has(log', e)
        /\ \A n \in DOMAIN log' : log'[n][1] \in Stored'
        /\ \A y \in Stored' \cap FromRuntime : y <= cursor' + 1
        /\ InOrder(FlattenSeq(log')) /\ CursorIsSafe'
    BY <1>0, <1>1, <2>1, <2>3, <2>5, <2>6, OrderGrows
  <2>8. cursor + 1 \notin Stored
    BY <1>6 DEF OrderInv, NextStored
  <2>9. cursor + 1 \notin Stored'
    BY <1>0, <2>4, <2>7, <2>8
  <2>10. NextStored'
    BY <1>3, <2>9, Zenon DEF NextStored
  <2> QED
    BY <1>5, <2>7, <2>10
<1>7. CASE Routing
  <2>1. e = <<Op>> /\ ~IsDelta(Op) /\ Op # Timer /\ ops # <<>>
    BY <1>1, <1>7, RouteOp DEF Routing
  <2>2. Op \in Line /\ (Op \in FromRuntime => Op = cursor + 1) /\ Op \in Atoms
    BY <2>1, HeadFits, OpTyped DEF Shapes
  <2>3. CASE Op \notin FromRuntime
    BY <1>0, <2>1, <2>2, <2>3, OrderForeign
  <2>4. CASE Op \in FromRuntime
    <3>1. Op = cursor + 1 /\ e = <<cursor + 1>> /\ ~IsDelta(cursor + 1)
      BY <2>1, <2>2, <2>4
    <3>2. cursor + 1 \notin Stored
      BY <1>1, <3>1 DEF OrderInv, NextStored
    <3>3. ToSet(e) = {cursor + 1} /\ InOrder(e) /\ e # <<>>
      BY <3>1 DEF ToSet, InOrder
    <3>4. \A x \in Stored \cap FromRuntime : \A y \in ToSet(e) \cap FromRuntime : x < y
      <4>1. \A x \in Stored \cap FromRuntime : x <= cursor + 1 /\ x # cursor + 1 /\ x \in Nat
        BY <1>0, <3>2 DEF OrderInv
      <4> QED
        BY <1>0, <3>3, <4>1
    <3>5. \A y \in ToSet(e) \cap FromRuntime : y <= cursor + 1
      BY <1>0, <3>3
    <3> HIDE DEF e
    <3>6. /\ Stored' = Stored \cup ToSet(e) /\ Has(log', e)
          /\ \A n \in DOMAIN log' : log'[n][1] \in Stored'
          /\ \A y \in Stored' \cap FromRuntime : y <= cursor' + 1
          /\ InOrder(FlattenSeq(log')) /\ CursorIsSafe'
      BY <1>0, <1>1, <3>3, <3>4, <3>5, OrderGrows
    <3>7. ~Flushing
      <4>1. 1 \in DOMAIN e /\ e[1] = cursor + 1
        BY <3>1
      <4> QED
        BY <3>1, <4>1 DEF Flushing, Passed, e
    <3>8. NextStored'
      BY <1>2, <1>3, <1>4, <3>1, <3>6, <3>7, Zenon DEF NextStored, IsDelta
    <3> QED
      BY <1>5, <3>6, <3>8
  <2> QED
    BY <2>3, <2>4
<1> QED
  BY <1>2, <1>6, <1>7

\* An event of the route that the log has is stored with all its atoms.
LEMMA KnownIsStored ==
  ASSUME Shapes, FeedInv, RouteInv, OrderInv, act[Runtime].pc # "none",
         Known(act[Runtime].entry)
  PROVE  ToSet(act[Runtime].entry) \subseteq Stored /\ Has(log, act[Runtime].entry)
<1> DEFINE e == act[Runtime].entry
<1>0. FromRuntime \subseteq Nat
  BY OrderTypes
<1>1. PICK n \in DOMAIN log : log[n][1] = e[1]
  BY DEF Known
<1>2. e[1] \in Stored /\ Has(log, e)
  BY <1>1, Zenon DEF OrderInv, Has
<1>3. CASE Flushing
  <2>1. 1 \in DOMAIN e /\ e[1] \in FromRuntime
    <3>1. e \in Seq(Atoms) /\ e # <<>>
      BY <1>3, OrderTypes DEF Flushing
    <3>2. 1 \in DOMAIN e
      BY <3>1
    <3> QED
      BY <1>3, <3>2 DEF Flushing, Passed, IsDelta, FromRuntime
  <2>2. e[1] \in Stored \cap FromRuntime /\ ~(e[1] < e[1])
    <3>1. e[1] \in Nat
      BY <1>0, <2>1, Zenon
    <3>2. \A x \in Nat : ~(x < x)
      OBVIOUS
    <3> QED
      BY <1>2, <2>1, <3>1, <3>2, Zenon
  <2>3. ~Before(Stored, e)
    BY <2>1, <2>2, Zenon DEF Before
  <2> QED
    BY <1>2, <1>3, <2>3 DEF OrderInv, FlushInv
<1>4. CASE Routing
  <2>1. e = <<Op>> /\ e[1] = Op
    BY <1>4 DEF Routing
  <2>2. ToSet(e) = {e[1]}
    BY <2>1 DEF ToSet
  <2> QED
    BY <1>2, <2>2
<1> QED
  BY <1>3, <1>4 DEF RouteInv

\* the log has the event: it is replayed
LEMMA OrderReplay ==
  ASSUME Shapes, FeedInv, RouteInv, OrderInv, NEW a \in Appenders, Commit(a),
         Known(act[a].entry)
  PROVE  OrderInv'
<1>0. /\ Runtime \in Appenders /\ DOMAIN act = Appenders /\ FromRuntime \subseteq Nat
      /\ \A b \in Appenders : act[b] \in ActRows
  BY OrderTypes DEF Shapes, ActShapes
<1>1. Quiet /\ log' = log /\ act[a].pc = "commit"
  BY QuietCommit DEF Commit
<1>2. CASE a # Runtime
  <2>1. act'[Runtime] = act[Runtime]
    BY <1>0, <1>2 DEF Commit
  <2>2. Still
    BY <1>1, <2>1 DEF Still
  <2> QED
    BY <1>1, <2>2, OrderStill
<1>3. CASE a = Runtime
  <2> DEFINE e == act[Runtime].entry
  <2>2. ToSet(e) \subseteq Stored /\ Has(log, e)
    BY <1>1, <1>3, KnownIsStored
  <2>4. /\ pending' = pending /\ cursor' = cursor /\ act'[Runtime].entry = e
        /\ (act'[Runtime].pc = "none" <=> act[Runtime].pc = "none") /\ dropped \subseteq dropped'
        /\ Stored' = Stored /\ swallowed' = swallowed
    BY <1>1 DEF Quiet, Stored
  <2> HIDE DEF e
  <2>5. Flushing' <=> Flushing
    BY <2>4 DEF Flushing, e
  <2>6. NextStored'
    BY <1>1, <2>4, <2>5, Zenon DEF OrderInv, NextStored, IsDelta
  <2>7. FlushInv' /\ ToSet(act'[Runtime].entry) \subseteq Stored'
    BY <1>1, <2>2, <2>4, Zenon DEF FlushInv
  <2>8. CursorIsSafe'
    <3> SUFFICES ASSUME NEW i \in 1 .. cursor
                 PROVE  \/ i \in ToSet(FlattenSeq(log)) \cup swallowed
                        \/ IsDelta(i) /\ i \in ToSet(pending) \cup ToSet(e) \cup dropped'
      BY <1>1, <2>4, Zenon DEF CursorIsSafe, IsDelta
    <3> QED
      BY <2>4 DEF OrderInv, CursorIsSafe, e
  <2> QED
    BY <1>1, <2>4, <2>6, <2>7, <2>8, Zenon DEF OrderInv
<1> QED
  BY <1>2, <1>3

\* What a step has to keep that appends nothing.
LEMMA OrderSame ==
  ASSUME OrderInv, log' = log, NextStored', Before(Stored, pending'), FlushInv',
         \A x \in Stored \cap FromRuntime : x <= cursor' + 1,
         act'[Runtime].pc \in {"cache", "summary"} => ToSet(act'[Runtime].entry) \subseteq Stored,
         \A i \in 1 .. cursor' :
           \/ i \in Stored \cup swallowed'
           \/ IsDelta(i) /\ i \in ToSet(pending') \cup ToSet(act'[Runtime].entry) \cup dropped'
  PROVE  OrderInv'
<1>1. Stored' = Stored /\ FlattenSeq(log') = FlattenSeq(log)
  BY Zenon DEF Stored
<1>2. CursorIsSafe'
  BY <1>1, Zenon DEF CursorIsSafe, Stored, IsDelta
<1> QED
  BY <1>1, <1>2, Zenon DEF OrderInv

\* CursorIsSafe, of Stored
LEMMA OrderCursor ==
  ASSUME OrderInv
  PROVE  \A i \in 1 .. cursor :
           \/ i \in Stored \cup swallowed
           \/ IsDelta(i) /\ i \in ToSet(pending) \cup ToSet(act[Runtime].entry) \cup dropped
BY Zenon DEF OrderInv, CursorIsSafe, Stored

LEMMA OrderCoalesce ==
  ASSUME Shapes, FeedInv, LineInv, RouteInv, OrderInv, Buffer \/ FlushSession \/ RouteBoundary
  PROVE  OrderInv'
<1>0. /\ cursor \in Nat /\ cursor + 1 \in FromRuntime /\ Runtime \in Appenders /\ DOMAIN act = Appenders
      /\ FromRuntime \subseteq Nat /\ Stored \subseteq Nat
      /\ pending \in Seq(Events) /\ Events \subseteq Nat /\ pending \in Seq(Atoms)
  <2>1. pending \in Seq(Events) /\ Events \subseteq Atoms
    BY OrderTypes, ConstantTypes
  <2> QED
    BY <2>1, OrderTypes
<1>1. CASE Buffer
  <2>1. /\ IsDelta(cursor + 1) /\ cursor' = cursor + 1
        /\ pending' = Append(pending, cursor + 1) /\ act[Runtime].pc = "none"
        /\ act' = act /\ log' = log /\ dropped' = dropped /\ swallowed' = swallowed
    BY <1>1, BufferFacts
  <2>2. cursor + 1 \in Events /\ cursor + 1 \notin Stored
    BY <2>1 DEF OrderInv, NextStored, IsDelta
  <2>3. \A x \in Stored \cap FromRuntime : x < cursor + 1 /\ x <= cursor + 1 + 1 /\ x # cursor + 1 + 1
    <3>1. \A x \in Stored \cap FromRuntime : x <= cursor + 1 /\ x # cursor + 1 /\ x \in Nat
      BY <1>0, <2>2 DEF OrderInv
    <3> QED
      BY <1>0, <3>1
  <2>4. cursor' + 1 \notin Stored
    <3>1. cursor + 1 + 1 \in FromRuntime
      BY <1>0, <2>2, ConstantTypes DEF Events, FromRuntime, IdleEvent
    <3> QED
      BY <2>1, <2>3, <3>1
  <2>5. Stored' = Stored
    BY <2>1, Zenon DEF Stored
  <2>6. NextStored'
    BY <2>4, <2>5, Zenon DEF NextStored
  <2>7. /\ \A k \in DOMAIN Append(pending, cursor + 1) :
             (k \in DOMAIN pending /\ Append(pending, cursor + 1)[k] = pending[k])
             \/ Append(pending, cursor + 1)[k] = cursor + 1
        /\ \A k \in DOMAIN pending :
             k \in DOMAIN Append(pending, cursor + 1) /\ Append(pending, cursor + 1)[k] = pending[k]
        /\ Len(pending) + 1 \in DOMAIN Append(pending, cursor + 1)
        /\ Append(pending, cursor + 1)[Len(pending) + 1] = cursor + 1
    BY <1>0, <2>2
  <2>8. Before(Stored, pending')
    BY <2>1, <2>3, <2>7 DEF OrderInv, Before
  <2>9. ToSet(pending) \cup {cursor + 1} \subseteq ToSet(pending')
    BY <2>1, <2>7 DEF ToSet
  <2>10. FlushInv'
    BY <2>1, Zenon DEF FlushInv, Flushing
  <2>11. ASSUME NEW i \in 1 .. cursor'
         PROVE  \/ i \in Stored \cup swallowed'
                \/ IsDelta(i) /\ i \in ToSet(pending') \cup ToSet(act'[Runtime].entry) \cup dropped'
    <3>1. CASE i = cursor + 1
      BY <2>1, <2>9, <3>1
    <3>2. CASE i \in 1 .. cursor
      BY <2>1, <2>9, <3>2, OrderCursor
    <3> QED
      BY <1>0, <2>1, <3>1, <3>2
  <2>12. ~(act'[Runtime].pc \in {"cache", "summary"})
    BY <2>1
  <2>13. \A x \in Stored \cap FromRuntime : x <= cursor' + 1
    BY <2>1, <2>3
  <2> QED
    BY <2>1, <2>6, <2>8, <2>10, <2>11, <2>12, <2>13, OrderSame
<1>2. CASE FlushSession
  <2>1. /\ act'[Runtime] = Starting(pending) /\ pending' = <<>> /\ pending # <<>>
        /\ cursor' = cursor /\ dropped' = dropped /\ log' = log /\ act[Runtime].pc = "none"
        /\ swallowed' = swallowed
    BY <1>0, <1>2 DEF FlushSession, MustFlush, subscription, store, Turn
  <2>2. act'[Runtime].pc = "commit" /\ act'[Runtime].entry = pending /\ act[Runtime].entry = <<>>
    BY <1>0, <2>1, RowTypes DEF RouteInv
  <2>3. cursor' + 1 \notin Stored /\ Stored' = Stored
    BY <2>1 DEF OrderInv, NextStored, Stored
  <2>4. NextStored'
    BY <2>3, Zenon DEF NextStored
  <2>5. FlushInv' /\ Before(Stored, pending')
    <3>1. Before(Stored, pending)
      BY DEF OrderInv
    <3>2. Before(Stored, pending')
      BY <2>1 DEF Before
    <3> QED
      BY <2>2, <2>3, <3>1, <3>2, Zenon DEF FlushInv
  <2>6. ASSUME NEW i \in 1 .. cursor'
        PROVE  \/ i \in Stored \cup swallowed'
               \/ IsDelta(i) /\ i \in ToSet(pending') \cup ToSet(act'[Runtime].entry) \cup dropped'
    <3>1. ToSet(act[Runtime].entry) = {}
      BY <2>2 DEF ToSet
    <3> QED
      BY <2>1, <2>2, <3>1, OrderCursor
  <2>7. /\ ~(act'[Runtime].pc \in {"cache", "summary"})
        /\ \A x \in Stored \cap FromRuntime : x <= cursor' + 1
    BY <2>1, <2>2 DEF OrderInv
  <2> QED
    BY <2>1, <2>4, <2>5, <2>6, <2>7, OrderSame
<1>3. CASE RouteBoundary
  <2>1. /\ act'[Runtime] = Starting(<<Op>>) /\ pending = <<>> /\ ~IsDelta(Op) /\ act[Runtime].pc = "none"
        /\ cursor' = cursor /\ dropped' = dropped /\ log' = log /\ pending' = pending
        /\ swallowed' = swallowed /\ <<Op>> \in Seq(Atoms)
    BY <1>0, <1>3, OpTyped
    DEF RouteBoundary, MustFlush, Joins, Turn, Shapes, subscription, coalescer, store
  <2>2. act'[Runtime].pc = "commit" /\ act'[Runtime].entry = <<Op>> /\ act[Runtime].entry = <<>>
    BY <2>1, RowTypes DEF RouteInv
  <2>3. ~Flushing'
    <3>1. 1 \in DOMAIN act'[Runtime].entry /\ act'[Runtime].entry[1] = Op
      BY <2>2
    <3>2. ~Passed(act'[Runtime].entry, cursor')
      BY <2>1, <3>1 DEF Passed
    <3> QED
      BY <3>2, Zenon DEF Flushing, Passed, IsDelta
  <2>4. Stored' = Stored
    BY <2>1, Zenon DEF Stored
  <2>5. NextStored'
    BY <2>1, <2>3, <2>4, Zenon DEF OrderInv, NextStored, IsDelta
  <2>6. FlushInv' /\ Before(Stored, pending')
    BY <2>1, <2>3 DEF FlushInv, Before
  <2>7. ASSUME NEW i \in 1 .. cursor'
        PROVE  \/ i \in Stored \cup swallowed'
               \/ IsDelta(i) /\ i \in ToSet(pending') \cup ToSet(act'[Runtime].entry) \cup dropped'
    <3>1. ToSet(act[Runtime].entry) = {}
      BY <2>2 DEF ToSet
    <3> QED
      BY <2>1, <3>1, OrderCursor
  <2>8. /\ ~(act'[Runtime].pc \in {"cache", "summary"})
        /\ \A x \in Stored \cap FromRuntime : x <= cursor' + 1
    BY <2>1, <2>2 DEF OrderInv
  <2> QED
    BY <2>1, <2>5, <2>6, <2>7, <2>8, OrderSame
<1> QED
  BY <1>1, <1>2, <1>3

\* A route ends: what it was for is stored, has been swallowed or dropped, or is
\* tried again.
LEMMA OrderEnds ==
  ASSUME Shapes, FeedInv, FeedInv', LineInv, RouteInv, OrderInv,
         RouteReturns \/ RouteSwallows \/ RouteGivesUp
  PROVE  OrderInv'
<1>0. /\ cursor \in Nat /\ cursor + 1 \in FromRuntime /\ Runtime \in Appenders /\ DOMAIN act = Appenders
      /\ FromRuntime \subseteq Nat /\ Stored \subseteq Nat
  BY OrderTypes
<1>1. /\ log' = log /\ pending' = pending /\ dropped \subseteq dropped' /\ act[Runtime].pc # "none"
      /\ act'[Runtime].pc = "none" /\ act'[Runtime].entry = <<>> /\ swallowed \subseteq swallowed'
  <2>1. CASE RouteReturns
    BY <2>1, ReturnFacts
  <2>2. CASE RouteGivesUp
    BY <2>2, GiveUpFacts
  <2>3. CASE RouteSwallows
    BY <2>3, SwallowFacts DEF Swallows
  <2> QED
    BY <2>1, <2>2, <2>3
<1>2. pending = <<>> /\ Stored' = Stored /\ ~Flushing'
  BY <1>1 DEF RouteInv, Stored, Flushing
<1>3. Before(Stored, pending') /\ FlushInv' /\ ~(act'[Runtime].pc \in {"cache", "summary"})
  BY <1>1, <1>2 DEF FlushInv, Before
<1>4. ASSUME cursor' = cursor,
             \A i \in 1 .. cursor : IsDelta(i) /\ i \in ToSet(act[Runtime].entry) =>
                                      i \in Stored \cup swallowed' \cup dropped'
      PROVE  OrderInv'
  <2>1. NextStored'
    BY <1>1, <1>2, <1>4, Zenon DEF OrderInv, NextStored, IsDelta
  <2>2. ASSUME NEW i \in 1 .. cursor'
        PROVE  \/ i \in Stored \cup swallowed'
               \/ IsDelta(i) /\ i \in ToSet(pending') \cup ToSet(act'[Runtime].entry) \cup dropped'
    BY <1>1, <1>4, OrderCursor
  <2>3. \A x \in Stored \cap FromRuntime : x <= cursor' + 1
    BY <1>4 DEF OrderInv
  <2> QED
    BY <1>1, <1>3, <2>1, <2>2, <2>3, OrderSame
<1>5. CASE RouteReturns \/ RouteSwallows
  <2>1. ToSet(act[Runtime].entry) \subseteq Stored \cup swallowed' /\ dropped' = dropped
    <3>1. CASE RouteReturns
      BY <3>1, ReturnFacts DEF OrderInv
    <3>2. CASE RouteSwallows /\ Known(act[Runtime].entry)
      BY <1>1, <3>2, SwallowFacts, KnownIsStored
    <3>3. CASE RouteSwallows /\ ~Known(act[Runtime].entry)
      BY <3>3, SwallowFacts DEF Swallows
    <3> QED
      BY <1>5, <3>1, <3>2, <3>3
  <2>2. CASE cursor' = cursor
    BY <1>4, <2>1, <2>2
  <2>3. CASE cursor' = cursor + 1 /\ act[Runtime].entry = <<cursor + 1>>
    <3>1. cursor + 1 \in Stored \cup swallowed'
      <4>1. ToSet(<<cursor + 1>>) = {cursor + 1}
        BY DEF ToSet
      <4> QED
        BY <2>1, <2>3, <4>1
    <3>2. cursor' + 1 \in FromRuntime
      BY <1>0, <2>3, ConstantTypes DEF FeedInv, Events, FromRuntime, IdleEvent
    <3>3. \A x \in Stored \cap FromRuntime : x <= cursor' + 1 /\ x # cursor' + 1
      BY <1>0, <2>3 DEF OrderInv
    <3>4. NextStored'
      BY <1>2, <3>2, <3>3, Zenon DEF NextStored
    <3>5. ASSUME NEW i \in 1 .. cursor'
          PROVE  \/ i \in Stored \cup swallowed'
                 \/ IsDelta(i) /\ i \in ToSet(pending') \cup ToSet(act'[Runtime].entry) \cup dropped'
      <4>1. CASE i = cursor + 1
        BY <3>1, <4>1
      <4>2. CASE i \in 1 .. cursor
        BY <1>1, <2>1, <4>2, OrderCursor
      <4> QED
        BY <1>0, <2>3, <4>1, <4>2
    <3> QED
      BY <1>1, <1>3, <3>3, <3>4, <3>5, OrderSame
  <2> QED
    BY <1>5, <2>2, <2>3, ReturnFacts, SwallowFacts
<1>6. CASE RouteGivesUp
  <2>1. cursor' = cursor /\ ops # <<>>
    BY <1>6, GiveUpFacts
  <2>2. ASSUME NEW i \in 1 .. cursor, IsDelta(i), i \in ToSet(act[Runtime].entry)
        PROVE  i \in Stored \cup swallowed' \cup dropped'
    <3>1. CASE Known(act[Runtime].entry)
      BY <1>1, <2>2, <3>1, KnownIsStored
    <3>2. CASE ~Known(act[Runtime].entry)
      <4>1. ToSet(act[Runtime].entry) \ {Op} \subseteq dropped'
        BY <1>6, <3>2, GiveUpFacts
      <4>2. i # Op
        <5>1. i \in FromRuntime /\ i # cursor + 1
          BY <1>0, <2>2 DEF IsDelta, FromRuntime
        <5> QED
          BY <2>1, <5>1, HeadFits
      <4> QED
        BY <2>2, <4>1, <4>2
    <3> QED
      BY <3>1, <3>2
  <2> QED
    BY <1>4, <2>1, <2>2
<1> QED
  BY <1>5, <1>6

LEMMA OrderCommit ==
  ASSUME Shapes, FeedInv, LineInv, RouteInv, OrderInv, NEW a \in Appenders, Commit(a)
  PROVE  OrderInv'
<1>1. CASE Known(act[a].entry)
  BY <1>1, OrderReplay
<1>2. CASE ~Known(act[a].entry) /\ a = Runtime
  BY <1>2, OrderRuntime
<1>3. CASE ~Known(act[a].entry) /\ a # Runtime
  <2>1. a \in Writers /\ a \in Atoms \ FromRuntime
    BY <1>3, ConstantTypes DEF Appenders, FromRuntime, IdleEvent
  <2>2. act[a].entry = <<a>>
    BY <2>1 DEF Shapes, ActShapes, Commit
  <2> QED
    BY <1>3, <2>1, <2>2, OrderForeign
<1> QED
  BY <1>1, <1>2, <1>3

LEMMA OrderStep ==
  ASSUME Shapes, FeedInv, FeedInv', LineInv, RouteInv, OrderInv, [Next]_vars
  PROVE  OrderInv'
<1>1. CASE \/ UNCHANGED vars \/ RuntimeEnds \/ Subscribes \/ Disconnect \/ Monitors
           \/ TimerEnds \/ TimerFires \/ RouteErrors \/ RepairReads \/ Repairs
           \/ \E q \in Asks : AskHeard(q) \/ AskMissed(q)
           \/ \E a \in Appenders : CacheView(a)
           \/ \E w \in Writers : WriterStarts(w) \/ WriterReturns(w) \/ WriterFails(w)
  BY <1>1, QuietSteps, OrderStill
<1>2. CASE \E a \in Appenders : Commit(a)
  BY <1>2, OrderCommit
<1>3. CASE Buffer \/ FlushSession \/ RouteBoundary
  BY <1>3, OrderCoalesce
<1>4. CASE RouteReturns \/ RouteSwallows \/ RouteGivesUp
  BY <1>4, OrderEnds
<1> QED
  BY <1>1, <1>2, <1>3, <1>4 DEF Next, Coalesces, Appends

\* What is stored of the runtime is a part of its events in their order, and
\* what the route is about to append comes after it.
THEOREM OrderHolds == Spec => []OrderInv
<1>1. ASSUME Shapes, FeedInv, FeedInv', LineInv, RouteInv, OrderInv, [Next]_vars PROVE OrderInv'
  BY <1>1, OrderStep
<1> QED
  BY <1>1, OrderInit, ShapesHold, FeedHolds, LineHolds, RoutesHold, PTL DEF Spec

\* The transcript that appendProjectedEvent stores has the runtime's events in
\* the order in which they were produced and each at most once, however the
\* coalescer groups them and however often stream, history and route repeat
\* one.
THEOREM TranscriptKeepsOrder == Spec => []TranscriptInOrder
<1>1. OrderInv => TranscriptInOrder
  BY Zenon DEF OrderInv, InOrder, TranscriptInOrder
<1> QED
  BY <1>1, OrderHolds, PTL

\* An event that lastSequence has passed is stored, is one whose route
\* resolved without storing it, or is a text delta in the buffer, on its way,
\* or lost because its route gave up.
THEOREM CursorSkipsNothing == Spec => []CursorIsSafe
<1>1. OrderInv => CursorIsSafe
  BY DEF OrderInv
<1> QED
  BY <1>1, OrderHolds, PTL

\* deliverAuthoritativeIdle comes after the whole history: when the idle is
\* stored, nothing is missing but lost deltas and events whose own route
\* resolved without storing them.
THEOREM IdleIsLast == Spec => []IdleComesLast
<1>1. ASSUME Shapes, FeedInv, RouteInv, OrderInv PROVE IdleComesLast
  <2>0. /\ cursor \in Nat /\ Len(Script) \in Nat /\ cursor <= Len(Script)
        /\ IdleEvent = Len(Script) + 1 /\ IdleEvent \in FromRuntime
    BY <1>1, OrderTypes, ConstantTypes DEF FeedInv, IdleEvent, FromRuntime
  <2> SUFFICES ASSUME IdleEvent \in Stored, NEW i \in Events
               PROVE  i \in Stored \cup dropped \cup swallowed
    BY Zenon DEF IdleComesLast, Stored
  <2>1. cursor = Len(Script) /\ cursor + 1 \in Stored
    <3>1. IdleEvent <= cursor + 1
      BY <1>1, <2>0 DEF OrderInv
    <3> QED
      BY <2>0, <3>1
  <2>2. pending = <<>> /\ ~Flushing
    BY <1>1, <2>1 DEF OrderInv, NextStored
  <2>3. \/ i \in Stored \cup swallowed
        \/ IsDelta(i) /\ i \in ToSet(pending) \cup ToSet(act[Runtime].entry) \cup dropped
    BY <1>1, <2>1, OrderCursor DEF Events
  <2>4. ToSet(pending) = {}
    BY <2>2 DEF ToSet
  <2>5. IsDelta(i) => i \notin ToSet(act[Runtime].entry)
    <3>1. CASE act[Runtime].entry = <<>>
      BY <3>1 DEF ToSet
    <3>2. CASE act[Runtime].entry = <<Op>> /\ ~IsDelta(Op)
      <4>1. ToSet(<<Op>>) = {Op}
        BY DEF ToSet
      <4> QED
        BY <3>2, <4>1
    <3> QED
      BY <1>1, <2>2, <3>1, <3>2 DEF RouteInv, Routing
  <2> QED
    BY <2>3, <2>4, <2>5
<1> QED
  BY <1>1, ShapesHold, FeedHolds, RoutesHold, OrderHolds, PTL
=============================================================================

--------------------------- MODULE EventStreamProofs ---------------------------
(* Theorems about EventStream, for every number of clients, topics, events and *)
(* failures and every page size.                                               *)
EXTENDS EventStream, FiniteSetTheorems, WellFoundedInduction, TLAPS

-----------------------------------------------------------------------------
(* Sequence numbers, Max and Min *)

LEMMA SequenceNumbersTyped ==
  /\ MaxEvents \in Nat
  /\ SequenceNumbers \subseteq Nat
  /\ 0 \in SequenceNumbers
  /\ \A n \in SequenceNumbers : n <= MaxEvents
  /\ \A n \in Nat : n <= MaxEvents => n \in SequenceNumbers
  BY StreamConstants DEF SequenceNumbers

\* A set of naturals that is not empty has a least element, and that is Min.
LEMMA MinFacts ==
  ASSUME NEW S \in SUBSET Nat, S # {}
  PROVE  Min(S) \in S /\ \A y \in S : Min(S) <= y
<1> DEFINE T == {0 .. x : x \in S}
<1>1. T \subseteq FiniteSubsetsOf(Nat) /\ T # {}
  <2>1. \A x \in S : 0 .. x \in SUBSET Nat /\ IsFiniteSet(0 .. x)
    BY FS_Interval
  <2> QED
    BY <2>1 DEF FiniteSubsetsOf
<1> HIDE DEF T
<1>2. PICK U \in T : \A V \in T : <<V, U>> \notin StrictSubsetOrdering(Nat)
  BY <1>1, FS_StrictSubsetOrderingWellFounded, WFMin
<1>3. PICK x \in S : U = 0 .. x
  BY DEF T
<1>4. ASSUME NEW y \in S PROVE x <= y
  <2> SUFFICES ASSUME y < x PROVE FALSE
    OBVIOUS
  <2>1. 0 .. y \in T
    BY DEF T
  <2>2. 0 .. y \in SUBSET Nat /\ 0 .. x \in SUBSET Nat /\ 0 .. y \subseteq 0 .. x
    OBVIOUS
  <2>3. x \in 0 .. x /\ x \notin 0 .. y
    OBVIOUS
  <2> QED
    BY <1>2, <1>3, <2>1, <2>2, <2>3 DEF StrictSubsetOrdering
<1> QED
  BY <1>4 DEF Min

\* So has a set of sequence numbers a greatest one, and that is Max.
LEMMA MaxFacts ==
  ASSUME NEW S \in SUBSET SequenceNumbers, S # {}
  PROVE  Max(S) \in S /\ \A y \in S : y <= Max(S)
<1> DEFINE T == {MaxEvents - y : y \in S}
<1>1. T \in SUBSET Nat /\ T # {}
  <2>1. \A y \in S : MaxEvents - y \in Nat
    BY SequenceNumbersTyped
  <2> QED
    BY <2>1
<1> HIDE DEF T
<1>2. Min(T) \in T /\ \A y \in T : Min(T) <= y
  BY <1>1, MinFacts
<1>3. PICK x \in S : Min(T) = MaxEvents - x
  BY <1>2 DEF T
<1>4. \A y \in S : MaxEvents - y \in T
  BY DEF T
<1>5. \A y \in S : x >= y
  BY <1>2, <1>3, <1>4, SequenceNumbersTyped
<1> QED
  BY <1>5, SequenceNumbersTyped DEF Max

-----------------------------------------------------------------------------
(* The inductive invariant *)

Stops(k) == k.seen \cup k.snaps

\* A page read after a sequence leaves out only what retention has deleted.
Complete(after, rows, gone) ==
  \A r \in rows : \A n \in after + 1 .. r - 1 : n \in rows \/ n \in gone

\* The writer has stopped at sequences between its start and its position.
Ordered(k) ==
  /\ k.after <= k.last
  /\ \A n \in Stops(k) : k.after < n /\ n <= k.last
  /\ k.last = k.after \/ k.last \in Stops(k)

\* What it left out before an event is behind an earlier snapshot, or was
\* deleted before the first event of a client without a cursor.
Explained(k, gone) ==
  \A e \in k.seen : \A n \in k.after + 1 .. e - 1 :
    \/ n \in k.seen
    \/ \E u \in k.snaps : n <= u /\ u < e
    \/ k.after = 0 /\ n \in gone /\ \A i \in Stops(k) : n < i

\* A snapshot.required never carries the id 0.
SnapsFollow(k) == \A u \in k.snaps : k.after > 0 \/ \E i \in Stops(k) : i < u

WriterOK(k, gone) == Ordered(k) /\ Explained(k, gone) /\ SnapsFollow(k)

\* A connection continues its client's cursor; its catch-up page starts no
\* later than the writer stands.
ConnOK(k, cl, gone) ==
  /\ k.pc = "none" => k = NoConn
  /\ k.pc # "none" => k.after = cl.cursor
  /\ k.pc = "cursor" => Stops(k) = {}
  /\ k.pc = "drain" => Complete(k.page, k.rows, gone) /\ k.page <= k.last
  /\ WriterOK(k, gone)

ClientOK(cl, gone) ==
  /\ \A n \in 1 .. cl.cursor : \/ n \in cl.has \cup Unknown
                               \/ n \in gone /\ \A i \in cl.has : n < i
  /\ cl.cursor = 0 => cl.has = {}

TopicOK(tp, gone) == tp.polling => Complete(tp.after, tp.rows, gone)

ConnsOK == \A c \in Clients : ConnOK(conn[c], client[c], pruned)
ClientsOK == \A c \in Clients : ClientOK(client[c], pruned)
TopicsOK == \A t \in Topics : TopicOK(topic[t], pruned)

\* NoSilentGap rests on the pages in flight being complete, on the hub's
\* positions and on its subscribers.
IInv ==
  /\ StreamTypeOK /\ TopicsAreNeeded /\ ReplayNotAhead /\ SlotsReturned
  /\ ConnsOK /\ ClientsOK /\ TopicsOK

-----------------------------------------------------------------------------
(* What the queries return and what a writer does with it *)

LEMMA RowsFacts ==
  ASSUME latest \in SequenceNumbers, NEW after \in SequenceNumbers
  PROVE  /\ Rows(after) \in SUBSET SequenceNumbers
         /\ Complete(after, Rows(after), pruned)
<1> DEFINE newer == {n \in Retained : n > after}
           Earlier(n) == {m \in newer : m < n}
<1>1. Rows(after) = {n \in newer : Cardinality(Earlier(n)) < Batch}
  BY DEF Rows
<1>2. Retained \in SUBSET SequenceNumbers
  BY SequenceNumbersTyped DEF Retained
<1>3. newer \in SUBSET Nat /\ \A n \in newer : n <= MaxEvents
  BY <1>2, SequenceNumbersTyped
<1>4. IsFiniteSet(newer)
  BY <1>3, SequenceNumbersTyped, FS_BoundedSetOfNaturals
<1>5. ASSUME NEW r \in Rows(after), NEW n \in after + 1 .. r - 1, n \notin pruned
      PROVE  n \in Rows(after)
  <2>1. r \in newer /\ Cardinality(Earlier(r)) < Batch
    BY <1>1
  <2>2. r \in 1 .. latest /\ latest \in Nat /\ after \in Nat
    BY <2>1, SequenceNumbersTyped DEF Retained
  <2>3. n \in newer /\ n < r
    BY <1>5, <2>2 DEF Retained
  <2>4. IsFiniteSet(Earlier(r))
    BY <1>4, FS_Subset
  <2>5. Earlier(n) \in SUBSET Earlier(r)
    BY <2>2, <2>3, <1>3
  <2>6. Cardinality(Earlier(n)) <= Cardinality(Earlier(r))
    BY <2>4, <2>5, FS_Subset
  <2>7. IsFiniteSet(Earlier(n))
    BY <2>4, <2>5, FS_Subset
  <2>8. Cardinality(Earlier(n)) \in Nat /\ Cardinality(Earlier(r)) \in Nat /\ Batch \in Nat
    BY <2>4, <2>7, FS_CardinalityType, StreamConstants
  <2>9. Cardinality(Earlier(n)) < Batch
    BY <2>1, <2>6, <2>8
  <2> QED
    BY <1>1, <2>3, <2>9
<1>6. Complete(after, Rows(after), pruned)
  BY <1>5 DEF Complete
<1>7. Rows(after) \in SUBSET SequenceNumbers
  BY <1>1, <1>2
<1> QED
  BY <1>6, <1>7

\* A writer passes every row, moves on only to one of them, stops at exactly
\* the new ones, and writes those that follow their predecessor.
LEMMA WriteRowsFacts ==
  ASSUME NEW k \in Connections, NEW rows \in SUBSET SequenceNumbers
  PROVE  LET w == WriteRows(k, rows)
             New(n) == n \in rows /\ n > k.last
         IN  /\ w \in Connections
             /\ w.pc = k.pc /\ w.after = k.after /\ w.page = k.page /\ w.rows = k.rows
             /\ k.last <= w.last
             /\ \A r \in rows : r <= w.last
             /\ w.last = k.last \/ New(w.last)
             /\ k.seen \subseteq w.seen /\ k.snaps \subseteq w.snaps
             /\ \A n \in Stops(w) : n \in Stops(k) \/ New(n)
             /\ \A n \in rows : New(n) => n \in Stops(w)
             /\ \A n \in w.seen : \/ n \in k.seen
                                  \/ /\ New(n)
                                     /\ \/ New(n - 1)
                                        \/ n - 1 = k.last
                                        \/ k.last = 0 /\ \A m \in rows : New(m) => n <= m
             /\ \A n \in w.snaps : \/ n \in k.snaps
                                   \/ /\ New(n)
                                      /\ ~ New(n - 1) /\ n - 1 # k.last
                                      /\ k.last # 0 \/ \E m \in rows : New(m) /\ m < n
<1> DEFINE new == {n \in rows : n > k.last}
           follows == {n \in new : \/ n - 1 \in new \cup {k.last}
                                   \/ k.last = 0 /\ n = Min(new)}
           w == WriteRows(k, rows)
<1>1. w = [k EXCEPT !.last = Max(new \cup {k.last}), !.seen = k.seen \cup follows,
                    !.snaps = k.snaps \cup (new \ follows)]
  BY DEF WriteRows
<1>2. /\ k.last \in SequenceNumbers /\ k.seen \in SUBSET SequenceNumbers
      /\ k.snaps \in SUBSET SequenceNumbers
  BY DEF Connections
<1>3. new \cup {k.last} \in SUBSET SequenceNumbers /\ follows \subseteq new
  BY <1>2
<1>4. /\ Max(new \cup {k.last}) \in new \cup {k.last}
      /\ \A y \in new \cup {k.last} : y <= Max(new \cup {k.last})
  BY <1>3, MaxFacts
<1>5. new # {} => Min(new) \in new /\ \A y \in new : Min(new) <= y
  <2>1. new \in SUBSET Nat
    BY <1>3, SequenceNumbersTyped
  <2> QED
    BY <2>1, MinFacts
<1> HIDE DEF follows
<1>6. /\ w.last = Max(new \cup {k.last})
      /\ w.seen = k.seen \cup follows
      /\ w.snaps = k.snaps \cup (new \ follows)
      /\ w.pc = k.pc /\ w.after = k.after /\ w.page = k.page /\ w.rows = k.rows
  BY <1>1 DEF Connections
<1>7. w \in Connections
  <2> DEFINE top == Max(new \cup {k.last})
             seen == k.seen \cup follows
             snaps == k.snaps \cup (new \ follows)
  <2>1. top \in SequenceNumbers /\ seen \in SUBSET SequenceNumbers /\ snaps \in SUBSET SequenceNumbers
    BY <1>2, <1>3, <1>4
  <2>2. w = [k EXCEPT !.last = top, !.seen = seen, !.snaps = snaps]
    BY <1>1
  <2> HIDE DEF top, seen, snaps
  <2>3. [k EXCEPT !.last = top, !.seen = seen, !.snaps = snaps] \in Connections
    BY <2>1 DEF Connections
  <2> QED
    BY <2>2, <2>3, Zenon
<1>8. \A r \in rows : r <= w.last
  <2>1. w.last \in Nat /\ k.last \in Nat /\ k.last <= w.last /\ \A y \in new : y <= w.last
    BY <1>2, <1>3, <1>4, <1>6, SequenceNumbersTyped
  <2>2. \A r \in rows : r \in Nat
    BY SequenceNumbersTyped
  <2> QED
    BY <2>1, <2>2
<1>9. \A n \in new : n \in Nat
  BY <1>3, SequenceNumbersTyped
<1>10. \A n \in follows : \/ n - 1 \in new \/ n - 1 = k.last
                          \/ k.last = 0 /\ \A m \in new : n <= m
  BY <1>5 DEF follows
<1>11. \A n \in new \ follows : /\ n - 1 \notin new /\ n - 1 # k.last
                                /\ k.last # 0 \/ \E m \in new : m < n
  <2> SUFFICES ASSUME NEW n \in new \ follows
               PROVE  /\ n - 1 \notin new /\ n - 1 # k.last
                      /\ k.last # 0 \/ \E m \in new : m < n
    OBVIOUS
  <2>1. n - 1 \notin new /\ n - 1 # k.last /\ (k.last # 0 \/ n # Min(new))
    BY DEF follows
  <2>2. Min(new) \in new /\ Min(new) <= n
    BY <1>5
  <2>3. n # Min(new) => Min(new) < n
    BY <1>9, <2>2
  <2> QED
    BY <2>1, <2>2, <2>3
<1> HIDE DEF w
<1> QED
  BY <1>3, <1>4, <1>6, <1>7, <1>8, <1>10, <1>11 DEF Stops, w

\* The writer's step: a row that does not follow is turned into a snapshot, so
\* that only the first rows of a client without a cursor need to be complete.
LEMMA WriteRowsOK ==
  ASSUME NEW k \in Connections, NEW rows \in SUBSET SequenceNumbers, NEW gone,
         WriterOK(k, gone),
         k.last = 0 => Complete(0, rows, gone)
  PROVE  WriterOK(WriteRows(k, rows), gone)
<1> DEFINE w == WriteRows(k, rows)
           New(n) == n \in rows /\ n > k.last
<1>1. /\ w \in Connections
      /\ w.after = k.after
      /\ k.last <= w.last
      /\ \A r \in rows : r <= w.last
      /\ w.last = k.last \/ New(w.last)
      /\ k.seen \subseteq w.seen /\ k.snaps \subseteq w.snaps
      /\ \A n \in Stops(w) : n \in Stops(k) \/ New(n)
      /\ \A n \in rows : New(n) => n \in Stops(w)
      /\ \A n \in w.seen : \/ n \in k.seen
                           \/ /\ New(n)
                              /\ \/ New(n - 1)
                                 \/ n - 1 = k.last
                                 \/ k.last = 0 /\ \A m \in rows : New(m) => n <= m
      /\ \A n \in w.snaps : \/ n \in k.snaps
                            \/ /\ New(n)
                               /\ ~ New(n - 1) /\ n - 1 # k.last
                               /\ k.last # 0 \/ \E m \in rows : New(m) /\ m < n
  BY WriteRowsFacts
<1> HIDE DEF w
<1>2. /\ k.after \in Nat /\ k.last \in Nat /\ w.last \in Nat
      /\ \A n \in Stops(w) : n \in Nat
      /\ \A n \in Stops(k) : n \in Nat
      /\ \A n \in rows : n \in Nat
  BY <1>1, SequenceNumbersTyped DEF Connections, Stops
<1>3. Stops(k) \subseteq Stops(w)
  BY <1>1 DEF Stops
<1>4. Ordered(k) /\ Explained(k, gone) /\ SnapsFollow(k)
  BY DEF WriterOK
<1>5. Ordered(w)
  BY <1>1, <1>2, <1>3, <1>4 DEF Ordered
<1>6. SnapsFollow(w)
  <2> SUFFICES ASSUME NEW u \in w.snaps, w.after = 0
               PROVE  \E i \in Stops(w) : i < u
    BY <1>1, <1>2 DEF SnapsFollow
  <2>1. CASE u \in k.snaps
    BY <2>1, <1>1, <1>2, <1>3, <1>4 DEF SnapsFollow
  <2>2. CASE New(u) /\ k.last # 0
    <3>1. k.last \in Stops(k)
      BY <2>2, <1>1, <1>4 DEF Ordered
    <3> QED
      BY <2>2, <3>1, <1>3
  <2>3. CASE New(u) /\ \E m \in rows : New(m) /\ m < u
    BY <2>3, <1>1
  <2> QED
    BY <1>1, <2>1, <2>2, <2>3
<1>7. Explained(w, gone)
  <2> SUFFICES ASSUME NEW e \in w.seen, NEW n \in k.after + 1 .. e - 1,
                      n \notin w.seen,
                      ~ \E u \in w.snaps : n <= u /\ u < e
               PROVE  w.after = 0 /\ n \in gone /\ \A i \in Stops(w) : n < i
    BY <1>1 DEF Explained
  <2>1. e \in Nat /\ n \in Nat /\ k.after < n /\ n < e
    BY <1>2 DEF Stops
  <2>2. n \notin k.seen /\ ~ \E u \in k.snaps : n <= u /\ u < e
    BY <1>1
  <2>3. CASE e \in k.seen
    <3>1. k.after = 0 /\ n \in gone /\ \A i \in Stops(k) : n < i
      BY <2>2, <2>3, <1>4 DEF Explained
    <3>2. e <= k.last
      BY <2>3, <1>4 DEF Ordered, Stops
    <3> QED
      BY <3>1, <3>2, <2>1, <1>1, <1>2
  <2>4. CASE New(e) /\ n <= k.last
    <3>1. k.last \in Stops(k) /\ k.last # n
      <4>1. k.last \in Stops(k)
        BY <2>1, <2>4, <1>2, <1>4 DEF Ordered
      <4>2. k.last \in k.snaps => n <= k.last /\ k.last < e
        BY <2>4
      <4> QED
        BY <4>1, <4>2, <2>2 DEF Stops
    <3>2. k.last \in k.seen
      BY <3>1, <2>2, <2>4 DEF Stops
    <3>3. n \in k.after + 1 .. k.last - 1
      BY <3>1, <2>1, <2>4, <1>2
    <3>4. ~ \E u \in k.snaps : n <= u /\ u < k.last
      BY <2>1, <2>2, <2>4, <1>2 DEF Stops
    <3>5. k.after = 0 /\ n \in gone /\ \A i \in Stops(k) : n < i
      BY <2>2, <3>2, <3>3, <3>4, <1>4 DEF Explained
    <3> QED
      BY <3>5, <2>1, <2>4, <1>1, <1>2
  <2>5. CASE New(e) /\ k.last < n
    <3> DEFINE Later == {m \in rows : n < m}
    <3>1. n \notin rows
      BY <2>1, <2>2, <2>5, <1>1 DEF Stops
    <3>2. Later \in SUBSET Nat /\ Later # {}
      BY <1>2, <2>1, <2>5
    <3>3. PICK f \in Later : \A m \in Later : f <= m
      <4> HIDE DEF Later
      <4> QED
        BY <3>2, MinFacts
    <3>4. f \in Nat /\ n < f /\ f <= e /\ New(f)
      BY <3>3, <2>1, <2>5, <1>2
    <3>5. ~ New(f - 1) /\ f - 1 # k.last
      BY <3>1, <3>3, <3>4, <2>1, <2>5, <1>2
    <3>6. f \in w.seen
      <4>1. f \in Stops(w)
        BY <3>4, <1>1
      <4>2. f # e => f \notin w.snaps
        BY <3>4, <2>1
      <4> QED
        BY <4>1, <4>2 DEF Stops
    <3>7. f \notin k.seen
      BY <3>4, <1>2, <1>4 DEF Ordered, Stops
    <3>8. k.last = 0 /\ \A m \in rows : New(m) => f <= m
      BY <3>5, <3>6, <3>7, <1>1
    <3>9. k.after = 0 /\ Stops(k) = {}
      BY <3>8, <1>2, <1>4 DEF Ordered
    <3>10. n \in gone
      <4>1. n \in 0 + 1 .. f - 1 /\ f \in rows
        BY <3>4, <2>1, <3>9
      <4> QED
        BY <4>1, <3>1, <3>8 DEF Complete
    <3>11. \A i \in Stops(w) : n < i
      BY <3>4, <3>8, <3>9, <1>1, <1>2, <2>1
    <3> QED
      BY <3>9, <3>10, <3>11, <1>1
  <2>6. e \in k.seen \/ New(e)
    BY <1>1
  <2> QED
    BY <2>1, <2>3, <2>4, <2>5, <2>6, <1>2
<1> QED
  BY <1>5, <1>6, <1>7 DEF WriterOK, w

\* writeGapSnapshot on a connection that has written nothing yet.
LEMMA GapSnapshotFacts ==
  ASSUME NEW k \in Connections, NEW gone, WriterOK(k, gone), Stops(k) = {}, HasReplayGap(k)
  PROVE  LET w == WriteGapSnapshot(k)
         IN  /\ w \in Connections
             /\ w.pc = k.pc /\ w.after = k.after
             /\ WriterOK(w, gone)
<1> DEFINE observed == Max({k.earliest, k.newest})
           w == WriteGapSnapshot(k)
<1>1. /\ k.earliest \in SequenceNumbers /\ k.newest \in SequenceNumbers
      /\ k.last \in SequenceNumbers /\ k.after \in SequenceNumbers
      /\ k.seen \in SUBSET SequenceNumbers
      /\ k.snaps \in SUBSET SequenceNumbers
  BY DEF Connections
<1>2. observed \in SequenceNumbers /\ k.earliest <= observed
  BY <1>1, MaxFacts
<1>n. observed \in Nat /\ k.last \in Nat /\ k.after \in Nat /\ k.earliest \in Nat
  BY <1>1, <1>2, SequenceNumbersTyped
<1> HIDE DEF observed
<1>3. Max({k.last, observed}) \in {k.last, observed} /\ k.last <= Max({k.last, observed})
      /\ observed <= Max({k.last, observed})
  BY <1>1, <1>2, MaxFacts
<1>4. k.last = k.after
  BY DEF WriterOK, Ordered
<1>5. k.after > 0 /\ k.after < observed
  BY <1>2, <1>n DEF HasReplayGap
<1>6. Max({k.last, observed}) = observed
  BY <1>3, <1>4, <1>5, <1>n
<1>7. w = [k EXCEPT !.last = observed, !.snaps = k.snaps \cup {observed}]
  BY <1>6 DEF WriteGapSnapshot, observed
<1>8. /\ w \in Connections
      /\ w.pc = k.pc /\ w.after = k.after /\ w.last = observed
      /\ w.seen = {} /\ w.snaps = {observed}
  <2>1. k.seen = {} /\ k.snaps = {}
    BY DEF Stops
  <2> HIDE DEF w
  <2> QED
    BY <2>1, <1>1, <1>2, <1>7 DEF Connections
<1> HIDE DEF w
<1>9. WriterOK(w, gone)
  BY <1>5, <1>8, <1>n DEF WriterOK, Ordered, Explained, SnapsFollow, Stops
<1> QED
  BY <1>8, <1>9 DEF w

-----------------------------------------------------------------------------
(* What a client has when a connection ends *)

ClientRecords == [cursor : SequenceNumbers, has : SUBSET SequenceNumbers]

LEMMA ReceivedOK ==
  ASSUME NEW c \in Clients, NEW m \in SequenceNumbers,
         conn[c] \in Connections, client[c] \in ClientRecords,
         ConnOK(conn[c], client[c], pruned), ClientOK(client[c], pruned)
  PROVE  Received(c, m) \in ClientRecords /\ ClientOK(Received(c, m), pruned)
<1> DEFINE k == conn[c]
           cl == client[c]
           snaps == {n \in k.snaps : n <= m}
           events == {n \in k.seen \ Unknown : n <= m}
           Before(n) == Max({k.after} \cup {i \in k.seen \cup k.snaps : i < n})
           cursors == {cl.cursor} \cup events \cup {Before(n) : n \in snaps}
           r == Received(c, m)
<1>1. /\ k.after \in SequenceNumbers /\ k.seen \in SUBSET SequenceNumbers
      /\ k.snaps \in SUBSET SequenceNumbers
      /\ cl.cursor \in SequenceNumbers /\ cl.has \in SUBSET SequenceNumbers
  BY DEF Connections, ClientRecords
<1>2. r = [cursor |-> Max(cursors), has |-> cl.has \cup events \cup UNION {1 .. n : n \in snaps}]
  BY DEF Received
<1>3. WriterOK(k, pruned) /\ (k.pc = "none" => k = NoConn) /\ (k.pc # "none" => k.after = cl.cursor)
  BY DEF ConnOK
<1>4. \A u \in k.snaps : /\ Before(u) \in {k.after} \cup Stops(k)
                         /\ Before(u) < u
                         /\ Before(u) \in SequenceNumbers
                         /\ \A i \in Stops(k) : i < u => i <= Before(u)
  <2> SUFFICES ASSUME NEW u \in k.snaps
               PROVE  /\ Before(u) \in {k.after} \cup Stops(k)
                      /\ Before(u) < u
                      /\ Before(u) \in SequenceNumbers
                      /\ \A i \in Stops(k) : i < u => i <= Before(u)
    OBVIOUS
  <2> DEFINE S == {k.after} \cup {i \in k.seen \cup k.snaps : i < u}
  <2>1. S \in SUBSET SequenceNumbers /\ S # {}
    BY <1>1
  <2> HIDE DEF S
  <2>2. Max(S) \in S /\ \A y \in S : y <= Max(S)
    BY <2>1, MaxFacts
  <2>3. Before(u) = Max(S)
    BY DEF S
  <2>4. k.after < u
    BY <1>3 DEF WriterOK, Ordered, Stops
  <2>5. \A y \in S : y < u /\ y \in {k.after} \cup Stops(k)
    BY <2>4 DEF S, Stops
  <2>6. \A i \in Stops(k) : i < u => i \in S
    BY DEF S, Stops
  <2> HIDE DEF Before
  <2> QED
    BY <2>1, <2>2, <2>3, <2>5, <2>6
<1> HIDE DEF Before
<1>5. cursors \in SUBSET SequenceNumbers /\ cursors # {}
  BY <1>1, <1>4
<1>6. Max(cursors) \in cursors /\ \A y \in cursors : y <= Max(cursors)
  <2> HIDE DEF cursors
  <2> QED
    BY <1>5, MaxFacts
<1>7. \A u \in snaps : 1 .. u \subseteq SequenceNumbers
  BY <1>1, StreamConstants DEF SequenceNumbers
<1>8. /\ r \in ClientRecords
      /\ r.cursor = Max(cursors)
      /\ r.has = cl.has \cup events \cup UNION {1 .. n : n \in snaps}
  <2>1. UNION {1 .. n : n \in snaps} \subseteq SequenceNumbers
    BY <1>7
  <2>2. Max(cursors) \in SequenceNumbers
    BY <1>5, <1>6
  <2> HIDE DEF r, cursors
  <2> QED
    BY <2>1, <2>2, <1>1, <1>2 DEF ClientRecords
<1>9. \A n \in Nat : n \in r.has <=> \/ n \in cl.has \/ n \in events
                                     \/ \E u \in snaps : n \in 1 .. u
  BY <1>8
<1>n. /\ k.after \in Nat /\ cl.cursor \in Nat /\ r.cursor \in Nat /\ m \in Nat
      /\ \A n \in k.seen : n \in Nat
      /\ \A n \in k.snaps : n \in Nat
      /\ \A n \in cl.has : n \in Nat
      /\ \A n \in r.has : n \in Nat
  BY <1>1, <1>8, SequenceNumbersTyped DEF ClientRecords
<1> HIDE DEF r
<1>10. ASSUME k.pc = "none" PROVE r.cursor = cl.cursor /\ r.has = cl.has
  <2>1. k.seen = {} /\ k.snaps = {}
    BY <1>3, <1>10 DEF NoConn
  <2>2. cursors = {cl.cursor} /\ r.has = cl.has
    BY <2>1, <1>8
  <2>3. r.cursor = cl.cursor
    BY <2>2, <1>6, <1>8
  <2> QED
    BY <2>2, <2>3
<1>11. ASSUME k.pc # "none", NEW n \in 1 .. r.cursor, n \notin r.has \cup Unknown
       PROVE  n \in pruned /\ \A i \in r.has : n < i
  <2>1. k.after = cl.cursor
    BY <1>3, <1>11
  <2>2. \A u \in snaps : u < n
    BY <1>9, <1>11, <1>n
  <2>3. snaps = {}
    <3> SUFFICES ASSUME NEW u \in snaps PROVE FALSE
      OBVIOUS
    <3>1. PICK v \in snaps : Before(v) = r.cursor \/ r.cursor = cl.cursor \/ r.cursor \in events
      BY <1>6, <1>8
    <3>2. r.cursor # cl.cursor
      BY <2>1, <2>2, <1>3, <1>11, <1>n DEF WriterOK, Ordered, Stops
    <3>3. r.cursor \in events
      BY <1>6, <1>8, <3>2, <2>2, <1>4, <1>11, <1>n
    <3>4. n < r.cursor
      BY <1>9, <1>11, <3>3, <1>n
    <3>5. k.after < u /\ u < n
      BY <2>2, <1>3 DEF WriterOK, Ordered, Stops
    <3>6. n \in k.after + 1 .. r.cursor - 1
      BY <3>4, <3>5, <1>11, <1>n
    <3>7. n \notin k.seen
      BY <3>3, <3>4, <1>9, <1>11, <1>n
    <3>8. ~ \E v2 \in k.snaps : n <= v2 /\ v2 < r.cursor
      BY <2>2, <3>3, <1>11, <1>n
    <3>9. \A i \in Stops(k) : n < i
      BY <3>3, <3>6, <3>7, <3>8, <1>3 DEF WriterOK, Explained
    <3> QED
      BY <3>5, <3>9, <1>11, <1>n DEF Stops
  <2>4. r.has = cl.has \cup events
    BY <2>3, <1>8
  <2>5. \A i \in events : k.after < i
    BY <1>3 DEF WriterOK, Ordered, Stops
  <2>6. CASE n <= cl.cursor
    <3>1. n \in pruned /\ \A i \in cl.has : n < i
      BY <2>4, <2>6, <1>11, <1>n DEF ClientOK
    <3> QED
      BY <3>1, <2>1, <2>4, <2>5, <2>6, <1>11, <1>n
  <2>7. CASE cl.cursor < n
    <3>1. r.cursor \in events
      BY <2>3, <2>7, <1>6, <1>8, <1>11, <1>n
    <3>2. n < r.cursor
      BY <2>4, <3>1, <1>11, <1>n
    <3>3. n \in k.after + 1 .. r.cursor - 1
      BY <3>2, <2>1, <2>7, <1>11, <1>n
    <3>4. n \notin k.seen
      BY <3>1, <3>2, <2>4, <1>11, <1>n
    <3>5. ~ \E u \in k.snaps : n <= u /\ u < r.cursor
      BY <2>3, <3>1, <1>n
    <3>6. k.after = 0 /\ n \in pruned /\ \A i \in Stops(k) : n < i
      BY <3>1, <3>3, <3>4, <3>5, <1>3 DEF WriterOK, Explained
    <3>7. cl.has = {}
      BY <2>1, <3>6 DEF ClientOK
    <3> QED
      BY <2>4, <3>6, <3>7 DEF Stops
  <2>8. n \in Nat /\ cl.cursor \in Nat
    BY <1>11, <1>n
  <2> HIDE DEF k, cl, snaps, events, cursors
  <2> QED
    BY <2>6, <2>7, <2>8
<1>12. ASSUME k.pc # "none", r.cursor = 0 PROVE r.has = {}
  <2>1. k.after = cl.cursor /\ cl.cursor = 0
    <3>1. cl.cursor \in cursors
      OBVIOUS
    <3>2. cl.cursor \in Nat
      BY <1>n
    <3> HIDE DEF k, cl, cursors
    <3>3. cl.cursor <= 0
      BY <1>6, <1>8, <1>12, <3>1
    <3> QED
      BY <1>3, <1>12, <3>2, <3>3
  <2>2. cl.has = {}
    BY <2>1 DEF ClientOK
  <2>3. events = {}
    BY <2>1, <1>3, <1>6, <1>8, <1>12, <1>n DEF WriterOK, Ordered, Stops
  <2>4. snaps = {}
    <3> SUFFICES ASSUME NEW u \in snaps PROVE FALSE
      OBVIOUS
    <3>1. Before(u) <= 0
      BY <1>6, <1>8, <1>12
    <3>2. PICK i \in Stops(k) : i < u
      BY <2>1, <1>3, <1>n DEF WriterOK, SnapsFollow
    <3>3. 0 < i /\ i <= Before(u)
      BY <3>2, <2>1, <1>3, <1>4 DEF WriterOK, Ordered
    <3> QED
      BY <3>1, <3>2, <3>3, <1>4, <1>n, SequenceNumbersTyped DEF Stops
  <2> QED
    BY <2>2, <2>3, <2>4, <1>8
<1>13. ClientOK(r, pruned)
  <2>1. CASE k.pc = "none"
    BY <1>10, <2>1 DEF ClientOK
  <2>2. CASE k.pc # "none"
    BY <1>11, <1>12, <2>2 DEF ClientOK
  <2> QED
    BY <2>1, <2>2
<1> QED
  BY <1>8, <1>13 DEF r

-----------------------------------------------------------------------------
(* What the hub's operations do to a topic *)

LEMMA NothingTyped ==
  /\ NoConn \in Connections
  /\ NoTopic \in HubTopics
  /\ \A gone : TopicOK(NoTopic, gone)
  /\ NoTopic.subs = {} /\ NoTopic.open = FALSE
<1>1. NoConn \in Connections
  BY SequenceNumbersTyped DEF NoConn, Connections
<1>2. NoTopic \in HubTopics
  BY SequenceNumbersTyped DEF NoTopic, HubTopics
<1> QED
  BY <1>1, <1>2 DEF NoTopic, TopicOK

LEMMA ReplayAfterTyped ==
  ASSUME NEW tp \in HubTopics
  PROVE  ReplayAfter(tp) \in SequenceNumbers
<1> DEFINE S == {tp.last} \cup {tp.at[c] : c \in tp.subs}
<1>1. S \in SUBSET SequenceNumbers /\ S # {}
  BY DEF HubTopics
<1>2. S \in SUBSET Nat
  BY <1>1, SequenceNumbersTyped
<1>3. Min(S) \in S
  <2> HIDE DEF S
  <2> QED
    BY <1>1, <1>2, MinFacts
<1> QED
  BY <1>1, <1>3 DEF ReplayAfter

\* A poll that is requested changes neither the subscribers nor where they are,
\* and the page it asks for is complete.
LEMMA RequestPollFacts ==
  ASSUME latest \in SequenceNumbers, NEW tp \in HubTopics, TopicOK(tp, pruned)
  PROVE  LET q == RequestPoll(tp)
         IN  /\ q \in HubTopics /\ TopicOK(q, pruned)
             /\ q.open = tp.open /\ q.subs = tp.subs /\ q.at = tp.at
<1> DEFINE q == RequestPoll(tp)
<1>1. CASE ~ tp.open
  BY <1>1 DEF RequestPoll
<1>2. CASE tp.open /\ tp.polling
  <2>1. q = [tp EXCEPT !.requested = TRUE]
    BY <1>2 DEF RequestPoll
  <2> HIDE DEF q
  <2>2. /\ q \in HubTopics /\ q.open = tp.open /\ q.subs = tp.subs /\ q.at = tp.at
        /\ q.polling = tp.polling /\ q.after = tp.after /\ q.rows = tp.rows
    BY <2>1 DEF HubTopics
  <2> QED
    BY <2>2 DEF TopicOK, q
<1>3. CASE tp.open /\ ~ tp.polling
  <2> DEFINE after == ReplayAfter(tp)
  <2>1. q = [tp EXCEPT !.polling = TRUE, !.requested = FALSE, !.after = after, !.rows = Rows(after)]
    BY <1>3 DEF RequestPoll
  <2>2. after \in SequenceNumbers
    BY ReplayAfterTyped
  <2> HIDE DEF q, after
  <2>3. Rows(after) \in SUBSET SequenceNumbers /\ Complete(after, Rows(after), pruned)
    BY <2>2, RowsFacts
  <2>4. /\ q \in HubTopics /\ q.open = tp.open /\ q.subs = tp.subs /\ q.at = tp.at
        /\ q.after = after /\ q.rows = Rows(after)
    BY <2>1, <2>2, <2>3 DEF HubTopics
  <2> QED
    BY <2>3, <2>4 DEF TopicOK, q
<1> QED
  BY <1>1, <1>2, <1>3

LEMMA PolledFacts ==
  ASSUME latest \in SequenceNumbers, NEW tp \in HubTopics
  PROVE  LET q == Polled(tp)
         IN  /\ q \in HubTopics /\ TopicOK(q, pruned)
             /\ q.open = tp.open /\ q.subs = tp.subs /\ q.at = tp.at
<1> DEFINE done == [tp EXCEPT !.polling = FALSE, !.requested = FALSE, !.after = 0, !.rows = {}]
<1>1. Polled(tp) = RequestPoll(done) \/ Polled(tp) = done
  BY DEF Polled
<1>2. /\ done \in HubTopics /\ done.open = tp.open /\ done.subs = tp.subs /\ done.at = tp.at
      /\ done.polling = FALSE
  BY SequenceNumbersTyped DEF HubTopics
<1>3. TopicOK(done, pruned)
  BY <1>2 DEF TopicOK
<1> HIDE DEF done
<1> QED
  BY <1>1, <1>2, <1>3, RequestPollFacts

LEMMA SubscribedFacts ==
  ASSUME latest \in SequenceNumbers, NEW tp \in HubTopics, TopicOK(tp, pruned),
         NEW c \in Clients, NEW last \in SequenceNumbers
  PROVE  LET q == Subscribed(tp, c, last)
         IN  /\ q \in HubTopics /\ TopicOK(q, pruned)
             /\ q.open
             /\ tp.open => q.subs = tp.subs \cup {c}
             /\ ~ tp.open => q.subs = {c}
             /\ q.at[c] = last
             /\ \A d \in q.subs \ {c} : q.at[d] = tp.at[d]
<1>1. CASE tp.open
  <2> DEFINE s == [tp EXCEPT !.subs = tp.subs \cup {c}, !.at[c] = last]
  <2>1. Subscribed(tp, c, last) = RequestPoll(s)
    BY <1>1 DEF Subscribed
  <2>2. /\ s \in HubTopics /\ s.open = tp.open /\ s.subs = tp.subs \cup {c}
        /\ s.at = [tp.at EXCEPT ![c] = last]
        /\ s.polling = tp.polling /\ s.after = tp.after /\ s.rows = tp.rows
    BY DEF HubTopics
  <2> HIDE DEF s
  <2>3. TopicOK(s, pruned)
    BY <2>2 DEF TopicOK
  <2>4. s.at[c] = last /\ \A d \in Clients : d # c => s.at[d] = tp.at[d]
    BY <2>2 DEF HubTopics
  <2>5. s.subs \subseteq Clients
    BY <2>2 DEF HubTopics
  <2>6. tp.open = TRUE
    BY <1>1 DEF HubTopics
  <2>7. /\ RequestPoll(s) \in HubTopics /\ TopicOK(RequestPoll(s), pruned)
        /\ RequestPoll(s).open = TRUE /\ RequestPoll(s).subs = tp.subs \cup {c}
        /\ RequestPoll(s).at = s.at
    BY <2>2, <2>3, <2>6, RequestPollFacts
  <2> QED
    BY <1>1, <2>1, <2>2, <2>4, <2>5, <2>7
<1>2. CASE ~ tp.open
  <2> DEFINE s == [NoTopic EXCEPT !.open = TRUE, !.subs = {c}, !.at[c] = last, !.last = last]
  <2>1. Subscribed(tp, c, last) = RequestPoll(s)
    BY <1>2 DEF Subscribed
  <2>2. NoTopic \in HubTopics /\ NoTopic.polling = FALSE
    BY NothingTyped DEF NoTopic
  <2>3. /\ s \in HubTopics /\ s.open = TRUE /\ s.subs = {c}
        /\ s.at = [NoTopic.at EXCEPT ![c] = last]
        /\ s.polling = FALSE
    BY <2>2 DEF HubTopics
  <2> HIDE DEF s
  <2>4. TopicOK(s, pruned)
    BY <2>3 DEF TopicOK
  <2>5. s.at[c] = last
    BY <2>2, <2>3 DEF HubTopics
  <2> QED
    BY <1>2, <2>1, <2>3, <2>4, <2>5, RequestPollFacts
<1> QED
  BY <1>1, <1>2

LEMMA UnsubscribedFacts ==
  ASSUME NEW tp \in HubTopics, NEW gone, TopicOK(tp, gone), NEW c \in Clients,
         tp.open <=> tp.subs # {}
  PROVE  LET q == Unsubscribed(tp, c)
         IN  /\ q \in HubTopics /\ TopicOK(q, gone)
             /\ q.subs = tp.subs \ {c}
             /\ q.open <=> q.subs # {}
             /\ \A d \in q.subs : q.at[d] = tp.at[d]
<1>1. CASE c \notin tp.subs
  BY <1>1 DEF Unsubscribed
<1>2. CASE tp.subs = {c}
  <2>1. Unsubscribed(tp, c) = NoTopic
    BY <1>2 DEF Unsubscribed
  <2> QED
    BY <1>2, <2>1, NothingTyped
<1>3. CASE c \in tp.subs /\ tp.subs # {c}
  <2> DEFINE q == Unsubscribed(tp, c)
  <2>1. q = [tp EXCEPT !.subs = tp.subs \ {c}, !.at[c] = 0]
    BY <1>3 DEF Unsubscribed
  <2> HIDE DEF q
  <2>2. /\ q \in HubTopics /\ q.open = tp.open /\ q.subs = tp.subs \ {c}
        /\ q.at = [tp.at EXCEPT ![c] = 0]
        /\ q.polling = tp.polling /\ q.after = tp.after /\ q.rows = tp.rows
    BY <2>1, SequenceNumbersTyped DEF HubTopics
  <2>3. TopicOK(q, gone)
    BY <2>2 DEF TopicOK
  <2>4. \A d \in q.subs : q.at[d] = tp.at[d]
    BY <2>2 DEF HubTopics
  <2>5. q.open <=> q.subs # {}
    BY <1>3, <2>2
  <2> QED
    BY <2>2, <2>3, <2>4, <2>5 DEF q
<1> QED
  BY <1>1, <1>2, <1>3

-----------------------------------------------------------------------------
(* The inductive invariant holds initially and is preserved by every step *)

LEMMA TrackedFinite ==
  /\ IsFiniteSet(Tracked) /\ Cardinality(Tracked) \in Nat
  /\ Tracked \subseteq Clients
<1>1. Tracked \subseteq Clients
  BY DEF Tracked
<1>2. IsFiniteSet(Tracked)
  BY <1>1, FS_Subset, StreamConstants
<1> QED
  BY <1>1, <1>2, FS_CardinalityType

LEMMA NoConnOK ==
  ASSUME NEW cl, NEW gone PROVE ConnOK(NoConn, cl, gone)
  BY DEF ConnOK, NoConn, WriterOK, Ordered, Explained, SnapsFollow, Stops

LEMMA InitIInv == Init => IInv
<1> SUFFICES ASSUME Init PROVE IInv
  OBVIOUS
<1> USE DEF Init
<1>1. StreamTypeOK
  <2>1. conn \in [Clients -> Connections] /\ topic \in [Topics -> HubTopics]
    BY NothingTyped
  <2>2. client \in [Clients -> [cursor : SequenceNumbers, has : SUBSET SequenceNumbers]]
    BY SequenceNumbersTyped
  <2>3. faults \in 0 .. MaxFaults /\ orgCount \in Nat
    BY StreamConstants
  <2>b. closing \in BOOLEAN
    OBVIOUS
  <2>4. latest \in SequenceNumbers /\ pruned \subseteq 1 .. latest /\ unpublished \subseteq 1 .. latest
    BY SequenceNumbersTyped
  <2> QED
    BY <2>1, <2>2, <2>3, <2>b, <2>4 DEF StreamTypeOK
<1>2. Live = {} /\ Tracked = {}
  BY DEF Live, Tracked, NoConn
<1>3. TopicsAreNeeded
  BY <1>2, NothingTyped DEF TopicsAreNeeded
<1>4. ReplayNotAhead
  BY NothingTyped DEF ReplayNotAhead
<1>5. SlotsReturned
  BY <1>2, FS_EmptySet DEF SlotsReturned
<1>6. ConnsOK
  BY NoConnOK DEF ConnsOK
<1>7. ClientsOK
  BY DEF ClientsOK, ClientOK
<1>8. TopicsOK
  BY NothingTyped DEF TopicsOK
<1> QED
  BY <1>1, <1>3, <1>4, <1>5, <1>6, <1>7, <1>8 DEF IInv

\* The parts of the invariant that speak of one connection, client or topic.
LEMMA IInvParts ==
  ASSUME IInv
  PROVE  /\ \A c \in Clients : /\ conn[c] \in Connections /\ client[c] \in ClientRecords
                               /\ ConnOK(conn[c], client[c], pruned)
                               /\ ClientOK(client[c], pruned)
         /\ \A t \in Topics : /\ topic[t] \in HubTopics
                              /\ TopicOK(topic[t], pruned)
                              /\ topic[t].subs = {c \in Live : TopicOf[c] = t}
                              /\ topic[t].open <=> topic[t].subs # {}
                              /\ \A c \in topic[t].subs : topic[t].at[c] <= conn[c].last
         /\ latest \in SequenceNumbers
  BY DEF IInv, StreamTypeOK, ConnsOK, ClientsOK, TopicsOK, TopicsAreNeeded, ReplayNotAhead, ClientRecords

\* Nothing that was explained by a deletion becomes unexplained by another.
LEMMA PruneIInv ==
  ASSUME IInv, NEW n \in SequenceNumbers, Prune(n)
  PROVE  IInv'
<1>1. /\ pruned \subseteq pruned' /\ pruned' = pruned \cup {n} /\ n \in 1 .. latest
      /\ UNCHANGED <<latest, unpublished, conn, topic, orgCount, closing, client, faults>>
  BY DEF Prune, Retained, serverVars
<1>2. StreamTypeOK'
  BY <1>1 DEF IInv, StreamTypeOK
<1>3. (TopicsAreNeeded /\ ReplayNotAhead /\ SlotsReturned)'
  BY <1>1 DEF IInv, TopicsAreNeeded, ReplayNotAhead, SlotsReturned, Live, Tracked
<1>4. ConnsOK'
  <2> SUFFICES ASSUME NEW c \in Clients PROVE ConnOK(conn[c], client[c], pruned')
    BY <1>1 DEF ConnsOK
  <2>1. ConnOK(conn[c], client[c], pruned)
    BY IInvParts
  <2>2. Explained(conn[c], pruned) => Explained(conn[c], pruned')
    BY <1>1 DEF Explained
  <2>3. Complete(conn[c].page, conn[c].rows, pruned) => Complete(conn[c].page, conn[c].rows, pruned')
    BY <1>1 DEF Complete
  <2> QED
    BY <2>1, <2>2, <2>3 DEF ConnOK, WriterOK
<1>5. ClientsOK'
  BY <1>1 DEF IInv, ClientsOK, ClientOK
<1>6. TopicsOK'
  BY <1>1 DEF IInv, TopicsOK, TopicOK, Complete
<1> QED
  BY <1>2, <1>3, <1>4, <1>5, <1>6 DEF IInv

LEMMA AppendIInv ==
  ASSUME IInv, NEW here \in BOOLEAN, AppendEvent(here)
  PROVE  IInv'
<1>1. /\ latest' = latest + 1 /\ latest' <= MaxEvents
      /\ unpublished' \subseteq unpublished \cup {latest + 1}
      /\ UNCHANGED <<pruned, conn, topic, orgCount, closing, client, faults>>
  BY SequenceNumbersTyped DEF AppendEvent, serverVars, IInv, StreamTypeOK
<1>2. StreamTypeOK'
  BY <1>1, SequenceNumbersTyped DEF IInv, StreamTypeOK
<1> QED
  BY <1>1, <1>2 DEF IInv, TopicsAreNeeded, ReplayNotAhead, SlotsReturned, Live, Tracked,
                    ConnsOK, ClientsOK, TopicsOK

\* Steps that write rows to live connections and move the topics on.
LEMMA WritesIInv ==
  ASSUME IInv, UNCHANGED <<pruned, latest, client, orgCount, closing>>,
         unpublished' \subseteq unpublished, faults' \in 0 .. MaxFaults,
         conn' \in [Clients -> Connections], topic' \in [Topics -> HubTopics],
         \A c \in Clients :
           \/ conn'[c] = conn[c]
           \/ \E rows \in SUBSET SequenceNumbers :
                /\ c \in Live
                /\ conn'[c] = WriteRows(conn[c], rows)
                /\ conn[c].last = 0 => Complete(0, rows, pruned),
         \A t \in Topics : /\ topic'[t].subs = topic[t].subs /\ topic'[t].open = topic[t].open
                           /\ TopicOK(topic'[t], pruned)
                           /\ \A c \in topic[t].subs : topic'[t].at[c] <= conn'[c].last
  PROVE  IInv'
<1>1. StreamTypeOK'
  BY DEF IInv, StreamTypeOK
<1>2. \A c \in Clients : conn'[c].pc = conn[c].pc /\ ConnOK(conn'[c], client[c], pruned)
  <2> SUFFICES ASSUME NEW c \in Clients
               PROVE  conn'[c].pc = conn[c].pc /\ ConnOK(conn'[c], client[c], pruned)
    OBVIOUS
  <2>1. conn[c] \in Connections /\ ConnOK(conn[c], client[c], pruned)
    BY IInvParts
  <2>2. CASE conn'[c] = conn[c]
    BY <2>1, <2>2
  <2>3. ASSUME NEW rows \in SUBSET SequenceNumbers, c \in Live,
               conn'[c] = WriteRows(conn[c], rows),
               conn[c].last = 0 => Complete(0, rows, pruned)
        PROVE  conn'[c].pc = conn[c].pc /\ ConnOK(conn'[c], client[c], pruned)
    <3>1. conn[c].pc = "live"
      BY <2>3 DEF Live
    <3>2. conn'[c].pc = conn[c].pc /\ conn'[c].after = conn[c].after
      BY <2>1, <2>3, WriteRowsFacts
    <3>3. WriterOK(conn'[c], pruned)
      BY <2>1, <2>3, WriteRowsOK DEF ConnOK
    <3> QED
      BY <2>1, <3>1, <3>2, <3>3 DEF ConnOK
  <2> QED
    BY <2>2, <2>3
<1>3. Live' = Live /\ Tracked' = Tracked
  BY <1>2 DEF Live, Tracked
<1>4. TopicsAreNeeded' /\ SlotsReturned'
  BY <1>3 DEF IInv, TopicsAreNeeded, SlotsReturned
<1>5. ReplayNotAhead'
  BY DEF ReplayNotAhead
<1>6. ConnsOK' /\ ClientsOK' /\ TopicsOK'
  BY <1>2 DEF IInv, ConnsOK, ClientsOK, TopicsOK
<1> QED
  BY <1>1, <1>4, <1>5, <1>6 DEF IInv

\* Woken, and a topic that is asked to poll.
LEMMA WokenFacts ==
  ASSUME IInv, NEW t \in Topics
  PROVE  LET q == RequestPoll(topic[t])
         IN  /\ q \in HubTopics /\ TopicOK(q, pruned)
             /\ q.open = topic[t].open /\ q.subs = topic[t].subs /\ q.at = topic[t].at
  BY IInvParts, RequestPollFacts

LEMMA TimerPollIInv ==
  ASSUME IInv, NEW t \in Topics, TimerPoll(t)
  PROVE  IInv'
<1>1. /\ topic' = [topic EXCEPT ![t] = RequestPoll(topic[t])]
      /\ UNCHANGED <<latest, pruned, unpublished, conn, orgCount, closing, client, faults>>
  BY DEF TimerPoll, tableVars
<1>2. topic \in [Topics -> HubTopics] /\ conn \in [Clients -> Connections] /\ faults \in 0 .. MaxFaults
  BY DEF IInv, StreamTypeOK
<1>3. topic' \in [Topics -> HubTopics]
  BY <1>1, <1>2, WokenFacts
<1>4. \A u \in Topics : topic'[u] = topic[u] \/ topic'[u] = RequestPoll(topic[u])
  BY <1>1, <1>2
<1>5. \A u \in Topics : /\ topic'[u].subs = topic[u].subs /\ topic'[u].open = topic[u].open
                        /\ TopicOK(topic'[u], pruned) /\ topic'[u].at = topic[u].at
  BY <1>4, WokenFacts, IInvParts
<1>6. \A u \in Topics : \A c \in topic[u].subs : topic'[u].at[c] <= conn'[c].last
  BY <1>1, <1>5, IInvParts
<1> QED
  BY <1>1, <1>2, <1>3, <1>5, <1>6, WritesIInv

LEMMA PollFailsIInv ==
  ASSUME IInv, NEW t \in Topics, PollFails(t)
  PROVE  IInv'
<1>1. /\ topic' = [topic EXCEPT ![t] = Polled(topic[t])]
      /\ UNCHANGED <<latest, pruned, unpublished, conn, orgCount, closing, client>>
      /\ faults > 0 /\ faults' = faults - 1
  BY DEF PollFails, tableVars
<1>2. topic \in [Topics -> HubTopics] /\ conn \in [Clients -> Connections] /\ faults' \in 0 .. MaxFaults
  BY <1>1, StreamConstants DEF IInv, StreamTypeOK
<1>3. /\ Polled(topic[t]) \in HubTopics /\ TopicOK(Polled(topic[t]), pruned)
      /\ Polled(topic[t]).open = topic[t].open /\ Polled(topic[t]).subs = topic[t].subs
      /\ Polled(topic[t]).at = topic[t].at
  BY IInvParts, PolledFacts
<1>4. topic' \in [Topics -> HubTopics]
  BY <1>1, <1>2, <1>3
<1>5. \A u \in Topics : /\ topic'[u].subs = topic[u].subs /\ topic'[u].open = topic[u].open
                        /\ TopicOK(topic'[u], pruned) /\ topic'[u].at = topic[u].at
  BY <1>1, <1>2, <1>3, IInvParts
<1>6. \A u \in Topics : \A c \in topic[u].subs : topic'[u].at[c] <= conn'[c].last
  BY <1>1, <1>5, IInvParts
<1> QED
  BY <1>1, <1>2, <1>4, <1>5, <1>6, WritesIInv

LEMMA NotifyIInv ==
  ASSUME IInv, Notify
  PROVE  IInv'
<1>1. /\ topic' = [t \in Topics |-> RequestPoll(topic[t])]
      /\ UNCHANGED <<latest, pruned, unpublished, conn, orgCount, closing, client, faults>>
  BY DEF Notify, Woken, tableVars
<1>2. conn \in [Clients -> Connections] /\ faults \in 0 .. MaxFaults
  BY DEF IInv, StreamTypeOK
<1>3. topic' \in [Topics -> HubTopics]
  BY <1>1, WokenFacts
<1>4. \A u \in Topics : /\ topic'[u].subs = topic[u].subs /\ topic'[u].open = topic[u].open
                        /\ TopicOK(topic'[u], pruned) /\ topic'[u].at = topic[u].at
  BY <1>1, WokenFacts
<1>5. \A u \in Topics : \A c \in topic[u].subs : topic'[u].at[c] <= conn'[c].last
  BY <1>1, <1>4, IInvParts
<1> QED
  BY <1>1, <1>2, <1>3, <1>4, <1>5, WritesIInv

\* A live event that is the next one; the first of all has none before it.
LEMMA PublishIInv ==
  ASSUME IInv, NEW n \in SequenceNumbers, Publish(n)
  PROVE  IInv'
<1>1. /\ unpublished' \subseteq unpublished
      /\ conn' = [c \in Clients |->
           IF c \in Live /\ n = conn[c].last + 1 THEN WriteRows(conn[c], {n}) ELSE conn[c]]
      /\ topic' = Woken \/ topic' = topic
      /\ UNCHANGED <<latest, pruned, orgCount, closing, client, faults>>
  BY DEF Publish
<1>2. /\ conn \in [Clients -> Connections] /\ topic \in [Topics -> HubTopics]
      /\ faults \in 0 .. MaxFaults
  BY DEF IInv, StreamTypeOK
<1>3. {n} \in SUBSET SequenceNumbers
  OBVIOUS
<1>4. \A c \in Clients : /\ WriteRows(conn[c], {n}) \in Connections
                         /\ conn[c].last <= WriteRows(conn[c], {n}).last
  BY <1>2, <1>3, WriteRowsFacts
<1>5. conn' \in [Clients -> Connections]
  BY <1>1, <1>2, <1>4
<1>6. \A c \in Clients : /\ conn[c].last <= conn'[c].last
                         /\ \/ conn'[c] = conn[c]
                            \/ /\ c \in Live
                               /\ conn'[c] = WriteRows(conn[c], {n})
                               /\ conn[c].last = 0 => Complete(0, {n}, pruned)
  <2> SUFFICES ASSUME NEW c \in Clients
               PROVE  /\ conn[c].last <= conn'[c].last
                      /\ \/ conn'[c] = conn[c]
                         \/ /\ c \in Live
                            /\ conn'[c] = WriteRows(conn[c], {n})
                            /\ conn[c].last = 0 => Complete(0, {n}, pruned)
    OBVIOUS
  <2>1. conn[c].last \in Nat
    BY <1>2, SequenceNumbersTyped DEF Connections
  <2>2. CASE c \in Live /\ n = conn[c].last + 1
    <3>1. conn[c].last = 0 => Complete(0, {n}, pruned)
      BY <2>2 DEF Complete
    <3> QED
      BY <1>1, <1>4, <2>2, <3>1
  <2>3. CASE ~ (c \in Live /\ n = conn[c].last + 1)
    BY <1>1, <2>1, <2>3
  <2> QED
    BY <2>2, <2>3
<1>7. topic' \in [Topics -> HubTopics]
  BY <1>1, <1>2, WokenFacts DEF Woken
<1>8. \A u \in Topics : /\ topic'[u].subs = topic[u].subs /\ topic'[u].open = topic[u].open
                        /\ TopicOK(topic'[u], pruned) /\ topic'[u].at = topic[u].at
  BY <1>1, WokenFacts, IInvParts DEF Woken
<1>9. \A u \in Topics : \A c \in topic[u].subs : topic'[u].at[c] <= conn'[c].last
  <2> SUFFICES ASSUME NEW u \in Topics, NEW c \in topic[u].subs
               PROVE  topic[u].at[c] <= conn'[c].last
    BY <1>8
  <2>1. c \in Clients /\ topic[u].at[c] \in Nat
    BY <1>2, SequenceNumbersTyped DEF HubTopics
  <2>2. conn[c].last \in Nat /\ conn'[c].last \in Nat
    BY <1>2, <1>5, <2>1, SequenceNumbersTyped DEF Connections
  <2>3. topic[u].at[c] <= conn[c].last
    BY IInvParts
  <2> QED
    BY <1>6, <2>1, <2>2, <2>3
<1> QED
  BY <1>1, <1>2, <1>3, <1>5, <1>6, <1>7, <1>8, <1>9, WritesIInv

\* The rows of a poll, for the subscribers they are complete for.
LEMMA PollReturnsIInv ==
  ASSUME IInv, NEW t \in Topics, PollReturns(t)
  PROVE  IInv'
<1> DEFINE tp == topic[t]
           behind == {c \in tp.subs : tp.at[c] < tp.after}
           served == tp.subs \ behind
           at == [c \in Clients |-> IF c \in served THEN Max({tp.at[c]} \cup tp.rows) ELSE tp.at[c]]
           done == [tp EXCEPT
             !.at = at,
             !.last = Max({tp.last} \cup tp.rows),
             !.requested = \/ tp.requested
                           \/ Cardinality(tp.rows) >= Batch
                           \/ tp.rows # {} /\ behind # {}]
           Page(c) == {n \in tp.rows : n > tp.at[c]}
<1>1. /\ tp.polling
      /\ topic' = [topic EXCEPT ![t] = Polled(done)]
      /\ conn' = [c \in Clients |-> IF c \in served THEN WriteRows(conn[c], Page(c)) ELSE conn[c]]
      /\ UNCHANGED <<latest, pruned, unpublished, orgCount, closing, client, faults>>
  BY DEF PollReturns, tableVars
<1>2. /\ conn \in [Clients -> Connections] /\ topic \in [Topics -> HubTopics]
      /\ faults \in 0 .. MaxFaults
  BY DEF IInv, StreamTypeOK
<1>3. /\ tp \in HubTopics /\ Complete(tp.after, tp.rows, pruned)
      /\ tp.subs = {c \in Live : TopicOf[c] = t}
      /\ \A c \in tp.subs : tp.at[c] <= conn[c].last
  BY <1>1, IInvParts DEF TopicOK
<1>4. /\ tp.rows \in SUBSET SequenceNumbers /\ tp.last \in SequenceNumbers
      /\ tp.after \in SequenceNumbers /\ tp.at \in [Clients -> SequenceNumbers]
      /\ tp.subs \in SUBSET Clients
  BY <1>3 DEF HubTopics
<1>5. \A c \in Clients : /\ Max({tp.at[c]} \cup tp.rows) \in {tp.at[c]} \cup tp.rows
                         /\ Max({tp.at[c]} \cup tp.rows) \in SequenceNumbers
  <2> SUFFICES ASSUME NEW c \in Clients
               PROVE  /\ Max({tp.at[c]} \cup tp.rows) \in {tp.at[c]} \cup tp.rows
                      /\ Max({tp.at[c]} \cup tp.rows) \in SequenceNumbers
    OBVIOUS
  <2>1. {tp.at[c]} \cup tp.rows \in SUBSET SequenceNumbers
    BY <1>4
  <2> QED
    BY <2>1, MaxFacts
<1>6. Max({tp.last} \cup tp.rows) \in SequenceNumbers
  <2>1. {tp.last} \cup tp.rows \in SUBSET SequenceNumbers
    BY <1>4
  <2> QED
    BY <2>1, MaxFacts
<1>7. at \in [Clients -> SequenceNumbers]
  BY <1>4, <1>5
<1>8. /\ done \in HubTopics /\ done.open = tp.open /\ done.subs = tp.subs /\ done.at = at
  <2> HIDE DEF at, behind
  <2> QED
    BY <1>3, <1>6, <1>7 DEF HubTopics
<1> HIDE DEF done
<1>9. /\ Polled(done) \in HubTopics /\ TopicOK(Polled(done), pruned)
      /\ Polled(done).open = tp.open /\ Polled(done).subs = tp.subs /\ Polled(done).at = at
  BY <1>8, IInvParts, PolledFacts
<1>10. topic' \in [Topics -> HubTopics]
  BY <1>1, <1>2, <1>9
<1>11. \A u \in Topics : /\ topic'[u].subs = topic[u].subs /\ topic'[u].open = topic[u].open
                         /\ TopicOK(topic'[u], pruned)
                         /\ topic'[u].at = IF u = t THEN at ELSE topic[u].at
  BY <1>1, <1>2, <1>9, IInvParts
<1>12. \A c \in Clients : /\ WriteRows(conn[c], Page(c)) \in Connections
                          /\ conn[c].last <= WriteRows(conn[c], Page(c)).last
                          /\ \A r \in Page(c) : r <= WriteRows(conn[c], Page(c)).last
  <2> SUFFICES ASSUME NEW c \in Clients
               PROVE  /\ WriteRows(conn[c], Page(c)) \in Connections
                      /\ conn[c].last <= WriteRows(conn[c], Page(c)).last
                      /\ \A r \in Page(c) : r <= WriteRows(conn[c], Page(c)).last
    OBVIOUS
  <2>1. Page(c) \in SUBSET SequenceNumbers
    BY <1>4
  <2> HIDE DEF Page
  <2> QED
    BY <1>2, <2>1, WriteRowsFacts
<1>13. conn' \in [Clients -> Connections]
  <2> HIDE DEF Page, served
  <2> QED
    BY <1>1, <1>2, <1>12
<1>14. \A c \in Clients :
         \/ conn'[c] = conn[c]
         \/ \E rows \in SUBSET SequenceNumbers :
              /\ c \in Live
              /\ conn'[c] = WriteRows(conn[c], rows)
              /\ conn[c].last = 0 => Complete(0, rows, pruned)
  <2> SUFFICES ASSUME NEW c \in Clients, c \in served
               PROVE  /\ Page(c) \in SUBSET SequenceNumbers
                      /\ c \in Live
                      /\ conn'[c] = WriteRows(conn[c], Page(c))
                      /\ conn[c].last = 0 => Complete(0, Page(c), pruned)
    BY <1>1
  <2>1. Page(c) \in SUBSET SequenceNumbers /\ c \in Live
    BY <1>3, <1>4
  <2>2. tp.at[c] \in Nat /\ tp.after \in Nat /\ tp.after <= tp.at[c] /\ tp.at[c] <= conn[c].last
    <3>1. c \in tp.subs /\ ~ (tp.at[c] < tp.after)
      OBVIOUS
    <3>2. tp.at[c] \in Nat /\ tp.after \in Nat
      BY <1>4, SequenceNumbersTyped
    <3> HIDE DEF served, behind
    <3> QED
      BY <1>3, <3>1, <3>2
  <2>3. conn[c].last = 0 => Complete(0, Page(c), pruned)
    <3> SUFFICES ASSUME conn[c].last = 0 PROVE Complete(0, Page(c), pruned)
      OBVIOUS
    <3>1. tp.at[c] = 0 /\ tp.after = 0
      BY <2>2
    <3>2. \A n \in tp.rows : n \in Nat
      BY <1>4, SequenceNumbersTyped
    <3> QED
      BY <1>3, <3>1, <3>2 DEF Complete
  <2> QED
    BY <1>1, <2>1, <2>3
<1>15. \A u \in Topics : \A c \in topic[u].subs : topic'[u].at[c] <= conn'[c].last
  <2> SUFFICES ASSUME NEW u \in Topics, NEW c \in topic[u].subs
               PROVE  topic'[u].at[c] <= conn'[c].last
    OBVIOUS
  <2>1. c \in Clients /\ topic[u].at[c] \in Nat
    BY <1>2, SequenceNumbersTyped DEF HubTopics
  <2>2. conn[c].last \in Nat /\ conn'[c].last \in Nat
    BY <1>2, <1>13, <2>1, SequenceNumbersTyped DEF Connections
  <2>3. topic[u].at[c] <= conn[c].last /\ conn[c].last <= conn'[c].last
    <3>1. topic[u].at[c] <= conn[c].last
      BY IInvParts
    <3> HIDE DEF Page, served
    <3> QED
      BY <3>1, <1>1, <1>12, <2>1, <2>2
  <2>4. CASE u = t /\ c \in served
    <3>1. topic'[u].at[c] \in {tp.at[c]} \cup tp.rows
      BY <1>5, <1>11, <2>1, <2>4
    <3>2. \A r \in Page(c) : r <= conn'[c].last
      <4> HIDE DEF Page, served
      <4> QED
        BY <1>1, <1>12, <2>1, <2>4
    <3>3. \A r \in tp.rows : r \in Nat
      BY <1>4, SequenceNumbersTyped
    <3> QED
      BY <2>1, <2>2, <2>3, <2>4, <3>1, <3>2, <3>3
  <2>5. CASE ~ (u = t /\ c \in served)
    <3>1. topic'[u].at[c] = topic[u].at[c]
      <4>1. CASE u = t
        <5>1. at[c] = tp.at[c]
          BY <2>1, <2>5, <4>1
        <5> HIDE DEF at, served
        <5> QED
          BY <1>11, <4>1, <5>1
      <4>2. CASE u # t
        <5> HIDE DEF at, served
        <5> QED
          BY <1>11, <4>2
      <4> QED
        BY <4>1, <4>2
    <3> QED
      BY <2>1, <2>2, <2>3, <3>1
  <2> QED
    BY <2>4, <2>5
<1> QED
  BY <1>1, <1>2, <1>10, <1>11, <1>13, <1>14, <1>15, WritesIInv

\* Steps of one connection before it is live.
LEMMA ConnectIInv ==
  ASSUME IInv, NEW c \in Clients, Connect(c)
  PROVE  IInv'
<1> DEFINE first == IF Retained = {} THEN 0 ELSE Min(Retained)
           final == Max(Retained \cup {0})
           k == [NoConn EXCEPT !.pc = "cursor", !.after = client[c].cursor, !.last = client[c].cursor,
                               !.earliest = first, !.newest = final]
<1>1. /\ conn[c].pc = "none" /\ conn' = [conn EXCEPT ![c] = k]
      /\ UNCHANGED <<latest, pruned, unpublished, topic, orgCount, closing, client, faults>>
  BY DEF Connect, tableVars
<1>2. Retained \in SUBSET SequenceNumbers
  <2>1. latest \in SequenceNumbers
    BY IInvParts
  <2> QED
    BY <2>1, SequenceNumbersTyped DEF Retained
<1>3. first \in SequenceNumbers
  <2>1. Retained \in SUBSET Nat
    BY <1>2, SequenceNumbersTyped
  <2> QED
    BY <1>2, <2>1, MinFacts, SequenceNumbersTyped
<1>4. final \in SequenceNumbers
  <2>1. Retained \cup {0} \in SUBSET SequenceNumbers
    BY <1>2, SequenceNumbersTyped
  <2> QED
    BY <2>1, MaxFacts
<1>5. client[c].cursor \in SequenceNumbers
  BY IInvParts DEF ClientRecords
<1> HIDE DEF first, final
<1>6. /\ k \in Connections /\ k.pc = "cursor" /\ k.after = client[c].cursor
      /\ k.last = client[c].cursor /\ k.seen = {} /\ k.snaps = {}
  BY <1>3, <1>4, <1>5, SequenceNumbersTyped DEF NoConn, Connections
<1> HIDE DEF k
<1>7. ConnOK(k, client[c], pruned)
  <2>1. k.last \in Nat
    BY <1>5, <1>6, SequenceNumbersTyped
  <2> QED
    BY <1>6, <2>1 DEF ConnOK, WriterOK, Ordered, Explained, SnapsFollow, Stops
<1>8. \A d \in Clients : conn'[d] = IF d = c THEN k ELSE conn[d]
  BY <1>1 DEF IInv, StreamTypeOK
<1>9. Live' = Live /\ Tracked' = Tracked
  BY <1>1, <1>6, <1>8 DEF Live, Tracked
<1>10. StreamTypeOK'
  BY <1>1, <1>6 DEF IInv, StreamTypeOK
<1>11. TopicsAreNeeded' /\ SlotsReturned'
  BY <1>1, <1>9 DEF IInv, TopicsAreNeeded, SlotsReturned
<1>12. ReplayNotAhead'
  <2>1. \A t \in Topics : c \notin topic[t].subs
    BY <1>1, IInvParts DEF Live
  <2>2. \A t \in Topics : \A d \in topic[t].subs : conn'[d] = conn[d]
    BY <1>8, <2>1, IInvParts DEF Live
  <2> QED
    BY <1>1, <2>2 DEF IInv, ReplayNotAhead
<1>13. ConnsOK' /\ ClientsOK' /\ TopicsOK'
  BY <1>1, <1>7, <1>8 DEF IInv, ConnsOK, ClientsOK, TopicsOK
<1> QED
  BY <1>10, <1>11, <1>12, <1>13 DEF IInv

LEMMA RefuseIInv ==
  ASSUME IInv, NEW c \in Clients, Refuse(c)
  PROVE  IInv'
<1>1. /\ conn[c].pc = "cursor" /\ conn' = [conn EXCEPT ![c] = NoConn]
      /\ UNCHANGED <<latest, pruned, unpublished, topic, orgCount, closing, client, faults>>
  BY DEF Refuse, tableVars
<1>2. \A d \in Clients : conn'[d] = IF d = c THEN NoConn ELSE conn[d]
  BY <1>1 DEF IInv, StreamTypeOK
<1>3. Live' = Live /\ Tracked' = Tracked
  BY <1>1, <1>2 DEF Live, Tracked, NoConn
<1>4. StreamTypeOK'
  BY <1>1, NothingTyped DEF IInv, StreamTypeOK
<1>5. TopicsAreNeeded' /\ SlotsReturned'
  BY <1>1, <1>3 DEF IInv, TopicsAreNeeded, SlotsReturned
<1>6. ReplayNotAhead'
  <2>1. \A t \in Topics : \A d \in topic[t].subs : conn'[d] = conn[d]
    BY <1>1, <1>2, IInvParts DEF Live
  <2> QED
    BY <1>1, <2>1 DEF IInv, ReplayNotAhead
<1>7. ConnsOK' /\ ClientsOK' /\ TopicsOK'
  BY <1>1, <1>2, NoConnOK DEF IInv, ConnsOK, ClientsOK, TopicsOK
<1> QED
  BY <1>4, <1>5, <1>6, <1>7 DEF IInv

\* A connection whose writer is in order goes live: the hub starts it where the
\* writer stands.
LEMMA GoLiveIInv ==
  ASSUME IInv, NEW c \in Clients, conn[c].pc \in {"cursor", "drain"},
         NEW k \in Connections, WriterOK(k, pruned), k.after = client[c].cursor,
         GoLive(c, k), UNCHANGED <<latest, pruned, unpublished, closing, client, faults>>,
         SlotsReturned', orgCount' \in Nat
  PROVE  IInv'
<1> DEFINE live == [k EXCEPT !.pc = "live", !.page = 0, !.rows = {}, !.earliest = 0, !.newest = 0]
           t == TopicOf[c]
           q == Subscribed(topic[t], c, k.last)
<1>1. conn' = [conn EXCEPT ![c] = live] /\ topic' = [topic EXCEPT ![t] = q]
  BY DEF GoLive
<1>2. /\ live \in Connections /\ live.pc = "live" /\ live.after = k.after /\ live.last = k.last
      /\ live.seen = k.seen /\ live.snaps = k.snaps
  BY SequenceNumbersTyped DEF Connections
<1> HIDE DEF live
<1>3. ConnOK(live, client[c], pruned)
  BY <1>2 DEF ConnOK, WriterOK, Ordered, Explained, SnapsFollow, Stops
<1>4. t \in Topics /\ k.last \in SequenceNumbers
  BY StreamConstants DEF Connections
<1>5. /\ q \in HubTopics /\ TopicOK(q, pruned) /\ q.open
      /\ topic[t].open => q.subs = topic[t].subs \cup {c}
      /\ ~ topic[t].open => q.subs = {c}
      /\ q.at[c] = k.last
      /\ \A d \in q.subs \ {c} : q.at[d] = topic[t].at[d]
  <2>1. topic[t] \in HubTopics /\ TopicOK(topic[t], pruned) /\ latest \in SequenceNumbers
    BY <1>4, IInvParts
  <2> QED
    BY <2>1, <1>4, SubscribedFacts
<1>6. q.subs = topic[t].subs \cup {c}
  BY <1>4, <1>5, IInvParts
<1> HIDE DEF q
<1>7. \A d \in Clients : conn'[d] = IF d = c THEN live ELSE conn[d]
  BY <1>1 DEF IInv, StreamTypeOK
<1>8. \A u \in Topics : topic'[u] = IF u = t THEN q ELSE topic[u]
  BY <1>1 DEF IInv, StreamTypeOK
<1>9. Live' = Live \cup {c} /\ c \notin Live
  BY <1>2, <1>7 DEF Live
<1>10. conn' \in [Clients -> Connections] /\ topic' \in [Topics -> HubTopics]
  BY <1>1, <1>2, <1>5 DEF IInv, StreamTypeOK
<1>12. StreamTypeOK'
  BY <1>10 DEF IInv, StreamTypeOK
<1>13. TopicsAreNeeded'
  <2> SUFFICES ASSUME NEW u \in Topics
               PROVE  /\ topic'[u].subs = {d \in Live' : TopicOf[d] = u}
                      /\ topic'[u].open <=> topic'[u].subs # {}
    BY DEF TopicsAreNeeded
  <2>1. CASE u = t
    BY <2>1, <1>5, <1>6, <1>8, <1>9, IInvParts
  <2>2. CASE u # t
    BY <2>2, <1>8, <1>9, IInvParts
  <2> QED
    BY <2>1, <2>2
<1>14. ReplayNotAhead'
  <2> SUFFICES ASSUME NEW u \in Topics, NEW d \in topic'[u].subs
               PROVE  topic'[u].at[d] <= conn'[d].last
    BY DEF ReplayNotAhead
  <2>1. CASE d = c
    <3>1. u = t
      <4>1. u # t => c \in topic[u].subs
        BY <2>1, <1>8
      <4> QED
        BY <4>1, <1>9, IInvParts
    <3>2. k.last \in Nat
      BY <1>4, SequenceNumbersTyped
    <3>3. topic'[u].at[d] = k.last /\ conn'[d].last = k.last
      BY <2>1, <3>1, <1>2, <1>4, <1>5, <1>7, <1>8
    <3> QED
      BY <3>2, <3>3
  <2>2. CASE d # c
    <3>1. d \in topic[u].subs /\ topic'[u].at[d] = topic[u].at[d]
      BY <2>2, <1>5, <1>6, <1>8
    <3>2. d \in Clients
      BY <3>1, IInvParts DEF Live
    <3> QED
      BY <2>2, <3>1, <3>2, <1>7, IInvParts
  <2> QED
    BY <2>1, <2>2
<1>15. ConnsOK' /\ ClientsOK' /\ TopicsOK'
  BY <1>3, <1>5, <1>7, <1>8 DEF IInv, ConnsOK, ClientsOK, TopicsOK
<1> QED
  BY <1>12, <1>13, <1>14, <1>15 DEF IInv

\* A connection asks for a catch-up page.
LEMMA CatchUpIInv ==
  ASSUME IInv, NEW c \in Clients, conn[c].pc \in {"cursor", "drain"},
         NEW k \in Connections, k.pc = "drain", ConnOK(k, client[c], pruned),
         conn' = [conn EXCEPT ![c] = k],
         UNCHANGED <<latest, pruned, unpublished, topic, closing, client, faults>>,
         SlotsReturned', orgCount' \in Nat
  PROVE  IInv'
<1>1. \A d \in Clients : conn'[d] = IF d = c THEN k ELSE conn[d]
  BY DEF IInv, StreamTypeOK
<1>2. Live' = Live /\ c \notin Live
  BY <1>1 DEF Live
<1>3. StreamTypeOK'
  BY DEF IInv, StreamTypeOK
<1>4. TopicsAreNeeded'
  BY <1>2 DEF IInv, TopicsAreNeeded
<1>5. ReplayNotAhead'
  <2>1. \A t \in Topics : \A d \in topic[t].subs : conn'[d] = conn[d]
    BY <1>1, <1>2, IInvParts DEF Live
  <2> QED
    BY <2>1 DEF IInv, ReplayNotAhead
<1>6. ConnsOK' /\ ClientsOK' /\ TopicsOK'
  BY <1>1 DEF IInv, ConnsOK, ClientsOK, TopicsOK
<1> QED
  BY <1>3, <1>4, <1>5, <1>6 DEF IInv

LEMMA OpenIInv ==
  ASSUME IInv, NEW c \in Clients, Open(c)
  PROVE  IInv'
<1> DEFINE k == conn[c]
           w == WriteGapSnapshot(k)
           drain == [k EXCEPT !.pc = "drain", !.page = k.after, !.rows = Rows(k.after),
                              !.earliest = 0, !.newest = 0]
<1>1. /\ k.pc = "cursor" /\ orgCount' = orgCount + 1
      /\ UNCHANGED <<latest, pruned, unpublished, closing, client, faults>>
      /\ \/ HasReplayGap(k) /\ GoLive(c, w)
         \/ conn' = [conn EXCEPT ![c] = drain] /\ UNCHANGED topic
  BY DEF Open, tableVars, IInv, StreamTypeOK, Connections
<1>2. /\ k \in Connections /\ latest \in SequenceNumbers
      /\ Stops(k) = {} /\ WriterOK(k, pruned) /\ k.after = client[c].cursor
  BY <1>1, IInvParts DEF ConnOK
<1>3. orgCount \in Nat /\ orgCount' \in Nat /\ orgCount = Cardinality(Tracked)
  BY <1>1 DEF IInv, StreamTypeOK, SlotsReturned
<1>4. ASSUME Tracked' = Tracked \cup {c} PROVE SlotsReturned'
  <2>1. c \notin Tracked
    BY <1>1 DEF Tracked
  <2>2. Cardinality(Tracked \cup {c}) = Cardinality(Tracked) + 1
    BY <2>1, TrackedFinite, FS_AddElement
  <2> QED
    BY <1>1, <1>3, <1>4, <2>2 DEF SlotsReturned
<1>5. CASE HasReplayGap(k) /\ GoLive(c, w)
  <2>1. w \in Connections /\ w.after = k.after /\ WriterOK(w, pruned)
    BY <1>2, <1>5, GapSnapshotFacts
  <2>2. \A d \in Clients : conn'[d].pc = IF d = c THEN "live" ELSE conn[d].pc
    <3> HIDE DEF w
    <3> QED
      BY <1>5, <2>1 DEF GoLive, IInv, StreamTypeOK, Connections
  <2>3. Tracked' = Tracked \cup {c}
    BY <2>2 DEF Tracked
  <2> HIDE DEF w
  <2> QED
    BY <1>1, <1>2, <1>3, <1>4, <1>5, <2>1, <2>3, GoLiveIInv
<1>6. CASE conn' = [conn EXCEPT ![c] = drain] /\ UNCHANGED topic
  <2>1. k.after \in SequenceNumbers
    BY <1>2 DEF Connections
  <2>2. Rows(k.after) \in SUBSET SequenceNumbers /\ Complete(k.after, Rows(k.after), pruned)
    BY <1>2, <2>1, RowsFacts
  <2>3. /\ drain \in Connections /\ drain.pc = "drain" /\ drain.after = k.after /\ drain.last = k.last
        /\ drain.seen = k.seen /\ drain.snaps = k.snaps
        /\ drain.page = k.after /\ drain.rows = Rows(k.after)
    BY <1>2, <2>1, <2>2, SequenceNumbersTyped DEF Connections
  <2> HIDE DEF drain
  <2>4. WriterOK(drain, pruned)
    BY <1>2, <2>3 DEF WriterOK, Ordered, Explained, SnapsFollow, Stops
  <2>5. drain.page <= drain.last
    BY <2>3, <2>4 DEF WriterOK, Ordered
  <2>6. ConnOK(drain, client[c], pruned)
    BY <1>2, <2>2, <2>3, <2>4, <2>5 DEF ConnOK
  <2>7. \A d \in Clients : conn'[d].pc = IF d = c THEN "drain" ELSE conn[d].pc
    BY <1>6, <2>3 DEF IInv, StreamTypeOK
  <2>8. Tracked' = Tracked \cup {c}
    BY <2>7 DEF Tracked
  <2> QED
    BY <1>1, <1>3, <1>4, <1>6, <2>3, <2>6, <2>8, CatchUpIInv
<1> QED
  BY <1>1, <1>5, <1>6

LEMMA DrainPageIInv ==
  ASSUME IInv, NEW c \in Clients, DrainPage(c)
  PROVE  IInv'
<1> DEFINE rows == conn[c].rows
           k == WriteRows(conn[c], rows)
           next == [k EXCEPT !.page = Max(rows), !.rows = Rows(Max(rows))]
<1>1. /\ conn[c].pc = "drain"
      /\ UNCHANGED <<latest, pruned, unpublished, orgCount, closing, client, faults>>
      /\ \/ GoLive(c, k)
         \/ /\ Cardinality(rows) >= Batch
            /\ conn' = [conn EXCEPT ![c] = next] /\ UNCHANGED topic
  BY DEF DrainPage, tableVars
<1>2. /\ conn[c] \in Connections /\ latest \in SequenceNumbers /\ WriterOK(conn[c], pruned)
      /\ conn[c].after = client[c].cursor
      /\ Complete(conn[c].page, rows, pruned) /\ conn[c].page <= conn[c].last
  BY <1>1, IInvParts DEF ConnOK
<1>3. rows \in SUBSET SequenceNumbers /\ conn[c].page \in Nat
  BY <1>2, SequenceNumbersTyped DEF Connections
<1>4. conn[c].last = 0 => Complete(0, rows, pruned)
  <2>1. conn[c].last = 0 => conn[c].page = 0
    BY <1>2, <1>3
  <2> QED
    BY <1>2, <2>1
<1>5. /\ k \in Connections /\ k.pc = conn[c].pc /\ k.after = conn[c].after
      /\ \A r \in rows : r <= k.last
  BY <1>2, <1>3, WriteRowsFacts
<1>6. WriterOK(k, pruned)
  BY <1>2, <1>3, <1>4, WriteRowsOK
<1>7. orgCount' \in Nat /\ orgCount' = Cardinality(Tracked)
  BY <1>1 DEF IInv, StreamTypeOK, SlotsReturned
<1> HIDE DEF k
<1>8. ASSUME Tracked' = Tracked PROVE SlotsReturned'
  BY <1>7, <1>8 DEF SlotsReturned
<1>9. CASE GoLive(c, k)
  <2>1. \A d \in Clients : conn'[d].pc = IF d = c THEN "live" ELSE conn[d].pc
    BY <1>5, <1>9 DEF GoLive, IInv, StreamTypeOK, Connections
  <2>2. Tracked' = Tracked
    BY <1>1, <2>1 DEF Tracked
  <2> QED
    BY <1>1, <1>2, <1>5, <1>6, <1>7, <1>8, <1>9, <2>2, GoLiveIInv
<1>10. CASE /\ Cardinality(rows) >= Batch
            /\ conn' = [conn EXCEPT ![c] = next] /\ UNCHANGED topic
  <2>1. rows # {}
    <3>1. Cardinality(rows) >= Batch
      BY <1>10
    <3>2. Batch \in Nat /\ Batch > 0 /\ Cardinality({}) = 0
      BY FS_EmptySet, StreamConstants
    <3> HIDE DEF rows, next
    <3> QED
      BY <3>1, <3>2
  <2>2. Max(rows) \in rows
    BY <1>3, <2>1, MaxFacts
  <2>3. Max(rows) \in SequenceNumbers /\ Max(rows) <= k.last
    BY <1>3, <1>5, <2>2
  <2>4. Rows(Max(rows)) \in SUBSET SequenceNumbers /\ Complete(Max(rows), Rows(Max(rows)), pruned)
    BY <1>2, <2>3, RowsFacts
  <2>5. /\ next \in Connections /\ next.pc = "drain" /\ next.after = k.after /\ next.last = k.last
        /\ next.seen = k.seen /\ next.snaps = k.snaps
        /\ next.page = Max(rows) /\ next.rows = Rows(Max(rows))
    BY <1>1, <1>5, <2>3, <2>4 DEF Connections
  <2> HIDE DEF next
  <2>6. WriterOK(next, pruned)
    BY <1>6, <2>5 DEF WriterOK, Ordered, Explained, SnapsFollow, Stops
  <2>7. ConnOK(next, client[c], pruned)
    BY <1>2, <1>5, <2>3, <2>4, <2>5, <2>6 DEF ConnOK
  <2>8. \A d \in Clients : conn'[d].pc = IF d = c THEN "drain" ELSE conn[d].pc
    BY <1>10, <2>5 DEF IInv, StreamTypeOK
  <2>9. Tracked' = Tracked
    BY <1>1, <2>8 DEF Tracked
  <2> QED
    BY <1>1, <1>7, <1>8, <1>10, <2>5, <2>7, <2>9, CatchUpIInv
<1> QED
  BY <1>1, <1>9, <1>10

\* The end of the connections of a set of clients.
LEMMA EndIInv ==
  ASSUME IInv, NEW E \in SUBSET Clients, NEW m \in [Clients -> SequenceNumbers],
         conn' = [c \in Clients |-> IF c \in E THEN NoConn ELSE conn[c]],
         client' = [c \in Clients |-> IF c \in E THEN Received(c, m[c]) ELSE client[c]],
         topic' \in [Topics -> HubTopics],
         \A t \in Topics : /\ TopicOK(topic'[t], pruned)
                           /\ topic'[t].subs = topic[t].subs \ E
                           /\ topic'[t].open <=> topic'[t].subs # {}
                           /\ \A d \in topic'[t].subs : topic'[t].at[d] = topic[t].at[d],
         UNCHANGED <<latest, pruned>>, unpublished' \subseteq unpublished,
         closing' \in BOOLEAN, faults' \in 0 .. MaxFaults,
         orgCount' \in Nat, Tracked' = Tracked \ E => SlotsReturned'
  PROVE  IInv'
<1>1. \A c \in Clients : /\ c \in E => conn'[c] = NoConn /\ client'[c] = Received(c, m[c])
                         /\ c \notin E => conn'[c] = conn[c] /\ client'[c] = client[c]
  OBVIOUS
<1>2. \A c \in Clients : client'[c] \in ClientRecords /\ ClientOK(client'[c], pruned)
  BY <1>1, IInvParts, ReceivedOK
<1>3. \A c \in Clients : conn'[c] \in Connections /\ ConnOK(conn'[c], client'[c], pruned)
  BY <1>1, IInvParts, NoConnOK, NothingTyped
<1>4. NoConn.pc = "none"
  BY DEF NoConn
<1>5. Live' = Live \ E /\ Tracked' = Tracked \ E
  BY <1>1, <1>4 DEF Live, Tracked
<1>6. StreamTypeOK'
  <2>1. conn' \in [Clients -> Connections] /\ client' \in [Clients -> ClientRecords]
    BY <1>2, <1>3
  <2> QED
    BY <2>1 DEF IInv, StreamTypeOK, ClientRecords
<1>7. TopicsAreNeeded'
  BY <1>5, IInvParts DEF TopicsAreNeeded
<1>8. ReplayNotAhead'
  <2> SUFFICES ASSUME NEW t \in Topics, NEW d \in topic'[t].subs
               PROVE  topic'[t].at[d] <= conn'[d].last
    BY DEF ReplayNotAhead
  <2>1. d \in topic[t].subs /\ d \notin E /\ d \in Clients
    BY IInvParts DEF Live
  <2> QED
    BY <1>1, <2>1, IInvParts
<1>9. ConnsOK' /\ ClientsOK' /\ TopicsOK'
  BY <1>2, <1>3 DEF ConnsOK, ClientsOK, TopicsOK
<1> QED
  BY <1>5, <1>6, <1>7, <1>8, <1>9 DEF IInv

LEMMA CloseIInv ==
  ASSUME IInv, NEW c \in Clients, NEW m \in SequenceNumbers, Close(c, m)
  PROVE  IInv'
<1> DEFINE ms == [d \in Clients |-> m]
           t == TopicOf[c]
           q == Unsubscribed(topic[t], c)
<1>1. /\ client' = [client EXCEPT ![c] = Received(c, m)] /\ conn' = [conn EXCEPT ![c] = NoConn]
      /\ topic' = [topic EXCEPT ![t] = q]
      /\ orgCount' = IF c \in Tracked THEN orgCount - 1 ELSE orgCount
      /\ UNCHANGED <<latest, pruned, unpublished, closing, faults>>
  BY DEF Close, tableVars
<1>2. /\ conn \in [Clients -> Connections] /\ topic \in [Topics -> HubTopics]
      /\ client \in [Clients -> [cursor : SequenceNumbers, has : SUBSET SequenceNumbers]]
      /\ faults \in 0 .. MaxFaults /\ orgCount = Cardinality(Tracked) /\ t \in Topics
  BY StreamConstants DEF IInv, StreamTypeOK, SlotsReturned
<1>b. closing' \in BOOLEAN
  BY <1>1 DEF IInv, StreamTypeOK
<1>3. /\ {c} \in SUBSET Clients /\ ms \in [Clients -> SequenceNumbers]
      /\ conn' = [d \in Clients |-> IF d \in {c} THEN NoConn ELSE conn[d]]
      /\ client' = [d \in Clients |-> IF d \in {c} THEN Received(d, ms[d]) ELSE client[d]]
  BY <1>1, <1>2
<1>4. /\ q \in HubTopics /\ TopicOK(q, pruned)
      /\ q.subs = topic[t].subs \ {c}
      /\ q.open <=> q.subs # {}
      /\ \A d \in q.subs : q.at[d] = topic[t].at[d]
  BY <1>2, IInvParts, UnsubscribedFacts
<1> HIDE DEF q
<1>5. topic' \in [Topics -> HubTopics]
  BY <1>1, <1>2, <1>4
<1>6. \A u \in Topics : u # t => c \notin topic[u].subs
  BY IInvParts
<1>7. \A u \in Topics : /\ TopicOK(topic'[u], pruned)
                        /\ topic'[u].subs = topic[u].subs \ {c}
                        /\ topic'[u].open <=> topic'[u].subs # {}
                        /\ \A d \in topic'[u].subs : topic'[u].at[d] = topic[u].at[d]
  <2> SUFFICES ASSUME NEW u \in Topics
               PROVE  /\ TopicOK(topic'[u], pruned)
                      /\ topic'[u].subs = topic[u].subs \ {c}
                      /\ topic'[u].open <=> topic'[u].subs # {}
                      /\ \A d \in topic'[u].subs : topic'[u].at[d] = topic[u].at[d]
    OBVIOUS
  <2>1. CASE u = t
    <3>1. topic'[u] = q
      BY <1>1, <1>2, <2>1
    <3> QED
      BY <1>4, <2>1, <3>1
  <2>2. CASE u # t
    <3>1. topic'[u] = topic[u]
      BY <1>1, <1>2, <2>2
    <3>2. topic[u].subs = topic[u].subs \ {c}
      BY <1>6, <2>2
    <3> QED
      BY <3>1, <3>2, IInvParts
  <2> QED
    BY <2>1, <2>2
<1>8. orgCount' = Cardinality(Tracked \ {c}) /\ orgCount' \in Nat
  <2>1. Cardinality(Tracked \ {c}) = IF c \in Tracked THEN Cardinality(Tracked) - 1 ELSE Cardinality(Tracked)
    BY TrackedFinite, FS_RemoveElement
  <2>2. Cardinality(Tracked \ {c}) \in Nat
    BY TrackedFinite, FS_RemoveElement, FS_CardinalityType
  <2> QED
    BY <1>1, <1>2, <2>1, <2>2
<1>9. Tracked' = Tracked \ {c} => SlotsReturned'
  BY <1>8 DEF SlotsReturned
<1> HIDE DEF ms
<1>10. UNCHANGED <<latest, pruned>> /\ unpublished' \subseteq unpublished /\ faults' \in 0 .. MaxFaults
  BY <1>1, <1>2
<1>11. orgCount' \in Nat
  BY <1>8
<1> QED
  BY <1>b, <1>3, <1>5, <1>7, <1>9, <1>10, <1>11, EndIInv

\* When the server closes, or its process ends, no topic is left.
LEMMA NoTopicsLeft ==
  ASSUME IInv, topic' = [t \in Topics |-> NoTopic], NEW E \in SUBSET Clients, Live \subseteq E
  PROVE  /\ topic' \in [Topics -> HubTopics]
         /\ \A t \in Topics : /\ TopicOK(topic'[t], pruned)
                              /\ topic'[t].subs = topic[t].subs \ E
                              /\ topic'[t].open <=> topic'[t].subs # {}
                              /\ \A d \in topic'[t].subs : topic'[t].at[d] = topic[t].at[d]
<1>1. \A t \in Topics : topic[t].subs \ E = {}
  BY IInvParts
<1> QED
  BY <1>1, NothingTyped

LEMMA ShutdownIInv ==
  ASSUME IInv, NEW m \in [Clients -> SequenceNumbers], Shutdown(m)
  PROVE  IInv'
<1>1. /\ faults > 0 /\ faults' = faults - 1 /\ closing' = TRUE
      /\ client' = [c \in Clients |-> IF c \in Tracked THEN Received(c, m[c]) ELSE client[c]]
      /\ conn' = [c \in Clients |-> IF c \in Tracked THEN NoConn ELSE conn[c]]
      /\ topic' = [t \in Topics |-> NoTopic]
      /\ orgCount' = orgCount - Cardinality(Tracked)
      /\ UNCHANGED <<latest, pruned, unpublished>>
  BY DEF Shutdown, tableVars
<1>2. faults' \in 0 .. MaxFaults /\ orgCount = Cardinality(Tracked)
  BY <1>1, StreamConstants DEF IInv, StreamTypeOK, SlotsReturned
<1>b. closing' \in BOOLEAN
  BY <1>1
<1>3. Tracked \in SUBSET Clients /\ Live \subseteq Tracked
  BY DEF Tracked, Live
<1>4. orgCount' = 0 /\ orgCount' \in Nat
  BY <1>1, <1>2, TrackedFinite
<1>5. Tracked' = Tracked \ Tracked => SlotsReturned'
  BY <1>4, FS_EmptySet DEF SlotsReturned
<1>6. /\ topic' \in [Topics -> HubTopics]
      /\ \A t \in Topics : /\ TopicOK(topic'[t], pruned)
                           /\ topic'[t].subs = topic[t].subs \ Tracked
                           /\ topic'[t].open <=> topic'[t].subs # {}
                           /\ \A d \in topic'[t].subs : topic'[t].at[d] = topic[t].at[d]
  BY <1>1, <1>3, NoTopicsLeft
<1> QED
  BY <1>1, <1>2, <1>b, <1>3, <1>4, <1>5, <1>6, EndIInv

LEMMA RestartIInv ==
  ASSUME IInv, NEW m \in [Clients -> SequenceNumbers], Restart(m)
  PROVE  IInv'
<1>1. /\ faults' = faults \/ (faults > 0 /\ faults' = faults - 1)
      /\ closing' = FALSE /\ orgCount' = 0 /\ unpublished' = {}
      /\ client' = [c \in Clients |-> Received(c, m[c])]
      /\ conn' = [c \in Clients |-> NoConn]
      /\ topic' = [t \in Topics |-> NoTopic]
      /\ UNCHANGED <<latest, pruned>>
  BY DEF Restart
<1>2. faults' \in 0 .. MaxFaults /\ orgCount' \in Nat /\ unpublished' \subseteq unpublished
  BY <1>1, StreamConstants DEF IInv, StreamTypeOK
<1>b. closing' \in BOOLEAN
  BY <1>1
<1>3. /\ conn' = [c \in Clients |-> IF c \in Clients THEN NoConn ELSE conn[c]]
      /\ client' = [c \in Clients |-> IF c \in Clients THEN Received(c, m[c]) ELSE client[c]]
  BY <1>1
<1>4. Tracked' = Tracked \ Clients => SlotsReturned'
  <2>1. Tracked \ Clients = {}
    BY DEF Tracked
  <2> QED
    BY <1>1, <2>1, FS_EmptySet DEF SlotsReturned
<1>5. Live \subseteq Clients
  BY DEF Live
<1>6. /\ topic' \in [Topics -> HubTopics]
      /\ \A t \in Topics : /\ TopicOK(topic'[t], pruned)
                           /\ topic'[t].subs = topic[t].subs \ Clients
                           /\ topic'[t].open <=> topic'[t].subs # {}
                           /\ \A d \in topic'[t].subs : topic'[t].at[d] = topic[t].at[d]
  BY <1>1, <1>5, NoTopicsLeft
<1> QED
  BY <1>1, <1>2, <1>b, <1>3, <1>4, <1>6, EndIInv

LEMMA NextIInv == IInv /\ [Next]_vars => IInv'
<1> SUFFICES ASSUME IInv, [Next]_vars PROVE IInv'
  OBVIOUS
<1>1. CASE UNCHANGED vars
  BY <1>1 DEF vars, tableVars, serverVars, IInv, StreamTypeOK, TopicsAreNeeded, ReplayNotAhead,
              SlotsReturned, Live, Tracked, ConnsOK, ClientsOK, TopicsOK
<1>2. ASSUME NEW here \in BOOLEAN, AppendEvent(here) PROVE IInv'
  BY <1>2, AppendIInv
<1>3. ASSUME NEW n \in SequenceNumbers, Prune(n) \/ Publish(n) PROVE IInv'
  BY <1>3, PruneIInv, PublishIInv
<1>4. CASE Notify
  BY <1>4, NotifyIInv
<1>5. ASSUME NEW t \in Topics, TimerPoll(t) \/ PollReturns(t) \/ PollFails(t) PROVE IInv'
  BY <1>5, TimerPollIInv, PollReturnsIInv, PollFailsIInv
<1>6. ASSUME NEW c \in Clients, Connect(c) \/ Refuse(c) \/ Open(c) \/ DrainPage(c) PROVE IInv'
  BY <1>6, ConnectIInv, RefuseIInv, OpenIInv, DrainPageIInv
<1>7. ASSUME NEW c \in Clients, NEW m \in SequenceNumbers, Close(c, m) PROVE IInv'
  BY <1>7, CloseIInv
<1>8. ASSUME NEW m \in [Clients -> SequenceNumbers], Shutdown(m) \/ Restart(m) PROVE IInv'
  BY <1>8, ShutdownIInv, RestartIInv
<1> QED
  BY <1>1, <1>2, <1>3, <1>4, <1>5, <1>6, <1>7, <1>8 DEF Next

\* IInv is an invariant of the specification.
THEOREM IInvHolds == Spec => []IInv
  BY InitIInv, NextIInv, PTL DEF Spec

-----------------------------------------------------------------------------
(* The theorems *)

LEMMA IInvNoSilentGap == IInv => NoSilentGap
<1> SUFFICES ASSUME IInv, NEW c \in Clients, NEW n \in 1 .. Reached(c), n \notin Known(c) \cup Unknown
             PROVE  n \in pruned /\ \A i \in Known(c) : n < i
  BY DEF NoSilentGap
<1> DEFINE k == conn[c]
           cl == client[c]
<1>1. /\ k \in Connections /\ cl \in ClientRecords
      /\ ConnOK(k, cl, pruned) /\ ClientOK(cl, pruned)
  BY IInvParts
<1>2. /\ k.last \in SequenceNumbers /\ k.after \in SequenceNumbers /\ cl.cursor \in SequenceNumbers
      /\ k.seen \in SUBSET SequenceNumbers /\ k.snaps \in SUBSET SequenceNumbers
      /\ cl.has \in SUBSET SequenceNumbers
  BY <1>1 DEF Connections, ClientRecords
<1>3. /\ Reached(c) \in {cl.cursor, k.last}
      /\ cl.cursor <= Reached(c) /\ k.last <= Reached(c)
  BY <1>2, MaxFacts DEF Reached
<1>4. Known(c) = cl.has \cup (k.seen \ Unknown) \cup UNION {1 .. u : u \in k.snaps}
  BY DEF Known
<1>5. /\ k.last \in Nat /\ k.after \in Nat /\ cl.cursor \in Nat /\ Reached(c) \in Nat
      /\ \A i \in k.seen : i \in Nat
      /\ \A i \in k.snaps : i \in Nat
      /\ \A i \in cl.has : i \in Nat
  BY <1>2, <1>3, SequenceNumbersTyped
<1>6. n \in Nat /\ 1 <= n /\ n <= Reached(c)
  BY <1>5
<1>7. n \notin cl.has /\ n \notin k.seen /\ n \notin Unknown
  BY <1>4
<1>8. \A u \in k.snaps : u < n
  <2>1. \A u \in k.snaps : n \notin 1 .. u
    BY <1>4
  <2> QED
    BY <2>1, <1>5, <1>6
<1>9. n <= cl.cursor => n \in pruned /\ \A i \in cl.has : n < i
  BY <1>1, <1>6, <1>7 DEF ClientOK
<1>10. CASE k.pc = "none"
  <2>1. k.last = 0 /\ k.seen = {} /\ k.snaps = {}
    BY <1>1, <1>10 DEF ConnOK, NoConn
  <2>2. n <= cl.cursor
    BY <1>3, <1>5, <1>6, <2>1
  <2>3. Known(c) = cl.has
    BY <1>4, <2>1
  <2> QED
    BY <1>9, <2>2, <2>3
<1>11. CASE k.pc # "none"
  <2>1. k.after = cl.cursor /\ Ordered(k) /\ Explained(k, pruned)
    BY <1>1, <1>11 DEF ConnOK, WriterOK
  <2>2. n <= k.last
    BY <1>3, <1>5, <1>6, <2>1 DEF Ordered
  <2>3. ASSUME \A i \in Stops(k) : n < i, \A i \in cl.has : n < i
        PROVE  \A i \in Known(c) : n < i
    <3>1. k.snaps = {}
      BY <1>5, <1>6, <1>8, <2>3 DEF Stops
    <3>2. Known(c) \subseteq cl.has \cup Stops(k)
      BY <1>4, <3>1 DEF Stops
    <3> QED
      BY <2>3, <3>2
  <2>4. CASE n <= k.after
    <3>1. \A i \in Stops(k) : n < i
      BY <1>5, <1>6, <2>1, <2>4 DEF Ordered, Stops
    <3> QED
      BY <1>9, <2>1, <2>3, <2>4, <3>1
  <2>5. CASE k.after < n
    <3>1. k.last \in Stops(k) /\ k.last \notin k.snaps
      BY <1>5, <1>6, <1>8, <2>1, <2>2, <2>5 DEF Ordered
    <3>2. k.last \in k.seen
      BY <3>1 DEF Stops
    <3>3. n \in k.after + 1 .. k.last - 1
      BY <1>5, <1>6, <1>7, <2>2, <2>5, <3>2
    <3>4. ~ \E u \in k.snaps : n <= u /\ u < k.last
      BY <1>5, <1>6, <1>8
    <3>5. k.after = 0 /\ n \in pruned /\ \A i \in Stops(k) : n < i
      BY <1>7, <2>1, <3>2, <3>3, <3>4 DEF Explained
    <3>6. cl.has = {}
      BY <1>1, <2>1, <3>5 DEF ClientOK
    <3> QED
      BY <2>3, <3>5, <3>6
  <2> QED
    BY <1>5, <1>6, <2>4, <2>5
<1> QED
  BY <1>10, <1>11

\* The variables of the streams, the hub and the registry keep their types.
THEOREM StreamTypesHold == Spec => []StreamTypeOK
  BY IInvHolds, PTL DEF IInv

\* createOrderedSseWriter, drainCatchup and the replay hub together never leave
\* an event out silently, whatever is appended, deleted, lost or interrupted.
THEOREM NoSilentGapHolds == Spec => []NoSilentGap
  BY IInvHolds, IInvNoSilentGap, PTL

\* The hub's lastSequence of a subscriber never runs ahead of its writer.
THEOREM ReplayNotAheadHolds == Spec => []ReplayNotAhead
  BY IInvHolds, PTL DEF IInv

\* The hub holds a topic exactly while a live stream needs it.
THEOREM TopicsAreNeededHolds == Spec => []TopicsAreNeeded
  BY IInvHolds, PTL DEF IInv

\* CloudSseStreamRegistry counts exactly the open streams of the organization.
THEOREM SlotsReturnedHolds == Spec => []SlotsReturned
  BY IInvHolds, PTL DEF IInv

\* What one writer adds lies beyond its position.
Advanced(k, w) ==
  /\ k.last <= w.last
  /\ \A n \in Stops(w) \ Stops(k) : n > k.last

LEMMA WritesAdvance ==
  ASSUME NEW k \in Connections
  PROVE  /\ Advanced(k, k)
         /\ \A rows \in SUBSET SequenceNumbers : Advanced(k, WriteRows(k, rows))
<1>1. k.last \in Nat
  BY SequenceNumbersTyped DEF Connections
<1>2. Advanced(k, k)
  BY <1>1 DEF Advanced
<1>3. ASSUME NEW rows \in SUBSET SequenceNumbers
      PROVE  Advanced(k, WriteRows(k, rows))
  BY WriteRowsFacts DEF Advanced
<1> QED
  BY <1>2, <1>3

\* A connection that is tracked is left alone, written rows, or ended.
LEMMA StepAdvances ==
  ASSUME IInv, [Next]_vars, NEW c \in Tracked, conn'[c].pc # "none"
  PROVE  Advanced(conn[c], conn'[c])
<1>1. /\ c \in Clients /\ conn[c] \in Connections /\ conn[c].pc \in {"drain", "live"}
      /\ conn \in [Clients -> Connections]
  BY DEF Tracked, IInv, StreamTypeOK
<1>2. NoConn.pc = "none"
  BY DEF NoConn
<1>3. CASE conn'[c] = conn[c]
  BY <1>1, <1>3, WritesAdvance
<1>4. ASSUME NEW n \in SequenceNumbers, Publish(n)
      PROVE  Advanced(conn[c], conn'[c])
  <2>1. conn'[c] = conn[c] \/ conn'[c] = WriteRows(conn[c], {n})
    BY <1>1, <1>4 DEF Publish
  <2> QED
    BY <1>1, <2>1, WritesAdvance
<1>5. ASSUME NEW t \in Topics, PollReturns(t)
      PROVE  Advanced(conn[c], conn'[c])
  <2>1. topic[t].rows \in SUBSET SequenceNumbers
    BY IInvParts DEF HubTopics
  <2>2. \E rows \in SUBSET SequenceNumbers : conn'[c] = conn[c] \/ conn'[c] = WriteRows(conn[c], rows)
    <3> DEFINE rows == {n \in topic[t].rows : n > topic[t].at[c]}
    <3>1. rows \in SUBSET SequenceNumbers
      BY <2>1
    <3>2. conn'[c] = conn[c] \/ conn'[c] = WriteRows(conn[c], rows)
      BY <1>1, <1>5 DEF PollReturns
    <3> QED
      BY <3>1, <3>2
  <2> QED
    BY <1>1, <2>2, WritesAdvance
<1>6. ASSUME NEW d \in Clients, DrainPage(d)
      PROVE  Advanced(conn[c], conn'[c])
  <2>1. CASE d # c
    <3>1. conn'[c] = conn[c]
      BY <1>1, <1>6, <2>1 DEF DrainPage, GoLive
    <3> QED
      BY <1>3, <3>1
  <2>2. CASE d = c
    <3> DEFINE k == WriteRows(conn[c], conn[c].rows)
    <3>1. conn[c].rows \in SUBSET SequenceNumbers
      BY <1>1 DEF Connections
    <3>2. k \in Connections /\ Advanced(conn[c], k)
      BY <1>1, <3>1, WriteRowsFacts, WritesAdvance
    <3>3. \/ GoLive(c, k)
          \/ conn' = [conn EXCEPT ![c] =
               [k EXCEPT !.page = Max(conn[c].rows), !.rows = Rows(Max(conn[c].rows))]]
      BY <1>6, <2>2 DEF DrainPage
    <3> HIDE DEF k
    <3>4. \/ conn'[c] = [k EXCEPT !.pc = "live", !.page = 0, !.rows = {}, !.earliest = 0, !.newest = 0]
          \/ conn'[c] = [k EXCEPT !.page = Max(conn[c].rows), !.rows = Rows(Max(conn[c].rows))]
      BY <1>1, <3>3 DEF GoLive
    <3>5. conn'[c].last = k.last /\ conn'[c].seen = k.seen /\ conn'[c].snaps = k.snaps
      BY <3>2, <3>4 DEF Connections
    <3> QED
      BY <3>2, <3>5 DEF Advanced, Stops
  <2> QED
    BY <2>1, <2>2
<1>7. ASSUME NEW d \in Clients, Connect(d) \/ Refuse(d) \/ Open(d)
      PROVE  conn'[c] = conn[c]
  <2>1. d # c
    BY <1>1, <1>7 DEF Connect, Refuse, Open
  <2> QED
    BY <1>1, <1>7, <2>1 DEF Connect, Refuse, Open, GoLive
<1>8. ASSUME NEW d \in Clients, NEW m \in SequenceNumbers, Close(d, m)
      PROVE  conn'[c] = conn[c]
  BY <1>1, <1>2, <1>8 DEF Close
<1>9. ASSUME NEW m \in [Clients -> SequenceNumbers], Shutdown(m) \/ Restart(m)
      PROVE  FALSE
  BY <1>1, <1>2, <1>9 DEF Shutdown, Restart
<1>10. ASSUME NEW here \in BOOLEAN, NEW n \in SequenceNumbers, NEW t \in Topics,
              \/ AppendEvent(here) \/ Prune(n) \/ Notify \/ TimerPoll(t) \/ PollFails(t)
              \/ UNCHANGED vars
       PROVE  conn'[c] = conn[c]
  BY <1>10 DEF AppendEvent, Prune, Notify, TimerPoll, PollFails, vars, serverVars
<1>11. TopicOf[c] \in Topics /\ 0 \in SequenceNumbers /\ TRUE \in BOOLEAN
  BY <1>1, StreamConstants, SequenceNumbersTyped
<1> QED
  BY <1>3, <1>4, <1>5, <1>6, <1>7, <1>8, <1>9, <1>10, <1>11 DEF Next

\* No source of a stream takes it back: catch-up, bus and hub only add events
\* beyond what the connection was sent.
THEOREM NeverGoesBackHolds == Spec => NeverGoesBack
<1> DEFINE Forward ==
      \A c \in Tracked : conn'[c].pc # "none" =>
        /\ conn'[c].last >= conn[c].last
        /\ \A n \in (conn'[c].seen \cup conn'[c].snaps) \ (conn[c].seen \cup conn[c].snaps) :
             n > conn[c].last
<1>1. IInv /\ [Next]_vars => [Forward]_vars
  <2> SUFFICES ASSUME IInv, [Next]_vars PROVE Forward
    OBVIOUS
  <2> SUFFICES ASSUME NEW c \in Tracked, conn'[c].pc # "none"
               PROVE  /\ conn'[c].last >= conn[c].last
                      /\ \A n \in (conn'[c].seen \cup conn'[c].snaps) \ (conn[c].seen \cup conn[c].snaps) :
                           n > conn[c].last
    OBVIOUS
  <2>1. Advanced(conn[c], conn'[c])
    BY StepAdvances
  <2>2. IInv'
    BY NextIInv
  <2>3. c \in Clients
    BY DEF Tracked
  <2>4. conn[c].last \in Nat /\ conn'[c].last \in Nat
    BY <2>2, <2>3, SequenceNumbersTyped DEF IInv, StreamTypeOK, Connections
  <2> QED
    BY <2>1, <2>4 DEF Advanced, Stops
<1> QED
  BY <1>1, IInvHolds, PTL DEF Spec, NeverGoesBack

-----------------------------------------------------------------------------
(* A page and the loop over its rows *)

\* What WriteRows makes of a connection, given the rows that are new and the
\* greatest and the least of them.
Written(k, new, top, least) ==
  LET follows == {n \in new : n - 1 \in new \cup {k.last} \/ (k.last = 0 /\ n = least)}
  IN  [k EXCEPT !.last = top, !.seen = k.seen \cup follows, !.snaps = k.snaps \cup (new \ follows)]

IsTop(S, x) == x \in S /\ \A y \in S : y <= x
IsLeast(S, x) == x \in S /\ \A y \in S : x <= y

LEMMA WrittenRows ==
  ASSUME NEW k \in Connections, NEW rows \in SUBSET SequenceNumbers,
         NEW new, new = {n \in rows : n > k.last}
  PROVE  /\ WriteRows(k, rows) = Written(k, new, Max(new \cup {k.last}), Min(new))
         /\ IsTop(new \cup {k.last}, Max(new \cup {k.last}))
         /\ new # {} => IsLeast(new, Min(new))
<1>1. k.last \in SequenceNumbers /\ new \cup {k.last} \in SUBSET SequenceNumbers /\ new \in SUBSET Nat
  BY SequenceNumbersTyped DEF Connections
<1>2. IsTop(new \cup {k.last}, Max(new \cup {k.last}))
  BY <1>1, MaxFacts DEF IsTop
<1>3. new # {} => IsLeast(new, Min(new))
  BY <1>1, MinFacts DEF IsLeast
<1>4. WriteRows(k, rows) = Written(k, new, Max(new \cup {k.last}), Min(new))
  BY Zenon DEF WriteRows, Written
<1> QED
  BY <1>2, <1>3, <1>4

\* no rows
LEMMA WriteNothing ==
  ASSUME NEW k \in Connections, NEW rows \in SUBSET SequenceNumbers, \A n \in rows : n <= k.last
  PROVE  WriteRows(k, rows) = k
<1> DEFINE new == {n \in rows : n > k.last}
<1>1. k.last \in SequenceNumbers /\ SequenceNumbers \subseteq Nat
  BY SequenceNumbersTyped DEF Connections
<1>2. new = {}
  <2>1. \A n \in rows : n \in Nat /\ k.last \in Nat /\ n <= k.last
    BY <1>1
  <2>2. \A n \in rows : ~(n > k.last)
    BY <2>1
  <2> QED
    BY <2>2, Zenon
<1>3. /\ WriteRows(k, rows) = Written(k, new, Max(new \cup {k.last}), Min(new))
      /\ IsTop(new \cup {k.last}, Max(new \cup {k.last}))
  BY WrittenRows
<1>4. Max(new \cup {k.last}) = k.last
  BY <1>2, <1>3 DEF IsTop
<1>5. Written(k, {}, k.last, Min(new)) = k
  BY DEF Written, Connections
<1> QED
  BY <1>2, <1>3, <1>4, <1>5, Zenon

\* writeIfNew of one row
WriteIfNew(k, n) ==
  IF n <= k.last THEN k
  ELSE IF k.last > 0 /\ n > k.last + 1
       THEN [k EXCEPT !.last = n, !.snaps = @ \cup {n}]
       ELSE [k EXCEPT !.last = n, !.seen = @ \cup {n}]

\* the loop over the rows of a page, which are ordered by their sequence
WriteEach(k, rows) ==
  LET loop[read \in SUBSET rows] ==
        IF read = {} THEN k
        ELSE WriteIfNew(loop[read \ {Max(read)}], Max(read))
  IN  loop[rows]

\* One row more, behind all the others, is one more call of writeIfNew.
LEMMA WriteOneMore ==
  ASSUME NEW k \in Connections, NEW rows \in SUBSET SequenceNumbers, NEW m \in SequenceNumbers,
         \A n \in rows : n < m
  PROVE  WriteRows(k, rows \cup {m}) = WriteIfNew(WriteRows(k, rows), m)
<1> DEFINE all == rows \cup {m}
           w == WriteRows(k, rows)
<1>0. /\ k.last \in Nat /\ k.last \in SequenceNumbers /\ m \in Nat /\ rows \subseteq Nat
      /\ SequenceNumbers \subseteq Nat
      /\ k.seen \in SUBSET SequenceNumbers /\ k.snaps \in SUBSET SequenceNumbers
      /\ all \in SUBSET SequenceNumbers
  BY SequenceNumbersTyped DEF Connections
<1>1. CASE m <= k.last
  <2>1. (\A n \in rows : n <= k.last) /\ (\A n \in all : n <= k.last)
    BY <1>0, <1>1
  <2>2. w = k /\ WriteRows(k, all) = k
    BY <1>0, <2>1, WriteNothing
  <2>3. WriteIfNew(k, m) = k
    BY <1>1 DEF WriteIfNew
  <2> QED
    BY <2>2, <2>3, Zenon
<1>2. CASE m > k.last
  <2> DEFINE old == {n \in rows : n > k.last}
             new == {n \in all : n > k.last}
             top == Max(old \cup {k.last})
             least == Min(old)
             top2 == Max(new \cup {k.last})
             least2 == Min(new)
  <2>1. /\ w = Written(k, old, top, least) /\ IsTop(old \cup {k.last}, top)
        /\ old # {} => IsLeast(old, least)
    BY WrittenRows
  <2>2. /\ WriteRows(k, all) = Written(k, new, top2, least2) /\ IsTop(new \cup {k.last}, top2)
        /\ new # {} => IsLeast(new, least2)
    BY <1>0, WrittenRows
  <2>3. new = old \cup {m} /\ old \subseteq Nat /\ (\A n \in old : n < m /\ n > k.last)
    BY <1>0, <1>2
  <2> HIDE DEF old, new, top, least, top2, least2, w, all
  <2>4. /\ top \in Nat /\ top < m /\ k.last <= top
        /\ (\A n \in old : n <= top) /\ (top = k.last \/ top \in old)
    BY <1>0, <1>2, <2>1, <2>3 DEF IsTop
  <2>5. top2 = m
    BY <1>0, <1>2, <2>2, <2>3 DEF IsTop
  <2>6. (old # {} => least2 = least) /\ (old = {} => least2 = m) /\ (old # {} => least < m)
    <3>1. new # {} /\ least2 \in old \cup {m} /\ (\A y \in old \cup {m} : least2 <= y)
      BY <2>2, <2>3 DEF IsLeast
    <3>2. CASE old = {}
      BY <3>1, <3>2
    <3>3. CASE old # {}
      <4>1. least \in old /\ (\A y \in old : least <= y)
        BY <2>1, <3>3 DEF IsLeast
      <4>2. least \in Nat /\ least < m /\ least2 <= least
        BY <2>3, <3>1, <4>1
      <4>3. least2 # m
        BY <1>0, <4>2
      <4>4. least2 \in Nat /\ least <= least2
        BY <2>3, <3>1, <4>1, <4>3
      <4> QED
        BY <3>3, <4>2, <4>4
    <3> QED
      BY <3>2, <3>3
  <2> DEFINE f == {n \in old : n - 1 \in old \cup {k.last} \/ (k.last = 0 /\ n = least)}
             g == {n \in new : n - 1 \in new \cup {k.last} \/ (k.last = 0 /\ n = least2)}
  <2>7. /\ w = [k EXCEPT !.last = top, !.seen = k.seen \cup f, !.snaps = k.snaps \cup (old \ f)]
        /\ WriteRows(k, all) = [k EXCEPT !.last = m, !.seen = k.seen \cup g, !.snaps = k.snaps \cup (new \ g)]
    BY <2>1, <2>2, <2>5 DEF Written
  <2>8. \A n \in old : n \in g <=> n \in f
    <3> SUFFICES ASSUME NEW n \in old PROVE n \in g <=> n \in f
      OBVIOUS
    <3>1. n \in Nat /\ n < m /\ n - 1 # m /\ n \in new /\ old # {}
      BY <1>0, <2>3
    <3>2. n - 1 \in new \cup {k.last} <=> n - 1 \in old \cup {k.last}
      BY <2>3, <3>1
    <3>3. least2 = least
      BY <2>6, <3>1
    <3> QED
      BY <3>1, <3>2, <3>3
  <2>9. f \subseteq old /\ g \subseteq new /\ m \notin old /\ m \in new
    BY <1>0, <2>3
  <2>10. m \in g <=> ~(top > 0 /\ m > top + 1)
    <3>1. m - 1 \in old \cup {k.last} <=> m = top + 1
      BY <1>0, <2>3, <2>4
    <3>2. m - 1 \in new \cup {k.last} <=> m = top + 1
      BY <1>0, <2>3, <3>1
    <3>3. (k.last = 0 /\ m = least2) <=> top = 0
      <4>1. CASE old = {}
        BY <2>4, <2>6, <4>1
      <4>2. CASE old # {}
        BY <1>0, <2>3, <2>4, <2>6, <4>2
      <4> QED
        BY <4>1, <4>2
    <3>4. m \in g <=> m - 1 \in new \cup {k.last} \/ (k.last = 0 /\ m = least2)
      BY <2>9
    <3>5. (m = top + 1 \/ top = 0) <=> ~(top > 0 /\ m > top + 1)
      BY <1>0, <2>4
    <3> QED
      BY <3>2, <3>3, <3>4, <3>5
  <2> HIDE DEF f, g
  <2>11. w.last = top /\ w.seen = k.seen \cup f /\ w.snaps = k.snaps \cup (old \ f) /\ ~(m <= w.last)
    <3>1. w.last = top /\ w.seen = k.seen \cup f /\ w.snaps = k.snaps \cup (old \ f)
      BY <2>7 DEF Connections
    <3> QED
      BY <1>0, <2>4, <3>1
  <2>12. CASE top > 0 /\ m > top + 1
    <3>1. WriteIfNew(w, m) = [w EXCEPT !.last = m, !.snaps = w.snaps \cup {m}]
      BY <2>11, <2>12 DEF WriteIfNew
    <3>2. g = f /\ new \ g = (old \ f) \cup {m}
      BY <2>3, <2>8, <2>9, <2>10, <2>12
    <3>3. WriteIfNew(w, m) = [k EXCEPT !.last = m, !.seen = k.seen \cup f, !.snaps = k.snaps \cup (old \ f) \cup {m}]
      BY <2>7, <2>11, <3>1 DEF Connections
    <3>4. k.snaps \cup (new \ g) = k.snaps \cup (old \ f) \cup {m} /\ k.seen \cup g = k.seen \cup f
      BY <3>2
    <3> QED
      BY <2>7, <3>3, <3>4, Zenon DEF all, w
  <2>13. CASE ~(top > 0 /\ m > top + 1)
    <3>1. WriteIfNew(w, m) = [w EXCEPT !.last = m, !.seen = w.seen \cup {m}]
      BY <2>11, <2>13 DEF WriteIfNew
    <3>2. g = f \cup {m} /\ new \ g = old \ f
      BY <2>3, <2>8, <2>9, <2>10, <2>13
    <3>3. WriteIfNew(w, m) = [k EXCEPT !.last = m, !.seen = k.seen \cup f \cup {m}, !.snaps = k.snaps \cup (old \ f)]
      BY <2>7, <2>11, <3>1 DEF Connections
    <3>4. k.snaps \cup (new \ g) = k.snaps \cup (old \ f) /\ k.seen \cup g = k.seen \cup f \cup {m}
      BY <3>2
    <3> QED
      BY <2>7, <3>3, <3>4, Zenon DEF all, w
  <2> QED
    BY <2>12, <2>13
<1> QED
  BY <1>0, <1>1, <1>2

\* The function that WriteEach defines is WriteRows: it satisfies the equation,
\* and a smallest set on which another solution differs would have a greatest
\* row, without which they agree.
LEMMA WriteEachIsWriteRows ==
  ASSUME NEW k \in Connections, NEW rows \in SUBSET SequenceNumbers
  PROVE  WriteRows(k, rows) = WriteEach(k, rows)
<1> DEFINE Step(h, read) == IF read = {} THEN k ELSE WriteIfNew(h[read \ {Max(read)}], Max(read))
           G == CHOOSE h : h = [read \in SUBSET rows |-> Step(h, read)]
           wr == [read \in SUBSET rows |-> WriteRows(k, read)]
<1>1. ASSUME NEW read \in SUBSET rows, read # {}
      PROVE  /\ Max(read) \in read /\ read \ {Max(read)} \in SUBSET rows
             /\ WriteRows(k, read) = WriteIfNew(WriteRows(k, read \ {Max(read)}), Max(read))
  <2> DEFINE x == Max(read)
             rest == read \ {x}
  <2>1. read \in SUBSET SequenceNumbers
    OBVIOUS
  <2>2. x \in read /\ \A y \in read : y <= x
    BY <1>1, <2>1, MaxFacts
  <2> HIDE DEF x
  <2>3. rest \in SUBSET SequenceNumbers /\ x \in SequenceNumbers /\ rest \cup {x} = read
    BY <2>1, <2>2
  <2>4. \A y \in rest : y < x
    BY <2>1, <2>2, SequenceNumbersTyped
  <2> HIDE DEF rest
  <2>5. WriteRows(k, rest \cup {x}) = WriteIfNew(WriteRows(k, rest), x)
    BY <2>3, <2>4, WriteOneMore
  <2>6. WriteRows(k, read) = WriteIfNew(WriteRows(k, rest), x)
    BY <2>3, <2>5, Zenon
  <2>7. rest \in SUBSET rows
    BY DEF rest
  <2> QED
    BY <2>2, <2>6, <2>7, Zenon DEF x, rest
<1>2. WriteRows(k, {}) = k
  BY WriteNothing
<1>3. ASSUME NEW read \in SUBSET rows PROVE wr[read] = Step(wr, read)
  <2>1. CASE read = {}
    BY <1>2, <2>1, Zenon
  <2>2. CASE read # {}
    <3>1. /\ read \ {Max(read)} \in SUBSET rows
          /\ WriteRows(k, read) = WriteIfNew(WriteRows(k, read \ {Max(read)}), Max(read))
      BY <1>1, <2>2
    <3>2. wr[read \ {Max(read)}] = WriteRows(k, read \ {Max(read)})
      BY <3>1, Zenon
    <3> QED
      BY <2>2, <3>1, <3>2, Zenon
  <2> QED
    BY <2>1, <2>2
<1>4. wr = [read \in SUBSET rows |-> Step(wr, read)]
  BY <1>3, Zenon
<1>5. G = [read \in SUBSET rows |-> Step(G, read)]
  BY <1>4, Zenon
<1>6. WriteEach(k, rows) = G[rows]
  BY DEF WriteEach
<1> HIDE DEF G, wr
<1>7. \A read \in SUBSET rows : G[read] = Step(G, read)
  BY <1>5, Zenon
<1> DEFINE D == {read \in SUBSET rows : G[read] # WriteRows(k, read)}
<1>8. SUFFICES ASSUME D # {} PROVE FALSE
  BY <1>6, Zenon
<1>9. D \subseteq FiniteSubsetsOf(SequenceNumbers)
  <2>1. IsFiniteSet(SequenceNumbers)
    BY StreamConstants, FS_Interval DEF SequenceNumbers
  <2>2. \A read \in SUBSET rows : read \in SUBSET SequenceNumbers /\ IsFiniteSet(read)
    BY <2>1, FS_Subset
  <2> QED
    BY <2>2 DEF FiniteSubsetsOf
<1>10. PICK U \in D : \A V \in D : <<V, U>> \notin StrictSubsetOrdering(SequenceNumbers)
  <2> HIDE DEF D
  <2> QED
    BY <1>8, <1>9, FS_StrictSubsetOrderingWellFounded, WFMin
<1>11. U \in SUBSET rows /\ G[U] # WriteRows(k, U)
  BY <1>10, Zenon
<1>12. CASE U = {}
  BY <1>2, <1>7, <1>11, <1>12, Zenon
<1>13. CASE U # {}
  <2> DEFINE V == U \ {Max(U)}
  <2>1. Max(U) \in U /\ V \in SUBSET rows
        /\ WriteRows(k, U) = WriteIfNew(WriteRows(k, V), Max(U))
    BY <1>1, <1>11, <1>13
  <2>2. G[U] = WriteIfNew(G[V], Max(U))
    BY <1>7, <1>11, <1>13, Zenon
  <2>3. V \notin D
    <3>1. V \in SUBSET SequenceNumbers /\ U \in SUBSET SequenceNumbers
      BY <1>11
    <3>2. <<V, U>> \in StrictSubsetOrdering(SequenceNumbers)
      BY <2>1, <3>1 DEF StrictSubsetOrdering
    <3> QED
      BY <1>10, <3>2
  <2>4. G[V] = WriteRows(k, V)
    BY <2>1, <2>3, Zenon
  <2> QED
    BY <1>11, <2>1, <2>2, <2>4, Zenon
<1> QED
  BY <1>12, <1>13
=============================================================================

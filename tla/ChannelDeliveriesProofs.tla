------------------------ MODULE ChannelDeliveriesProofs ------------------------
(* Theorems about ChannelDeliveries, for every number of deliveries, lanes    *)
(* and gateways, every outset and every value of the limits and bounds.       *)
EXTENDS ChannelDeliveries, FiniteSetTheorems, TLAPS

-----------------------------------------------------------------------------
(* The inductive invariant.  Its core is the dispatcher's book, which is      *)
(* stated for the memory s of one gateway process.                            *)

Tasks == {Idle} \cup [id : Deliveries, attempt : 1 .. MaxAttempts,
                      at : {"sending", "acking", "reporting"}]

States ==
  [frames : Seq(Copies), queue : [Lanes -> Seq(Copies)], task : [Lanes -> Tasks],
   ready : Seq(Lanes), pending : SUBSET Deliveries, sent : Seq(Deliveries)]

\* exactly the lanes with work that are not running wait in line, once each
InLine(s) ==
  /\ \A l \in Lanes : l \in ToSet(s.ready) <=> s.queue[l] # <<>> /\ s.task[l].at = "idle"
  /\ IsInjective(s.ready)

\* what a lane runs or queues is pending, and belongs to the lane
InItsLane(s) ==
  \A l \in Lanes :
    /\ s.task[l].at # "idle" => s.task[l].id \in s.pending /\ LaneOf[s.task[l].id] = l
    /\ \A i \in DOMAIN s.queue[l] :
         s.queue[l][i].id \in s.pending /\ LaneOf[s.queue[l][i].id] = l

\* no lane holds a delivery twice
HeldOnce(s) ==
  \A l \in Lanes :
    /\ \A i, j \in DOMAIN s.queue[l] : s.queue[l][i].id = s.queue[l][j].id => i = j
    /\ \A i \in DOMAIN s.queue[l] : s.queue[l][i].id # s.task[l].id

PendingIsHeld(s) ==
  \A d \in s.pending :
    \/ s.task[LaneOf[d]].id = d
    \/ \E i \in DOMAIN s.queue[LaneOf[d]] : s.queue[LaneOf[d]][i].id = d

\* what is yet to be sent is not in the cache of what was sent
Fresh(s) ==
  \A l \in Lanes :
    /\ s.task[l].at = "sending" => s.task[l].id \notin ToSet(s.sent)
    /\ \A i \in DOMAIN s.queue[l] : s.queue[l][i].id \notin ToSet(s.sent)

Running(s) == {l \in Lanes : s.task[l].at # "idle"}

Places(s) == UNION {{l} \X DOMAIN s.queue[l] : l \in Lanes}

\* the dispatcher's limits, of sets that are finite
WithinLimits(s) ==
  /\ IsFiniteSet(Running(s)) /\ Active(s) <= MaxConcurrency
  /\ IsFiniteSet(Places(s)) /\ Queued(s) <= MaxQueueDepth

Booked(s) ==
  /\ s \in States
  /\ InLine(s) /\ InItsLane(s) /\ HeldOnce(s) /\ PendingIsHeld(s) /\ Fresh(s)
  /\ WithinLimits(s)

\* no slot is free while a lane waits in line
Pumped(s) == s.ready # <<>> => Active(s) = MaxConcurrency

\* The cache is a suffix of what the process sent, and all of it as long as
\* that fits.
Cached(s, sentByNow) ==
  /\ Len(s.sent) <= CacheSize
  /\ IsInjective(s.sent)
  /\ ToSet(s.sent) \subseteq sentByNow
  /\ IsFiniteSet(sentByNow)
  /\ Cardinality(sentByNow) <= CacheSize => sentByNow \subseteq ToSet(s.sent)

GatewaysInv ==
  /\ DOMAIN gw = Gateways
  /\ \A g \in Gateways :
       /\ Booked(gw[g]) /\ Pumped(gw[g])
       /\ Len(gw[g].frames) <= MaxFrames
       /\ Cached(gw[g], sends[g])

AckRequests == [by : Gateways, id : Deliveries,
                status : {"sent", "failed", "dead"}, waiting : BOOLEAN]

\* an ack that is waited for is the one of a task that runs
AcksInv ==
  /\ acks \subseteq AckRequests
  /\ \A a \in acks : a.waiting =>
       LET t == gw[a.by].task[LaneOf[a.id]]
       IN  t.id = a.id /\ t.at \in {"acking", "reporting"}
  /\ \A a, b \in acks : a.waiting /\ b.waiting /\ a.by = b.by /\ a.id = b.id => a = b

RowsInv ==
  /\ served \in [Gateways -> SUBSET Deliveries]
  /\ row \in [Deliveries -> Rows]
  /\ \A d \in Deliveries : Consistent(row[d])
  /\ disruptions \in 0 .. MaxDisruptions

\* what any party takes for sent was accepted by a provider
SentInv ==
  /\ delivered \subseteq Deliveries
  /\ SentMeansDelivered
  /\ \A a \in acks : a.status = "sent" => a.id \in delivered
  /\ sends \in [Gateways -> SUBSET Deliveries]
  /\ \A g \in Gateways : sends[g] \subseteq delivered

DeliveryInv == RowsInv /\ GatewaysInv /\ AcksInv /\ SentInv

-----------------------------------------------------------------------------
(* Sequences and sets *)

LEMMA MinOfTwo ==
  ASSUME NEW a \in Int, NEW b \in Int
  PROVE  /\ Min({a, b}) \in {a, b}
         /\ Min({a, b}) <= a /\ Min({a, b}) <= b
  BY DEF Min

\* The first k elements of a sequence without repetitions are k elements.
LEMMA PrefixCardinality ==
  ASSUME NEW S, NEW q \in Seq(S), IsInjective(q), NEW k \in Nat, k <= Len(q)
  PROVE  /\ IsFiniteSet({q[i] : i \in 1 .. k})
         /\ Cardinality({q[i] : i \in 1 .. k}) = k
<1> DEFINE T == {q[i] : i \in 1 .. k}
           f == [i \in 1 .. k |-> q[i]]
<1>1. f \in Bijection(1 .. k, T)
  BY DEF Bijection, Injection, Surjection, IsInjective
<1>2. ExistsBijection(1 .. k, T)
  BY <1>1 DEF ExistsBijection
<1>3. IsFiniteSet(1 .. k) /\ Cardinality(1 .. k) = k
  BY FS_Interval
<1> QED
  BY <1>2, <1>3, FS_Bijection

LEMMA ToSetCardinality ==
  ASSUME NEW S, NEW q \in Seq(S), IsInjective(q)
  PROVE  IsFiniteSet(ToSet(q)) /\ Cardinality(ToSet(q)) = Len(q)
<1>1. PICK k \in Nat : k = Len(q) /\ k <= Len(q)
  OBVIOUS
<1>2. ToSet(q) = {q[i] : i \in 1 .. k}
  BY <1>1 DEF ToSet
<1>3. IsFiniteSet({q[i] : i \in 1 .. k}) /\ Cardinality({q[i] : i \in 1 .. k}) = k
  BY <1>1, PrefixCardinality, Zenon
<1> QED
  BY <1>1, <1>2, <1>3

LEMMA AppendToSet ==
  ASSUME NEW S, NEW q \in Seq(S), NEW x \in S
  PROVE  /\ ToSet(Append(q, x)) = ToSet(q) \cup {x}
         /\ IsInjective(q) /\ x \notin ToSet(q) => IsInjective(Append(q, x))
  BY DEF ToSet, IsInjective

LEMMA AppendPlaces ==
  ASSUME NEW S, NEW p \in Seq(S), NEW c \in S
  PROVE  LET q == Append(p, c)
         IN  /\ q \in Seq(S) /\ q # <<>>
             /\ Len(q) = Len(p) + 1 /\ q[Len(q)] = c /\ Len(q) \in DOMAIN q
             /\ \A i \in DOMAIN q : i \in DOMAIN p \/ i = Len(q)
             /\ \A i \in DOMAIN p : i \in DOMAIN q /\ q[i] = p[i] /\ i # Len(q)
<1> DEFINE q == Append(p, c)
<1>1. /\ q \in Seq(S) /\ Len(q) = Len(p) + 1 /\ Len(p) \in Nat /\ q[Len(p) + 1] = c
      /\ \A i \in 1 .. Len(p) : q[i] = p[i]
  OBVIOUS
<1>2. DOMAIN p = 1 .. Len(p) /\ DOMAIN q = 1 .. Len(q)
  BY <1>1
<1> HIDE DEF q
<1>3. /\ q # <<>> /\ q[Len(q)] = c /\ Len(q) \in DOMAIN q
      /\ \A i \in DOMAIN q : i \in DOMAIN p \/ i = Len(q)
      /\ \A i \in DOMAIN p : i \in DOMAIN q /\ q[i] = p[i] /\ i # Len(q)
  BY <1>1, <1>2
<1> QED
  BY <1>1, <1>3 DEF q

LEMMA TailToSet ==
  ASSUME NEW S, NEW q \in Seq(S), q # <<>>
  PROVE  /\ Tail(q) \in Seq(S) /\ Len(Tail(q)) = Len(q) - 1
         /\ \A i \in DOMAIN Tail(q) : i + 1 \in DOMAIN q /\ Tail(q)[i] = q[i + 1]
         /\ Head(q) = q[1] /\ 1 \in DOMAIN q /\ Head(q) \in S
         /\ ToSet(Tail(q)) \subseteq ToSet(q)
         /\ IsInjective(q) => IsInjective(Tail(q))
  BY DEF ToSet, IsInjective

\* What is left of a sequence without repetitions when its first k elements
\* have gone.
LEMMA SuffixToSet ==
  ASSUME NEW S, NEW q \in Seq(S), IsInjective(q), NEW k \in Nat, k <= Len(q)
  PROVE  /\ SubSeq(q, k + 1, Len(q)) \in Seq(S)
         /\ IsInjective(SubSeq(q, k + 1, Len(q)))
         /\ \A x : x \in ToSet(SubSeq(q, k + 1, Len(q)))
              <=> x \in ToSet(q) /\ x \notin {q[i] : i \in 1 .. k}
         /\ k = Len(q) => SubSeq(q, k + 1, Len(q)) = <<>>
<1> DEFINE r == SubSeq(q, k + 1, Len(q))
<1>1. r \in Seq(S) /\ Len(r) = Len(q) - k /\ \A i \in 1 .. Len(q) - k : r[i] = q[k + i]
  OBVIOUS
<1> HIDE DEF r
<1>2. IsInjective(r)
  <2> SUFFICES ASSUME NEW i \in 1 .. Len(r), NEW j \in 1 .. Len(r), r[i] = r[j] PROVE i = j
    BY <1>1 DEF IsInjective
  <2>1. q[k + i] = q[k + j] /\ k + i \in DOMAIN q /\ k + j \in DOMAIN q
    BY <1>1
  <2>2. k + i = k + j
    BY <2>1 DEF IsInjective
  <2> QED
    BY <1>1, <2>2
<1>3. ASSUME NEW x \in ToSet(r)
      PROVE  x \in ToSet(q) /\ x \notin {q[i] : i \in 1 .. k}
  <2>1. PICK j \in 1 .. Len(r) : x = r[j]
    BY <1>1 DEF ToSet
  <2>2. x = q[k + j] /\ k + j \in DOMAIN q
    BY <1>1, <2>1
  <2>3. ASSUME NEW i \in 1 .. k, x = q[i] PROVE FALSE
    <3>1. i \in DOMAIN q
      OBVIOUS
    <3>2. i = k + j
      BY <2>2, <2>3, <3>1 DEF IsInjective
    <3> QED
      BY <1>1, <3>2
  <2> QED
    BY <2>2, <2>3 DEF ToSet
<1>4. ASSUME NEW x \in ToSet(q), x \notin {q[i] : i \in 1 .. k}
      PROVE  x \in ToSet(r)
  <2>1. PICK j \in 1 .. Len(q) : x = q[j]
    BY DEF ToSet
  <2>2. j > k
    BY <1>4, <2>1
  <2>3. j - k \in 1 .. Len(r) /\ r[j - k] = x
    BY <1>1, <2>1, <2>2
  <2> QED
    BY <1>1, <2>3 DEF ToSet
<1>5. k = Len(q) => r = <<>>
  BY <1>1
<1> QED
  BY <1>1, <1>2, <1>3, <1>4, <1>5 DEF r

-----------------------------------------------------------------------------
(* The dispatcher *)

LEMMA CopiesTyped ==
  ASSUME NEW c \in Copies
  PROVE  c.id \in Deliveries /\ c.attempt \in 1 .. MaxAttempts
  BY DEF Copies

LEMMA IdleTyped == Idle \in Tasks /\ Idle.id = Nobody /\ Idle.at = "idle"
  BY DEF Idle, Tasks

LEMMA TasksTyped ==
  ASSUME NEW t \in Tasks
  PROVE  /\ t.at \in {"idle", "sending", "acking", "reporting"}
         /\ t.at = "idle" <=> t = Idle
         /\ t.at = "idle" => t.id = Nobody
         /\ t.at # "idle" => /\ t.id \in Deliveries /\ t.attempt \in 1 .. MaxAttempts
                             /\ t = [id |-> t.id, attempt |-> t.attempt, at |-> t.at]
  BY DEF Idle, Tasks

LEMMA PlacesOf ==
  ASSUME NEW s
  PROVE  /\ \A p : p \in Places(s) <=> \E l \in Lanes : \E i \in DOMAIN s.queue[l] : p = <<l, i>>
         /\ Queued(s) = Cardinality(Places(s)) /\ Active(s) = Cardinality(Running(s))
  BY DEF Places, Queued, Active, Running

StartedTask(c) == [id |-> c.id, attempt |-> c.attempt, at |-> "sending"]

LEMMA StartedTaskTyped ==
  ASSUME NEW c \in Copies
  PROVE  /\ StartedTask(c) \in Tasks /\ StartedTask(c).id = c.id
         /\ StartedTask(c).at = "sending"
  BY DEF Copies, Tasks, StartedTask

\* pump() in one record: the first k lanes in line start, where k is what the
\* free slots and the line allow.
LEMMA PumpShape ==
  ASSUME NEW s \in States, WithinLimits(s)
  PROVE  \E k \in Nat :
           /\ k <= Len(s.ready) /\ k <= MaxConcurrency - Active(s)
           /\ k = Len(s.ready) \/ k = MaxConcurrency - Active(s)
           /\ LET starting == {s.ready[i] : i \in 1 .. k}
              IN  Pump(s) =
                    [frames |-> s.frames,
                     queue |-> [l \in Lanes |-> IF l \in starting THEN Tail(s.queue[l])
                                                ELSE s.queue[l]],
                     task |-> [l \in Lanes |-> IF l \in starting
                                               THEN StartedTask(Head(s.queue[l]))
                                               ELSE s.task[l]],
                     ready |-> SubSeq(s.ready, k + 1, Len(s.ready)),
                     pending |-> s.pending, sent |-> s.sent]
<1>1. Active(s) \in Nat /\ MaxConcurrency \in Nat /\ Active(s) <= MaxConcurrency
  BY DeliveryConstants, PlacesOf, FS_CardinalityType DEF WithinLimits
<1>2. Len(s.ready) \in Nat
  BY DEF States
<1> DEFINE k == Min({MaxConcurrency - Active(s), Len(s.ready)})
           starting == {s.ready[i] : i \in 1 .. k}
<1>3. /\ k \in Nat /\ k <= Len(s.ready) /\ k <= MaxConcurrency - Active(s)
      /\ k = Len(s.ready) \/ k = MaxConcurrency - Active(s)
  <2>1. MaxConcurrency - Active(s) \in Int /\ Len(s.ready) \in Int
    BY <1>1, <1>2
  <2>2. /\ k \in {MaxConcurrency - Active(s), Len(s.ready)}
        /\ k <= MaxConcurrency - Active(s) /\ k <= Len(s.ready)
    BY <2>1, MinOfTwo, Zenon
  <2> HIDE DEF k
  <2> QED
    BY <1>1, <1>2, <2>2
<1>4. Pump(s) = [s EXCEPT
        !.ready = SubSeq(@, k + 1, Len(@)),
        !.queue = [l \in Lanes |-> IF l \in starting THEN Tail(@[l]) ELSE @[l]],
        !.task  = [l \in Lanes |-> IF l \in starting THEN StartedTask(Head(s.queue[l]))
                                   ELSE @[l]]]
  BY Zenon DEF Pump, StartedTask
<1> HIDE DEF k, starting
<1>5. Pump(s) = [frames |-> s.frames,
                 queue |-> [l \in Lanes |-> IF l \in starting THEN Tail(s.queue[l])
                                            ELSE s.queue[l]],
                 task |-> [l \in Lanes |-> IF l \in starting
                                           THEN StartedTask(Head(s.queue[l]))
                                           ELSE s.task[l]],
                 ready |-> SubSeq(s.ready, k + 1, Len(s.ready)),
                 pending |-> s.pending, sent |-> s.sent]
  BY <1>4 DEF States
<1> QED
  BY <1>3, <1>5, Zenon DEF starting

\* What a lane runs and queues after pump(): the lanes that start were waiting
\* in line and take the head of their queue.
LEMMA PumpLanes ==
  ASSUME NEW s, Booked(s)
  PROVE  LET p == Pump(s)
         IN  \E k \in Nat :
               /\ k <= Len(s.ready) /\ k <= MaxConcurrency - Active(s)
               /\ k = Len(s.ready) \/ k = MaxConcurrency - Active(s)
               /\ p \in States
               /\ p.frames = s.frames /\ p.pending = s.pending /\ p.sent = s.sent
               /\ p.ready = SubSeq(s.ready, k + 1, Len(s.ready))
               /\ \A l \in Lanes :
                    \/ /\ l \notin {s.ready[i] : i \in 1 .. k}
                       /\ p.queue[l] = s.queue[l] /\ p.task[l] = s.task[l]
                    \/ /\ l \in {s.ready[i] : i \in 1 .. k}
                       /\ s.queue[l] # <<>> /\ s.task[l].at = "idle"
                       /\ p.queue[l] = Tail(s.queue[l])
                       /\ p.task[l] = StartedTask(Head(s.queue[l]))
<1>1. s \in States /\ WithinLimits(s) /\ InLine(s)
  BY DEF Booked
<1>2. PICK k \in Nat :
        /\ k <= Len(s.ready) /\ k <= MaxConcurrency - Active(s)
        /\ k = Len(s.ready) \/ k = MaxConcurrency - Active(s)
        /\ LET starting == {s.ready[i] : i \in 1 .. k}
           IN  Pump(s) =
                 [frames |-> s.frames,
                  queue |-> [l \in Lanes |-> IF l \in starting THEN Tail(s.queue[l])
                                             ELSE s.queue[l]],
                  task |-> [l \in Lanes |-> IF l \in starting
                                            THEN StartedTask(Head(s.queue[l]))
                                            ELSE s.task[l]],
                  ready |-> SubSeq(s.ready, k + 1, Len(s.ready)),
                  pending |-> s.pending, sent |-> s.sent]
  BY <1>1, PumpShape, Zenon
<1> DEFINE p == Pump(s)
           starting == {s.ready[i] : i \in 1 .. k}
<1>3. /\ p.frames = s.frames /\ p.pending = s.pending /\ p.sent = s.sent
      /\ p.ready = SubSeq(s.ready, k + 1, Len(s.ready))
      /\ p.queue = [l \in Lanes |-> IF l \in starting THEN Tail(s.queue[l])
                                    ELSE s.queue[l]]
      /\ p.task = [l \in Lanes |-> IF l \in starting THEN StartedTask(Head(s.queue[l]))
                                   ELSE s.task[l]]
      /\ p = [frames |-> p.frames, queue |-> p.queue, task |-> p.task, ready |-> p.ready,
              pending |-> p.pending, sent |-> p.sent]
  BY <1>2, SMTT(30)
<1>4. ASSUME NEW l \in Lanes, l \in starting
      PROVE  s.queue[l] # <<>> /\ s.task[l].at = "idle"
  <2>1. s.ready \in Seq(Lanes)
    BY <1>1 DEF States
  <2>2. l \in ToSet(s.ready)
    BY <1>2, <1>4, <2>1 DEF ToSet
  <2> QED
    BY <1>1, <2>2 DEF InLine
<1>5. ASSUME NEW l \in Lanes
      PROVE  /\ s.queue[l] \in Seq(Copies) /\ s.task[l] \in Tasks
             /\ s.queue[l] # <<>> => /\ Head(s.queue[l]) \in Copies
                                     /\ Tail(s.queue[l]) \in Seq(Copies)
  <2>1. s.queue[l] \in Seq(Copies) /\ s.task[l] \in Tasks
    BY <1>1 DEF States
  <2> QED
    BY <2>1, TailToSet
<1> HIDE DEF p, starting
<1>6. p.queue \in [Lanes -> Seq(Copies)]
  BY <1>3, <1>4, <1>5
<1>7. p.task \in [Lanes -> Tasks]
  BY <1>3, <1>4, <1>5, StartedTaskTyped
<1>8. p.ready \in Seq(Lanes)
  BY <1>1, <1>2, <1>3, SuffixToSet DEF States, InLine
<1>9. p \in States
  BY <1>1, <1>3, <1>6, <1>7, <1>8 DEF States
<1>10. ASSUME NEW l \in Lanes
       PROVE  \/ /\ l \notin starting
                 /\ p.queue[l] = s.queue[l] /\ p.task[l] = s.task[l]
              \/ /\ l \in starting
                 /\ s.queue[l] # <<>> /\ s.task[l].at = "idle"
                 /\ p.queue[l] = Tail(s.queue[l])
                 /\ p.task[l] = StartedTask(Head(s.queue[l]))
  BY <1>3, <1>4
<1> QED
  BY <1>2, <1>3, <1>9, <1>10, Zenon DEF p, starting

\* pump() keeps the book and leaves no slot free while a lane waits.
LEMMA PumpKeeps ==
  ASSUME NEW s, Booked(s)
  PROVE  /\ Booked(Pump(s)) /\ Pumped(Pump(s))
         /\ Pump(s).frames = s.frames /\ Pump(s).sent = s.sent
         /\ \A l \in Lanes : s.task[l].at # "idle" => Pump(s).task[l] = s.task[l]
<1> DEFINE p == Pump(s)
<1>1. PICK k \in Nat :
        /\ k <= Len(s.ready) /\ k <= MaxConcurrency - Active(s)
        /\ k = Len(s.ready) \/ k = MaxConcurrency - Active(s)
        /\ p \in States
        /\ p.frames = s.frames /\ p.pending = s.pending /\ p.sent = s.sent
        /\ p.ready = SubSeq(s.ready, k + 1, Len(s.ready))
        /\ \A l \in Lanes :
             \/ /\ l \notin {s.ready[i] : i \in 1 .. k}
                /\ p.queue[l] = s.queue[l] /\ p.task[l] = s.task[l]
             \/ /\ l \in {s.ready[i] : i \in 1 .. k}
                /\ s.queue[l] # <<>> /\ s.task[l].at = "idle"
                /\ p.queue[l] = Tail(s.queue[l])
                /\ p.task[l] = StartedTask(Head(s.queue[l]))
  BY PumpLanes, Zenon
<1> DEFINE starting == {s.ready[i] : i \in 1 .. k}
<1> HIDE DEF p, starting
<1>2. \A l \in Lanes :
        \/ l \notin starting /\ p.queue[l] = s.queue[l] /\ p.task[l] = s.task[l]
        \/ /\ l \in starting /\ s.queue[l] # <<>> /\ s.task[l].at = "idle"
           /\ p.queue[l] = Tail(s.queue[l]) /\ p.task[l] = StartedTask(Head(s.queue[l]))
  BY <1>1, Zenon DEF starting
<1>3. /\ s \in States /\ p \in States
      /\ InLine(s) /\ InItsLane(s) /\ HeldOnce(s) /\ PendingIsHeld(s) /\ Fresh(s)
      /\ WithinLimits(s)
  BY <1>1 DEF Booked
<1>4. /\ s.ready \in Seq(Lanes) /\ Len(s.ready) \in Nat /\ IsInjective(s.ready)
      /\ k <= Len(s.ready)
  BY <1>1, <1>3 DEF States, InLine
<1>5. ASSUME NEW l \in Lanes
      PROVE  s.queue[l] \in Seq(Copies) /\ s.task[l] \in Tasks
  BY <1>3 DEF States
<1>6. ASSUME NEW l \in Lanes, l \in starting
      PROVE  /\ p.task[l].at = "sending" /\ 1 \in DOMAIN s.queue[l]
             /\ p.task[l].id = s.queue[l][1].id
             /\ \A i \in DOMAIN p.queue[l] :
                  /\ i + 1 \in DOMAIN s.queue[l] /\ i + 1 # 1
                  /\ p.queue[l][i] = s.queue[l][i + 1]
  <2>1. s.queue[l] # <<>> /\ p.queue[l] = Tail(s.queue[l])
        /\ p.task[l] = StartedTask(Head(s.queue[l]))
    BY <1>2, <1>6
  <2>2. /\ Head(s.queue[l]) = s.queue[l][1] /\ Head(s.queue[l]) \in Copies
        /\ 1 \in DOMAIN s.queue[l]
        /\ \A i \in DOMAIN Tail(s.queue[l]) :
             i + 1 \in DOMAIN s.queue[l] /\ Tail(s.queue[l])[i] = s.queue[l][i + 1]
        /\ Tail(s.queue[l]) \in Seq(Copies)
    BY <1>5, <2>1, TailToSet
  <2> QED
    BY <2>1, <2>2, StartedTaskTyped
<1>7. /\ p.ready \in Seq(Lanes) /\ IsInjective(p.ready)
      /\ \A x : x \in ToSet(p.ready) <=> x \in ToSet(s.ready) /\ x \notin starting
      /\ k = Len(s.ready) => p.ready = <<>>
  <2>1. p.ready = SubSeq(s.ready, k + 1, Len(s.ready))
    BY <1>1
  <2> QED
    BY <1>4, <2>1, SuffixToSet, Zenon DEF starting
<1>8. InLine(p)
  BY <1>2, <1>3, <1>6, <1>7 DEF InLine
<1>9. InItsLane(p)
  <2> SUFFICES ASSUME NEW l \in Lanes
               PROVE  /\ p.task[l].at # "idle" =>
                           p.task[l].id \in p.pending /\ LaneOf[p.task[l].id] = l
                      /\ \A i \in DOMAIN p.queue[l] :
                           p.queue[l][i].id \in p.pending /\ LaneOf[p.queue[l][i].id] = l
    BY DEF InItsLane
  <2>1. CASE l \in starting
    <3>1. p.pending = s.pending
      BY <1>1
    <3>2. \A i \in DOMAIN s.queue[l] :
            s.queue[l][i].id \in s.pending /\ LaneOf[s.queue[l][i].id] = l
      BY <1>3 DEF InItsLane
    <3> QED
      BY <1>6, <2>1, <3>1, <3>2
  <2>2. CASE l \notin starting
    BY <1>1, <1>2, <1>3, <2>2 DEF InItsLane
  <2> QED
    BY <2>1, <2>2
<1>10. HeldOnce(p)
  <2> SUFFICES ASSUME NEW l \in Lanes
               PROVE  /\ \A i, j \in DOMAIN p.queue[l] :
                           p.queue[l][i].id = p.queue[l][j].id => i = j
                      /\ \A i \in DOMAIN p.queue[l] : p.queue[l][i].id # p.task[l].id
    BY DEF HeldOnce
  <2>1. CASE l \in starting
    <3>1. p.queue[l] \in Seq(Copies)
      BY <1>3 DEF States
    <3>2. \A i \in DOMAIN p.queue[l] : i \in Nat
      BY <3>1
    <3> QED
      BY <1>3, <1>6, <2>1, <3>2 DEF HeldOnce
  <2>2. CASE l \notin starting
    BY <1>2, <1>3, <2>2 DEF HeldOnce
  <2> QED
    BY <2>1, <2>2
<1>11. PendingIsHeld(p)
  <2> SUFFICES ASSUME NEW d \in s.pending
               PROVE  \/ p.task[LaneOf[d]].id = d
                      \/ \E i \in DOMAIN p.queue[LaneOf[d]] : p.queue[LaneOf[d]][i].id = d
    BY <1>1 DEF PendingIsHeld
  <2> DEFINE l == LaneOf[d]
  <2>1. l \in Lanes /\ d \in Deliveries
    BY <1>3, DeliveryConstants DEF States
  <2>2. s.task[l].id = d \/ \E i \in DOMAIN s.queue[l] : s.queue[l][i].id = d
    BY <1>3 DEF PendingIsHeld
  <2> HIDE DEF l
  <2>3. CASE l \in starting
    <3>1. s.task[l].id # d
      BY <1>2, <1>5, <2>1, <2>3, TasksTyped, DeliveryConstants
    <3>2. PICK i \in DOMAIN s.queue[l] : s.queue[l][i].id = d
      BY <2>2, <3>1
    <3>3. s.queue[l] \in Seq(Copies) /\ s.queue[l] # <<>> /\ p.queue[l] = Tail(s.queue[l])
      BY <1>2, <1>5, <2>1, <2>3
    <3>4. CASE i = 1
      BY <1>6, <2>1, <2>3, <3>2, <3>4 DEF l
    <3>5. CASE i # 1
      <4>1. i - 1 \in DOMAIN p.queue[l] /\ p.queue[l][i - 1] = s.queue[l][i]
        BY <3>3, <3>5
      <4> QED
        BY <3>2, <4>1 DEF l
    <3> QED
      BY <3>4, <3>5
  <2>4. CASE l \notin starting
    BY <1>2, <2>1, <2>2, <2>4 DEF l
  <2> QED
    BY <2>3, <2>4
<1>12. Fresh(p)
  <2> SUFFICES ASSUME NEW l \in Lanes
               PROVE  /\ p.task[l].at = "sending" => p.task[l].id \notin ToSet(p.sent)
                      /\ \A i \in DOMAIN p.queue[l] : p.queue[l][i].id \notin ToSet(p.sent)
    BY DEF Fresh
  <2>1. CASE l \in starting
    BY <1>1, <1>3, <1>6, <2>1 DEF Fresh
  <2>2. CASE l \notin starting
    BY <1>1, <1>2, <1>3, <2>2 DEF Fresh
  <2> QED
    BY <2>1, <2>2
<1>13. /\ IsFiniteSet(Running(p)) /\ Active(p) = Active(s) + k
       /\ Active(s) \in Nat /\ Active(p) <= MaxConcurrency
  <2>1. IsFiniteSet(Running(s)) /\ Active(s) = Cardinality(Running(s)) /\ Active(s) \in Nat
    BY <1>3, PlacesOf, FS_CardinalityType DEF WithinLimits
  <2>2. IsFiniteSet(starting) /\ Cardinality(starting) = k
    BY <1>4, PrefixCardinality, ZenonT(60) DEF starting
  <2>3. starting \subseteq Lanes
    BY <1>1, <1>4 DEF starting
  <2>4. Running(p) = Running(s) \cup starting /\ Running(s) \cap starting = {}
    BY <1>2, <1>6, <2>3 DEF Running
  <2>5. /\ IsFiniteSet(Running(s) \cup starting)
        /\ Cardinality(Running(s) \cup starting) =
             Cardinality(Running(s)) + Cardinality(starting)
               - Cardinality(Running(s) \cap starting)
    BY <2>1, <2>2, FS_Union
  <2>6. Cardinality(Running(s) \cap starting) = 0
    BY <2>4, FS_EmptySet
  <2>7. Active(p) = Cardinality(Running(p))
    BY PlacesOf
  <2> QED
    BY <1>1, <2>1, <2>2, <2>4, <2>5, <2>6, <2>7, DeliveryConstants
<1>14. IsFiniteSet(Places(p)) /\ Queued(p) <= MaxQueueDepth
  <2>1. IsFiniteSet(Places(s)) /\ Queued(s) = Cardinality(Places(s)) /\ Queued(s) <= MaxQueueDepth
    BY <1>3, PlacesOf DEF WithinLimits
  <2>2. Places(p) \subseteq Places(s)
    <3> SUFFICES ASSUME NEW l \in Lanes, NEW i \in DOMAIN p.queue[l]
                 PROVE  i \in DOMAIN s.queue[l]
      BY PlacesOf
    <3>1. s.queue[l] \in Seq(Copies)
      BY <1>5
    <3>2. CASE l \in starting
      <4>1. s.queue[l] # <<>> /\ p.queue[l] = Tail(s.queue[l])
        BY <1>2, <3>2
      <4> QED
        BY <3>1, <4>1
    <3>3. CASE l \notin starting
      BY <1>2, <3>3
    <3> QED
      BY <3>2, <3>3
  <2>3. Queued(p) = Cardinality(Places(p))
    BY PlacesOf
  <2>4. IsFiniteSet(Places(p)) /\ Cardinality(Places(p)) <= Cardinality(Places(s))
    BY <2>1, <2>2, FS_Subset
  <2>5. Cardinality(Places(p)) \in Nat /\ Cardinality(Places(s)) \in Nat
    BY <2>1, <2>4, FS_CardinalityType
  <2> QED
    BY <2>1, <2>3, <2>4, <2>5, DeliveryConstants
<1>15. Booked(p)
  BY <1>3, <1>8, <1>9, <1>10, <1>11, <1>12, <1>13, <1>14 DEF Booked, WithinLimits
<1>16. Pumped(p)
  BY <1>1, <1>4, <1>7, <1>13, DeliveryConstants DEF Pumped
<1>17. \A l \in Lanes : s.task[l].at # "idle" => p.task[l] = s.task[l]
  BY <1>2
<1> QED
  BY <1>1, <1>15, <1>16, <1>17 DEF p

\* The book does not read the frames.
LEMMA FramesKeep ==
  ASSUME NEW s, Booked(s), NEW f \in Seq(Copies)
  PROVE  LET t == [s EXCEPT !.frames = f]
         IN  /\ Booked(t) /\ (Pumped(s) => Pumped(t))
             /\ t.frames = f /\ t.sent = s.sent /\ t.task = s.task
             /\ t.pending = s.pending /\ Queued(t) = Queued(s)
<1> DEFINE t == [s EXCEPT !.frames = f]
<1>1. s \in States
  BY DEF Booked
<1>2. /\ t \in States /\ t.frames = f /\ t.queue = s.queue /\ t.task = s.task
      /\ t.ready = s.ready /\ t.pending = s.pending /\ t.sent = s.sent
  BY <1>1 DEF States
<1> HIDE DEF t
<1>3. InLine(t) /\ InItsLane(t) /\ HeldOnce(t) /\ PendingIsHeld(t) /\ Fresh(t)
  BY <1>2 DEF Booked, InLine, InItsLane, HeldOnce, PendingIsHeld, Fresh
<1>4. Running(t) = Running(s) /\ Places(t) = Places(s) /\ Active(t) = Active(s)
      /\ Queued(t) = Queued(s)
  BY <1>2 DEF Running, Places, Active, Queued
<1>5. WithinLimits(t)
  BY <1>4 DEF Booked, WithinLimits
<1>6. Pumped(s) => Pumped(t)
  BY <1>2, <1>4 DEF Pumped
<1> QED
  BY <1>2, <1>3, <1>4, <1>5, <1>6 DEF Booked, t

\* A running task moves on: what is in the cache then is what was, or the
\* delivery of the task.
LEMMA TaskMoves ==
  ASSUME NEW s, Booked(s), NEW l \in Lanes, s.task[l].at # "idle",
         NEW at \in {"acking", "reporting"}, NEW t \in States,
         t.queue = s.queue, t.ready = s.ready, t.pending = s.pending,
         ToSet(t.sent) \subseteq ToSet(s.sent) \cup {s.task[l].id},
         t.task[l].at = at, t.task[l].id = s.task[l].id,
         \A m \in Lanes : m # l => t.task[m] = s.task[m]
  PROVE  Booked(t) /\ (Pumped(s) => Pumped(t))
<1>1. InLine(s) /\ InItsLane(s) /\ HeldOnce(s) /\ PendingIsHeld(s) /\ Fresh(s)
      /\ WithinLimits(s) /\ s \in States
  BY DEF Booked
<1>2. \A m \in Lanes : (t.task[m].at = "idle" <=> s.task[m].at = "idle")
                       /\ t.task[m].id = s.task[m].id
  OBVIOUS
<1>3. InLine(t)
  BY <1>1, <1>2 DEF InLine
<1>4. InItsLane(t)
  BY <1>1, <1>2 DEF InItsLane
<1>5. HeldOnce(t)
  BY <1>1, <1>2 DEF HeldOnce
<1>6. PendingIsHeld(t)
  <2>1. \A d \in t.pending : LaneOf[d] \in Lanes
    BY DeliveryConstants DEF States
  <2> QED
    BY <1>1, <1>2, <2>1 DEF PendingIsHeld
<1>7. Fresh(t)
  <2> DEFINE d == s.task[l].id
  <2>1. LaneOf[d] = l
    BY <1>1 DEF InItsLane
  <2>2. ASSUME NEW m \in Lanes, NEW i \in DOMAIN s.queue[m]
        PROVE  s.queue[m][i].id # d /\ s.queue[m][i].id \notin ToSet(s.sent)
    <3>1. m = l => s.queue[m][i].id # d
      BY <1>1 DEF HeldOnce
    <3>2. LaneOf[s.queue[m][i].id] = m /\ s.queue[m][i].id \notin ToSet(s.sent)
      BY <1>1 DEF InItsLane, Fresh
    <3> QED
      BY <2>1, <3>1, <3>2
  <2>3. ASSUME NEW m \in Lanes, t.task[m].at = "sending"
        PROVE  t.task[m].id # d /\ t.task[m].id \notin ToSet(s.sent)
    <3>1. m # l /\ s.task[m].at = "sending" /\ t.task[m].id = s.task[m].id
      BY <1>2, <2>3
    <3>2. LaneOf[s.task[m].id] = m /\ s.task[m].id \notin ToSet(s.sent)
      BY <1>1, <3>1 DEF InItsLane, Fresh
    <3> QED
      BY <2>1, <3>1, <3>2
  <2> QED
    BY <2>2, <2>3 DEF Fresh
<1>8. Running(t) = Running(s) /\ Places(t) = Places(s) /\ Active(t) = Active(s)
      /\ Queued(t) = Queued(s)
  <2>1. Running(t) = Running(s) /\ Places(t) = Places(s)
    BY <1>2 DEF Running, Places
  <2> QED
    BY <2>1, PlacesOf
<1>9. WithinLimits(t)
  BY <1>1, <1>8 DEF WithinLimits
<1>10. Pumped(s) => Pumped(t)
  BY <1>8 DEF Pumped
<1> QED
  BY <1>3, <1>4, <1>5, <1>6, <1>7, <1>9, <1>10 DEF Booked

LEMMA MovedTask ==
  ASSUME NEW t \in Tasks, t.at # "idle", NEW at \in {"acking", "reporting"}
  PROVE  /\ [t EXCEPT !.at = at] \in Tasks
         /\ [t EXCEPT !.at = at].at = at /\ [t EXCEPT !.at = at].id = t.id
<1>1. t = [id |-> t.id, attempt |-> t.attempt, at |-> t.at]
      /\ t.id \in Deliveries /\ t.attempt \in 1 .. MaxAttempts
  BY TasksTyped
<1> QED
  BY <1>1 DEF Tasks

LEMMA MovedState ==
  ASSUME NEW s \in States, NEW l \in Lanes, s.task[l].at # "idle",
         NEW at \in {"acking", "reporting"}
  PROVE  LET t == [s EXCEPT !.task[l].at = at]
         IN  /\ t \in States
             /\ t.frames = s.frames /\ t.queue = s.queue /\ t.ready = s.ready
             /\ t.pending = s.pending /\ t.sent = s.sent
             /\ t.task[l].at = at /\ t.task[l].id = s.task[l].id
             /\ \A m \in Lanes : m # l => t.task[m] = s.task[m]
<1> DEFINE new == [s.task[l] EXCEPT !.at = at]
           t == [s EXCEPT !.task[l].at = at]
<1>1. s.task[l] \in Tasks /\ s.task \in [Lanes -> Tasks]
  BY DEF States
<1>2. new \in Tasks /\ new.at = at /\ new.id = s.task[l].id
  BY <1>1, MovedTask
<1>3. t = [s EXCEPT !.task = [@ EXCEPT ![l] = new]]
  BY DEF States
<1> HIDE DEF new, t
<1>4. /\ t \in States
      /\ t.frames = s.frames /\ t.queue = s.queue /\ t.ready = s.ready
      /\ t.pending = s.pending /\ t.sent = s.sent
      /\ t.task = [s.task EXCEPT ![l] = new]
  BY <1>1, <1>2, <1>3 DEF States
<1> QED
  BY <1>1, <1>2, <1>4 DEF t

\* SendFails, AckFails and a refused ack: the task reports.
LEMMA ReportingKeeps ==
  ASSUME NEW s, Booked(s), Pumped(s), NEW l \in Lanes, s.task[l].at # "idle"
  PROVE  LET t == [s EXCEPT !.task[l].at = "reporting"]
         IN  /\ Booked(t) /\ Pumped(t)
             /\ t.frames = s.frames /\ t.sent = s.sent
             /\ t.task[l].at = "reporting" /\ t.task[l].id = s.task[l].id
             /\ \A m \in Lanes : m # l => t.task[m] = s.task[m]
<1> DEFINE t == [s EXCEPT !.task[l].at = "reporting"]
<1>1. s \in States
  BY DEF Booked
<1>2. /\ t \in States
      /\ t.frames = s.frames /\ t.queue = s.queue /\ t.ready = s.ready
      /\ t.pending = s.pending /\ t.sent = s.sent
      /\ t.task[l].at = "reporting" /\ t.task[l].id = s.task[l].id
      /\ \A m \in Lanes : m # l => t.task[m] = s.task[m]
  BY <1>1, MovedState
<1> HIDE DEF t
<1>3. Booked(t) /\ Pumped(t)
  BY <1>2, TaskMoves
<1> QED
  BY <1>2, <1>3 DEF t

\* rememberSentDelivery of a delivery that is not in the cache.
LEMMA RememberFields ==
  ASSUME NEW s \in States, NEW d \in Deliveries, d \notin ToSet(s.sent)
  PROVE  LET r == Remember(s, d)
             kept == Append(s.sent, d)
         IN  /\ r \in States
             /\ r.frames = s.frames /\ r.queue = s.queue /\ r.task = s.task
             /\ r.ready = s.ready /\ r.pending = s.pending
             /\ r.sent = IF Len(kept) > CacheSize THEN Tail(kept) ELSE kept
<1> DEFINE kept == Append(s.sent, d)
           r == Remember(s, d)
<1>1. s.sent \in Seq(Deliveries)
  BY DEF States
<1>2. RemoveFirst(s.sent, d) = s.sent
  <2>1. ~\E i \in 1 .. Len(s.sent) : s.sent[i] = d
    BY <1>1 DEF ToSet
  <2> QED
    BY <2>1, Zenon DEF RemoveFirst
<1>3. r = [s EXCEPT !.sent = IF Len(kept) > CacheSize THEN Tail(kept) ELSE kept]
  BY <1>2 DEF Remember
<1>4. kept \in Seq(Deliveries) /\ Tail(kept) \in Seq(Deliveries)
  <2>1. kept \in Seq(Deliveries) /\ kept # <<>>
    BY <1>1
  <2> QED
    BY <2>1, TailToSet
<1> HIDE DEF kept, r
<1>5. /\ r \in States
      /\ r.frames = s.frames /\ r.queue = s.queue /\ r.task = s.task
      /\ r.ready = s.ready /\ r.pending = s.pending
      /\ r.sent = IF Len(kept) > CacheSize THEN Tail(kept) ELSE kept
  BY <1>3, <1>4 DEF States
<1> QED
  BY <1>5 DEF kept, r

\* A send is recorded: the cache forgets only when it is full.
LEMMA SendKeeps ==
  ASSUME NEW s, Booked(s), Pumped(s), NEW sentByNow, Cached(s, sentByNow),
         NEW l \in Lanes, s.task[l].at = "sending"
  PROVE  LET d == s.task[l].id
             t == Remember([s EXCEPT !.task[l].at = "acking"], d)
         IN  /\ Booked(t) /\ Pumped(t) /\ Cached(t, sentByNow \cup {d})
             /\ t.frames = s.frames
             /\ t.task[l].at = "acking" /\ t.task[l].id = d
             /\ \A m \in Lanes : m # l => t.task[m] = s.task[m]
<1> DEFINE d == s.task[l].id
           u == [s EXCEPT !.task[l].at = "acking"]
           t == Remember(u, d)
           kept == Append(s.sent, d)
<1>1. s \in States /\ Fresh(s) /\ s.task[l] \in Tasks /\ s.sent \in Seq(Deliveries)
  BY DEF Booked, States
<1>2. d \in Deliveries /\ d \notin ToSet(s.sent)
  BY <1>1, TasksTyped DEF Fresh
<1>3. /\ u \in States
      /\ u.frames = s.frames /\ u.queue = s.queue /\ u.ready = s.ready
      /\ u.pending = s.pending /\ u.sent = s.sent
      /\ u.task[l].at = "acking" /\ u.task[l].id = d
      /\ \A m \in Lanes : m # l => u.task[m] = s.task[m]
  BY <1>1, MovedState
<1> HIDE DEF u, d
<1>4. /\ t \in States
      /\ t.frames = u.frames /\ t.queue = u.queue /\ t.task = u.task
      /\ t.ready = u.ready /\ t.pending = u.pending
      /\ t.sent = IF Len(kept) > CacheSize THEN Tail(kept) ELSE kept
  <2>1. d \notin ToSet(u.sent)
    BY <1>2, <1>3
  <2>2. Append(u.sent, d) = kept
    BY <1>3
  <2> QED
    BY <1>2, <1>3, <2>1, <2>2, RememberFields
<1> HIDE DEF t
<1>5. /\ kept \in Seq(Deliveries) /\ Len(kept) = Len(s.sent) + 1
      /\ ToSet(kept) = ToSet(s.sent) \cup {d} /\ IsInjective(kept) /\ kept # <<>>
  <2>1. IsInjective(s.sent)
    BY DEF Cached
  <2>2. ToSet(kept) = ToSet(s.sent) \cup {d} /\ IsInjective(kept)
    BY <1>1, <1>2, <2>1, AppendToSet
  <2>3. kept \in Seq(Deliveries) /\ Len(kept) = Len(s.sent) + 1 /\ kept # <<>>
    BY <1>1, <1>2
  <2> QED
    BY <2>2, <2>3, Zenon
<1>6. /\ Tail(kept) \in Seq(Deliveries) /\ Len(Tail(kept)) = Len(s.sent)
      /\ ToSet(Tail(kept)) \subseteq ToSet(kept) /\ IsInjective(Tail(kept))
  <2>1. /\ Tail(kept) \in Seq(Deliveries) /\ Len(Tail(kept)) = Len(kept) - 1
        /\ ToSet(Tail(kept)) \subseteq ToSet(kept) /\ IsInjective(Tail(kept))
    BY <1>5, TailToSet
  <2> QED
    BY <1>1, <1>5, <2>1
<1> HIDE DEF kept
<1>7. ToSet(t.sent) \subseteq ToSet(s.sent) \cup {d}
  BY <1>4, <1>5, <1>6
<1>8. Booked(t) /\ Pumped(t)
  <2>1. s.task[l].at # "idle"
    OBVIOUS
  <2> QED
    BY <1>3, <1>4, <1>7, <2>1, TaskMoves DEF d
<1>9. Cached(t, sentByNow \cup {d})
  <2>1. /\ Len(s.sent) <= CacheSize /\ IsInjective(s.sent)
        /\ ToSet(s.sent) \subseteq sentByNow /\ IsFiniteSet(sentByNow)
        /\ Cardinality(sentByNow) <= CacheSize => sentByNow \subseteq ToSet(s.sent)
        /\ CacheSize \in Nat
    BY DeliveryConstants DEF Cached
  <2>2. Len(t.sent) <= CacheSize
    <3>1. Len(s.sent) \in Nat
      BY <1>1
    <3> QED
      BY <1>4, <1>5, <1>6, <2>1, <3>1
  <2>3. IsInjective(t.sent) /\ ToSet(t.sent) \subseteq sentByNow \cup {d}
    BY <1>4, <1>5, <1>6, <1>7, <2>1
  <2>4. IsFiniteSet(sentByNow \cup {d})
        /\ Cardinality(sentByNow \cup {d}) =
             IF d \in sentByNow THEN Cardinality(sentByNow) ELSE Cardinality(sentByNow) + 1
    BY <2>1, FS_AddElement
  <2>5. ASSUME Cardinality(sentByNow \cup {d}) <= CacheSize
        PROVE  sentByNow \cup {d} \subseteq ToSet(t.sent)
    <3>1. Cardinality(sentByNow) \in Nat
      BY <2>1, FS_CardinalityType
    <3>2. Cardinality(sentByNow) <= CacheSize
      BY <2>1, <2>4, <2>5, <3>1
    <3>3. sentByNow = ToSet(s.sent)
      BY <2>1, <3>2
    <3>4. Cardinality(ToSet(s.sent)) = Len(s.sent) /\ Len(s.sent) \in Nat
      BY <1>1, <2>1, ToSetCardinality
    <3>5. Len(kept) <= CacheSize
      BY <1>2, <1>5, <2>4, <2>5, <3>1, <3>3, <3>4
    <3>6. t.sent = kept
      BY <1>4, <1>5, <2>1, <3>4, <3>5
    <3> QED
      BY <1>5, <3>3, <3>6
  <2> QED
    BY <2>2, <2>3, <2>4, <2>5 DEF Cached
<1> QED
  BY <1>3, <1>4, <1>8, <1>9 DEF t, u, d

LEMMA MarkReadyFields ==
  ASSUME NEW s \in States, NEW l \in Lanes
  PROVE  LET r == MarkReady(s, l)
         IN  /\ r \in States
             /\ r.frames = s.frames /\ r.queue = s.queue /\ r.task = s.task
             /\ r.pending = s.pending /\ r.sent = s.sent
             /\ ToSet(r.ready) = ToSet(s.ready) \cup {l}
             /\ IsInjective(s.ready) => IsInjective(r.ready)
<1>1. CASE l \in ToSet(s.ready)
  BY <1>1 DEF MarkReady
<1>2. CASE l \notin ToSet(s.ready)
  <2> DEFINE r == MarkReady(s, l)
  <2>1. r = [s EXCEPT !.ready = Append(@, l)] /\ s.ready \in Seq(Lanes)
    BY <1>2 DEF MarkReady, States
  <2>2. Append(s.ready, l) \in Seq(Lanes)
    BY <2>1
  <2> HIDE DEF r
  <2>3. /\ r \in States
        /\ r.frames = s.frames /\ r.queue = s.queue /\ r.task = s.task
        /\ r.pending = s.pending /\ r.sent = s.sent /\ r.ready = Append(s.ready, l)
    BY <2>1, <2>2 DEF States
  <2>4. /\ ToSet(r.ready) = ToSet(s.ready) \cup {l}
        /\ IsInjective(s.ready) => IsInjective(r.ready)
    BY <1>2, <2>1, <2>3, AppendToSet
  <2> QED
    BY <2>3, <2>4 DEF r
<1> QED
  BY <1>1, <1>2

\* The finally of a task, before pump(): the slot is free, and the lane waits
\* in line if it has work.
LEMMA DoneKeeps ==
  ASSUME NEW s, Booked(s), NEW l \in Lanes, s.task[l].at # "idle"
  PROVE  LET r == Done(s, l)
         IN  /\ Booked(r) /\ Pumped(r)
             /\ r.frames = s.frames /\ r.sent = s.sent
             /\ \A m \in Lanes : m # l /\ s.task[m].at # "idle" => r.task[m] = s.task[m]
<1> DEFINE d == s.task[l].id
           t == [s EXCEPT !.task[l] = Idle, !.pending = @ \ {d}]
           u == IF s.queue[l] = <<>> THEN t ELSE MarkReady(t, l)
<1>1. /\ s \in States /\ InLine(s) /\ InItsLane(s) /\ HeldOnce(s) /\ PendingIsHeld(s)
      /\ Fresh(s) /\ WithinLimits(s)
  BY DEF Booked
<1>2. /\ t \in States
      /\ t.frames = s.frames /\ t.queue = s.queue /\ t.ready = s.ready /\ t.sent = s.sent
      /\ t.pending = s.pending \ {d} /\ t.task[l] = Idle
      /\ \A m \in Lanes : m # l => t.task[m] = s.task[m]
  BY <1>1, IdleTyped DEF States
<1> HIDE DEF t
<1>3. /\ u \in States
      /\ u.frames = s.frames /\ u.queue = s.queue /\ u.sent = s.sent
      /\ u.pending = s.pending \ {d} /\ u.task[l] = Idle
      /\ \A m \in Lanes : m # l => u.task[m] = s.task[m]
      /\ ToSet(u.ready) = ToSet(s.ready) \cup (IF s.queue[l] = <<>> THEN {} ELSE {l})
      /\ IsInjective(u.ready)
  <2>1. CASE s.queue[l] = <<>>
    BY <1>1, <1>2, <2>1 DEF InLine
  <2>2. CASE s.queue[l] # <<>>
    <3>1. u = MarkReady(t, l)
      BY <2>2
    <3>2. IsInjective(t.ready)
      BY <1>1, <1>2 DEF InLine
    <3> HIDE DEF u
    <3>3. /\ u \in States
          /\ u.frames = t.frames /\ u.queue = t.queue /\ u.task = t.task
          /\ u.pending = t.pending /\ u.sent = t.sent
          /\ ToSet(u.ready) = ToSet(t.ready) \cup {l}
          /\ IsInjective(u.ready)
      BY <1>2, <3>1, <3>2, MarkReadyFields
    <3> QED
      BY <1>2, <2>2, <3>3
  <2> QED
    BY <2>1, <2>2
<1>4. Done(s, l) = Pump(u)
  BY DEF Done, t
<1> HIDE DEF u, d
<1>5. InLine(u)
  BY <1>1, <1>3, IdleTyped DEF InLine
<1>6. LaneOf[d] = l /\ d \in Deliveries
  BY <1>1, TasksTyped DEF InItsLane, d, States
<1>7. InItsLane(u)
  <2>1. ASSUME NEW m \in Lanes, u.task[m].at # "idle"
        PROVE  u.task[m].id \in u.pending /\ LaneOf[u.task[m].id] = m
    <3>1. m # l /\ u.task[m] = s.task[m]
      BY <1>3, <2>1, IdleTyped
    <3>2. s.task[m].id \in s.pending /\ LaneOf[s.task[m].id] = m
      BY <1>1, <2>1, <3>1 DEF InItsLane
    <3> QED
      BY <1>3, <1>6, <3>1, <3>2
  <2>2. ASSUME NEW m \in Lanes, NEW i \in DOMAIN u.queue[m]
        PROVE  u.queue[m][i].id \in u.pending /\ LaneOf[u.queue[m][i].id] = m
    <3>1. s.queue[m][i].id \in s.pending /\ LaneOf[s.queue[m][i].id] = m
      BY <1>1, <1>3, <2>2 DEF InItsLane
    <3>2. m = l => s.queue[m][i].id # d
      BY <1>1, <1>3, <2>2 DEF HeldOnce, d
    <3> QED
      BY <1>3, <1>6, <3>1, <3>2
  <2> QED
    BY <2>1, <2>2 DEF InItsLane
<1>8. HeldOnce(u)
  <2>1. ASSUME NEW m \in Lanes, NEW i \in DOMAIN u.queue[m]
        PROVE  u.queue[m][i].id # u.task[m].id
    <3>1. CASE m # l
      BY <1>1, <1>3, <3>1 DEF HeldOnce
    <3>2. CASE m = l
      <4>1. u.queue[m][i].id \in s.pending /\ s.pending \subseteq Deliveries
        BY <1>1, <1>3 DEF InItsLane, States
      <4> QED
        BY <1>3, <3>2, <4>1, IdleTyped, DeliveryConstants
    <3> QED
      BY <3>1, <3>2
  <2> QED
    BY <1>1, <1>3, <2>1 DEF HeldOnce
<1>9. PendingIsHeld(u)
  <2> SUFFICES ASSUME NEW e \in s.pending, e # d
               PROVE  \/ u.task[LaneOf[e]].id = e
                      \/ \E i \in DOMAIN u.queue[LaneOf[e]] : u.queue[LaneOf[e]][i].id = e
    BY <1>3 DEF PendingIsHeld
  <2>1. \/ s.task[LaneOf[e]].id = e
        \/ \E i \in DOMAIN s.queue[LaneOf[e]] : s.queue[LaneOf[e]][i].id = e
    BY <1>1 DEF PendingIsHeld
  <2>2. LaneOf[e] \in Lanes
    BY <1>1, DeliveryConstants DEF States
  <2>3. LaneOf[e] = l => s.task[LaneOf[e]].id # e
    BY DEF d
  <2> QED
    BY <1>3, <2>1, <2>2, <2>3
<1>10. Fresh(u)
  BY <1>1, <1>3, IdleTyped DEF Fresh
<1>11. WithinLimits(u)
  <2>1. Running(u) = Running(s) \ {l} /\ Places(u) = Places(s)
    BY <1>3, IdleTyped DEF Running, Places
  <2>2. IsFiniteSet(Running(u)) /\ Active(u) <= Active(s)
    <3>1. /\ IsFiniteSet(Running(s)) /\ IsFiniteSet(Running(u))
          /\ Cardinality(Running(u)) <= Cardinality(Running(s))
      BY <1>1, <2>1, FS_Subset DEF WithinLimits
    <3> QED
      BY <3>1, PlacesOf
  <2>3. Active(u) \in Nat /\ Active(s) \in Nat
    BY <1>1, <2>2, PlacesOf, FS_CardinalityType DEF WithinLimits
  <2>4. Queued(u) = Queued(s)
    BY <2>1, PlacesOf
  <2> QED
    BY <1>1, <2>1, <2>2, <2>3, <2>4, DeliveryConstants DEF WithinLimits
<1>12. Booked(u)
  BY <1>3, <1>5, <1>7, <1>8, <1>9, <1>10, <1>11 DEF Booked
<1> QED
  BY <1>3, <1>4, <1>12, PumpKeeps

\* enqueue() of a delivery that is neither pending nor in the cache, while
\* there is room.
LEMMA EnqueuedKeeps ==
  ASSUME NEW s, Booked(s), NEW c \in Copies, c.id \notin s.pending,
         c.id \notin ToSet(s.sent), Queued(s) < MaxQueueDepth
  PROVE  LET r == Enqueued(s, c)
         IN  /\ Booked(r) /\ Pumped(r)
             /\ r.frames = s.frames /\ r.sent = s.sent
             /\ \A m \in Lanes : s.task[m].at # "idle" => r.task[m] = s.task[m]
<1> DEFINE d == c.id
           l == LaneOf[d]
           t == [s EXCEPT !.queue[l] = Append(@, c), !.pending = @ \cup {d}]
           u == IF s.task[l].at = "idle" THEN MarkReady(t, l) ELSE t
           q == Append(s.queue[l], c)
<1>1. /\ s \in States /\ InLine(s) /\ InItsLane(s) /\ HeldOnce(s) /\ PendingIsHeld(s)
      /\ Fresh(s) /\ WithinLimits(s)
  BY DEF Booked
<1>2. d \in Deliveries /\ l \in Lanes
  BY CopiesTyped, DeliveryConstants
<1>3. s.queue[l] \in Seq(Copies) /\ q \in Seq(Copies)
  BY <1>1, <1>2 DEF States
<1>4. /\ q # <<>> /\ Len(q) = Len(s.queue[l]) + 1 /\ q[Len(q)] = c /\ Len(q) \in DOMAIN q
      /\ \A i \in DOMAIN q : i \in DOMAIN s.queue[l] \/ i = Len(q)
      /\ \A i \in DOMAIN s.queue[l] : i \in DOMAIN q /\ q[i] = s.queue[l][i] /\ i # Len(q)
  BY <1>3, AppendPlaces
<1>5. Enqueued(s, c) = Pump(u)
  BY DEF Enqueued
<1> HIDE DEF d, l, q
<1>6. /\ t \in States
      /\ t.frames = s.frames /\ t.ready = s.ready /\ t.sent = s.sent /\ t.task = s.task
      /\ t.pending = s.pending \cup {d} /\ t.queue[l] = q
      /\ \A m \in Lanes : m # l => t.queue[m] = s.queue[m]
  <2>1. t = [s EXCEPT !.queue = [@ EXCEPT ![l] = q], !.pending = @ \cup {d}]
    BY <1>1 DEF q, States
  <2> HIDE DEF t
  <2>2. /\ t \in States
        /\ t.frames = s.frames /\ t.ready = s.ready /\ t.sent = s.sent /\ t.task = s.task
        /\ t.pending = s.pending \cup {d} /\ t.queue = [s.queue EXCEPT ![l] = q]
    BY <1>1, <1>2, <1>3, <2>1 DEF States
  <2>3. s.queue \in [Lanes -> Seq(Copies)]
    BY <1>1 DEF States
  <2> QED
    BY <1>2, <2>2, <2>3
<1> HIDE DEF t
<1>7. /\ u \in States
      /\ u.frames = s.frames /\ u.sent = s.sent /\ u.task = s.task
      /\ u.pending = s.pending \cup {d} /\ u.queue[l] = q
      /\ \A m \in Lanes : m # l => u.queue[m] = s.queue[m]
      /\ ToSet(u.ready) = ToSet(s.ready) \cup (IF s.task[l].at = "idle" THEN {l} ELSE {})
      /\ IsInjective(u.ready)
  <2>1. CASE s.task[l].at = "idle"
    <3>1. u = MarkReady(t, l)
      BY <2>1
    <3>2. IsInjective(t.ready)
      BY <1>1, <1>6 DEF InLine
    <3> HIDE DEF u
    <3>3. /\ u \in States
          /\ u.frames = t.frames /\ u.queue = t.queue /\ u.task = t.task
          /\ u.pending = t.pending /\ u.sent = t.sent
          /\ ToSet(u.ready) = ToSet(t.ready) \cup {l}
          /\ IsInjective(u.ready)
      BY <1>2, <1>6, <3>1, <3>2, MarkReadyFields
    <3> QED
      BY <1>6, <2>1, <3>3
  <2>2. CASE s.task[l].at # "idle"
    BY <1>1, <1>6, <2>2 DEF InLine
  <2> QED
    BY <2>1, <2>2
<1> HIDE DEF u
<1>8. InLine(u)
  BY <1>1, <1>4, <1>7 DEF InLine
<1>9. InItsLane(u)
  <2>1. ASSUME NEW m \in Lanes, u.task[m].at # "idle"
        PROVE  u.task[m].id \in u.pending /\ LaneOf[u.task[m].id] = m
    BY <1>1, <1>7, <2>1 DEF InItsLane
  <2>2. ASSUME NEW m \in Lanes, NEW i \in DOMAIN u.queue[m]
        PROVE  u.queue[m][i].id \in u.pending /\ LaneOf[u.queue[m][i].id] = m
    <3>1. CASE m # l
      BY <1>1, <1>7, <3>1 DEF InItsLane
    <3>2. CASE m = l /\ i = Len(q)
      BY <1>4, <1>7, <3>2 DEF d, l
    <3>3. CASE m = l /\ i # Len(q)
      <4>1. i \in DOMAIN s.queue[l] /\ u.queue[m][i] = s.queue[l][i]
        BY <1>4, <1>7, <3>3
      <4> QED
        BY <1>1, <1>2, <1>7, <3>3, <4>1 DEF InItsLane
    <3> QED
      BY <3>1, <3>2, <3>3
  <2> QED
    BY <2>1, <2>2 DEF InItsLane
<1>10. \A i \in DOMAIN s.queue[l] : s.queue[l][i].id # d
  BY <1>1, <1>2 DEF InItsLane, d
<1>11. HeldOnce(u)
  <2>1. ASSUME NEW m \in Lanes, m # l
        PROVE  /\ \A i, j \in DOMAIN u.queue[m] : u.queue[m][i].id = u.queue[m][j].id => i = j
               /\ \A i \in DOMAIN u.queue[m] : u.queue[m][i].id # u.task[m].id
    BY <1>1, <1>7, <2>1 DEF HeldOnce
  <2>2. ASSUME NEW i \in DOMAIN q, NEW j \in DOMAIN q, q[i].id = q[j].id
        PROVE  i = j
    <3>1. \A n \in DOMAIN q : q[n].id = d <=> n = Len(q)
      BY <1>4, <1>10 DEF d
    <3>2. CASE q[i].id = d
      BY <2>2, <3>1, <3>2
    <3>3. CASE q[i].id # d
      <4>1. i # Len(q) /\ j # Len(q)
        BY <2>2, <3>1, <3>3
      <4>2. /\ i \in DOMAIN s.queue[l] /\ j \in DOMAIN s.queue[l]
            /\ s.queue[l][i].id = s.queue[l][j].id
        BY <1>4, <2>2, <4>1
      <4> QED
        BY <1>1, <1>2, <4>2 DEF HeldOnce
    <3> QED
      BY <3>2, <3>3
  <2>3. ASSUME NEW i \in DOMAIN q
        PROVE  q[i].id # s.task[l].id
    <3>1. CASE i = Len(q)
      <4>1. s.task[l] \in Tasks
        BY <1>1, <1>2 DEF States
      <4>2. s.task[l].id # d
        BY <1>1, <1>2, <4>1, TasksTyped, DeliveryConstants DEF InItsLane, d
      <4> QED
        BY <1>4, <3>1, <4>2 DEF d
    <3>2. CASE i # Len(q)
      <4>1. i \in DOMAIN s.queue[l] /\ q[i] = s.queue[l][i]
        BY <1>4, <3>2
      <4> QED
        BY <1>1, <1>2, <4>1 DEF HeldOnce
    <3> QED
      BY <3>1, <3>2
  <2> QED
    BY <1>7, <2>1, <2>2, <2>3 DEF HeldOnce
<1>12. PendingIsHeld(u)
  <2> SUFFICES ASSUME NEW e \in s.pending \cup {d}
               PROVE  \/ u.task[LaneOf[e]].id = e
                      \/ \E i \in DOMAIN u.queue[LaneOf[e]] : u.queue[LaneOf[e]][i].id = e
    BY <1>7 DEF PendingIsHeld
  <2>1. CASE e = d
    <3>1. LaneOf[e] = l
      BY <2>1 DEF l
    <3>2. Len(q) \in DOMAIN u.queue[l] /\ u.queue[l][Len(q)].id = e
      BY <1>4, <1>7, <2>1 DEF d
    <3> QED
      BY <3>1, <3>2
  <2>2. CASE e # d
    <3>1. \/ s.task[LaneOf[e]].id = e
          \/ \E i \in DOMAIN s.queue[LaneOf[e]] : s.queue[LaneOf[e]][i].id = e
      BY <1>1, <2>2 DEF PendingIsHeld
    <3>2. LaneOf[e] \in Lanes
      BY <1>1, <1>2, DeliveryConstants DEF States
    <3>3. CASE LaneOf[e] = l
      BY <1>4, <1>7, <3>1, <3>3
    <3>4. CASE LaneOf[e] # l
      BY <1>7, <3>1, <3>2, <3>4
    <3> QED
      BY <3>3, <3>4
  <2> QED
    BY <2>1, <2>2
<1>13. Fresh(u)
  <2>1. ASSUME NEW m \in Lanes, NEW i \in DOMAIN u.queue[m]
        PROVE  u.queue[m][i].id \notin ToSet(u.sent)
    <3>1. CASE m # l
      BY <1>1, <1>7, <3>1 DEF Fresh
    <3>2. CASE m = l /\ i = Len(q)
      BY <1>4, <1>7, <3>2
    <3>3. CASE m = l /\ i # Len(q)
      <4>1. i \in DOMAIN s.queue[l] /\ u.queue[m][i] = s.queue[l][i]
        BY <1>4, <1>7, <3>3
      <4> QED
        BY <1>1, <1>2, <1>7, <3>3, <4>1 DEF Fresh
    <3> QED
      BY <3>1, <3>2, <3>3
  <2> QED
    BY <1>1, <1>7, <2>1 DEF Fresh
<1>14. WithinLimits(u)
  <2>1. Running(u) = Running(s)
    BY <1>7 DEF Running
  <2>2. Places(u) = Places(s) \cup {<<l, Len(q)>>}
    <3>1. ASSUME NEW m \in Lanes, NEW i \in DOMAIN u.queue[m]
          PROVE  i \in DOMAIN s.queue[m] \/ <<m, i>> = <<l, Len(q)>>
      BY <1>4, <1>7
    <3>2. ASSUME NEW m \in Lanes, NEW i \in DOMAIN s.queue[m]
          PROVE  i \in DOMAIN u.queue[m]
      BY <1>4, <1>7
    <3>3. Len(q) \in DOMAIN u.queue[l]
      BY <1>4, <1>7
    <3> HIDE DEF u
    <3> QED
      BY <1>2, <3>1, <3>2, <3>3, PlacesOf
  <2>3. /\ IsFiniteSet(Places(s)) /\ Queued(s) = Cardinality(Places(s))
        /\ Queued(u) = Cardinality(Places(u)) /\ Active(u) = Active(s)
    BY <1>1, <2>1, PlacesOf DEF WithinLimits
  <2>4. IsFiniteSet(Places(u)) /\ Cardinality(Places(u)) <= Cardinality(Places(s)) + 1
    <3>1. Cardinality(Places(s)) \in Nat
      BY <2>3, FS_CardinalityType
    <3>2. /\ IsFiniteSet(Places(s) \cup {<<l, Len(q)>>})
          /\ Cardinality(Places(s) \cup {<<l, Len(q)>>}) =
               IF <<l, Len(q)>> \in Places(s) THEN Cardinality(Places(s))
               ELSE Cardinality(Places(s)) + 1
      BY <2>3, FS_AddElement
    <3> QED
      BY <2>2, <3>1, <3>2
  <2>5. Cardinality(Places(s)) \in Nat /\ Cardinality(Places(u)) \in Nat
    BY <2>3, <2>4, FS_CardinalityType
  <2> QED
    BY <1>1, <2>1, <2>3, <2>4, <2>5, DeliveryConstants DEF WithinLimits
<1>15. Booked(u)
  BY <1>7, <1>8, <1>9, <1>11, <1>12, <1>13, <1>14 DEF Booked
<1> QED
  BY <1>5, <1>7, <1>15, PumpKeeps

-----------------------------------------------------------------------------
(* The parts of a step: the table, one gateway, the acks *)

LEMMA RowTyped ==
  ASSUME NEW r \in Rows
  PROVE  /\ r.status \in Statuses /\ r.claimedBy \in Gateways \cup {Nobody}
         /\ r.ttl \in 0 .. ClaimTTL /\ r.delay \in 0 .. RetryDelay
         /\ r.attempts \in 0 .. MaxAttempts
         /\ r = [status |-> r.status, claimedBy |-> r.claimedBy, ttl |-> r.ttl,
                 delay |-> r.delay, attempts |-> r.attempts]
  BY DEF Rows

LEMMA SettledRow ==
  ASSUME NEW r \in Rows, NEW to \in Statuses \ {"claimed"}, NEW n \in 0 .. RetryDelay
  PROVE  /\ Settled(r, to, n) \in Rows /\ Settled(r, to, n).status = to
         /\ Consistent(Settled(r, to, n))
<1> DEFINE new == [r EXCEPT !.status = to, !.claimedBy = Nobody, !.ttl = 0, !.delay = n]
<1>1. 0 \in 0 .. ClaimTTL
  BY DeliveryConstants
<1>2. new \in Rows
  BY <1>1 DEF Rows
<1>3. new.status = to /\ new.claimedBy = Nobody
  BY DEF Rows
<1> HIDE DEF new
<1>4. Consistent(new)
  BY <1>3 DEF Consistent
<1> QED
  BY <1>2, <1>3, <1>4, Zenon DEF Settled, new

LEMMA OneGateway ==
  ASSUME GatewaysInv, NEW g \in Gateways, NEW t, gw' = [gw EXCEPT ![g] = t],
         Booked(t), Pumped(t), Len(t.frames) <= MaxFrames, Cached(t, sends'[g]),
         \A h \in Gateways : h # g => sends'[h] = sends[h]
  PROVE  GatewaysInv' /\ gw'[g] = t /\ \A h \in Gateways : h # g => gw'[h] = gw[h]
<1>1. DOMAIN gw' = Gateways /\ gw'[g] = t /\ \A h \in Gateways : h # g => gw'[h] = gw[h]
  BY DEF GatewaysInv
<1>2. ASSUME NEW h \in Gateways
      PROVE  /\ Booked(gw'[h]) /\ Pumped(gw'[h]) /\ Len(gw'[h].frames) <= MaxFrames
             /\ Cached(gw'[h], sends'[h])
  <2>1. CASE h = g
    BY <1>1, <2>1
  <2>2. CASE h # g
    BY <1>1, <2>2 DEF GatewaysInv
  <2> QED
    BY <2>1, <2>2
<1>3. GatewaysInv'
  BY <1>1, <1>2 DEF GatewaysInv
<1> QED
  BY <1>1, <1>3

\* Nothing that is waited for changes.
LEMMA AcksKeep ==
  ASSUME AcksInv, acks' \subseteq AckRequests,
         \A a \in acks' : a.waiting => a \in acks,
         \A g \in Gateways, l \in Lanes :
           gw[g].task[l].at # "idle" => gw'[g].task[l] = gw[g].task[l]
  PROVE  AcksInv'
<1>1. ASSUME NEW a \in acks', a.waiting
      PROVE  /\ a \in acks /\ gw'[a.by].task[LaneOf[a.id]].id = a.id
             /\ gw'[a.by].task[LaneOf[a.id]].at \in {"acking", "reporting"}
  <2>1. a \in acks /\ a.by \in Gateways /\ LaneOf[a.id] \in Lanes
    BY <1>1, DeliveryConstants DEF AckRequests
  <2>2. /\ gw[a.by].task[LaneOf[a.id]].id = a.id
        /\ gw[a.by].task[LaneOf[a.id]].at \in {"acking", "reporting"}
    BY <1>1, <2>1 DEF AcksInv
  <2> QED
    BY <2>1, <2>2
<1>2. \A a, b \in acks' : a.waiting /\ b.waiting /\ a.by = b.by /\ a.id = b.id => a = b
  BY <1>1 DEF AcksInv
<1> QED
  BY <1>1, <1>2 DEF AcksInv

\* The task of one lane moves on, and waits for at most one ack.
LEMMA AcksMove ==
  ASSUME AcksInv, NEW g \in Gateways, NEW l \in Lanes, acks' \subseteq AckRequests,
         NEW B, \A a, b \in B : a = b,
         \A a \in acks' : a.waiting => \/ a \in B
                                       \/ a \in acks /\ ~(a.by = g /\ LaneOf[a.id] = l),
         \A b \in B : /\ b.by = g /\ LaneOf[b.id] = l /\ gw'[g].task[l].id = b.id
                      /\ gw'[g].task[l].at \in {"acking", "reporting"},
         \A h \in Gateways, m \in Lanes :
           ~(h = g /\ m = l) /\ gw[h].task[m].at # "idle" => gw'[h].task[m] = gw[h].task[m]
  PROVE  AcksInv'
<1>1. ASSUME NEW a \in acks', a.waiting
      PROVE  /\ gw'[a.by].task[LaneOf[a.id]].id = a.id
             /\ gw'[a.by].task[LaneOf[a.id]].at \in {"acking", "reporting"}
  <2>1. CASE a \in B
    BY <2>1
  <2>2. CASE a \notin B
    <3>1. /\ a \in acks /\ a.by \in Gateways /\ LaneOf[a.id] \in Lanes
          /\ ~(a.by = g /\ LaneOf[a.id] = l)
      BY <1>1, <2>2, DeliveryConstants DEF AckRequests
    <3>2. /\ gw[a.by].task[LaneOf[a.id]].id = a.id
          /\ gw[a.by].task[LaneOf[a.id]].at \in {"acking", "reporting"}
      BY <1>1, <3>1 DEF AcksInv
    <3> QED
      BY <3>1, <3>2
  <2> QED
    BY <2>1, <2>2
<1>2. ASSUME NEW a \in acks', NEW b \in acks', a.waiting, b.waiting, a.by = b.by, a.id = b.id
      PROVE  a = b
  BY <1>2 DEF AcksInv
<1> QED
  BY <1>1, <1>2 DEF AcksInv

LEMMA OneRow ==
  ASSUME RowsInv, NEW d \in Deliveries, NEW new \in Rows, Consistent(new),
         row' = [row EXCEPT ![d] = new], served' = served,
         disruptions' \in 0 .. MaxDisruptions
  PROVE  RowsInv' /\ row'[d] = new /\ \A e \in Deliveries : e # d => row'[e] = row[e]
<1>1. /\ row' \in [Deliveries -> Rows] /\ row'[d] = new
      /\ \A e \in Deliveries : e # d => row'[e] = row[e]
  BY DEF RowsInv
<1>2. \A e \in Deliveries : Consistent(row'[e])
  BY <1>1 DEF RowsInv
<1> QED
  BY <1>1, <1>2 DEF RowsInv

LEMMA MoreDisruptions ==
  ASSUME RowsInv, disruptions < MaxDisruptions
  PROVE  disruptions + 1 \in 0 .. MaxDisruptions
  BY DeliveryConstants DEF RowsInv

LEMMA SameDisruptions == ASSUME RowsInv PROVE disruptions \in 0 .. MaxDisruptions
  BY DEF RowsInv

\* A step that only writes the table.
LEMMA TableKeeps ==
  ASSUME DeliveryInv, UNCHANGED <<gw, acks, delivered, sends>>, RowsInv',
         \A d \in Deliveries :
           row'[d].status = "sent" /\ row'[d].attempts > 0 =>
             row[d].status = "sent" /\ row[d].attempts > 0
  PROVE  DeliveryInv'
<1>1. GatewaysInv' /\ AcksInv'
  BY DEF DeliveryInv, GatewaysInv, AcksInv
<1>2. SentInv'
  BY DEF DeliveryInv, SentInv, SentMeansDelivered
<1> QED
  BY <1>1, <1>2 DEF DeliveryInv

LEMMA CreateKeeps ==
  ASSUME DeliveryInv, NEW d \in Deliveries, NEW st \in Creations, NEW n \in {0, RetryDelay},
         CreateChannelDelivery(d, st, n)
  PROVE  DeliveryInv'
<1> DEFINE new == [NoRow EXCEPT !.status = st, !.delay = n]
<1>1. RowsInv
  BY DEF DeliveryInv
<1>2. new \in Rows /\ new.attempts = 0 /\ new.claimedBy = Nobody
  <2>1. NoRow \in Rows /\ NoRow.attempts = 0 /\ NoRow.claimedBy = Nobody
    BY DeliveryConstants DEF NoRow, Rows, Statuses
  <2>2. st \in Statuses
    BY DeliveryConstants DEF Statuses
  <2>3. n \in 0 .. RetryDelay
    BY DeliveryConstants
  <2> QED
    BY <2>1, <2>2, <2>3 DEF Rows
<1>3. row' = [row EXCEPT ![d] = new] /\ UNCHANGED <<served, gw, acks, delivered, sends, disruptions>>
  BY DEF CreateChannelDelivery
<1> HIDE DEF new
<1>4. Consistent(new)
  BY <1>2 DEF Consistent
<1>5. RowsInv' /\ row'[d] = new /\ \A e \in Deliveries : e # d => row'[e] = row[e]
  BY <1>1, <1>2, <1>3, <1>4, OneRow, SameDisruptions
<1> QED
  BY <1>2, <1>3, <1>5, TableKeeps

LEMMA OperatorKeeps ==
  ASSUME DeliveryInv, NEW d \in Deliveries, NEW st \in Operations, OperatorSettles(d, st)
  PROVE  DeliveryInv'
<1> DEFINE new == Settled(row[d], st, 0)
<1>1. RowsInv /\ row[d] \in Rows
  BY DEF DeliveryInv, RowsInv
<1>2. st \in {"failed", "dead"} /\ 0 \in 0 .. RetryDelay /\ st \in Statuses \ {"claimed"}
  BY DeliveryConstants DEF Statuses
<1>3. new \in Rows /\ new.status = st /\ Consistent(new)
  BY <1>1, <1>2, SettledRow
<1>4. /\ row' = [row EXCEPT ![d] = new] /\ disruptions' = disruptions + 1
      /\ disruptions < MaxDisruptions /\ UNCHANGED <<served, gw, acks, delivered, sends>>
  BY DEF OperatorSettles
<1> HIDE DEF new
<1>5. RowsInv' /\ row'[d] = new /\ \A e \in Deliveries : e # d => row'[e] = row[e]
  BY <1>1, <1>3, <1>4, OneRow, MoreDisruptions
<1> QED
  BY <1>2, <1>3, <1>4, <1>5, TableKeeps

LEMMA PruneKeeps ==
  ASSUME DeliveryInv, NEW d \in Deliveries, PruneTerminal(d)
  PROVE  DeliveryInv'
<1> DEFINE new == [NoRow EXCEPT !.status = "pruned"]
<1>1. RowsInv
  BY DEF DeliveryInv
<1>2. new = [status |-> "pruned", claimedBy |-> Nobody, ttl |-> 0, delay |-> 0, attempts |-> 0]
  BY DEF NoRow
<1>3. row' = [row EXCEPT ![d] = new] /\ UNCHANGED <<served, gw, acks, delivered, sends, disruptions>>
  BY DEF PruneTerminal
<1> HIDE DEF new
<1>4. new \in Rows /\ Consistent(new) /\ new.status = "pruned"
  BY <1>2, DeliveryConstants DEF Rows, Statuses, Consistent
<1>5. RowsInv' /\ row'[d] = new /\ \A e \in Deliveries : e # d => row'[e] = row[e]
  BY <1>1, <1>3, <1>4, OneRow, SameDisruptions
<1> QED
  BY <1>3, <1>4, <1>5, TableKeeps

LEMMA LessTyped ==
  ASSUME NEW m \in Nat, NEW n \in 0 .. m
  PROVE  Less(n) \in 0 .. m
  BY DEF Less

LEMMA TickKeeps ==
  ASSUME DeliveryInv, Tick
  PROVE  DeliveryInv'
<1> DEFINE new(d) == [row[d] EXCEPT !.ttl = Less(@), !.delay = Less(@)]
<1>1. RowsInv /\ row \in [Deliveries -> Rows]
  BY DEF DeliveryInv, RowsInv
<1>2. /\ row' = [d \in Deliveries |-> new(d)]
      /\ UNCHANGED <<served, gw, acks, delivered, sends, disruptions>>
  BY DEF Tick
<1>3. ASSUME NEW d \in Deliveries
      PROVE  /\ new(d) \in Rows /\ new(d).status = row[d].status
             /\ new(d).claimedBy = row[d].claimedBy /\ new(d).attempts = row[d].attempts
  <2>1. row[d] \in Rows
    BY <1>1
  <2>2. Less(row[d].ttl) \in 0 .. ClaimTTL /\ Less(row[d].delay) \in 0 .. RetryDelay
    BY <2>1, RowTyped, LessTyped, DeliveryConstants
  <2> QED
    BY <2>1, <2>2 DEF Rows
<1> HIDE DEF new
<1>4. RowsInv'
  <2>1. row' \in [Deliveries -> Rows]
    BY <1>2, <1>3
  <2>2. \A d \in Deliveries : Consistent(row'[d])
    BY <1>1, <1>2, <1>3 DEF RowsInv, Consistent
  <2> QED
    BY <1>1, <1>2, <2>1, <2>2 DEF RowsInv
<1> QED
  BY <1>2, <1>3, <1>4, TableKeeps

LEMMA GatewayFacts ==
  ASSUME DeliveryInv, NEW g \in Gateways
  PROVE  /\ GatewaysInv /\ AcksInv /\ RowsInv /\ SentInv
         /\ Booked(gw[g]) /\ Pumped(gw[g]) /\ Cached(gw[g], sends[g])
         /\ Len(gw[g].frames) <= MaxFrames /\ gw[g] \in States
         /\ gw[g].frames \in Seq(Copies) /\ gw[g].sent \in Seq(Deliveries)
         /\ gw[g].pending \subseteq Deliveries
         /\ \A l \in Lanes : gw[g].task[l] \in Tasks /\ gw[g].queue[l] \in Seq(Copies)
  BY DEF DeliveryInv, GatewaysInv, Booked, States

LEMMA CachedSame ==
  ASSUME NEW s, NEW t, NEW sentByNow, Cached(s, sentByNow), t.sent = s.sent
  PROVE  Cached(t, sentByNow)
  BY DEF Cached

LEMMA ClaimKeeps ==
  ASSUME DeliveryInv, NEW g \in Gateways, NEW d \in Deliveries, ClaimNext(g, d)
  PROVE  DeliveryInv'
<1> DEFINE new == [status |-> "claimed", claimedBy |-> g, ttl |-> ClaimTTL,
                   delay |-> row[d].delay, attempts |-> OneMoreAttempt(row[d].attempts)]
           c == [id |-> d, attempt |-> OneMoreAttempt(row[d].attempts)]
           f == Append(gw[g].frames, c)
           t == [gw[g] EXCEPT !.frames = f]
<1>1. RowsInv /\ row \in [Deliveries -> Rows] /\ row[d] \in Rows
  BY DEF DeliveryInv, RowsInv
<1>2. OneMoreAttempt(row[d].attempts) \in 1 .. MaxAttempts
  BY <1>1, RowTyped, DeliveryConstants DEF OneMoreAttempt
<1>3. c \in Copies
  BY <1>2 DEF Copies
<1>4. new \in Rows /\ new.status = "claimed" /\ Consistent(new)
  BY <1>1, <1>2, RowTyped, DeliveryConstants DEF Rows, Statuses, Consistent
<1>5. /\ row' = [row EXCEPT ![d] = new]
      /\ UNCHANGED <<served, acks, delivered, sends, disruptions>>
      /\ Len(gw[g].frames) < MaxFrames
      /\ gw' = [gw EXCEPT ![g].frames = Append(@, [id |-> d, attempt |-> row'[d].attempts])]
  BY DEF ClaimNext
<1>6. RowsInv' /\ row'[d] = new /\ \A e \in Deliveries : e # d => row'[e] = row[e]
  <2> HIDE DEF new
  <2> QED
    BY <1>1, <1>4, <1>5, OneRow, SameDisruptions
<1>7. [id |-> d, attempt |-> row'[d].attempts] = c
  BY <1>6
<1>8. gw' = [gw EXCEPT ![g] = t]
  <2> HIDE DEF c
  <2> QED
    BY <1>5, <1>7
<1> HIDE DEF new, c
<1>9. f \in Seq(Copies) /\ Len(f) = Len(gw[g].frames) + 1 /\ Len(f) <= MaxFrames
  <2>1. gw[g].frames \in Seq(Copies)
    BY GatewayFacts
  <2> QED
    BY <1>3, <1>5, <2>1, DeliveryConstants
<1> HIDE DEF f
<1>10. /\ Booked(t) /\ Pumped(t)
       /\ t.frames = f /\ t.sent = gw[g].sent /\ t.task = gw[g].task
  BY <1>9, GatewayFacts, FramesKeep
<1>11. Cached(t, sends'[g])
  BY <1>5, <1>10, GatewayFacts, CachedSame
<1> HIDE DEF t
<1>12. GatewaysInv' /\ gw'[g] = t /\ \A h \in Gateways : h # g => gw'[h] = gw[h]
  BY <1>5, <1>8, <1>9, <1>10, <1>11, OneGateway, GatewayFacts
<1>13. AcksInv'
  <2>1. \A h \in Gateways : gw'[h].task = gw[h].task
    BY <1>10, <1>12
  <2>2. acks' \subseteq AckRequests /\ AcksInv
    BY <1>5 DEF DeliveryInv, AcksInv
  <2> QED
    BY <1>5, <2>1, <2>2, AcksKeep
<1>14. SentInv'
  BY <1>4, <1>5, <1>6 DEF DeliveryInv, SentInv, SentMeansDelivered
<1> QED
  BY <1>6, <1>12, <1>13, <1>14 DEF DeliveryInv

\* A step of one gateway that leaves the table and the history alone, sends
\* no ack that is waited for, and lets the tasks that run go on.
LEMMA GatewayKeeps ==
  ASSUME DeliveryInv, NEW g \in Gateways, NEW t, gw' = [gw EXCEPT ![g] = t],
         UNCHANGED <<served, row, delivered, sends>>,
         disruptions' \in 0 .. MaxDisruptions,
         Booked(t), Pumped(t), Len(t.frames) <= MaxFrames, t.sent = gw[g].sent,
         \A l \in Lanes : gw[g].task[l].at # "idle" => t.task[l] = gw[g].task[l],
         acks' \subseteq AckRequests,
         \A a \in acks' : a.waiting => a \in acks,
         \A a \in acks' : a.status = "sent" => a.id \in delivered
  PROVE  DeliveryInv'
<1>1. Cached(t, sends'[g])
  BY GatewayFacts, CachedSame
<1>2. GatewaysInv' /\ gw'[g] = t /\ \A h \in Gateways : h # g => gw'[h] = gw[h]
  BY <1>1, OneGateway, GatewayFacts
<1>3. AcksInv'
  <2>1. \A h \in Gateways, l \in Lanes :
          gw[h].task[l].at # "idle" => gw'[h].task[l] = gw[h].task[l]
    BY <1>2
  <2>2. AcksInv
    BY DEF DeliveryInv
  <2> QED
    BY <2>1, <2>2, AcksKeep
<1>4. SentInv'
  BY DEF DeliveryInv, SentInv, SentMeansDelivered
<1>5. RowsInv'
  BY DEF DeliveryInv, RowsInv
<1> QED
  BY <1>2, <1>3, <1>4, <1>5 DEF DeliveryInv

LEMMA AcksNow ==
  ASSUME DeliveryInv
  PROVE  /\ acks \subseteq AckRequests /\ disruptions \in 0 .. MaxDisruptions
         /\ \A a \in acks : a.status = "sent" => a.id \in delivered
  BY DEF DeliveryInv, AcksInv, SentInv, RowsInv

\* The frame that onDelivery reads.
LEMMA ReadFacts ==
  ASSUME DeliveryInv, NEW g \in Gateways, gw[g].frames # <<>>
  PROVE  /\ Copy(g) \in Copies /\ Copy(g).id \in Deliveries
         /\ Booked(Read(g)) /\ Pumped(Read(g))
         /\ Len(Read(g).frames) <= MaxFrames /\ Read(g).sent = gw[g].sent
         /\ Read(g).task = gw[g].task /\ Read(g).pending = gw[g].pending
         /\ Queued(Read(g)) = Queued(gw[g])
<1> DEFINE f == Tail(gw[g].frames)
<1>1. /\ f \in Seq(Copies) /\ Len(f) = Len(gw[g].frames) - 1
      /\ Head(gw[g].frames) \in Copies /\ Len(gw[g].frames) \in Nat
      /\ Len(gw[g].frames) <= MaxFrames
  <2>1. gw[g].frames \in Seq(Copies) /\ Len(gw[g].frames) <= MaxFrames
    BY GatewayFacts
  <2> QED
    BY <2>1, TailToSet
<1>2. Len(f) <= MaxFrames
  BY <1>1, DeliveryConstants
<1>3. Read(g) = [gw[g] EXCEPT !.frames = f]
  BY DEF Read
<1> HIDE DEF f
<1>4. /\ Booked(Read(g)) /\ Pumped(Read(g)) /\ Read(g).frames = f
      /\ Read(g).sent = gw[g].sent /\ Read(g).task = gw[g].task
      /\ Read(g).pending = gw[g].pending /\ Queued(Read(g)) = Queued(gw[g])
  BY <1>1, <1>3, FramesKeep, GatewayFacts
<1> QED
  BY <1>1, <1>2, <1>4, CopiesTyped DEF Copy

LEMMA OnDeliveryKeeps ==
  ASSUME DeliveryInv, NEW g \in Gateways, OnDelivery(g)
  PROVE  DeliveryInv'
<1> USE AcksNow
<1>1. CASE ReackSent(g)
  <2>1. /\ gw' = [gw EXCEPT ![g] = Read(g)] /\ gw[g].frames # <<>>
        /\ Copy(g).id \in ToSet(gw[g].sent)
        /\ acks' = acks \cup {Ack(g, Copy(g).id, "sent", FALSE)}
        /\ UNCHANGED <<served, row, delivered, sends, disruptions>>
    BY <1>1 DEF ReackSent
  <2>2. Copy(g).id \in delivered
    <3>1. ToSet(gw[g].sent) \subseteq sends[g] /\ sends[g] \subseteq delivered
      BY GatewayFacts DEF Cached, SentInv
    <3> QED
      BY <2>1, <3>1
  <2>3. /\ Ack(g, Copy(g).id, "sent", FALSE) \in AckRequests
        /\ ~Ack(g, Copy(g).id, "sent", FALSE).waiting
        /\ Ack(g, Copy(g).id, "sent", FALSE).id = Copy(g).id
    BY <2>1, ReadFacts DEF Ack, AckRequests
  <2> QED
    BY <2>1, <2>2, <2>3, ReadFacts, GatewayKeeps
<1>2. CASE DropDuplicate(g) \/ Shed(g)
  <2>1. /\ gw' = [gw EXCEPT ![g] = Read(g)] /\ gw[g].frames # <<>>
        /\ UNCHANGED <<served, row, acks, delivered, sends, disruptions>>
    BY <1>2 DEF DropDuplicate, Shed
  <2> QED
    BY <2>1, ReadFacts, GatewayKeeps
<1>3. CASE Enqueue(g)
  <2> DEFINE t == Enqueued(Read(g), Copy(g))
  <2>1. /\ gw' = [gw EXCEPT ![g] = t] /\ gw[g].frames # <<>>
        /\ Copy(g).id \notin ToSet(gw[g].sent) /\ Copy(g).id \notin gw[g].pending
        /\ Queued(gw[g]) < MaxQueueDepth
        /\ UNCHANGED <<served, row, acks, delivered, sends, disruptions>>
    BY <1>3 DEF Enqueue
  <2>2. /\ Copy(g) \in Copies /\ Booked(Read(g))
        /\ Len(Read(g).frames) <= MaxFrames /\ Read(g).sent = gw[g].sent
        /\ Read(g).task = gw[g].task /\ Read(g).pending = gw[g].pending
        /\ Queued(Read(g)) = Queued(gw[g])
    BY <2>1, ReadFacts
  <2>3. /\ Booked(t) /\ Pumped(t)
        /\ t.frames = Read(g).frames /\ t.sent = Read(g).sent
        /\ \A m \in Lanes : Read(g).task[m].at # "idle" => t.task[m] = Read(g).task[m]
    BY <2>1, <2>2, EnqueuedKeeps
  <2> HIDE DEF t
  <2> QED
    BY <2>1, <2>2, <2>3, GatewayKeeps, ZenonT(60)
<1> QED
  BY <1>1, <1>2, <1>3 DEF OnDelivery

\* A waiting ack of the lane's deliveries is the one of the task it runs.
LEMMA WaitingIsTheTasks ==
  ASSUME AcksInv, NEW a \in acks, a.waiting
  PROVE  /\ a.by \in Gateways /\ LaneOf[a.id] \in Lanes /\ a.id \in Deliveries
         /\ gw[a.by].task[LaneOf[a.id]].id = a.id
         /\ gw[a.by].task[LaneOf[a.id]].at \in {"acking", "reporting"}
<1>1. a \in AckRequests
  BY DEF AcksInv
<1>2. a.by \in Gateways /\ a.id \in Deliveries
  BY <1>1 DEF AckRequests
<1> QED
  BY <1>2, DeliveryConstants DEF AcksInv

\* The delivery a lane runs.
LEMMA RunningTask ==
  ASSUME DeliveryInv, NEW g \in Gateways, NEW l \in Lanes, gw[g].task[l].at # "idle"
  PROVE  /\ gw[g].task[l].id \in Deliveries /\ LaneOf[gw[g].task[l].id] = l
         /\ gw[g].task[l].attempt \in 1 .. MaxAttempts
  BY GatewayFacts, TasksTyped DEF Booked, InItsLane

LEMMA VerdictTyped ==
  ASSUME NEW n, NEW b \in BOOLEAN PROVE Verdict(n, b) \in {"failed", "dead"}
  BY DEF Verdict

\* A step of one lane's task that leaves the table and the history alone.
LEMMA LaneKeeps ==
  ASSUME DeliveryInv, NEW g \in Gateways, NEW l \in Lanes, NEW t,
         gw' = [gw EXCEPT ![g] = t],
         UNCHANGED <<delivered, sends>>, RowsInv', SentMeansDelivered',
         Booked(t), Pumped(t), t.frames = gw[g].frames, t.sent = gw[g].sent,
         \A m \in Lanes : m # l /\ gw[g].task[m].at # "idle" => t.task[m] = gw[g].task[m],
         acks' \subseteq AckRequests,
         \A a \in acks' : a.status = "sent" => a.id \in delivered,
         NEW B, \A a, b \in B : a = b,
         \A a \in acks' : a.waiting => \/ a \in B
                                       \/ a \in acks /\ ~(a.by = g /\ LaneOf[a.id] = l),
         \A b \in B : /\ b.by = g /\ LaneOf[b.id] = l /\ t.task[l].id = b.id
                      /\ t.task[l].at \in {"acking", "reporting"}
  PROVE  DeliveryInv'
<1>1. Cached(t, sends'[g]) /\ Len(t.frames) <= MaxFrames
  BY GatewayFacts, CachedSame
<1>2. GatewaysInv' /\ gw'[g] = t /\ \A h \in Gateways : h # g => gw'[h] = gw[h]
  BY <1>1, OneGateway, GatewayFacts
<1>3. AcksInv'
  <2>1. \A h \in Gateways, m \in Lanes :
          ~(h = g /\ m = l) /\ gw[h].task[m].at # "idle" => gw'[h].task[m] = gw[h].task[m]
    BY <1>2
  <2>2. AcksInv
    BY DEF DeliveryInv
  <2>3. \A b \in B : /\ b.by = g /\ LaneOf[b.id] = l /\ gw'[g].task[l].id = b.id
                     /\ gw'[g].task[l].at \in {"acking", "reporting"}
    BY <1>2
  <2> QED
    BY <2>1, <2>2, <2>3, AcksMove
<1>4. SentInv'
  BY DEF DeliveryInv, SentInv
<1> QED
  BY <1>2, <1>3, <1>4 DEF DeliveryInv

LEMMA SendSucceedsKeeps ==
  ASSUME DeliveryInv, NEW g \in Gateways, NEW l \in Lanes, SendSucceeds(g, l)
  PROVE  DeliveryInv'
<1> DEFINE s == gw[g]
           d == s.task[l].id
           t == Remember([s EXCEPT !.task[l].at = "acking"], d)
           b == Ack(g, d, "sent", TRUE)
<1>1. /\ s.task[l].at = "sending" /\ gw' = [gw EXCEPT ![g] = t]
      /\ acks' = acks \cup {b} /\ delivered' = delivered \cup {d}
      /\ sends' = [sends EXCEPT ![g] = @ \cup {d}] /\ UNCHANGED <<served, row, disruptions>>
  BY DEF SendSucceeds, At
<1>2. /\ AcksInv /\ SentInv /\ RowsInv /\ d \in Deliveries /\ LaneOf[d] = l
      /\ sends \in [Gateways -> SUBSET Deliveries]
  BY <1>1, RunningTask DEF DeliveryInv, SentInv
<1>3. b \in AckRequests /\ b.by = g /\ b.id = d /\ b.status = "sent"
  BY <1>2 DEF Ack, AckRequests
<1>4. sends'[g] = sends[g] \cup {d} /\ \A h \in Gateways : h # g => sends'[h] = sends[h]
  BY <1>1, <1>2
<1>5. /\ Booked(t) /\ Pumped(t) /\ Cached(t, sends[g] \cup {d})
      /\ t.frames = s.frames
      /\ t.task[l].at = "acking" /\ t.task[l].id = d
      /\ \A m \in Lanes : m # l => t.task[m] = s.task[m]
  BY <1>1, GatewayFacts, SendKeeps
<1>6. Len(s.frames) <= MaxFrames
  BY GatewayFacts
<1> HIDE DEF t, b, d
<1>7. GatewaysInv' /\ gw'[g] = t /\ \A h \in Gateways : h # g => gw'[h] = gw[h]
  BY <1>1, <1>4, <1>5, <1>6, OneGateway, GatewayFacts
<1>8. AcksInv'
  <2>1. \A h \in Gateways, m \in Lanes :
          ~(h = g /\ m = l) /\ gw[h].task[m].at # "idle" => gw'[h].task[m] = gw[h].task[m]
    BY <1>5, <1>7
  <2>2. ASSUME NEW a \in acks', a.waiting, a # b
        PROVE  a \in acks /\ ~(a.by = g /\ LaneOf[a.id] = l)
    BY <1>1, <1>2, <2>2, WaitingIsTheTasks
  <2>3. acks' \subseteq AckRequests
    BY <1>1, <1>2, <1>3 DEF AcksInv
  <2> DEFINE B == {b}
  <2>4. \A a, c \in B : a = c
    OBVIOUS
  <2>5. \A a \in acks' : a.waiting => a \in B \/ (a \in acks /\ ~(a.by = g /\ LaneOf[a.id] = l))
    BY <2>2
  <2>6. \A c \in B : /\ c.by = g /\ LaneOf[c.id] = l /\ gw'[g].task[l].id = c.id
                     /\ gw'[g].task[l].at \in {"acking", "reporting"}
    BY <1>2, <1>3, <1>5, <1>7
  <2> HIDE DEF B
  <2> QED
    BY <1>2, <2>1, <2>3, <2>4, <2>5, <2>6, AcksMove
<1>9. SentInv'
  <2>1. delivered' \subseteq Deliveries /\ SentMeansDelivered'
    BY <1>1, <1>2 DEF SentInv, SentMeansDelivered
  <2>2. \A a \in acks' : a.status = "sent" => a.id \in delivered'
    BY <1>1, <1>2, <1>3 DEF SentInv
  <2>3. sends' \in [Gateways -> SUBSET Deliveries]
    BY <1>1, <1>2
  <2>4. \A h \in Gateways : sends'[h] \subseteq delivered'
    BY <1>1, <1>2, <1>4 DEF SentInv
  <2> QED
    BY <2>1, <2>2, <2>3, <2>4 DEF SentInv
<1>10. RowsInv'
  BY <1>1, <1>2 DEF RowsInv
<1> QED
  BY <1>7, <1>8, <1>9, <1>10 DEF DeliveryInv

LEMMA SendFailsKeeps ==
  ASSUME DeliveryInv, NEW g \in Gateways, NEW l \in Lanes, NEW transient \in BOOLEAN,
         SendFails(g, l, transient)
  PROVE  DeliveryInv'
<1> DEFINE s == gw[g]
           d == s.task[l].id
           t == [s EXCEPT !.task[l].at = "reporting"]
           b == Ack(g, d, Verdict(s.task[l].attempt, transient), TRUE)
<1>1. /\ s.task[l].at = "sending" /\ gw' = [gw EXCEPT ![g] = t]
      /\ acks' = acks \cup {b} /\ UNCHANGED <<served, row, delivered, sends, disruptions>>
  BY DEF SendFails
<1>2. AcksInv /\ SentInv /\ RowsInv /\ d \in Deliveries /\ LaneOf[d] = l
  BY <1>1, RunningTask DEF DeliveryInv
<1>3. b \in AckRequests /\ b.by = g /\ b.id = d /\ b.status # "sent"
  <2>1. PICK v \in {"failed", "dead"} : v = Verdict(s.task[l].attempt, transient)
    BY VerdictTyped
  <2> QED
    BY <1>2, <2>1 DEF Ack, AckRequests
<1>4. /\ Booked(t) /\ Pumped(t)
      /\ t.frames = s.frames /\ t.sent = s.sent
      /\ t.task[l].at = "reporting" /\ t.task[l].id = d
      /\ \A m \in Lanes : m # l => t.task[m] = s.task[m]
  BY <1>1, GatewayFacts, ReportingKeeps
<1> HIDE DEF t, b, d
<1>5. RowsInv' /\ SentMeansDelivered'
  BY <1>1, <1>2 DEF RowsInv, SentInv, SentMeansDelivered
<1>6. /\ acks' \subseteq AckRequests
      /\ \A a \in acks' : a.status = "sent" => a.id \in delivered
  BY <1>1, <1>3, AcksNow
<1> DEFINE B == {b}
<1>7. \A a \in acks' : a.waiting => a \in B \/ (a \in acks /\ ~(a.by = g /\ LaneOf[a.id] = l))
  BY <1>1, <1>2, WaitingIsTheTasks
<1>8. /\ \A a, c \in B : a = c
      /\ \A c \in B : /\ c.by = g /\ LaneOf[c.id] = l /\ t.task[l].id = c.id
                      /\ t.task[l].at \in {"acking", "reporting"}
  BY <1>2, <1>3, <1>4
<1> HIDE DEF B
<1> QED
  BY <1>1, <1>4, <1>5, <1>6, <1>7, <1>8, LaneKeeps

LEMMA WaitingSet ==
  ASSUME NEW a \in AckRequests, NEW b \in BOOLEAN
  PROVE  LET n == [a EXCEPT !.waiting = b]
         IN  /\ n \in AckRequests /\ n.waiting = b
             /\ n.id = a.id /\ n.by = a.by /\ n.status = a.status
  BY DEF AckRequests

\* An ack that nobody waits for any more.
LEMMA Unwaited ==
  ASSUME NEW a \in AckRequests
  PROVE  LET n == [a EXCEPT !.waiting = FALSE]
         IN  n \in AckRequests /\ ~n.waiting /\ n.id = a.id /\ n.by = a.by /\ n.status = a.status
  BY WaitingSet, Zenon

\* What is left of the acks when the task of a lane stops waiting.
LEMMA GivenUpFacts ==
  ASSUME DeliveryInv, NEW g \in Gateways, NEW l \in Lanes, gw[g].task[l].at # "idle",
         NEW lost \in BOOLEAN
  PROVE  LET left == GivenUp(Waiting(g, gw[g].task[l].id), lost)
         IN  /\ left \subseteq AckRequests
             /\ \A a \in left : a.status = "sent" => a.id \in delivered
             /\ \A a \in left : a.waiting => a \in acks /\ ~(a.by = g /\ LaneOf[a.id] = l)
<1> DEFINE d == gw[g].task[l].id
           W == Waiting(g, d)
           left == GivenUp(W, lost)
           N(a) == [a EXCEPT !.waiting = FALSE]
<1>1. W = {a \in acks : a.by = g /\ a.id = d /\ a.waiting}
  BY DEF Waiting
<1>2. left \subseteq (acks \ W) \cup {N(a) : a \in W}
  BY DEF GivenUp
<1>3. AcksInv /\ acks \subseteq AckRequests /\ \A a \in acks : a.status = "sent" => a.id \in delivered
  BY AcksNow DEF DeliveryInv
<1>4. ASSUME NEW a \in W
      PROVE  /\ N(a) \in AckRequests /\ ~N(a).waiting /\ N(a).id = a.id
             /\ N(a).status = a.status
  <2>1. a \in AckRequests
    BY <1>1, <1>3
  <2> QED
    BY <2>1, Unwaited, Zenon
<1>5. ASSUME NEW a \in acks \ W, a.waiting
      PROVE  ~(a.by = g /\ LaneOf[a.id] = l)
  <2>1. gw[a.by].task[LaneOf[a.id]].id = a.id
    BY <1>3, <1>5, WaitingIsTheTasks
  <2> QED
    BY <1>1, <1>5, <2>1
<1> HIDE DEF N, W, left
<1> SUFFICES ASSUME NEW a \in left
             PROVE  /\ a \in AckRequests /\ (a.status = "sent" => a.id \in delivered)
                    /\ a.waiting => a \in acks /\ ~(a.by = g /\ LaneOf[a.id] = l)
  BY DEF left, W
<1>6. CASE a \in acks \ W
  BY <1>3, <1>5, <1>6
<1>7. CASE a \notin acks \ W
  <2>1. PICK x \in W : a = N(x)
    BY <1>2, <1>7
  <2>2. x \in acks
    BY <1>1
  <2> QED
    BY <1>3, <1>4, <2>1, <2>2
<1> QED
  BY <1>6, <1>7

LEMMA AckFailsKeeps ==
  ASSUME DeliveryInv, NEW g \in Gateways, NEW l \in Lanes, NEW lost \in BOOLEAN,
         NEW transient \in BOOLEAN, AckFails(g, l, lost, transient)
  PROVE  DeliveryInv'
<1> DEFINE s == gw[g]
           d == s.task[l].id
           t == [s EXCEPT !.task[l].at = "reporting"]
           b == Ack(g, d, Verdict(s.task[l].attempt, transient), TRUE)
           left == GivenUp(Waiting(g, d), lost)
<1>1. /\ s.task[l].at = "acking" /\ gw' = [gw EXCEPT ![g] = t]
      /\ acks' = left \cup {b} /\ disruptions < MaxDisruptions
      /\ disruptions' = disruptions + 1 /\ UNCHANGED <<served, row, delivered, sends>>
  BY DEF AckFails
<1>2. AcksInv /\ SentInv /\ RowsInv /\ d \in Deliveries /\ LaneOf[d] = l
  BY <1>1, RunningTask DEF DeliveryInv
<1>3. b \in AckRequests /\ b.by = g /\ b.id = d /\ b.status # "sent"
  <2>1. PICK v \in {"failed", "dead"} : v = Verdict(s.task[l].attempt, transient)
    BY VerdictTyped
  <2> QED
    BY <1>2, <2>1 DEF Ack, AckRequests
<1>4. /\ Booked(t) /\ Pumped(t)
      /\ t.frames = s.frames /\ t.sent = s.sent
      /\ t.task[l].at = "reporting" /\ t.task[l].id = d
      /\ \A m \in Lanes : m # l => t.task[m] = s.task[m]
  BY <1>1, GatewayFacts, ReportingKeeps
<1>5. /\ left \subseteq AckRequests
      /\ \A a \in left : a.status = "sent" => a.id \in delivered
      /\ \A a \in left : a.waiting => a \in acks /\ ~(a.by = g /\ LaneOf[a.id] = l)
  BY <1>1, GivenUpFacts
<1> HIDE DEF t, b, d, left
<1>6. RowsInv' /\ SentMeansDelivered'
  BY <1>1, <1>2, MoreDisruptions DEF RowsInv, SentInv, SentMeansDelivered
<1>7. /\ acks' \subseteq AckRequests
      /\ \A a \in acks' : a.status = "sent" => a.id \in delivered
  BY <1>1, <1>3, <1>5
<1> DEFINE B == {b}
<1>8. \A a \in acks' : a.waiting => a \in B \/ (a \in acks /\ ~(a.by = g /\ LaneOf[a.id] = l))
  BY <1>1, <1>5
<1>9. /\ \A a, c \in B : a = c
      /\ \A c \in B : /\ c.by = g /\ LaneOf[c.id] = l /\ t.task[l].id = c.id
                      /\ t.task[l].at \in {"acking", "reporting"}
  BY <1>2, <1>3, <1>4
<1> HIDE DEF B
<1> QED
  BY <1>1, <1>4, <1>6, <1>7, <1>8, <1>9, LaneKeeps

LEMMA ReportFailsKeeps ==
  ASSUME DeliveryInv, NEW g \in Gateways, NEW l \in Lanes, NEW lost \in BOOLEAN,
         ReportFails(g, l, lost)
  PROVE  DeliveryInv'
<1> DEFINE s == gw[g]
           t == Done(s, l)
           left == GivenUp(Waiting(g, s.task[l].id), lost)
<1>1. /\ s.task[l].at = "reporting" /\ gw' = [gw EXCEPT ![g] = t]
      /\ acks' = left /\ disruptions < MaxDisruptions
      /\ disruptions' = disruptions + 1 /\ UNCHANGED <<served, row, delivered, sends>>
  BY DEF ReportFails
<1>2. AcksInv /\ SentInv /\ RowsInv
  BY DEF DeliveryInv
<1>3. /\ Booked(t) /\ Pumped(t) /\ t.frames = s.frames /\ t.sent = s.sent
      /\ \A m \in Lanes : m # l /\ s.task[m].at # "idle" => t.task[m] = s.task[m]
  BY <1>1, GatewayFacts, DoneKeeps
<1>4. /\ left \subseteq AckRequests
      /\ \A a \in left : a.status = "sent" => a.id \in delivered
      /\ \A a \in left : a.waiting => a \in acks /\ ~(a.by = g /\ LaneOf[a.id] = l)
  BY <1>1, GivenUpFacts
<1> HIDE DEF t, left
<1>5. RowsInv' /\ SentMeansDelivered'
  BY <1>1, <1>2, MoreDisruptions DEF RowsInv, SentInv, SentMeansDelivered
<1> DEFINE B == {}
<1>6. /\ \A a, c \in B : a = c
      /\ \A a \in acks' : a.waiting => a \in B \/ (a \in acks /\ ~(a.by = g /\ LaneOf[a.id] = l))
      /\ \A c \in B : /\ c.by = g /\ LaneOf[c.id] = l /\ t.task[l].id = c.id
                      /\ t.task[l].at \in {"acking", "reporting"}
  BY <1>1, <1>4
<1> HIDE DEF B
<1> QED
  BY <1>1, <1>3, <1>4, <1>5, <1>6, LaneKeeps

\* What an ack does to the table.
LEMMA AckedRow ==
  ASSUME DeliveryInv, NEW a \in acks, ApplyAck(a)
  PROVE  RowsInv' /\ SentMeansDelivered'
<1>1. a \in AckRequests /\ (a.status = "sent" => a.id \in delivered)
  BY AcksNow
<1>2. a.id \in Deliveries /\ a.status \in {"sent", "failed", "dead"}
  BY <1>1 DEF AckRequests
<1>3. RowsInv /\ SentMeansDelivered /\ row[a.id] \in Rows
  BY <1>2 DEF DeliveryInv, RowsInv, SentInv
<1>4. CASE ~Acks(a)
  BY <1>3, <1>4 DEF ApplyAck, RowsInv, SentMeansDelivered
<1>5. CASE Acks(a)
  <2> DEFINE n == IF a.status = "failed" THEN RetryDelay ELSE 0
             new == Settled(row[a.id], a.status, n)
  <2>1. n \in 0 .. RetryDelay /\ a.status \in Statuses \ {"claimed"}
    BY <1>2, DeliveryConstants DEF Statuses
  <2>2. row' = [row EXCEPT ![a.id] = new] /\ UNCHANGED <<served, delivered, disruptions>>
    BY <1>5 DEF ApplyAck
  <2> HIDE DEF n
  <2>3. new \in Rows /\ new.status = a.status /\ Consistent(new)
    BY <1>3, <2>1, SettledRow
  <2> HIDE DEF new
  <2>4. RowsInv' /\ row'[a.id] = new /\ \A e \in Deliveries : e # a.id => row'[e] = row[e]
    BY <1>2, <1>3, <2>2, <2>3, OneRow, SameDisruptions
  <2> QED
    BY <1>1, <1>3, <2>2, <2>3, <2>4 DEF SentMeansDelivered
<1> QED
  BY <1>4, <1>5

LEMMA ApplyAckKeeps ==
  ASSUME DeliveryInv, NEW a \in acks, ApplyAck(a)
  PROVE  DeliveryInv'
<1> DEFINE g == a.by
           l == LaneOf[a.id]
           s == gw[g]
           ends == Acks(a) \/ a.status # "sent"
           b == Ack(g, a.id, "dead", TRUE)
<1>1. RowsInv' /\ SentMeansDelivered'
  BY AckedRow
<1>2. /\ g \in Gateways /\ a.id \in Deliveries /\ l \in Lanes
      /\ acks \subseteq AckRequests /\ AcksInv /\ SentInv /\ GatewaysInv
      /\ \A c \in acks : c.status = "sent" => c.id \in delivered
  <2>1. a \in AckRequests /\ acks \subseteq AckRequests
    BY AcksNow
  <2>2. a.by \in Gateways /\ a.id \in Deliveries
    BY <2>1 DEF AckRequests
  <2> QED
    BY <2>1, <2>2, AcksNow, DeliveryConstants DEF DeliveryInv
<1>3. UNCHANGED <<served, delivered, sends, disruptions>>
  BY DEF ApplyAck
<1>4. ASSUME NEW c \in acks, c # a, c.waiting, a.waiting
      PROVE  ~(c.by = g /\ LaneOf[c.id] = l)
  <2>1. /\ gw[c.by].task[LaneOf[c.id]].id = c.id /\ gw[g].task[l].id = a.id
    BY <1>2, <1>4, WaitingIsTheTasks
  <2>2. \A x, y \in acks : x.waiting /\ y.waiting /\ x.by = y.by /\ x.id = y.id => x = y
    BY <1>2, Zenon DEF AcksInv
  <2>3. ~(c.by = a.by /\ c.id = a.id)
    BY <1>4, <2>2, Zenon
  <2>4. c.by = g /\ LaneOf[c.id] = l => c.id = a.id
    BY <2>1, Zenon
  <2> QED
    BY <2>3, <2>4, Zenon
<1>5. CASE ~a.waiting
  <2>1. gw' = gw /\ acks' = acks \ {a}
    BY <1>5 DEF ApplyAck
  <2>2. GatewaysInv'
    BY <1>2, <1>3, <2>1 DEF GatewaysInv
  <2>3. AcksInv'
    BY <1>2, <2>1, AcksKeep
  <2>4. SentInv'
    BY <1>1, <1>2, <1>3, <2>1 DEF SentInv
  <2> QED
    BY <1>1, <2>2, <2>3, <2>4 DEF DeliveryInv
<1>6. CASE a.waiting /\ ends
  <2> DEFINE t == Done(s, l)
             B == {}
  <2>1. gw' = [gw EXCEPT ![g] = t] /\ acks' = acks \ {a}
    BY <1>6 DEF ApplyAck
  <2>2. s.task[l].at # "idle"
    BY <1>2, <1>6, WaitingIsTheTasks
  <2>3. /\ Booked(t) /\ Pumped(t) /\ t.frames = s.frames /\ t.sent = s.sent
        /\ \A m \in Lanes : m # l /\ s.task[m].at # "idle" => t.task[m] = s.task[m]
    BY <1>2, <2>2, GatewayFacts, DoneKeeps
  <2>4. /\ \A x, c \in B : x = c
        /\ \A c \in acks' : c.waiting => c \in B \/ (c \in acks /\ ~(c.by = g /\ LaneOf[c.id] = l))
        /\ \A c \in B : /\ c.by = g /\ LaneOf[c.id] = l /\ t.task[l].id = c.id
                        /\ t.task[l].at \in {"acking", "reporting"}
    BY <1>4, <1>6, <2>1
  <2>5. /\ acks' \subseteq AckRequests
        /\ \A c \in acks' : c.status = "sent" => c.id \in delivered
    BY <1>2, <2>1
  <2> HIDE DEF t, B, g, l
  <2> QED
    BY <1>1, <1>2, <1>3, <2>1, <2>3, <2>4, <2>5, LaneKeeps
<1>7. CASE a.waiting /\ ~ends
  <2> DEFINE t == [s EXCEPT !.task[l].at = "reporting"]
             B == {b}
  <2>1. gw' = [gw EXCEPT ![g] = t] /\ acks' = (acks \ {a}) \cup {b}
    BY <1>7 DEF ApplyAck
  <2>2. s.task[l].at # "idle" /\ s.task[l].id = a.id
    BY <1>2, <1>7, WaitingIsTheTasks
  <2>3. b \in AckRequests /\ b.by = g /\ b.id = a.id /\ b.status # "sent"
    BY <1>2 DEF Ack, AckRequests
  <2>4. /\ Booked(t) /\ Pumped(t) /\ t.frames = s.frames /\ t.sent = s.sent
        /\ t.task[l].at = "reporting" /\ t.task[l].id = s.task[l].id
        /\ \A m \in Lanes : m # l => t.task[m] = s.task[m]
    BY <1>2, <2>2, GatewayFacts, ReportingKeeps
  <2> HIDE DEF t, b
  <2>5. /\ \A x, c \in B : x = c
        /\ \A c \in acks' : c.waiting => c \in B \/ (c \in acks /\ ~(c.by = g /\ LaneOf[c.id] = l))
        /\ \A c \in B : /\ c.by = g /\ LaneOf[c.id] = l /\ t.task[l].id = c.id
                        /\ t.task[l].at \in {"acking", "reporting"}
    BY <1>4, <1>7, <2>1, <2>2, <2>3, <2>4
  <2>6. /\ acks' \subseteq AckRequests
        /\ \A c \in acks' : c.status = "sent" => c.id \in delivered
    BY <1>2, <2>1, <2>3
  <2> HIDE DEF B, g, l
  <2> QED
    BY <1>1, <1>2, <1>3, <2>1, <2>4, <2>5, <2>6, LaneKeeps, ZenonT(60)
<1> QED
  BY <1>5, <1>6, <1>7

LEMMA LoseAckKeeps ==
  ASSUME DeliveryInv, NEW a \in acks, LoseAck(a)
  PROVE  DeliveryInv'
<1>1. /\ acks' = acks \ {a} /\ disruptions < MaxDisruptions /\ disruptions' = disruptions + 1
      /\ UNCHANGED <<served, row, gw, delivered, sends>>
  BY DEF LoseAck
<1>2. RowsInv' /\ GatewaysInv' /\ SentInv'
  BY <1>1, MoreDisruptions
     DEF DeliveryInv, RowsInv, GatewaysInv, SentInv, SentMeansDelivered
<1>3. AcksInv'
  BY <1>1, AcksNow, AcksKeep DEF DeliveryInv
<1> QED
  BY <1>2, <1>3 DEF DeliveryInv

LEMMA DisconnectKeeps ==
  ASSUME DeliveryInv, NEW g \in Gateways, Disconnect(g)
  PROVE  DeliveryInv'
<1> DEFINE f == <<>>
           t == [gw[g] EXCEPT !.frames = f]
<1>1. /\ gw' = [gw EXCEPT ![g] = t] /\ disruptions < MaxDisruptions
      /\ disruptions' = disruptions + 1 /\ UNCHANGED <<served, row, acks, delivered, sends>>
  BY DEF Disconnect
<1>2. f \in Seq(Copies) /\ Len(f) <= MaxFrames
  BY DeliveryConstants
<1> HIDE DEF f
<1>3. /\ Booked(t) /\ Pumped(t)
      /\ t.frames = f /\ t.sent = gw[g].sent /\ t.task = gw[g].task
  BY <1>2, GatewayFacts, FramesKeep
<1>4. disruptions' \in 0 .. MaxDisruptions
  BY <1>1, MoreDisruptions DEF DeliveryInv
<1> HIDE DEF t
<1> QED
  BY <1>1, <1>2, <1>3, <1>4, AcksNow, GatewayKeeps

\* A gateway that starts has nothing in hand and an empty cache.
LEMMA StartedBooked ==
  /\ Booked(Started) /\ Pumped(Started) /\ Cached(Started, {})
  /\ Len(Started.frames) <= MaxFrames
<1>1. /\ Started \in States /\ Started.frames = <<>> /\ Started.ready = <<>>
      /\ Started.sent = <<>> /\ Started.pending = {}
      /\ \A l \in Lanes : Started.queue[l] = <<>> /\ Started.task[l] = Idle
  BY IdleTyped DEF Started, States
<1>2. ToSet(<<>>) = {} /\ IsInjective(<<>>) /\ Len(<<>>) = 0
  BY DEF ToSet, IsInjective
<1>3. InLine(Started) /\ InItsLane(Started) /\ HeldOnce(Started) /\ PendingIsHeld(Started)
      /\ Fresh(Started)
  BY <1>1, <1>2, IdleTyped DEF InLine, InItsLane, HeldOnce, PendingIsHeld, Fresh
<1>4. Running(Started) = {} /\ Places(Started) = {}
  <2>1. Running(Started) = {}
    BY <1>1, IdleTyped DEF Running
  <2>2. \A l \in Lanes : DOMAIN Started.queue[l] = {}
    BY <1>1
  <2>3. Places(Started) = {}
    BY <2>2, PlacesOf
  <2> QED
    BY <2>1, <2>3
<1>5. IsFiniteSet({}) /\ Cardinality({}) = 0
  BY FS_EmptySet
<1>6. WithinLimits(Started) /\ Active(Started) = 0
  <2>1. /\ Queued(Started) = Cardinality(Places(Started))
        /\ Active(Started) = Cardinality(Running(Started))
    BY PlacesOf
  <2>2. Queued(Started) = 0 /\ Active(Started) = 0
    BY <1>4, <1>5, <2>1
  <2>3. 0 <= MaxQueueDepth /\ 0 <= MaxConcurrency
    BY DeliveryConstants
  <2> QED
    BY <1>4, <1>5, <2>2, <2>3 DEF WithinLimits
<1>7. Pumped(Started)
  BY <1>1 DEF Pumped
<1>8. Cached(Started, {})
  BY <1>1, <1>2, <1>5, DeliveryConstants DEF Cached
<1>9. Len(Started.frames) <= MaxFrames
  BY <1>1, <1>2, DeliveryConstants
<1> QED
  BY <1>1, <1>3, <1>6, <1>7, <1>8, <1>9 DEF Booked

LEMMA CrashKeeps ==
  ASSUME DeliveryInv, NEW g \in Gateways, Crash(g)
  PROVE  DeliveryInv'
<1> DEFINE N(a) == [a EXCEPT !.waiting = FALSE]
<1>1. /\ gw' = [gw EXCEPT ![g] = Started] /\ disruptions < MaxDisruptions
      /\ acks' = {IF a.by = g THEN N(a) ELSE a : a \in acks}
      /\ sends' = [sends EXCEPT ![g] = {}]
      /\ disruptions' = disruptions + 1 /\ UNCHANGED <<served, row, delivered>>
  BY DEF Crash
<1>2. /\ acks \subseteq AckRequests /\ AcksInv /\ SentInv /\ RowsInv /\ GatewaysInv
      /\ \A a \in acks : a.status = "sent" => a.id \in delivered
      /\ sends \in [Gateways -> SUBSET Deliveries]
  BY AcksNow DEF DeliveryInv, SentInv
<1>3. ASSUME NEW a \in acks
      PROVE  /\ N(a) \in AckRequests /\ ~N(a).waiting /\ N(a).id = a.id
             /\ N(a).status = a.status
  <2>1. a \in AckRequests
    BY <1>2
  <2> QED
    BY <2>1, Unwaited, Zenon
<1>4. sends'[g] = {} /\ \A h \in Gateways : h # g => sends'[h] = sends[h]
  BY <1>1, <1>2
<1> HIDE DEF N
<1>5. GatewaysInv' /\ gw'[g] = Started /\ \A h \in Gateways : h # g => gw'[h] = gw[h]
  <2>1. Cached(Started, sends'[g])
    BY <1>4, StartedBooked
  <2> QED
    BY <1>1, <1>2, <1>4, <2>1, OneGateway, StartedBooked
<1>6. ASSUME NEW a \in acks'
      PROVE  /\ a \in AckRequests /\ (a.status = "sent" => a.id \in delivered)
             /\ a.waiting => a \in acks /\ a.by # g
  <2>1. PICK x \in acks : a = IF x.by = g THEN N(x) ELSE x
    BY <1>1
  <2>2. CASE x.by = g
    BY <1>2, <1>3, <2>1, <2>2
  <2>3. CASE x.by # g
    BY <1>2, <2>1, <2>3
  <2> QED
    BY <2>2, <2>3
<1>7. AcksInv'
  <2>1. ASSUME NEW a \in acks', a.waiting
        PROVE  /\ gw'[a.by].task[LaneOf[a.id]].id = a.id
               /\ gw'[a.by].task[LaneOf[a.id]].at \in {"acking", "reporting"}
    <3>1. a \in acks /\ a.by # g
      BY <1>6, <2>1
    <3>2. /\ a.by \in Gateways /\ gw[a.by].task[LaneOf[a.id]].id = a.id
          /\ gw[a.by].task[LaneOf[a.id]].at \in {"acking", "reporting"}
      BY <1>2, <2>1, <3>1, WaitingIsTheTasks
    <3> QED
      BY <1>5, <3>1, <3>2
  <2>2. \A a, b \in acks' : a.waiting /\ b.waiting /\ a.by = b.by /\ a.id = b.id => a = b
    BY <1>2, <1>6 DEF AcksInv
  <2>3. acks' \subseteq AckRequests
    BY <1>6
  <2> QED
    BY <2>1, <2>2, <2>3 DEF AcksInv
<1>8. SentInv'
  <2>1. delivered' \subseteq Deliveries /\ SentMeansDelivered'
    BY <1>1, <1>2 DEF SentInv, SentMeansDelivered
  <2>2. sends' \in [Gateways -> SUBSET Deliveries] /\ \A h \in Gateways : sends'[h] \subseteq delivered'
    BY <1>1, <1>2, <1>4 DEF SentInv
  <2> QED
    BY <1>1, <1>6, <2>1, <2>2 DEF SentInv
<1>9. RowsInv'
  BY <1>1, <1>2, MoreDisruptions DEF RowsInv
<1> QED
  BY <1>5, <1>7, <1>8, <1>9 DEF DeliveryInv

-----------------------------------------------------------------------------
(* The invariant *)

LEMMA InitDeliveryInv == Init => DeliveryInv
<1> SUFFICES ASSUME Init PROVE DeliveryInv
  OBVIOUS
<1>1. /\ gw = [g \in Gateways |-> Started] /\ acks = {}
      /\ delivered = {d \in Deliveries : row[d].status = "sent"}
      /\ sends = [g \in Gateways |-> {}]
  BY DEF Init
<1>2. RowsInv
  <2>1. PICK o \in Outsets : served = o.served /\ row = o.row /\ disruptions = o.disruptions
    BY DEF Init
  <2>2. /\ o.served \in [Gateways -> SUBSET Deliveries]
        /\ o.row \in [Deliveries -> {r \in Rows : Consistent(r)}]
        /\ o.disruptions \in 0 .. MaxDisruptions
    BY DeliveryConstants
  <2>3. row \in [Deliveries -> Rows] /\ \A d \in Deliveries : Consistent(row[d])
    BY <2>1, <2>2
  <2> QED
    BY <2>1, <2>2, <2>3 DEF RowsInv
<1>3. GatewaysInv
  <2>1. DOMAIN gw = Gateways /\ \A g \in Gateways : gw[g] = Started /\ sends[g] = {}
    BY <1>1
  <2> QED
    BY <2>1, StartedBooked DEF GatewaysInv
<1>4. AcksInv
  BY <1>1 DEF AcksInv
<1>5. SentInv
  BY <1>1 DEF SentInv, SentMeansDelivered
<1> QED
  BY <1>2, <1>3, <1>4, <1>5 DEF DeliveryInv

LEMMA NextDeliveryInv == DeliveryInv /\ [Next]_vars => DeliveryInv'
<1> SUFFICES ASSUME DeliveryInv, [Next]_vars PROVE DeliveryInv'
  OBVIOUS
<1>1. ASSUME NEW d \in Deliveries,
             \/ \E st \in Creations, n \in {0, RetryDelay} : CreateChannelDelivery(d, st, n)
             \/ \E g \in Gateways : ClaimNext(g, d)
             \/ \E st \in Operations : OperatorSettles(d, st)
             \/ PruneTerminal(d)
      PROVE  DeliveryInv'
  BY <1>1, CreateKeeps, ClaimKeeps, OperatorKeeps, PruneKeeps
<1>2. ASSUME NEW g \in Gateways, OnDelivery(g) PROVE DeliveryInv'
  BY <1>2, OnDeliveryKeeps
<1>3. ASSUME NEW g \in Gateways, NEW l \in Lanes, Sends(g, l) PROVE DeliveryInv'
  BY <1>3, SendSucceedsKeeps, SendFailsKeeps DEF Sends
<1>4. ASSUME NEW a \in acks, ApplyAck(a) PROVE DeliveryInv'
  BY <1>4, ApplyAckKeeps
<1>5. ASSUME Faults PROVE DeliveryInv'
  BY <1>5, DisconnectKeeps, CrashKeeps, ReportFailsKeeps, AckFailsKeeps, LoseAckKeeps DEF Faults
<1>6. ASSUME Tick PROVE DeliveryInv'
  BY <1>6, TickKeeps
<1>7. ASSUME UNCHANGED vars PROVE DeliveryInv'
  <2>1. /\ served' = served /\ row' = row /\ gw' = gw /\ acks' = acks
        /\ delivered' = delivered /\ sends' = sends /\ disruptions' = disruptions
    BY <1>7 DEF vars
  <2>2. RowsInv'
    BY <2>1 DEF DeliveryInv, RowsInv
  <2> QED
    BY <2>1, <2>2, TableKeeps
<1> QED
  BY <1>1, <1>2, <1>3, <1>4, <1>5, <1>6, <1>7 DEF Next

LEMMA DeliveryInvHolds == Spec => []DeliveryInv
  BY InitDeliveryInv, NextDeliveryInv, PTL DEF Spec

-----------------------------------------------------------------------------
(* The theorems *)

\* Rows, acks and the memory of the gateways keep their shape; claimed_by is
\* set exactly while a row is claimed; and the dispatcher's maxConcurrency and
\* maxQueueDepth and SENT_DELIVERY_CACHE_SIZE are kept whatever is served.
THEOREM DeliveryTypeCorrect == Spec => []DeliveryTypeOK
<1>1. DeliveryInv => DeliveryTypeOK
  <2> SUFFICES ASSUME DeliveryInv PROVE DeliveryTypeOK
    OBVIOUS
  <2>1. ASSUME NEW g \in Gateways
        PROVE  /\ gw[g].frames \in Seq(Copies) /\ Len(gw[g].frames) <= MaxFrames
               /\ gw[g].queue \in [Lanes -> Seq(Copies)] /\ Queued(gw[g]) <= MaxQueueDepth
               /\ gw[g].task \in [Lanes -> Tasks] /\ Active(gw[g]) <= MaxConcurrency
               /\ gw[g].ready \in Seq(Lanes)
               /\ gw[g].pending \subseteq Deliveries
               /\ gw[g].sent \in Seq(Deliveries) /\ Len(gw[g].sent) <= CacheSize
    BY GatewayFacts DEF Booked, States, WithinLimits, Cached
  <2>2. acks \subseteq AckRequests /\ delivered \subseteq Deliveries
        /\ sends \in [Gateways -> SUBSET Deliveries] /\ DOMAIN gw = Gateways
    BY DEF DeliveryInv, AcksInv, SentInv, GatewaysInv
  <2>3. RowsInv
    BY DEF DeliveryInv
  <2> QED
    BY <2>1, <2>2, <2>3 DEF DeliveryTypeOK, RowsInv, Tasks, AckRequests
<1> QED
  BY <1>1, DeliveryInvHolds, PTL

\* A row is marked sent only if a provider accepted the delivery: no duplicate
\* that is dropped, no copy that is acked again and no late ack does more.
THEOREM SentWasDelivered == Spec => []SentMeansDelivered
<1>1. DeliveryInv => SentMeansDelivered
  BY DEF DeliveryInv, SentInv
<1> QED
  BY <1>1, DeliveryInvHolds, PTL

\* handleDelivery sends what this process has sent before only after the cache
\* of sent deliveries has overflowed, whatever the cloud serves again.
THEOREM SendsOnce == Spec => []NoSecondSend
<1>1. DeliveryInv => NoSecondSend
  <2> SUFFICES ASSUME DeliveryInv, NEW g \in Gateways, NEW l \in Lanes,
                      gw[g].task[l].at = "sending", gw[g].task[l].id \in sends[g]
               PROVE  Cardinality(sends[g]) > CacheSize
    BY DEF NoSecondSend, At
  <2>1. /\ gw[g].task[l].id \notin ToSet(gw[g].sent) /\ IsFiniteSet(sends[g])
        /\ Cardinality(sends[g]) <= CacheSize => sends[g] \subseteq ToSet(gw[g].sent)
    BY GatewayFacts DEF Booked, Fresh, Cached
  <2>2. Cardinality(sends[g]) \in Nat /\ CacheSize \in Nat
    BY <2>1, FS_CardinalityType, DeliveryConstants
  <2> QED
    BY <2>1, <2>2
<1> QED
  BY <1>1, DeliveryInvHolds, PTL

\* A late ack, a duplicate or a lapsed claim never takes a row out of sent or
\* dead: only an operator's ack and the retention do.
THEOREM SettledDeliveriesStay == Spec => SettledStays
<1>1. DeliveryInv /\ [Next]_vars =>
        [\A d \in Deliveries :
           row[d].status \in {"sent", "dead"} /\ row'[d].status # row[d].status
             => row'[d].status = "pruned" \/ \E s \in Operations : OperatorSettles(d, s)]_vars
  <2> SUFFICES ASSUME DeliveryInv, Next, NEW d \in Deliveries,
                      row[d].status \in {"sent", "dead"}, row'[d].status # row[d].status
               PROVE  row'[d].status = "pruned" \/ \E s \in Operations : OperatorSettles(d, s)
    BY DEF vars
  <2>0. row \in [Deliveries -> Rows] /\ Consistent(row[d]) /\ acks \subseteq AckRequests
    BY DEF DeliveryInv, RowsInv, AcksInv
  <2>1. ASSUME NEW e \in Deliveries, NEW st \in Creations, NEW n \in {0, RetryDelay},
               CreateChannelDelivery(e, st, n)
        PROVE  FALSE
    BY <2>0, <2>1 DEF CreateChannelDelivery
  <2>2. ASSUME NEW e \in Deliveries, NEW g \in Gateways, ClaimNext(g, e) PROVE FALSE
    BY <2>0, <2>2 DEF ClaimNext, Claimable
  <2>3. ASSUME NEW e \in Deliveries, NEW st \in Operations, OperatorSettles(e, st)
        PROVE  e = d
    BY <2>0, <2>3 DEF OperatorSettles
  <2>4. ASSUME NEW e \in Deliveries, PruneTerminal(e) PROVE row'[d].status = "pruned"
    <3>1. row' = [row EXCEPT ![e] = [NoRow EXCEPT !.status = "pruned"]]
      BY <2>4 DEF PruneTerminal
    <3>2. e = d
      BY <2>0, <3>1
    <3> QED
      BY <2>0, <3>1, <3>2 DEF NoRow
  <2>5. ASSUME NEW a \in acks, ApplyAck(a) PROVE FALSE
    <3>1. a.by \in Gateways /\ a.id \in Deliveries
      BY <2>0 DEF AckRequests
    <3>2. row' # row
      OBVIOUS
    <3>3. Acks(a)
      BY <2>5, <3>2 DEF ApplyAck
    <3>4. a.id = d
      BY <2>0, <2>5, <3>1, <3>3 DEF ApplyAck
    <3> QED
      BY <2>0, <3>1, <3>3, <3>4, DeliveryConstants DEF Acks, Consistent
  <2>6. ASSUME Tick PROVE FALSE
    <3>1. row'[d] = [row[d] EXCEPT !.ttl = Less(@), !.delay = Less(@)] /\ row[d] \in Rows
      BY <2>0, <2>6 DEF Tick
    <3> QED
      BY <3>1 DEF Rows
  <2>7. ASSUME row' = row PROVE FALSE
    BY <2>7
  <2>8. ASSUME NEW g \in Gateways, OnDelivery(g) PROVE row' = row
    BY <2>8 DEF OnDelivery, ReackSent, DropDuplicate, Shed, Enqueue
  <2>9. ASSUME NEW g \in Gateways, NEW l \in Lanes, Sends(g, l) PROVE row' = row
    BY <2>9 DEF Sends, SendSucceeds, SendFails
  <2>10. ASSUME Faults PROVE row' = row
    BY <2>10 DEF Faults, Disconnect, Crash, ReportFails, AckFails, LoseAck
  <2> QED
    BY <2>1, <2>2, <2>3, <2>4, <2>5, <2>6, <2>7, <2>8, <2>9, <2>10 DEF Next
<1> QED
  BY <1>1, DeliveryInvHolds, PTL DEF Spec, SettledStays, OperatorSettles

LEMMA HoldsOf ==
  ASSUME NEW s, NEW d
  PROVE  \A h : h \in Holds(s, d) <=>
           \/ \E l \in Lanes : s.task[l].id = d /\ h = <<l, 0>>
           \/ \E l \in Lanes : \E i \in DOMAIN s.queue[l] :
                s.queue[l][i].id = d /\ h = <<l, i>>
<1> DEFINE A == {l \in Lanes : s.task[l].id = d} \X {0}
           B == UNION {{l} \X {i \in DOMAIN s.queue[l] : s.queue[l][i].id = d} : l \in Lanes}
<1>1. \A h : h \in A <=> \E l \in Lanes : s.task[l].id = d /\ h = <<l, 0>>
  OBVIOUS
<1>2. \A h : h \in B <=> \E l \in Lanes : \E i \in DOMAIN s.queue[l] :
                            s.queue[l][i].id = d /\ h = <<l, i>>
  OBVIOUS
<1>3. Holds(s, d) = A \cup B
  BY DEF Holds
<1> HIDE DEF A, B
<1> QED
  BY <1>1, <1>2, <1>3

LEMMA HeldOncePerPending ==
  ASSUME NEW s, Booked(s), NEW d \in Deliveries
  PROVE  /\ Cardinality(Holds(s, d)) = IF d \in s.pending THEN 1 ELSE 0
         /\ \A h \in Holds(s, d) : h[1] = LaneOf[d]
<1>1. s \in States /\ InItsLane(s) /\ HeldOnce(s) /\ PendingIsHeld(s)
  BY DEF Booked
<1> DEFINE m == LaneOf[d]
<1>2. m \in Lanes
  BY DeliveryConstants
<1>3. ASSUME NEW l \in Lanes, s.task[l].id = d PROVE l = m /\ d \in s.pending
  <2>1. s.task[l] \in Tasks
    BY <1>1 DEF States
  <2>2. s.task[l].at # "idle"
    BY <1>3, <2>1, TasksTyped, DeliveryConstants
  <2> QED
    BY <1>1, <1>3, <2>2 DEF InItsLane
<1>4. ASSUME NEW l \in Lanes, NEW i \in DOMAIN s.queue[l], s.queue[l][i].id = d
      PROVE  l = m /\ d \in s.pending
  BY <1>1, <1>4 DEF InItsLane
<1> HIDE DEF m
<1>5. ASSUME NEW h \in Holds(s, d)
      PROVE  /\ d \in s.pending /\ h[1] = m
             /\ \/ s.task[m].id = d /\ h = <<m, 0>>
                \/ \E i \in DOMAIN s.queue[m] : s.queue[m][i].id = d /\ h = <<m, i>>
  <2>1. CASE \E l \in Lanes : s.task[l].id = d /\ h = <<l, 0>>
    BY <1>3, <2>1
  <2>2. CASE \E l \in Lanes : \E i \in DOMAIN s.queue[l] :
               s.queue[l][i].id = d /\ h = <<l, i>>
    BY <1>4, <2>2
  <2> QED
    BY <2>1, <2>2, HoldsOf
<1>6. CASE d \notin s.pending
  <2>1. Holds(s, d) = {}
    BY <1>5, <1>6
  <2> QED
    BY <1>6, <2>1, FS_EmptySet
<1>7. CASE d \in s.pending
  <2>1. \E h : Holds(s, d) = {h}
    <3>1. CASE s.task[m].id = d
      <4>1. <<m, 0>> \in Holds(s, d)
        BY <1>2, <3>1, HoldsOf
      <4>2. \A i \in DOMAIN s.queue[m] : s.queue[m][i].id # d
        BY <1>1, <1>2, <3>1 DEF HeldOnce
      <4>3. \A h \in Holds(s, d) : h = <<m, 0>>
        BY <1>5, <4>2
      <4> QED
        BY <4>1, <4>3
    <3>2. CASE s.task[m].id # d
      <4>1. PICK i \in DOMAIN s.queue[m] : s.queue[m][i].id = d
        BY <1>1, <1>7, <3>2 DEF PendingIsHeld, m
      <4>2. <<m, i>> \in Holds(s, d)
        BY <1>2, <4>1, HoldsOf
      <4>3. \A j \in DOMAIN s.queue[m] : s.queue[m][j].id = d => j = i
        BY <1>1, <1>2, <4>1 DEF HeldOnce
      <4>4. \A h \in Holds(s, d) : h = <<m, i>>
        BY <1>5, <3>2, <4>3
      <4> QED
        BY <4>2, <4>4
    <3> QED
      BY <3>1, <3>2
  <2>2. Cardinality(Holds(s, d)) = 1
    BY <2>1, FS_Singleton
  <2> QED
    BY <1>5, <1>7, <2>2 DEF m
<1> QED
  BY <1>6, <1>7

\* enqueue(), pump() and the finally of a task keep the dispatcher's books, for
\* any number of lanes and slots: no lane with work is left out of the line, no
\* slot is free while one waits, and what is pending is held exactly once.
THEOREM DispatcherIsSound == Spec => []NoLaneStranded
<1>1. DeliveryInv => NoLaneStranded
  <2> SUFFICES ASSUME DeliveryInv, NEW g \in Gateways, NEW s, s = gw[g]
               PROVE  /\ ToSet(s.ready) = {l \in Lanes : s.queue[l] # <<>> /\ s.task[l].at = "idle"}
                      /\ IsInjective(s.ready)
                      /\ s.ready # <<>> => Active(s) = MaxConcurrency
                      /\ \A d \in Deliveries :
                           /\ Cardinality(Holds(s, d)) = IF d \in s.pending THEN 1 ELSE 0
                           /\ \A h \in Holds(s, d) : h[1] = LaneOf[d]
    BY DEF NoLaneStranded
  <2>1. Booked(s) /\ Pumped(s) /\ InLine(s) /\ s.ready \in Seq(Lanes)
    BY GatewayFacts DEF Booked, States
  <2>2. ToSet(s.ready) \subseteq Lanes
    BY <2>1 DEF ToSet
  <2>3. ToSet(s.ready) = {l \in Lanes : s.queue[l] # <<>> /\ s.task[l].at = "idle"}
        /\ IsInjective(s.ready)
    BY <2>1, <2>2 DEF InLine
  <2> QED
    BY <2>1, <2>3, HeldOncePerPending DEF Pumped
<1> QED
  BY <1>1, DeliveryInvHolds, PTL
=============================================================================

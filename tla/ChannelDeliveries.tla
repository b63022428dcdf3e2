--------------------------- MODULE ChannelDeliveries ---------------------------
(***************************************************************************)
(* Messages to chat channels: the table cloud_channel_deliveries           *)
(* (postgres-store-domains/channel-deliveries.ts), the stream that claims  *)
(* rows for a gateway (http-routes/channel-delivery-sse.ts), and the       *)
(* gateway process that sends them and acks                                *)
(* (apps/channel-gateway/src/gateway-runtime.ts).                          *)
(*                                                                         *)
(* A claim names the gateway instance, not the attempt, runs out after     *)
(* ClaimTTL and is never renewed, so that a delivery may be in a gateway's *)
(* hands several times over, or in two gateways' hands.  Acks are requests *)
(* in flight: the cloud may apply one that the gateway has given up on.    *)
(***************************************************************************)
EXTENDS Integers, FiniteSets, Sequences, FiniteSetsExt, SequencesExt

CONSTANTS
  Deliveries, Gateways, Lanes,
  LaneOf,               \* deliveryLaneKey: channel binding and target
  Outsets,              \* what the gateways find when they start: which of them
                        \* subscribes to which deliveries' bindings (served),
                        \* the outbox (row), and the disruptions spent before
  Creations,            \* the statuses that rows are created with
  Operations,           \* what an operator does: "failed" to retry, "dead"
  Nobody,               \* claimed_by IS NULL
  ClaimTTL,             \* DELIVERY_CLAIM_TTL_MS, in ticks
  RetryDelay,           \* deliveryRetryDelayMs, in ticks
  MaxAttempts,          \* MAX_DELIVERY_ATTEMPTS (5 in the code)
  MaxConcurrency,       \* maxConcurrency of the dispatcher
  MaxQueueDepth,        \* maxQueueDepth of the dispatcher
  CacheSize,            \* SENT_DELIVERY_CACHE_SIZE
  MaxFrames,            \* BOUND on the frames a stream holds
  MaxDisruptions        \* BOUND on lost answers, lost streams, crashes and the
                        \* operator's interventions, together

Statuses == {"absent", "pending", "claimed", "failed", "sent", "dead", "pruned"}

Rows == [status : Statuses, claimedBy : Gateways \cup {Nobody}, ttl : 0 .. ClaimTTL,
         delay : 0 .. RetryDelay, attempts : 0 .. MaxAttempts]

\* claimed_by is set only while the row is claimed
Consistent(r) == r.claimedBy # Nobody => r.status = "claimed"

ASSUME DeliveryConstants ==
  /\ LaneOf \in [Deliveries -> Lanes]
  /\ Creations \subseteq {"pending", "claimed", "sent", "failed", "dead"}
  /\ Operations \subseteq {"failed", "dead"}
  /\ \A o \in Outsets : /\ o.served \in [Gateways -> SUBSET Deliveries]
                        /\ o.row \in [Deliveries -> {r \in Rows : Consistent(r)}]
                        /\ o.disruptions \in 0 .. MaxDisruptions
  /\ Nobody \notin Gateways /\ Nobody \notin Deliveries
  /\ ClaimTTL \in Nat \ {0} /\ RetryDelay \in Nat /\ MaxAttempts \in Nat \ {0}
  /\ MaxConcurrency \in Nat \ {0} /\ MaxQueueDepth \in Nat \ {0}
  /\ MaxQueueDepth >= MaxConcurrency
  /\ CacheSize \in Nat \ {0}
  /\ MaxFrames \in Nat \ {0} /\ MaxDisruptions \in Nat

VARIABLES
  served,     \* the deployment: the deliveries of a gateway's channelBindingIds
  row,        \* cloud_channel_deliveries
  gw,         \* the memory of each gateway process
  acks,       \* ack requests the cloud has not handled yet
  delivered,  \* history: deliveries some provider accepted
  sends,      \* history: deliveries this gateway process has sent
  disruptions

vars == <<served, row, gw, acks, delivered, sends, disruptions>>

-----------------------------------------------------------------------------
(* The table *)

NoRow == [status |-> "absent", claimedBy |-> Nobody, ttl |-> 0, delay |-> 0,
          attempts |-> 0]

Exists(d) == row[d].status \notin {"absent", "pruned"}

\* POST /deliveries, with the status the caller asks for and the time of the
\* first attempt; nobody has claimed the row, whatever its status says.  A
\* second create with the same id does nothing.
CreateChannelDelivery(d, status, delay) ==
  /\ row[d].status = "absent"
  /\ row' = [row EXCEPT ![d] = [NoRow EXCEPT !.status = status, !.delay = delay]]
  /\ UNCHANGED <<served, gw, acks, delivered, sends, disruptions>>

\* Mutant of Claimable: a lapsed claim is not served again
ClaimableOnce(d) ==
  row[d].status \in {"pending", "failed"} /\ row[d].delay = 0

\* claim_expires_at is NULL where claimed_by is, and then never due
Claimable(d) ==
  \/ row[d].status \in {"pending", "failed"} /\ row[d].delay = 0
  \/ row[d].status = "claimed" /\ row[d].claimedBy # Nobody /\ row[d].ttl = 0

\* attempt_count, which only the comparison with MaxAttempts reads
OneMoreAttempt(n) == IF n < MaxAttempts THEN n + 1 ELSE n

\* One round of poll(): claim a due row and write it to the stream.  Rows
\* that another transaction has locked are skipped, so any due row may be
\* the next.  A claim whose stream is gone is ClaimNext and Disconnect.
ClaimNext(g, d) ==
  /\ d \in served[g]
  /\ Claimable(d)
  /\ Len(gw[g].frames) < MaxFrames
  /\ row' = [row EXCEPT ![d] = [status |-> "claimed", claimedBy |-> g, ttl |-> ClaimTTL,
                                delay |-> @.delay, attempts |-> OneMoreAttempt(@.attempts)]]
  /\ gw' = [gw EXCEPT ![g].frames = Append(@, [id |-> d, attempt |-> row'[d].attempts])]
  /\ UNCHANGED <<served, acks, delivered, sends, disruptions>>

\* UPDATE of ack(): what a row becomes, whoever asks for it
Settled(r, status, delay) ==
  [r EXCEPT !.status = status, !.claimedBy = Nobody, !.ttl = 0, !.delay = delay]

\* Mutant of Acks: the claimant is not compared
AcksAnyones(a) == Exists(a.id)

\* the ack's WHERE: the row is claimed by the gateway that acks
Acks(a) == row[a.id].claimedBy = a.by

\* retryChannelDelivery and deadLetterChannelDelivery: an operator's ack
\* names no claimant, so that the row may be in any state
OperatorSettles(d, status) ==
  /\ disruptions < MaxDisruptions
  /\ Exists(d)
  /\ row' = [row EXCEPT ![d] = Settled(@, status, 0)]
  /\ disruptions' = disruptions + 1
  /\ UNCHANGED <<served, gw, acks, delivered, sends>>

\* pruneTerminal, for rows past the retention's cutoff
PruneTerminal(d) ==
  /\ row[d].status \in {"sent", "dead"}
  /\ row' = [row EXCEPT ![d] = [NoRow EXCEPT !.status = "pruned"]]
  /\ UNCHANGED <<served, gw, acks, delivered, sends, disruptions>>

-----------------------------------------------------------------------------
(* The gateway's memory and its dispatcher *)

Idle == [id |-> Nobody, attempt |-> 0, at |-> "idle"]

Started ==
  [frames  |-> <<>>,                    \* written by the stream, not yet read
   queue   |-> [l \in Lanes |-> <<>>],  \* lane.queue
   task    |-> [l \in Lanes |-> Idle],  \* the handleDelivery a lane runs
   ready   |-> <<>>,                    \* readyLanes
   pending |-> {},                      \* pendingDeliveryKeys
   sent    |-> <<>>]                    \* sentDeliveryKeys, oldest first

Active(s) == Cardinality({l \in Lanes : s.task[l].at # "idle"})

Queued(s) == Cardinality(UNION {{l} \X DOMAIN s.queue[l] : l \in Lanes})

MarkReady(s, l) ==
  IF l \in ToSet(s.ready) THEN s ELSE [s EXCEPT !.ready = Append(@, l)]

\* pump(): the first ready lanes take the free slots.  The loop's two
\* "continue" branches are dead code: a ready lane has work and is not
\* running (NoLaneStranded).
Pump(s) ==
  LET k == Min({MaxConcurrency - Active(s), Len(s.ready)})
      starting == {s.ready[i] : i \in 1 .. k}
  IN  [s EXCEPT
        !.ready = SubSeq(@, k + 1, Len(@)),
        !.queue = [l \in Lanes |-> IF l \in starting THEN Tail(@[l]) ELSE @[l]],
        !.task  = [l \in Lanes |->
                     IF l \in starting
                     THEN [id |-> Head(s.queue[l]).id,
                           attempt |-> Head(s.queue[l]).attempt, at |-> "sending"]
                     ELSE @[l]]]

Copy(g) == Head(gw[g].frames)

Read(g) == [gw[g] EXCEPT !.frames = Tail(@)]

Ack(g, d, status, waiting) ==
  [by |-> g, id |-> d, status |-> status, waiting |-> waiting]

\* onDelivery of a delivery in the cache: it is acked again, not sent again,
\* and nobody waits for the answer
ReackSent(g) ==
  /\ gw[g].frames # <<>>
  /\ Copy(g).id \in ToSet(gw[g].sent)
  /\ gw' = [gw EXCEPT ![g] = Read(g)]
  /\ acks' = acks \cup {Ack(g, Copy(g).id, "sent", FALSE)}
  /\ UNCHANGED <<served, row, delivered, sends, disruptions>>

\* Mutant of DropDuplicate: the copy is acked as if it had been sent
DropDuplicateAcked(g) ==
  /\ gw[g].frames # <<>>
  /\ Copy(g).id \notin ToSet(gw[g].sent)
  /\ Copy(g).id \in gw[g].pending
  /\ gw' = [gw EXCEPT ![g] = Read(g)]
  /\ acks' = acks \cup {Ack(g, Copy(g).id, "sent", FALSE)}
  /\ UNCHANGED <<served, row, delivered, sends, disruptions>>

\* enqueue() of a copy of what is still queued or being sent
DropDuplicate(g) ==
  /\ gw[g].frames # <<>>
  /\ Copy(g).id \notin ToSet(gw[g].sent)
  /\ Copy(g).id \in gw[g].pending
  /\ gw' = [gw EXCEPT ![g] = Read(g)]
  /\ UNCHANGED <<served, row, acks, delivered, sends, disruptions>>

\* enqueue() at capacity: the copy is left unacked
Shed(g) ==
  /\ gw[g].frames # <<>>
  /\ Copy(g).id \notin ToSet(gw[g].sent) \cup gw[g].pending
  /\ Queued(gw[g]) >= MaxQueueDepth
  /\ gw' = [gw EXCEPT ![g] = Read(g)]
  /\ UNCHANGED <<served, row, acks, delivered, sends, disruptions>>

Enqueued(s, copy) ==
  LET l == LaneOf[copy.id]
      t == [s EXCEPT !.queue[l] = Append(@, copy), !.pending = @ \cup {copy.id}]
  IN  Pump(IF s.task[l].at = "idle" THEN MarkReady(t, l) ELSE t)

Enqueue(g) ==
  /\ gw[g].frames # <<>>
  /\ Copy(g).id \notin ToSet(gw[g].sent) \cup gw[g].pending
  /\ Queued(gw[g]) < MaxQueueDepth
  /\ gw' = [gw EXCEPT ![g] = Enqueued(Read(g), Copy(g))]
  /\ UNCHANGED <<served, row, acks, delivered, sends, disruptions>>

\* Mutant of Done: the lane is not marked ready again
DoneUnmarked(s, l) ==
  Pump([s EXCEPT !.task[l] = Idle, !.pending = @ \ {s.task[l].id}])

\* the finally of a task: the lane goes to the back of the line
Done(s, l) ==
  LET t == [s EXCEPT !.task[l] = Idle, !.pending = @ \ {s.task[l].id}]
  IN  Pump(IF s.queue[l] = <<>> THEN t ELSE MarkReady(t, l))

-----------------------------------------------------------------------------
(* handleDelivery *)

\* Mutant of Remember: a message sent is not recorded
RememberNot(s, d) == s

\* Mutant of Remember: nothing is evicted
RememberAll(s, d) ==
  [s EXCEPT !.sent = Append(RemoveFirst(@, d), d)]

\* rememberSentDelivery: re-inserted as the latest, the oldest one evicted
Remember(s, d) ==
  LET kept == Append(RemoveFirst(s.sent, d), d)
  IN  [s EXCEPT !.sent = IF Len(kept) > CacheSize THEN Tail(kept) ELSE kept]


At(g, l) == gw[g].task[l].at

\* sendDelivery returns; the send is recorded, then acked
SendSucceeds(g, l) ==
  LET d == gw[g].task[l].id IN
  /\ At(g, l) = "sending"
  /\ gw' = [gw EXCEPT ![g] = Remember([@ EXCEPT !.task[l].at = "acking"], d)]
  /\ acks' = acks \cup {Ack(g, d, "sent", TRUE)}
  /\ delivered' = delivered \cup {d}
  /\ sends' = [sends EXCEPT ![g] = @ \cup {d}]
  /\ UNCHANGED <<served, row, disruptions>>

\* shouldRetry of the catch block
Verdict(attempt, transient) ==
  IF transient /\ attempt < MaxAttempts THEN "failed" ELSE "dead"

\* the ack a task waits for
Waiting(g, d) == {a \in acks : a.by = g /\ a.id = d /\ a.waiting}

\* what is left of it when the task stops waiting
GivenUp(as, lost) ==
  IF lost THEN acks \ as
  ELSE (acks \ as) \cup {[a EXCEPT !.waiting = FALSE] : a \in as}

\* sendDelivery throws (or the delivery has no provider): classifyProviderFailure
SendFails(g, l, transient) ==
  LET t == gw[g].task[l] IN
  /\ t.at = "sending"
  /\ gw' = [gw EXCEPT ![g].task[l].at = "reporting"]
  /\ acks' = acks \cup {Ack(g, t.id, Verdict(t.attempt, transient), TRUE)}
  /\ UNCHANGED <<served, row, delivered, sends, disruptions>>

\* The cloud handles an ack (POST /ack, ack()).  Its answer ends the task,
\* but for the 404 of a 'sent' ack that matches no row: that lands in the
\* same catch block as a failed send, and 'dead' is acked.
ApplyAck(a) ==
  LET l == LaneOf[a.id]
      ends == Acks(a) \/ a.status # "sent"
  IN
  /\ a \in acks
  /\ row' = IF Acks(a)
            THEN [row EXCEPT ![a.id] =
                    Settled(@, a.status, IF a.status = "failed" THEN RetryDelay ELSE 0)]
            ELSE row
  /\ gw' = IF ~a.waiting THEN gw
           ELSE IF ends THEN [gw EXCEPT ![a.by] = Done(@, l)]
           ELSE [gw EXCEPT ![a.by].task[l].at = "reporting"]
  /\ acks' = (acks \ {a}) \cup
               IF a.waiting /\ ~ends THEN {Ack(a.by, a.id, "dead", TRUE)} ELSE {}
  /\ UNCHANGED <<served, delivered, sends, disruptions>>

\* so does a 'sent' ack that times out (transient) or fails on the network (not)
AckFails(g, l, lost, transient) ==
  LET t == gw[g].task[l] IN
  /\ disruptions < MaxDisruptions
  /\ t.at = "acking"
  /\ gw' = [gw EXCEPT ![g].task[l].at = "reporting"]
  /\ acks' = GivenUp(Waiting(g, t.id), lost)
               \cup {Ack(g, t.id, Verdict(t.attempt, transient), TRUE)}
  /\ disruptions' = disruptions + 1
  /\ UNCHANGED <<served, row, delivered, sends>>

\* the second ack fails too; the dispatcher swallows the error
ReportFails(g, l, lost) ==
  LET t == gw[g].task[l] IN
  /\ disruptions < MaxDisruptions
  /\ t.at = "reporting"
  /\ gw' = [gw EXCEPT ![g] = Done(@, l)]
  /\ acks' = GivenUp(Waiting(g, t.id), lost)
  /\ disruptions' = disruptions + 1
  /\ UNCHANGED <<served, row, delivered, sends>>

\* an ack nobody waits for is lost on the way
LoseAck(a) ==
  /\ disruptions < MaxDisruptions
  /\ a \in acks /\ ~a.waiting
  /\ acks' = acks \ {a}
  /\ disruptions' = disruptions + 1
  /\ UNCHANGED <<served, row, gw, delivered, sends>>

\* the stream breaks, is closed by its lifetime or rotated by the watchdog:
\* what it carried is lost, and the gateway subscribes again
Disconnect(g) ==
  /\ disruptions < MaxDisruptions
  /\ gw[g].frames # <<>>
  /\ gw' = [gw EXCEPT ![g].frames = <<>>]
  /\ disruptions' = disruptions + 1
  /\ UNCHANGED <<served, row, acks, delivered, sends>>

\* the process dies, or stop() runs out of its drain, and starts again with
\* the same instance id
Crash(g) ==
  /\ disruptions < MaxDisruptions
  /\ gw[g] # Started
  /\ gw' = [gw EXCEPT ![g] = Started]
  /\ acks' = {IF a.by = g THEN [a EXCEPT !.waiting = FALSE] ELSE a : a \in acks}
  /\ sends' = [sends EXCEPT ![g] = {}]
  /\ disruptions' = disruptions + 1
  /\ UNCHANGED <<served, row, delivered>>

Less(n) == IF n > 0 THEN n - 1 ELSE 0

Tick ==
  /\ \E d \in Deliveries : row[d].ttl > 0 \/ row[d].delay > 0
  /\ row' = [d \in Deliveries |->
               [row[d] EXCEPT !.ttl = Less(@), !.delay = Less(@)]]
  /\ UNCHANGED <<served, gw, acks, delivered, sends, disruptions>>

-----------------------------------------------------------------------------

Init ==
  /\ \E o \in Outsets : served = o.served /\ row = o.row /\ disruptions = o.disruptions
  /\ gw = [g \in Gateways |-> Started]
  /\ acks = {}
  /\ delivered = {d \in Deliveries : row[d].status = "sent"}
  /\ sends = [g \in Gateways |-> {}]

OnDelivery(g) == ReackSent(g) \/ DropDuplicate(g) \/ Shed(g) \/ Enqueue(g)

Sends(g, l) == SendSucceeds(g, l) \/ \E t \in BOOLEAN : SendFails(g, l, t)

Faults ==
  \/ \E g \in Gateways : Disconnect(g) \/ Crash(g)
  \/ \E g \in Gateways, l \in Lanes, lost \in BOOLEAN :
       ReportFails(g, l, lost) \/ \E t \in BOOLEAN : AckFails(g, l, lost, t)
  \/ \E a \in acks : LoseAck(a)

Next ==
  \/ \E d \in Deliveries :
       \/ \E s \in Creations, delay \in {0, RetryDelay} : CreateChannelDelivery(d, s, delay)
       \/ \E g \in Gateways : ClaimNext(g, d)
       \/ \E s \in Operations : OperatorSettles(d, s)
       \/ PruneTerminal(d)
  \/ \E g \in Gateways : OnDelivery(g)
  \/ \E g \in Gateways, l \in Lanes : Sends(g, l)
  \/ \E a \in acks : ApplyAck(a)
  \/ Faults
  \/ Tick

Spec == Init /\ [][Next]_vars

\* The stream polls and claims the longest due first; frames are read, a
\* provider answers or times out, requests are handled or fail.
FairSpec ==
  /\ Spec
  /\ \A d \in Deliveries : WF_vars(\E g \in Gateways : ClaimNext(g, d))
  /\ \A g \in Gateways : WF_vars(OnDelivery(g))
  /\ \A g \in Gateways, l \in Lanes : WF_vars(Sends(g, l))
  /\ WF_vars(\E a \in acks : ApplyAck(a))
  /\ WF_vars(Tick)

-----------------------------------------------------------------------------
(* Properties *)

Copies == [id : Deliveries, attempt : 1 .. MaxAttempts]

\* Type invariant.  Beyond the types: claimed_by is set only while the row is
\* claimed, and the dispatcher's and the cache's bounds are kept.
DeliveryTypeOK ==
  /\ served \in [Gateways -> SUBSET Deliveries]
  /\ row \in [Deliveries -> Rows]
  /\ \A d \in Deliveries : Consistent(row[d])
  /\ DOMAIN gw = Gateways
  /\ \A g \in Gateways :
       /\ gw[g].frames \in Seq(Copies) /\ Len(gw[g].frames) <= MaxFrames
       /\ gw[g].queue \in [Lanes -> Seq(Copies)] /\ Queued(gw[g]) <= MaxQueueDepth
       /\ gw[g].task \in [Lanes -> {Idle} \cup
            [id : Deliveries, attempt : 1 .. MaxAttempts,
             at : {"sending", "acking", "reporting"}]]
       /\ Active(gw[g]) <= MaxConcurrency
       /\ gw[g].ready \in Seq(Lanes)
       /\ gw[g].pending \subseteq Deliveries
       /\ gw[g].sent \in Seq(Deliveries) /\ Len(gw[g].sent) <= CacheSize
  /\ acks \subseteq [by : Gateways, id : Deliveries,
                     status : {"sent", "failed", "dead"}, waiting : BOOLEAN]
  /\ delivered \subseteq Deliveries
  /\ sends \in [Gateways -> SUBSET Deliveries]
  /\ disruptions \in 0 .. MaxDisruptions

\* A row marked sent was accepted by a provider, unless it was created so and
\* never claimed (attempt_count 0): no duplicate, stale copy or late ack marks
\* a delivery sent that never went out.
SentMeansDelivered ==
  \A d \in Deliveries :
    row[d].status = "sent" /\ row[d].attempts > 0 => d \in delivered

\* A gateway process sends a delivery again only if its cache of sent
\* deliveries (SENT_DELIVERY_CACHE_SIZE) has overflowed since it started,
\* whatever lapsed claims, failed acks and operators make the cloud serve.
NoSecondSend ==
  \A g \in Gateways, l \in Lanes :
    At(g, l) = "sending" /\ gw[g].task[l].id \in sends[g]
      => Cardinality(sends[g]) > CacheSize

Holds(s, d) ==
  {l \in Lanes : s.task[l].id = d} \X {0}
    \cup UNION {{l} \X {i \in DOMAIN s.queue[l] : s.queue[l][i].id = d} : l \in Lanes}

\* The dispatcher's book-keeping: exactly the lanes that have work and are
\* not running wait in line, once each; no slot is free while one waits; and
\* each pending delivery is held exactly once, in its own lane.
NoLaneStranded ==
  \A g \in Gateways :
    LET s == gw[g] IN
    /\ ToSet(s.ready) = {l \in Lanes : s.queue[l] # <<>> /\ s.task[l].at = "idle"}
    /\ IsInjective(s.ready)
    /\ s.ready # <<>> => Active(s) = MaxConcurrency
    /\ \A d \in Deliveries :
         /\ Cardinality(Holds(s, d)) = IF d \in s.pending THEN 1 ELSE 0
         /\ \A h \in Holds(s, d) : h[1] = LaneOf[d]

\* A settled delivery stays settled: only an operator or retention takes a
\* row out of sent or dead, never a late ack of an earlier claimant.
SettledStays ==
  [][\A d \in Deliveries :
       row[d].status \in {"sent", "dead"} /\ row'[d].status # row[d].status
         => row'[d].status = "pruned" \/ \E s \in Operations : OperatorSettles(d, s)]_vars

InHand(g, d) ==
  \/ d \in gw[g].pending
  \/ \E i \in DOMAIN gw[g].frames : gw[g].frames[i].id = d
  \/ \E a \in acks : a.by = g /\ a.id = d

\* a claim runs out while its gateway is at work on it
LapsesInHand ==
  \E d \in Deliveries :
    /\ row[d].ttl = 1 /\ row'[d].ttl = 0 /\ row'[d].status = "claimed"
    /\ InHand(row[d].claimedBy, d)

\* Every delivery that some gateway serves is settled, through crashes, lost
\* streams, sheds and lapsed claims, if the claim's TTL "exceeds a worst-case
\* single send" (gateway-runtime.ts:350) from some time on: two gateways that
\* are always too slow take the claim from each other for ever.
DeliveriesSettle ==
  <>[][~LapsesInHand]_vars =>
    \A d \in Deliveries :
      row[d].status \in {"pending", "failed"} /\ d \in UNION Range(served)
        ~> row[d].status \in {"sent", "dead", "pruned"}

\* gateway-runtime.ts:701, "if the 'sent' ack fails the cloud will re-serve
\* this id": a delivery that reached the provider is not dead-lettered by
\* the gateway that sent it.
DeliveredIsNotDead ==
  \A d \in Deliveries : row[d].status = "dead" => d \notin delivered
=============================================================================

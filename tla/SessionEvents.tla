----------------------------- MODULE SessionEvents -----------------------------
(***************************************************************************)
(* The events of one session, from the runtime to the transcript that     *)
(* clients read:                                                           *)
(*   - the subscription to the runtime's durable events                    *)
(*     (opencode-runtime-adapter.ts), with its cursor, its reconnecting    *)
(*     stream and the monitor that reads the rest of the history before    *)
(*     it reports the session idle;                                        *)
(*   - the coalescer of text deltas (runtime-delta-coalescer.ts) and the   *)
(*     retrying route behind it (cloud-runtime-event-router.ts);           *)
(*   - the append with its projection, the cache of views and the          *)
(*     launchpad summary (session-projection-service.ts and                *)
(*     postgres-store-domains/sessions.ts), which the commands of the      *)
(*     session and an operator's repair use at the same time.              *)
(*                                                                         *)
(* One execution of one session in one worker process, other processes     *)
(* appending too.  An atom is one event as it was produced: the runtime's  *)
(* i-th event is i.  An event of the log is the sequence of atoms it was   *)
(* coalesced from, named by the first, and a view is the fold of a log:    *)
(* here the sequence of its atoms.                                         *)
(***************************************************************************)
EXTENDS Integers, FiniteSets, Sequences, SequencesExt

CONSTANTS
  Script,               \* the runtime's events: the message of a text delta,
                        \* or Boundary
  Boundary,
  Asks,                 \* questions and permissions the runtime asks for
  Writers,              \* commands and requests that append an event each
  Resolves,             \* the ask that a writer's event resolves, if any
  Casts,                \* the sets of asks and writers that take part
  Runtime,              \* the route of runtime events, an appender as well
  Worker,               \* the process it runs in
  ProcOf,               \* the process of an appender
  MaxDisruptions        \* BOUND on failed statements, streams and writers and
                        \* on repairs

Events == 1 .. Len(Script)
IdleEvent == Len(Script) + 1
Timer == 0                          \* the operation a timer enqueues
Appenders == Writers \cup {Runtime}
Procs == {ProcOf[a] : a \in Appenders}

ASSUME EventConstants ==
  /\ Len(Script) \in Nat /\ IsFiniteSet(Asks)
  /\ Writers \cup Asks \subseteq {n \in Nat : n > IdleEvent}
  /\ Writers \cap Asks = {} /\ Runtime \notin Writers
  /\ DOMAIN Resolves \subseteq Writers /\ \A w \in DOMAIN Resolves : Resolves[w] \in Asks
  /\ DOMAIN ProcOf = Appenders /\ ProcOf[Runtime] = Worker
  /\ Casts \subseteq SUBSET (Asks \cup Writers)
  /\ MaxDisruptions \in Nat

VARIABLES
  running,    \* the runtime has not come to the end of its script
  asked,      \* what it has asked
  cursor,     \* lastSequence of the subscription
  stream,     \* the next event the stream delivers, 0 while disconnected
  ingest,     \* the event being delivered and the loop that awaits it
  monitor,    \* where monitorAdmittedSession stands
  ops,        \* the coalescer's operations on the session, in order
  pending,    \* the deltas it has buffered
  armed,      \* their timer is running
  act,        \* the appends under way
  log,        \* cloud_session_events
  projection, \* cloud_session_projections
  cache,      \* viewCache of each process
  summary,    \* cloud_launchpad_session_summaries: the open asks
  repair,     \* repairSessionProjection
  dropped,    \* history: deltas and asks whose route gave up
  swallowed,  \* history: events whose route resolved without storing them
  overtaken,  \* history: the newest summary was lost or overwritten
  written,    \* history: the sequence of the summary's view
  disruptions

subscription == <<running, asked, cursor, stream, ingest, monitor>>
coalescer == <<ops, pending, armed, dropped, swallowed>>
store == <<log, projection, summary, overtaken, written>>
vars == <<subscription, coalescer, act, store, cache, repair, disruptions>>

-----------------------------------------------------------------------------
(* The runtime and the subscription to its events *)

\* When an event is recorded makes no difference but that it may be read
\* from then on: the stream may be late, and session.wait waits for the end.
RuntimeEnds ==
  /\ running
  /\ running' = FALSE
  /\ UNCHANGED <<asked, cursor, stream, ingest, monitor, coalescer, act, store, cache, repair, disruptions>>

\* An ask is not recorded: it comes on the stream of all sessions, whose loop
\* calls the listener beside the session's own chain.
AskHeard(q) ==
  /\ running /\ q \notin asked
  /\ asked' = asked \cup {q}
  /\ ops' = Append(ops, q)
  /\ UNCHANGED <<running, cursor, stream, ingest, monitor, pending, armed, dropped, swallowed, act, store, cache, repair, disruptions>>

\* that stream is being reconnected
AskMissed(q) ==
  /\ disruptions < MaxDisruptions
  /\ running /\ q \notin asked
  /\ asked' = asked \cup {q}
  /\ dropped' = dropped \cup {q}
  /\ disruptions' = disruptions + 1
  /\ UNCHANGED <<running, cursor, stream, ingest, monitor, ops, pending, armed, swallowed, act, store, cache, repair>>

\* durableStreamLoop: session.events after the cursor
Connect ==
  /\ stream = 0
  /\ stream' = cursor + 1
  /\ UNCHANGED <<running, asked, cursor, ingest, monitor, coalescer, act, store, cache, repair, disruptions>>

\* the stream ends between two events
Disconnect ==
  /\ disruptions < MaxDisruptions
  /\ stream # 0 /\ ingest.by # "stream"
  /\ stream' = 0
  /\ disruptions' = disruptions + 1
  /\ UNCHANGED <<running, asked, cursor, ingest, monitor, coalescer, act, store, cache, repair>>

NoIngest == [event |-> 0, by |-> "none"]

\* ingestDurableEvent of an event at or below the cursor
SkipKnown ==
  /\ ingest.by = "none"
  /\ stream # 0 /\ stream <= cursor
  /\ stream' = stream + 1
  /\ UNCHANGED <<running, asked, cursor, ingest, monitor, coalescer, act, store, cache, repair, disruptions>>

\* Mutant of Ingest: the cursor moves before the listener has returned
IngestAtOnce(i, by) ==
  /\ ingest.by = "none"
  /\ i > cursor /\ i <= Len(Script)
  /\ ingest' = [event |-> i, by |-> by]
  /\ cursor' = i
  /\ ops' = Append(ops, i)
  /\ UNCHANGED <<running, asked, stream, monitor, pending, armed, dropped, swallowed, act, store, cache, repair, disruptions>>

\* the events of the stream and of the history share one chain, ingestTail
Ingest(i, by) ==
  /\ ingest.by = "none"
  /\ i > cursor /\ i <= Len(Script)
  /\ ingest' = [event |-> i, by |-> by]
  /\ ops' = Append(ops, i)
  /\ UNCHANGED <<running, asked, cursor, stream, monitor, pending, armed, dropped, swallowed, act, store, cache, repair, disruptions>>

StreamDelivers == stream # 0 /\ Ingest(stream, "stream")

\* monitorAdmittedSession: session.wait returns and nothing is active
WatchIdle ==
  /\ monitor = "watch"
  /\ ~running
  /\ monitor' = "history"
  /\ UNCHANGED <<running, asked, cursor, stream, ingest, coalescer, act, store, cache, repair, disruptions>>

\* reconcileSessionHistory: the pages after the cursor
HistoryDelivers == monitor = "history" /\ Ingest(cursor + 1, "history")

\* Mutant of Reconciled: the history is not read
ReconciledNot == TRUE

Reconciled == cursor = Len(Script)

\* deliverAuthoritativeIdle, which goes straight to the listener
DeliverIdle ==
  /\ monitor = "history" /\ ingest.by # "history"
  /\ Reconciled
  /\ monitor' = "idle"
  /\ ops' = Append(ops, IdleEvent)
  /\ UNCHANGED <<running, asked, cursor, stream, ingest, pending, armed, dropped, swallowed, act, store, cache, repair, disruptions>>

\* the listener's promise settles: what its caller does then
Resolved(op) ==
  /\ IF op = ingest.event
     THEN /\ cursor' = op
          /\ stream' = IF ingest.by = "stream" THEN stream + 1 ELSE stream
          /\ ingest' = NoIngest
     ELSE UNCHANGED <<cursor, stream, ingest>>
  /\ monitor' = IF op = IdleEvent THEN "settled" ELSE monitor
  /\ UNCHANGED <<running, asked>>

\* Mutant of Rejected: a monitor whose idle was rejected is not started again
RejectedForGood(op) ==
  /\ IF op = ingest.event
     THEN /\ stream' = IF ingest.by = "stream" THEN 0 ELSE stream
          /\ ingest' = NoIngest
     ELSE UNCHANGED <<stream, ingest>>
  /\ monitor' = IF op = ingest.event /\ ingest.by = "history" THEN "watch" ELSE monitor
  /\ UNCHANGED <<running, asked, cursor>>

Rejected(op) ==
  /\ IF op = ingest.event
     THEN /\ stream' = IF ingest.by = "stream" THEN 0 ELSE stream
          /\ ingest' = NoIngest
     ELSE UNCHANGED <<stream, ingest>>
  /\ monitor' = IF op = IdleEvent \/ (op = ingest.event /\ ingest.by = "history")
                THEN "watch" ELSE monitor
  /\ UNCHANGED <<running, asked, cursor>>

-----------------------------------------------------------------------------
(* The coalescer *)

IsDelta(i) == i \in Events /\ Script[i] # Boundary

NoAct == [pc |-> "none", entry |-> <<>>, view |-> <<>>, seq |-> 0]

Done == [NoAct EXCEPT !.pc = "done"]

Starting(entry) == [NoAct EXCEPT !.pc = "commit", !.entry = entry]

Op == Head(ops)

\* it works on one operation at a time and is not waiting for a route
Turn == ops # <<>> /\ act[Runtime].pc = "none"

Joins(op) ==
  IsDelta(op) /\ (IF pending = <<>> THEN TRUE ELSE Script[op] = Script[Head(pending)])

\* a delta starts a buffer or joins it; its handle() returns at once
Buffer ==
  /\ Turn /\ Joins(Op)
  /\ pending' = Append(pending, Op)
  /\ armed' = (armed \/ pending = <<>>)
  /\ ops' = Tail(ops)
  /\ Resolved(Op)
  /\ UNCHANGED <<dropped, swallowed, act, store, cache, repair, disruptions>>

\* Mutant of TimerFires: the timer repeats
TimerFiresAgain ==
  /\ armed
  /\ ops' = Append(ops, Timer)
  /\ UNCHANGED <<subscription, pending, armed, dropped, swallowed, act, store, cache, repair, disruptions>>

\* the 60 ms timer of the buffer enqueues a flush
TimerFires ==
  /\ armed
  /\ armed' = FALSE
  /\ ops' = Append(ops, Timer)
  /\ UNCHANGED <<subscription, pending, dropped, swallowed, act, store, cache, repair, disruptions>>

\* Mutant of MustFlush: only a timer or another message flushes
MustFlushNotBoundary(op) == pending # <<>> /\ (op = Timer \/ (IsDelta(op) /\ ~Joins(op)))

\* what the operation cannot join goes before it
MustFlush(op) == pending # <<>> /\ ~Joins(op)

FlushSession ==
  /\ Turn /\ MustFlush(Op)
  /\ act' = [act EXCEPT ![Runtime] = Starting(pending)]
  /\ pending' = <<>>
  /\ armed' = FALSE
  /\ UNCHANGED <<subscription, ops, dropped, swallowed, store, cache, repair, disruptions>>

RouteBoundary ==
  /\ Turn /\ ~MustFlush(Op) /\ ~IsDelta(Op) /\ Op # Timer
  /\ act' = [act EXCEPT ![Runtime] = Starting(<<Op>>)]
  /\ UNCHANGED <<subscription, coalescer, store, cache, repair, disruptions>>

TimerEnds ==
  /\ Turn /\ Op = Timer /\ pending = <<>>
  /\ ops' = Tail(ops)
  /\ UNCHANGED <<subscription, pending, armed, dropped, swallowed, act, store, cache, repair, disruptions>>

-----------------------------------------------------------------------------
(* appendProjectedEvent *)

Known(entry) == \E n \in DOMAIN log : log[n][1] = entry[1]

\* Mutant of Warm: whatever is cached is current
WarmAlways(p) == cache[p].seq > 0

\* the cached view is the stored one
Warm(p) == cache[p].seq = projection.seq

CurrentView(p) == IF Warm(p) THEN cache[p].view ELSE projection.view

\* The transaction: an event id seen before is replayed; a new event takes
\* the next sequence number and is folded into the view.
Commit(a) ==
  LET entry == act[a].entry
      next == [seq |-> Len(log) + 1, view |-> CurrentView(ProcOf[a]) \o entry]
  IN
  /\ act[a].pc = "commit"
  /\ IF Known(entry)
     THEN UNCHANGED <<log, projection>>
     ELSE /\ log' = Append(log, entry)
          /\ projection' = next
  /\ act' = [act EXCEPT ![a] = [@ EXCEPT !.pc = "cache", !.seq = projection'.seq,
                                         !.view = projection'.view]]
  /\ UNCHANGED <<subscription, coalescer, summary, overtaken, written, cache, repair, disruptions>>

\* cacheView, once the transaction has returned
CacheView(a) ==
  /\ act[a].pc = "cache"
  /\ cache' = [cache EXCEPT ![ProcOf[a]] = [seq |-> act[a].seq, view |-> act[a].view]]
  /\ act' = [act EXCEPT ![a].pc = "summary"]
  /\ UNCHANGED <<subscription, coalescer, store, repair, disruptions>>

\* pendingApprovals and pendingQuestions of a view
Open(view) ==
  {i \in Asks : /\ i \in ToSet(view)
                /\ \A w \in DOMAIN Resolves : Resolves[w] = i => w \notin ToSet(view)}

\* upsertCloudLaunchpadSessionSummary: a transaction of its own, which does
\* not look at the sequence
Upsert(seq, view) ==
  /\ summary' = Open(view)
  /\ overtaken' = (seq < written \/ (overtaken /\ seq < projection.seq))
  /\ written' = seq
  /\ UNCHANGED <<log, projection>>

\* The runtime's route returns; the coalescer goes on with its operation, or
\* is done with it.
RouteReturns ==
  /\ act[Runtime].pc = "summary"
  /\ Upsert(act[Runtime].seq, act[Runtime].view)
  /\ act' = [act EXCEPT ![Runtime] = NoAct]
  /\ IF act[Runtime].entry = <<Op>>
     THEN ops' = Tail(ops) /\ Resolved(Op)
     ELSE UNCHANGED <<ops, subscription>>
  /\ UNCHANGED <<pending, armed, dropped, swallowed, cache, repair, disruptions>>

\* What was not stored by an earlier attempt either is stored by none.
Swallows(entry) == IF Known(entry) THEN swallowed ELSE swallowed \cup ToSet(entry)

\* The route returns and nobody is told that it stored nothing: the session is
\* gone, or the worker shuts down, has no lease of the session or one of another
\* execution, or its lease is stale.  A later event may find it with a lease.
RouteSwallows ==
  /\ disruptions < MaxDisruptions
  /\ act[Runtime].pc = "commit"
  /\ disruptions' = disruptions + 1
  /\ swallowed' = Swallows(act[Runtime].entry)
  /\ overtaken' = (overtaken \/ Known(act[Runtime].entry))
  /\ act' = [act EXCEPT ![Runtime] = NoAct]
  /\ IF act[Runtime].entry = <<Op>>
     THEN ops' = Tail(ops) /\ Resolved(Op)
     ELSE UNCHANGED <<ops, subscription>>
  /\ UNCHANGED <<pending, armed, dropped, log, projection, summary, written, cache, repair>>

\* Mutant of RouteErrors: a retried event that is already stored returns early
RouteErrorsStored ==
  /\ disruptions < MaxDisruptions
  /\ act[Runtime].pc # "none"
  /\ disruptions' = disruptions + 1
  /\ IF Known(act[Runtime].entry)
     THEN /\ act' = [act EXCEPT ![Runtime] = NoAct]
          /\ IF act[Runtime].entry = <<Op>>
             THEN ops' = Tail(ops) /\ Resolved(Op)
             ELSE UNCHANGED <<ops, subscription>>
     ELSE /\ act' = [act EXCEPT ![Runtime].pc = "commit"]
          /\ UNCHANGED <<ops, subscription>>
  /\ UNCHANGED <<pending, armed, dropped, swallowed, store, cache, repair>>

\* A statement fails, or its answer is lost: the route is tried again, up to
\* six times.
RouteErrors ==
  /\ disruptions < MaxDisruptions
  /\ act[Runtime].pc # "none"
  /\ disruptions' = disruptions + 1
  /\ act' = [act EXCEPT ![Runtime].pc = "commit"]
  /\ UNCHANGED <<subscription, coalescer, store, cache, repair>>

\* what a rejected operation is tried again for
Redelivered == {Op} \ Asks

\* The last attempt fails (any failure may be the sixth in a row) and the
\* operation with it, so that the buffer it was flushing is gone and the event
\* it was for has not been looked at.
RouteGivesUp ==
  /\ disruptions < MaxDisruptions
  /\ act[Runtime].pc # "none"
  /\ disruptions' = disruptions + 1
  /\ dropped' = IF Known(act[Runtime].entry) THEN dropped
                ELSE dropped \cup (ToSet(act[Runtime].entry) \ Redelivered)
                             \cup ({Op} \cap Asks)
  /\ overtaken' = (overtaken \/ act[Runtime].pc # "commit" \/ Known(act[Runtime].entry))
  /\ act' = [act EXCEPT ![Runtime] = NoAct]
  /\ ops' = Tail(ops)
  /\ Rejected(Op)
  /\ UNCHANGED <<pending, armed, swallowed, log, projection, summary, written, cache, repair>>

\* A command appends that a question is resolved, a request that an artifact
\* has been uploaded; the latter tries again under the same event id.  Clients
\* answer what they are shown, which is the projection's open questions.
WriterStarts(w) ==
  /\ act[w].pc = "none"
  /\ w \in DOMAIN Resolves => Resolves[w] \in Open(projection.view)
  /\ act' = [act EXCEPT ![w] = Starting(<<w>>)]
  /\ UNCHANGED <<subscription, coalescer, store, cache, repair, disruptions>>

WriterReturns(w) ==
  /\ act[w].pc = "summary"
  /\ Upsert(act[w].seq, act[w].view)
  /\ act' = [act EXCEPT ![w] = Done]
  /\ UNCHANGED <<subscription, coalescer, cache, repair, disruptions>>

\* it dies or fails; what it has committed stays
WriterFails(w) ==
  /\ disruptions < MaxDisruptions
  /\ act[w].pc \notin {"none", "done"}
  /\ disruptions' = disruptions + 1
  /\ overtaken' = (overtaken \/ act[w].pc # "commit" \/ Known(<<w>>))
  /\ act' = [act EXCEPT ![w] = NoAct]
  /\ UNCHANGED <<subscription, coalescer, log, projection, summary, written, cache, repair>>

-----------------------------------------------------------------------------
(* repairSessionProjection *)

NoRepair == [pc |-> "none", view |-> <<>>, seq |-> 0]

\* the log is read in batches and folded; nothing is locked
RepairReads ==
  /\ disruptions < MaxDisruptions
  /\ repair.pc = "none" /\ log # <<>>
  /\ repair' = [pc |-> "write", seq |-> Len(log), view |-> FlattenSeq(log)]
  /\ disruptions' = disruptions + 1
  /\ UNCHANGED <<subscription, coalescer, act, store, cache>>

\* writeSessionProjection: the sequence must be monotonic
Writable(r) == r.seq >= projection.seq

RepairWrites ==
  /\ repair.pc = "write" /\ Writable(repair)
  /\ projection' = [seq |-> repair.seq, view |-> repair.view]
  /\ repair' = [repair EXCEPT !.pc = "summary"]
  /\ UNCHANGED <<subscription, coalescer, act, log, summary, overtaken, written, cache, disruptions>>

\* it is too old, or a worker holds the session's lease (SessionStore)
RepairRefused ==
  /\ repair.pc = "write"
  /\ repair' = NoRepair
  /\ UNCHANGED <<subscription, coalescer, act, store, cache, disruptions>>

RepairReturns ==
  /\ repair.pc = "summary"
  /\ Upsert(repair.seq, repair.view)
  /\ repair' = NoRepair
  /\ UNCHANGED <<subscription, coalescer, act, cache, disruptions>>

-----------------------------------------------------------------------------

Init ==
  /\ running = TRUE /\ cursor = 0 /\ stream = 0
  /\ ingest = NoIngest
  /\ monitor = "watch"
  /\ ops = <<>> /\ pending = <<>> /\ armed = FALSE
  /\ \E cast \in Casts :
       /\ asked = Asks \ cast
       /\ act = [a \in Appenders |-> IF a \in Writers \ cast THEN Done ELSE NoAct]
  /\ log = <<>>
  /\ projection = [seq |-> 0, view |-> <<>>]
  /\ cache = [p \in Procs |-> [seq |-> 0, view |-> <<>>]]
  /\ summary = {}
  /\ repair = NoRepair
  /\ dropped = {} /\ swallowed = {} /\ overtaken = FALSE /\ written = 0
  /\ disruptions = 0

Subscribes == Connect \/ SkipKnown \/ StreamDelivers
Monitors == WatchIdle \/ HistoryDelivers \/ DeliverIdle
Coalesces == Buffer \/ FlushSession \/ RouteBoundary \/ TimerEnds
Appends(a) == Commit(a) \/ CacheView(a)
Repairs == RepairWrites \/ RepairRefused \/ RepairReturns

Next ==
  \/ RuntimeEnds
  \/ \E q \in Asks : AskHeard(q) \/ AskMissed(q)
  \/ Subscribes \/ Disconnect
  \/ Monitors
  \/ Coalesces \/ TimerFires
  \/ \E a \in Appenders : Appends(a)
  \/ RouteReturns \/ RouteSwallows \/ RouteErrors \/ RouteGivesUp
  \/ \E w \in Writers : WriterStarts(w) \/ WriterReturns(w) \/ WriterFails(w)
  \/ RepairReads \/ Repairs

Spec == Init /\ [][Next]_vars

\* Loops run on, timers fire, statements end or fail; the runtime, the users
\* and the operator owe nothing.
FairSpec ==
  /\ Spec
  /\ WF_vars(Subscribes) /\ WF_vars(Monitors)
  /\ WF_vars(Coalesces) /\ WF_vars(TimerFires)
  /\ WF_vars(Appends(Runtime) \/ RouteReturns)

-----------------------------------------------------------------------------
(* Properties *)

Atoms == Events \cup {IdleEvent} \cup Asks \cup Writers

\* Type invariant; the coalescer's queue holds at most one event of the
\* session's stream or the idle, what was asked and two flushes, however long
\* the runtime streams.
EventsTypeOK ==
  /\ running \in BOOLEAN /\ cursor \in 0 .. Len(Script)
  /\ stream \in 0 .. Len(Script) + 1
  /\ ingest \in [event : 0 .. Len(Script), by : {"none", "stream", "history"}]
  /\ monitor \in {"watch", "history", "idle", "settled"}
  /\ asked \subseteq Asks
  /\ ops \in Seq({Timer} \cup Atoms) /\ Len(ops) <= 3 + Cardinality(Asks)
  /\ pending \in Seq(Events) /\ armed \in BOOLEAN
  /\ \A a \in Appenders :
       /\ act[a].pc \in {"none", "commit", "cache", "summary", "done"}
       /\ act[a].entry \in Seq(Atoms) /\ act[a].view \in Seq(Atoms)
       /\ act[a].seq \in 0 .. Len(log)
  /\ log \in Seq(Seq(Atoms))
  /\ projection.seq \in 0 .. Len(log)
  /\ summary \subseteq Asks
  /\ dropped \subseteq Events \cup Asks
  /\ swallowed \subseteq Events \cup {IdleEvent} \cup Asks

FromRuntime == Events \cup {IdleEvent}

\* The stored transcript has the runtime's events in the order in which they
\* were produced, each at most once, through coalescing, timers, retries
\* after a lost answer, and redelivery by the stream and the history.
TranscriptInOrder ==
  LET t == FlattenSeq(log) IN
  \A i, j \in DOMAIN t :
    i < j /\ t[i] \in FromRuntime /\ t[j] \in FromRuntime => t[i] < t[j]

\* An event the cursor has passed is stored, unless its own route resolved
\* without storing it; only a text delta may still be buffered, on its way, or
\* lost because its own route gave up.
CursorIsSafe ==
  \A i \in 1 .. cursor :
    \/ i \in ToSet(FlattenSeq(log)) \cup swallowed
    \/ IsDelta(i) /\ i \in ToSet(pending) \cup ToSet(act[Runtime].entry) \cup dropped

\* When a session is reported idle its transcript is complete: every event of
\* the execution is stored, but for lost deltas and for events whose own route
\* resolved without storing them.
IdleComesLast ==
  IdleEvent \in ToSet(FlattenSeq(log)) =>
    Events \subseteq ToSet(FlattenSeq(log)) \cup dropped \cup swallowed

\* The projection is the fold of the whole log, whichever process appended
\* with whichever cached view and whatever a repair wrote meanwhile, and
\* every cached view is the fold of a prefix.
ProjectionIsFold ==
  /\ projection = [seq |-> Len(log), view |-> FlattenSeq(log)]
  /\ \A p \in Procs :
       cache[p].view = FlattenSeq(SubSeq(log, 1, cache[p].seq))

\* At rest the launchpad shows what the transcript leaves open, unless an
\* older summary has overwritten a newer one or one was lost.
SummaryFollows ==
  (\A a \in Appenders : act[a].pc \in {"none", "done"}) /\ repair.pc = "none" /\ ~overtaken
    => summary = Open(projection.view)

\* A session whose runtime has come to its end is reported idle, unless the
\* route of the idle itself resolves without storing it.
SessionGoesIdle ==
  ~running ~> IdleEvent \in ToSet(FlattenSeq(log)) \cup swallowed
=============================================================================

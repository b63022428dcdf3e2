# Open Cowork Cloud: a TLA+ model of work distribution, events and delivery

Open Cowork runs OpenCode agent sessions. In its cloud form
(`packages/cloud-server`) a Postgres control plane keeps sessions, a queue of
commands per session and one lease per session; worker processes claim
leases, execute commands in a runtime, checkpoint the workspace to an object store
and acknowledge the command. Everything that makes this hard happens between
processes: leases expire while their holder still works, workers crash or shut down,
answers get lost, timers, runtime events and HTTP requests interleave in one worker.
What a session does is appended to an event log and folded into a transcript; web processes
stream the log to clients that come and go. Workflows start sessions on a schedule, and
gateways carry messages to chat channels from an outbox. This project models these five parts, checks
them with TLC, and proves with TLAPS every safety property that the runs check, for all values of the constants; liveness is checked by TLC only.

## 1. Inventory

Paths are relative to `src/packages/cloud-server/src` unless they start with `src/`.
`PROJECT.json` lists every component with its sources and status.

| Component | State it keeps | Operations | Interacts through | What makes it correct |
|---|---|---|---|---|
| Session, lease and command tables (`postgres-store-domains/sessions.ts`, `session-command-recovery.ts`) | session status, lease and command counters; one lease row per session (holder, token, expiry, checkpoint version); command rows (status, claim, attempts, availability) | create, enqueue, claim/renew/release a lease, checkpoint, reap, recover, claim next, ack, checkpoint-and-ack, fail, defer | one transaction per method, called by workers, HTTP handlers, the reaper | fencing by lease token; settled commands stay settled; at most one attempt per lease; no command lost |
| Quotas (`postgres-store-domains/quotas.ts`) | counts over the tables | queue quota, active worker quota, list of runnable sessions | inside the store's transactions | limits hold across renewals |
| Cloud worker (`worker.ts`) | lease cache, active commands, shutdown flags | process a session, loop, renewal timer, append a runtime event, shutdown | the store, the runtime adapter, the checkpoint store | a command is executed by one activation per lease; ack only after the checkpoint; nothing left behind at a crash or shutdown |
| Command execution (`session-execution-operations.ts`) | none | execute a command, append a runtime event, append a failure | the store (fenced), the runtime | failure order: mark the session, then the command |
| Checkpoint store (`workspace-checkpoint-store.ts`) | manifests, latest manifest per session | save, read, restore | the object store | the latest manifest covers acked work |
| Runtime adapter (`worker-scoped-runtime-adapter.ts`) | runtimes by session, permits, closing generations | provision, use, evict, close | execution scopes of the worker | no use of a closed runtime; capacity |
| Session events and projections (`opencode-runtime-adapter.ts`, `runtime-delta-coalescer.ts`, `cloud-runtime-event-router.ts`, `session-projection-service.ts`, `sessions.ts`) | subscription cursor, delta buffer, event log, projection with a sequence, cached views, launchpad summary | subscribe, coalesce, route with retries, append and project, repair | runtime streams, commands, uploads, operators | transcript in the runtime's order and complete at idle; projection is the fold of the log; a session goes idle |
| Event streaming (`http-sse-streams.ts`, `sse-replay.ts`, `session-event-bus.ts`, `sse-pg-notify.ts`) | a writer position per connection, topics with their subscribers' positions, connections per organisation | connect, catch up, publish, poll, wake, close, shut down | the event tables, the in-process bus, NOTIFY | no silent gap over any number of connections; never back; a stream that stays open catches up; slots are returned |
| Workflows and scheduler (`scheduler.ts`, `session-workflow-operations.ts`, `postgres-store-domains/workflows.ts`, `workflow-definitions.ts`) | definitions with status and next slot, runs with start claims and attempts | create, pause, run, claim due runs and retries, attach, enqueue, finish, reap | scheduler loops, requests, the worker that has the run's session | one open run per workflow; a slot starts once; finished runs are final; a run starts or ends |
| Channel deliveries (`postgres-store-domains/channel-deliveries.ts`, `http-routes/channel-delivery-sse.ts`) and the channel gateway (`src/apps/channel-gateway/src/gateway-runtime.ts`) | outbox rows with claims and retries; sent cache, lanes, slots of a gateway | create, claim, ack, retry, dead-letter, prune; receive, enqueue, send, report | the delivery stream, ack requests, operators | sent means delivered; no second send by one process; settled rows stay settled; deliveries settle |
| Channel interactions, provider events | inbound rows | record, deduplicate | gateways | deduplicated input |
| Artifact uploads | reservations against a quota | reserve, finalise, expire | object store | quota and publication agree |
| Managed worker registry (`postgres-store-domains/workers.ts`) | lifecycle state per worker | register, drain, pause, retire, revoke | admin API | transitions of the lifecycle |
| Progress watchdog | decisions by generation and revision | observe, recover | worker | a stale decision does nothing |
| Identity, policy, billing, settings | single rows | create, read, update, delete | API | authorisation (not a state-machine question) |
| Runtime host, desktop, UI, clients, gateways, `src/products/*`, `src/mcps/*` | local | - | - | outside the control plane |

The hard behaviours: a lease that expires while its holder works (`worker.ts:861`
clears the renewal timer before the checkpoint is saved); two activations of one
worker that share a lease; a save in the object store that is separate from the ack in
the database; conflicting checkpoint versions; lost answers; a shutdown that recovers
leases under running lanes; clocks that disagree about expiry; a stream fed by three overlapping sources
while retention deletes what they read; a cursor that passes text which is only buffered; a transcript written by several
processes with a cache each; a starter that dies between two of its transactions while another takes over; acks that
arrive after the claim they belong to. `PROJECT.json` lists them
as hazards, each at its line with the properties aimed at it.

## 2. Modules

| Module | Contents |
|---|---|
| `SessionStore` | the three tables and every method that changes them; safety properties |
| `SessionStoreProofs` | the inductive invariant and the theorems about `SessionStore` |
| `CloudWorker` | worker processes running against `SessionStore`, the object store, crashes and shutdowns; its properties, fairness and refinement of the store |
| `CloudWorkerProofs` | the invariants and the theorems about `CloudWorker`, its refinement of the store included |
| `EventStream` | the event streams of one web process: writer, replay hub, bus, connections, resuming clients; its properties and fairness |
| `EventStreamProofs` | the inductive invariant and the theorems about `EventStream` |
| `WorkQueue` | what the store promises its users: a first-in first-out queue per session with one holder at a time |
| `WorkQueueProofs` | the proof that `SessionStore` implements `WorkQueue` |
| `SessionEvents` | one session's events from the runtime to the stored transcript; its properties and fairness |
| `SessionEventsProofs` | the fold of a log, the invariants and the theorems about `SessionEvents` |
| `Workflows` | workflow definitions, runs, their starters, the reaper and the ends a worker writes; its properties and fairness |
| `WorkflowsProofs` | the inductive invariant and the theorems about `Workflows` |
| `ChannelDeliveries` | the delivery outbox and the gateways that empty it; its properties and fairness |
| `ChannelDeliveriesProofs` | the inductive invariant and the theorems about `ChannelDeliveries` |
| `MCSessionStore`, `MCCloudWorker`, `MCEventStream`, `MCSessionEvents`, `MCWorkflows`, `MCChannelDeliveries` | instances for TLC: small sets, session, lane and topic assignments, symmetry |

### SessionStore

`session`, `lease` and `command` are the tables `cloud_sessions`, `cloud_worker_leases`
and `cloud_session_commands`, one record per row (`NoLease` and status `"absent"` for a
row that is not there). Each repository method is one Postgres transaction that locks
the rows it uses, so each is one action. A method that throws or returns null changes
nothing and has no action.

Time is relative: a lease keeps the ticks it has left, a deferred command the ticks it
still waits, and `Tick` lets one pass. Each call judges expiry with the caller's clock,
`d` ticks off true time for any `d` in `-Skew..Skew`; a caller behind may extend a lease less
than it thinks, one ahead may take over a lease that is still good.

`Next` lets anybody present any lease copy that could ever have been issued, in any state. A worker
process is one such caller. `target_lease_token` is left out because no producer sets it; so
are payloads, error texts, audit rows and usage counters.

The token is the pair (attempt, worker): the session id in the code's string is the key of
the row it is stored in.

Abstractions to know of: of the session's status, `closed` is left out, which nothing in the cloud server writes; `updateSessionStatus` is modelled with a lease token,
which its one caller passes (`session-execution-operations.ts:595`); the queue quota counts commands, while its limits on the age of the queue and on usage are left out, which only permits more; `CurrentLease` judges
expiry in the transaction, while the code reads its clock just before it has the row lock, which is a caller whose clock is behind (`d < 0`).

### CloudWorker

A *lane* is one activation of `processSessionCommands` or `appendRuntimeEvent`; its `pc` names
the await it stands before. What the code does between two awaits, a store call included,
is one step. The lane steps follow the code:

* `StartLane` (loop or HTTP request) -> `renew` or `claim` -> `next` -> `reserve` -> `exec` -> `run`
  -> `save` -> `put` -> `ack` -> `next` or end, with `retry` after a version conflict and `failing`
  after an error;
* `evRenew` -> `evAppend` -> `evCheckpoint` (`evRetry`) -> `evSave` -> `evPut` for a runtime event;
* `LaneThrows`: any call can throw, because the lease is stale or because the service is
  unavailable; the activation ends, the command stays running and the cache keeps the lease, as in the code.

`TimerRenew`/`TimerRenewFails` and `TimerApply` are the two halves of a renewal by the timer of
`executeWithLeaseRenewal`: the commit in the store and the arrival of the answer, between which the
lane may end, be aborted or start something else.

`leases` is the cache (`Touched` evicts beyond `MaxLeases`; which of the others is the oldest is left
open), `warm` the sessions with a runtime, `workspace` the files, as the set of commands whose
effects they contain. `latest` and `archive` are the object store: the manifest under the
latest key, and the union of all manifests. A save collects the files in one step and puts the
manifest in another, and neither reads the lease, as in `saveSessionCheckpoint`.

A worker is `up`, `draining` (`beginShutdown`), `recovering`, `releasing` (the two halves of
`completeShutdown`) or `stopped`; `Crash` may come at any time and may take the disk with it; `Restart`
starts a new process under the same id.

Abstractions to know of: one timer renewal in flight per lane; what a failed or aborted command did to
the files is not tracked; an unexpected exit of a runtime is an error of the command followed by an
eviction; the reaper's batches take any subset of the expired rows; a shutdown recovers the leases of
active lanes in any order. The answer to a lane's own ack or renewal arrives in the step of its commit (`LaneAck`, `LaneRenew`: the cache is touched then),
and the timer fires in the step in which its renewal commits (`TimerRenew`); the errors of these calls are `LaneAckLost`, `LaneThrows`, `LaneRenewFails` and `TimerRenewFails`. `LaneThrows` leaves `claim` out: one that throws before its commit leaves the activation where it began, and
one whose answer is lost leaves a lease nobody knows of, as a crash after the claim does.

### EventStream

Events are their sequence numbers: the session row (or the user's counter row) is locked while the counter is
incremented, so they commit in order and `1..latest` is the table's history, of which `pruned` is what
retention has deleted. Retention goes by `created_at`, which writers supply, so it may delete any row. `unpublished`
are the events that this process has committed and not yet put on its bus; those of other processes never get there.

A connection (`conn`) is `cursor` while `getSessionEventCursor` is awaited, `drain` while a catch-up page is, then
`live`. `last` is the writer's `lastSequence`, `seen` the sequences it wrote (or passed over because their type is
unknown), `snaps` the `latestSequence` of each `snapshot.required`. A topic of the hub holds its subscribers (`subs`)
and the `lastSequence` of each (`at`), its own `last`, and the poll in flight (`after`, `rows`). A query is evaluated when it is issued, and its rows are applied when
it returns; every other stretch between two awaits is one step, so `PollReturns` includes the next poll that the
`finally` block starts, and `GoLive` the subscription to bus and hub with the poll that this requests.

`client` is what each client has over all its connections. When a connection ends, the frames up to an arbitrary
sequence have arrived (`Received`); the next connection resumes after the id of the last of them, which for a
`snapshot.required` is the sequence before the gap. A client that gets a `snapshot.required` is taken to fetch the snapshot,
which covers everything up to its `latestSequence`. Clients do not acknowledge anything: the browser's `EventSource` is external.

`Restart` includes the case of a catch-up read that rejects: the headers are sent by then, so `writeError` throws
inside the `catch` of `CloudHttpServer.handle`, and the rejected promise that `void this.handle(...)` drops ends
the process. The session and the workspace handler are the same code over different tables; a model instance with one
topic is either.

### WorkQueue

An item is absent, open, held or done. Whoever takes an item has not got it yet, and holds or finds done everything before it in the line; a holder may give an item back or
finish it, another may take it over, and what is done stays as it is. `QueueEntry` in `SessionStore` maps a command row to that: pending is open, running is held by the
lease token in the row, acked and failed are done; the line is the session's and the place is the sequence number that `enqueueSessionCommand` gave. Leases, clocks, deferrals, attempts limits and
quotas do not appear, so a caller of the store can rely on the queue without knowing them.

### SessionEvents

An execution of the runtime is a `Script` of text deltas (named by their message) and boundary events; its i-th event is the atom `i`. An event of the log
is the sequence of atoms it was coalesced from and is identified by the first, as the store identifies it by its event id; a view is
the sequence of atoms folded into it. So "the projection is the fold of the log" and "the transcript is in order" are statements about sequences of
atoms, and what the reducer computes from them is left out.

The subscription has a cursor (`lastSequence`), a stream that delivers from `stream` on, and the one event that is being awaited
(`ingest`), by the stream or by the history: `ingestTail` lets them in one at a time. `ops` is the chain of `enqueueSession`: events, the idle, asks of the
global stream and flushes of the timer, in the order in which they were enqueued. Its head may need two routes (flush, then itself);
`act[Runtime]` is the route under way, with the awaits `commit`, `cache`, `summary`. A statement may fail at each of them or commit and lose its answer
(`RouteErrors`), and any failure may be the sixth in a row (`RouteGivesUp`), which rejects the operation and with it the listener's promise (`Rejected`).

Beside it, `Writers` append events of their own: the reply to a question in the same process and a finished upload in another, which
has its own view cache; and an operator repairs the projection, from a log read without a lock. `dropped`, `overtaken` and `written` are history variables:
text and asks that were lost for good, and summaries that were written out of order.

A route may also resolve without storing anything (`RouteSwallows`): `routeRuntimeEvent` returns when the session is unknown, and does not look at the boolean of
`appendRuntimeEvent`, which is false on a shutdown, without a cached lease, with the lease of another execution and with a stale one (`worker.ts:364-387`). For the listener that is success: the cursor
passes the event, and an idle counts as settled. It can happen to one event and not to the next, because the worker may claim the session again in between. `swallowed` records those events, and
`CursorIsSafe`, `IdleComesLast` and `SessionGoesIdle` say that nothing else is missing.

Abstractions to know of: a route's last statement and its return are one step; `HistoryDelivers` assumes that the client has `session.history` (`opencode-runtime-adapter.ts:772` skips it otherwise, and then the stream alone
delivers, as it may here); a reply is written only to a question that was asked, which the code leaves to the runtime.

### Workflows

`workflow` and `run` are the tables; a run's start claim is the number of the attempt, since each claim makes a new random token and increments
`attempt_count`. A *starter* is an activation of `startWorkflowRun`, on behalf of a scheduler or a request, whose `pc` names the await before
which it stands: `create` (requests only), `start` (the start is allowed, the session created and the run attached to it), `enqueue`, `fail`. It may be abandoned
before any of them. `prompt` is what the session queue (`SessionStore`) has of the run's prompt command, and `ending` what a worker has read of the workflow and
is about to write with the last event of the session. A user's update of the status is two steps as well: `UpdateWorkflowStatus` reads a clock and computes the next slot, `SetWorkflowStatus` writes it whenever it gets
there, without a guard (`updates` holds those on their way). `resumed` and `rearmed` are history variables: workflows that a user set to active while a run was open, or for a slot that was used by then. Instants are integers, `SlotsOf` the schedule, and every call reads a clock that is at most
`Skew` off.

### ChannelDeliveries

`row` is the table; `gw[g]` the memory of a gateway process: frames not yet read, the dispatcher's lanes, ready line, pending set and the cache of sent
deliveries; `acks` the requests on their way. A task is `sending`, `acking` (awaits the ack of `sent`) or `reporting` (awaits the ack of `failed` or `dead`).
A gateway that stops waiting for an ack leaves the request behind, which the cloud may still handle. A claim belongs to the gateway instance and not to the attempt,
so the ack of an earlier attempt passes as that of the present one; that is the code. `served` is the deployment, which gateway
subscribes to which bindings; `Outsets` are the deployments of an instance, with the outbox that the gateways find: any rows of the table in which only a claimed
one names a claimant (`Consistent`, what every statement writes). `delivered` starts with the rows that are sent.
A row is created in whatever status the request names (`channel-deliveries.ts:86`, `http-routes/channels.ts:372`): `Creations` are the statuses of an instance. A row created `claimed` has no claim columns, so that its
claim never expires and only an operator gets it moving; one created `sent` was delivered by nobody, which is why `SentMeansDelivered` speaks of rows that were claimed (`attempt_count > 0`).

## 3. Runs

| Run | Instance | What it shows |
|---|---|---|
| `store_fencing` | 1 session, 2 workers, 2 commands, 3 leases, skew 1 | types, one attempt per lease, settled is final, only the holder decides; the tables implement `WorkQueue` |
| `worker_failover` | 2 workers with a lane each, 1 command, 2 leases, 1 fault, 1 timer renewal | a lane that has the lease owns its command; acked implies checkpointed; worker steps refine `SessionStore` |
| `worker_lanes` | 2 sessions, 1 worker, 2 lanes, 2 commands, cache of 1 lease, quota of 1 live lease, requests and loop | no command twice under one lease; copies of a lease never ahead of the row; the cache's bound and the active worker quota; with an event and commands that save at the same time, an acked command leaves the latest checkpoint only if an older snapshot was still to be put at its ack |
| `worker_liveness` | 1 worker, 2 commands, 3 leases, 1 fault | the latest checkpoint contains every acked command; every command settles, every session comes to rest |
| `stream_resume` | 1 client, 4 events (one of an unknown type), pages of 2, 1 fault | no silent gap over any number of reconnects, writers never go back |
| `stream_replay` | 2 clients of one topic, pages of 1, 1 fault | every slot is returned, an open stream passes every retained event |
| `session_events` | 3 deltas of 2 messages and a boundary, an idle; a question with its reply in the same process, or an upload in another; 1 disruption | order and completeness of the transcript, a safe cursor, idle last, projection and caches are folds, the summary follows, the session goes idle |
| `workflow_runs` | 1 workflow, 2 runs, a scheduler and a request, 2 attempts, 1 disruption, no skew | types, one open run, one claimant, a slot once, finished is final, runs start |
| `deliveries` | one gateway with a delivery in each of 2 lanes, each with an attempt left, 2 gateways that race for one, or 3 deliveries that an operator retried; rows created in any status; queue, slots and cache of 1, claims of 1 tick, 2 attempts, 1 disruption | sent means delivered, no second send by a process, no stranded lane, settled stays, deliveries settle |
| `stale_overwrite` | 2 workers, 1 command, 2 leases | **violated**: see findings |
| `workflow_skew` | 1 workflow, 2 runs, skew 1 | **violated**: see findings |
| `delivery_dead` | 1 delivery, 1 gateway | **violated**: see findings |

Bounds. `MaxLeaseAttempts` bounds the leases of a session: two are enough for a takeover, three for a
takeover of a takeover with a retry in between. `TTL = 1` and `RetryAfter = 1` suffice because only the
order of deadlines matters; `MaxAttempts = 2` makes both the retry and the failure of a recovered command
happen. `MaxCheckpointVersion` is never smaller than the commands plus the events, so that it blocks no
ack. `MaxFaults`, `MaxEvents` and `MaxRenewals` bound crashes and shutdowns, runtime events and timer renewals;
two workers, two lanes and two commands are the smallest numbers at which they can get in each
other's way. `store_fencing` varies the clock skew; the worker runs use synchronised clocks, since a lease
may expire at any step anyway.

The streams: four events with pages of two give a full page followed by a partial one, a hole before, inside and after a
page, and an unknown type next to each; two events with pages of one let a page of one subscriber be in flight while another
joins behind or before it. The number of connections of a client is not bounded. One topic is enough for TLC: topics share only the
event table, and the theorems hold for any number of them.

`session_events`: two deltas of one message followed by one of another and a boundary give every way a buffer ends (timer, other
message, boundary); one disruption is a failed statement, a lost answer, a route that gives up or resolves without storing, a broken stream, a missed ask, a failed writer or
a repair, at any point. `workflow_runs`: two runs are the smallest number at which a workflow can be started twice, and one attempt more than the
first makes both the retry and the failure of a reaped claim happen; one disruption is a status update, an abandoned starter or a lost lease. `deliveries`: two lanes with one slot
make one of them wait in line while the other works, and evict from a cache of one; three deliveries in a queue of one make the shedding happen; two gateways with the same delivery are what it takes for a claim to be taken over.
`CHECK_DEADLOCK FALSE` stands in these instances because a session that has gone idle, or an outbox that has been emptied, has nothing left to do.

Symmetry: workers are interchangeable in the store, lanes within one worker, and workers together with their
lanes in `worker_failover`, and sessions together with their commands in `worker_lanes`. It is not used with liveness. `SavesInOrderCover`, an implication between two invariants, is checked with it in `worker_lanes`: it assumes no fairness, and
neither side names a session, a command or a lane. Two workers that take a session from each other were checked for it outside the listed runs (two commands, two leases, a runtime event); its theorem covers them. Ids of runs are taken in one order (`Fresh` in `Workflows`), which
does to runs what a symmetry would and may be used with liveness.

Fairness (`Fairness` in `CloudWorker`), assumed only in `worker_liveness`: time passes; a lane at work takes its
next step (database, object-store and runtime calls return or throw); answers to renewals arrive; the loop of a
worker that is up picks up a runnable session and reaps (`setInterval` in `cloud-role-loops.ts`); a shutdown goes
through its steps and the process is restarted by its supervisor. Nothing is assumed of HTTP requests, events
or faults, and a step may always be an error: the liveness properties therefore say that a command settles *or* all the
leases of the model were used up on it. A runtime call that never returns is outside the assumption; the code leaves that case
to the progress watchdog.

In `EventStream` the fairness is: the interval timer of a topic fires, a query that was issued returns (or the stream ends), and a
request gets past its cursor lookup or is refused. Polls may fail, at most `MaxFaults` times, and nothing is assumed of the bus, of
NOTIFY, of clients or of retention; `StreamsCatchUp` therefore holds with the notifications switched off altogether.

In `SessionEvents`: the loops of the subscription, the monitor and the coalescer go on, the timer fires, and the statements of a route return
or fail. Nothing is assumed of the runtime, of users, writers and repairs. In `Workflows`: time passes, starters go on, the scheduler's loop reaps, and it does not overlook a
retryable run for ever (strong fairness, because a status update may take the run out of its sight in between, and `SKIP LOCKED` hides rows only
while another transaction holds them). In `ChannelDeliveries`: streams claim what is due (`ORDER BY next_attempt_at`, so that no row is passed over for ever), frames are read, providers answer or time out, ack requests are handled or fail, and time passes;
`DeliveriesSettle` further assumes what the code does (`gateway-runtime.ts:351`), that from some time on no claim lapses while its gateway is at work on it: without that two slow gateways
take a delivery from each other for ever, as TLC shows.

Each property has a mutant in `PROJECT.json`: a definition changed the way a plausible bug would change it, kept beside the
original under the comment "Mutant of", under which the run finds the property violated.

### Findings

`stale_overwrite`. `docs/managed-workers.md:305` promises that "a stale worker cannot overwrite checkpoint metadata after lease
loss". In the code the checkpoint is saved before the fenced ack, the save does not read the lease, and no renewal runs
meanwhile. TLC's trace: the first worker executes the command and starts saving; its lease expires; the second worker claims
the session; the first puts its manifest under the latest key. Its ack is then rejected, so no command is
acked wrongly (`AckedHasManifest` holds), but the latest manifest is the stale worker's.
For the same reason `CheckpointCoversAcked` is checked as it stands for a single worker with a single lane; with two, and without a further condition, TLC finds it violated: a save that collected its files before a
command was executed may be put after the command's ack. `SavesInOrderCover` says what suffices: that at no ack anything lags (`NothingLags`).

`workflow_skew`. `docs/managed-workers.md:579`: "clock skew can delay work but must not duplicate it". The next slot is computed from the clock of the host that
ends the run (`session-workflow-operations.ts:813`). If that clock is still before the slot for which the run was started, the same slot comes next, and a scheduler
starts a second run of it. The idempotency key that names the slot (`workflows.ts:316`) is stored but never compared. With synchronised clocks the slot fires once,
but for the case below (`SlotFiresOnce`).

`delivery_dead`. `gateway-runtime.ts:701`: "if the 'sent' ack fails the cloud will re-serve this id". The ack stands in the same `try` as the send, so that its error is
classified as a failure of the provider; errors of the network and a 404 are not transient, and the gateway acks the delivery `dead`, which ends it. The message was delivered once, but an
operator sees a dead letter, and retrying it is answered from the cache of sent deliveries or sends it again.

### What the exceptions stand for

Some properties hold but for a case that the code permits, and that a document of the repository can be read to exclude. The exception is a history variable; TLC shows the case when it is left out.

`SlotFiresOnce` excepts `rearmed`. An update of the status to active computes the next slot (`session-workflow-operations.ts:394-403`), and the transaction that writes it (`workflow-definitions.ts:233`) compares it with nothing. If
the slot is claimed and its run prompted and ended in between, the update arms it again, and it is prompted a second time, with clocks that agree. `docs/coordination-model.md:191` wants that "schedules and watches do not
double-fire across replicas".

`CursorIsSafe`, `IdleComesLast` and `SessionGoesIdle` except `swallowed`. When the worker has no valid lease, a route resolves without storing its event (see `SessionEvents` above), and the cursor advances; a reconnect then carries more
than what `opencode-runtime-adapter.ts:748` calls "the last durably persisted aggregate sequence", and an idle that is swallowed leaves the session running.

## 4. Proofs

### The store

`SessionStoreProofs` proves, for any sets of sessions, workers and commands and any values of the constants that satisfy
`StoreConstants`:

| Theorem | Property |
|---|---|
| `TypeCorrect` | `TypeOK` |
| `NewestLease` | `LeaseIsNewest` |
| `ClaimAccounting` | `ClaimsAreAccounted` |
| `AtMostOneAttempt` | `OneAttemptPerLease` |
| `SettledForever` | `SettledIsFinal` |
| `HolderDecides` | `OnlyTheHolderDecides` |
| `FreshTokens` | `TokensAreFresh` |
| `QuotaHolds` | `ActiveWorkerQuota` |

The inductive invariant `IInv` is the conjunction of the four state properties. None of the last three is inductive by itself: that a command's
attempts stay below the number of leases needs to know that the row is the newest lease
(`LeaseIsNewest`), that a claim stores the row's token, and that tokens in command rows belong to issued leases
(`ClaimsAreAccounted`). Lemmas state what a claim, a recovery and a settlement do to a single row; the step lemma has one case per
action of `Next`. The action properties follow from `IInv` and one step. The quota is an induction of its own, on the number of sessions whose lease is live: only a claim adds one, after counting,
and with synchronised clocks a lease that has expired cannot come back by a renewal.

`WorkQueueProofs` proves `StoreIsAQueue`: `Spec => ImplementsQueue`, the refinement of `WorkQueue` by the tables. Its invariant adds to `IInv` that sequence numbers in the
session's line were issued by the session's counter (`PlacesIssued`), which is why an enqueued command goes to the end. Each action is shown to be a step of the queue or to leave
it alone: a claim of the next command is a take, a deferral and a recovery give back, an ack or a failure removes, a release and a takeover change the holder.

### The streams

`EventStreamProofs` proves, for any finite set of clients, any users, any page size, any connection limit and any number of events and
failures (`StreamConstants`):

| Theorem | Property |
|---|---|
| `NoSilentGapHolds` | `NoSilentGap` |
| `ReplayNotAheadHolds` | `ReplayNotAhead` |
| `TopicsAreNeededHolds` | `TopicsAreNeeded` |
| `SlotsReturnedHolds` | `SlotsReturned` |
| `NeverGoesBackHolds` | `NeverGoesBack` |
| `StreamTypesHold` | `StreamTypeOK` |

`NoSilentGap` is not inductive: it says nothing of the rows that are on their way. The invariant (`IInv`) adds

* `Complete`: a catch-up page or a poll in flight holds every row between its start and each of its rows, except those in `pruned`
  (`RowsFacts`; a deletion after the query only makes `pruned` larger);
* `ReplayNotAhead`, `TopicsAreNeeded` and, for a catch-up, `page <= last`: a page never starts beyond the writer it is given to. That
  matters where the writer does not look for holes, at the first event of a client without a cursor (`lastSequence > 0` in
  `writeIfNew`): there the page starts at 0, and what it leaves out was deleted;
* `WriterOK`: the sequences at which a writer stopped lie between its start and its position (`Ordered`), every number that it
  passed before an event is written, behind a snapshot, or deleted before the first event (`Explained`), and a
  `snapshot.required` never carries the id 0 (`SnapsFollow`), which would make its client start over as one without a cursor;
* `ClientOK`: the same for what a client has when its connection is gone; `ReceivedOK` derives it from `WriterOK` for a connection
  cut at any frame.

`WriteRowsOK` is the heart: writing any rows keeps `WriterOK`, provided that the rows of a writer at 0 are complete from 0. Every
source of a stream is then an instance of `WritesIInv`, `CatchUpIInv` or `GoLiveIInv`, and every end of a connection of `EndIInv`. `IInv` was
checked as an invariant of `stream_resume` and `stream_replay` before it was proved. `WriteRows` gives the effect of a page in closed form; the lemma `WriteEachIsWriteRows` shows that it is what the code's
loop computes, which calls `writeIfNew` row by row.

### The workflows

`WorkflowsProofs` proves, for any sets of workflows, runs, schedulers and requests, any schedule and any clock skew (`WorkflowConstants`):

| Theorem | Property |
|---|---|
| `WorkflowTypesHold` | `WorkflowTypeOK` |
| `OneOpenRunHolds`, `OpenRunHoldsWorkflowHolds` | `OneOpenRun`, `OpenRunHoldsWorkflow` |
| `OneClaimantHolds` | `OneClaimant` |
| `PromptFollowsAttachHolds` | `PromptFollowsAttach` |
| `SlotFiresOnceHolds` | `SlotFiresOnce` |
| `FinishedIsFinalHolds` | `FinishedIsFinal` |

`StepEffect` first reduces every action to one of twelve effects on the rows (`Effect`: a workflow is set, a run is created, retried, attached, ended or reaped, ...), with
the types settled there; the layers of the invariant `IInv` are then preserved effect by effect.
`OneOpenRun` needs `OpenRunHoldsWorkflow`, which is what the guards of the starters look at, and the other way round: an end makes the workflow active, which is right only if
no other run is open. `PromptFollowsAttach` needs to know that a starter about to enqueue has an attached run, and that only a prompted run has an ending prepared.
`SlotFiresOnce` needs `SlotsOK`: the slots that were used have passed, so a next slot computed at any later time is a new one; a next slot that a worker has computed and not yet
written stays new, because the run it belongs to is still open and keeps the workflow from starting another. The next slot of a user's update has no such protection, and is new when it is written or the workflow is `rearmed`.
A skew of zero and the two exceptions `resumed` and `rearmed` are what it assumes; `workflow_skew` shows that the first is needed.
`IInv` was checked with TLC on the instance of `workflow_runs` with one tick more, without and with skew, before it was proved.

### The workers

`CloudWorkerProofs` proves, for any sets of sessions, commands, workers and lanes, any assignment of lanes to workers and any bounds (`WorkerConstants`, which besides the ranges of the
bounds asks only that "no checkpoint" is not a set of commands):

| Theorem | Property |
|---|---|
| `CopiesAreIssued` | `CopiesComeFromTheStore` |
| `WorkersImplementStore` | `ImplementsStore` |
| `WorkerTypeCorrect` | `WorkerTypeOK` |
| `LanesOwnTheirCommands`, `ExecutionIsExclusive` | `LaneOwnsItsCommand`, `ExclusiveExecution` |
| `AckedIsSaved` | `AckedHasManifest` |
| `LatestCoversAcked` | `SavesInOrderCover`, that is `CheckpointCoversAcked` as long as `NothingLags` |

`SessionStore` lets anybody present any lease copy that could have been issued; a worker presents what it has kept. The refinement therefore rests on `CopyInv`: every copy in a cache, a lane,
a renewal in flight or a shutdown list names its worker, an attempt that the session has issued and a checkpoint version that the row has reached. Each worker action is then a step of the store, and what
`SessionStoreProofs` and `WorkQueueProofs` say of `Spec` holds of `WorkerSpec`. The invariants come in layers, each proved from the ones before: `CopyInv`; `OwnInv` (a lane that works under the row's
lease has the command's claim, and no two lanes of one lease have the same command, which follows from one attempt per lease and is kept by reserve, retry and detach); `ManifestInv` (the lane's command is in the workspace from the save on,
in the snapshot at the put, in the archive at the ack); `CoverInv` (whatever is used, collected or waits to be put contains every acked command: the workspace of a warm runtime, the snapshots, the latest checkpoint). For `CoverInv` a step may
assume `NothingLags`: an acked command is then in everything that is still to be put, and in the workspace of every runtime that is still warm. `NothingLags` is a condition on states and not on the number of lanes, so the theorem holds for concurrent saves by
events and commands too, and says that an acked command is lost only after something lagged at an ack. The properties and the invariants were checked on the worker runs first.

### Session events

`SessionEventsProofs` proves, for any script of the runtime, any finite set of asks, any writers, processes and casts and any number of disruptions (`EventConstants`):

| Theorem | Property |
|---|---|
| `ProjectionFolds` | `ProjectionIsFold` |
| `SummaryIsCurrent` | `SummaryFollows` |
| `EventsTypeCorrect` | `EventsTypeOK` |
| `TranscriptKeepsOrder` | `TranscriptInOrder` |
| `CursorSkipsNothing` | `CursorIsSafe` |
| `IdleIsLast` | `IdleComesLast` |

A view is `FlattenSeq(log)`, a recursive function; `SetInduction` and the lemmas up to `FlattenAppend` show that an event appended to the log is appended to its fold. The invariants, each proved from the ones before and all checked
with TLC on the instance of `session_events` first:

* `Shapes`; `FoldInv`: every view with a sequence number, in the projection, a cache, an append under way or a repair, is the fold of that prefix of the log (`Snapshot`), so that two with the same number are equal and it does not matter whose cache is used;
* `SummaryInv`: the summary belongs to the view that was `written`, and unless a summary was lost or overtaken the newest view is written or on its way;
* `FeedInv`, `LineInv`, `TimerInv`: of the runtime there is one event in the coalescer's line, the one after the cursor; every ask stands in it at most once; with an armed timer counted as a flush, one flush at most stands behind an event and two in all (the one its timer has enqueued, and one left behind by a buffer that was flushed before). The bound on the line (`LineIsShort`) is a count of these;
* `RouteInv`: a buffer, pending or being flushed, holds deltas in their order that the cursor has passed, and the coalescer awaits either a flush or the operation at its head;
* `OrderInv`: what is stored of the runtime lies at or below the cursor but for the next event, which may have been committed by a route that then gave up, under its own id, and never as a part of a buffer; what is pending or being flushed
  comes after all that is stored, or is stored already and will be replayed. From this a commit appends behind the transcript, and an idle that is stored finds nothing buffered.

### Channel deliveries

`ChannelDeliveriesProofs` proves, for any deliveries, lanes, gateways and limits and any consistent outbox to start with (`DeliveryConstants`):

| Theorem | Property |
|---|---|
| `DeliveryTypeCorrect` | `DeliveryTypeOK` |
| `SentWasDelivered` | `SentMeansDelivered` |
| `SendsOnce` | `NoSecondSend` |
| `SettledDeliveriesStay` | `SettledStays` |
| `DispatcherIsSound` | `NoLaneStranded` |

`DeliveryInv` joins the rows, the dispatcher, the acks and what was sent. The dispatcher's book-keeping (`Booked`: the line, the lanes, what is held once and pending, the limits, and that nothing in a queue is in the cache of sent deliveries)
is shown of each operation on a gateway by itself: `Pump`, `MarkReady`, `Enqueued`, `Done`, `Remember`. An ack that is waited for is the one of the task that runs in its lane, so that handling it
ends no other task. `NoSecondSend` needs that the cache holds everything sent as long as it has not overflowed.

### Proved and not among the runs' properties

`LeaseIsNewest`, `ClaimsAreAccounted`, `TokensAreFresh`, `ReplayNotAhead`, `TopicsAreNeeded`, `OpenRunHoldsWorkflow` and `PromptFollowsAttach` are parts of the inductive
invariants, or follow from them in one step. They are proved for every instance and therefore no longer checked on a small one.

### Only model-checked

The liveness properties: `CommandsSettle`, `SessionsComeToRest`, `StreamsCatchUp`, `SessionGoesIdle`, `RunsStart` and `DeliveriesSettle`. Liveness under fairness is outside what TLAPS proves here. Every safety property of the passing
runs is stated by a theorem. The library's induction theorems take a predicate as a parameter, which the provers cannot instantiate; where an induction over data is needed
(`FlattenSeq`, minimum and maximum) it is done over the *set* of the numbers that satisfy the claim, with the well-foundedness of their order.

## 5. Not modelled

`PROJECT.json` gives the reason for each component. The map covers the part of `packages/cloud-server` where processes share state. Most of the repository is something else: user
interface and desktop shell, HTTP clients and contracts, configuration, provider adapters, MCP servers, two further products with stores of their own, and the administrative domains of the
control plane, whose operations change one row in one transaction. The in-memory control plane store is the test double of the Postgres one; the model follows Postgres.

Within the modelled components these are left out:

* a worker that restarts in the middle of an execution, with the history read again under other coalescing windows (`runtime-delta-coalescer.ts:104`), and the second execution of one process (admission barriers);
* the runtime adapter's admission queue, permits and closing generations; a runtime is warm or not in `CloudWorker`;
* inbound messages of the channels, their deduplication, and interactions;
* a delivery whose text is sent in several chunks (`gateway-runtime.ts:757`): a send is one step;
* a run whose prompt command failed: nothing in the code ends it, so `RunsStart` follows a run to its prompt and no further;
* webhook signatures and replay protection, quotas per user, audit rows and usage counters.

## 6. Plan

1. `RuntimeAdapter`: admission, permits, closing generations, eviction; it would replace `warm` in `CloudWorker`.
2. Provider-event deduplication and interactions; artifact uploads; the managed worker lifecycle and the watchdog's fenced recovery.
3. A specification of a session's transcript that clients could rely on without knowing cursor, coalescer and routes, and `SessionEvents` shown to implement it; the same for the outbox.

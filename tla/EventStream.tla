------------------------------ MODULE EventStream ------------------------------
(***************************************************************************)
(* Server-sent event streams of one web process: how the events of a       *)
(* session (or of a user's workspace) reach the clients that follow it     *)
(* (http-sse-streams.ts, sse-replay.ts, session-event-bus.ts).             *)
(*                                                                         *)
(* An event reaches a connection along three paths that overlap: the       *)
(* catch-up pages read when it opens, the in-process bus, and the replay   *)
(* hub, which polls the event table for all the connections of a topic.    *)
(* Other processes append to the same table and publish nothing here;      *)
(* retention deletes rows; connections break and clients come back with    *)
(* the last id they received.                                              *)
(*                                                                         *)
(* Everything between two awaits is one step.  A query is evaluated when   *)
(* it is issued and its rows are applied by a later step.  Events are      *)
(* their sequence numbers: a session's row is locked while its counter is  *)
(* incremented, so they commit in order.                                   *)
(***************************************************************************)
EXTENDS Integers, FiniteSets, FiniteSetsExt

CONSTANTS
  Clients,    \* each follows the same session, with one connection at a time
  Topics,     \* topic keys of the replay hub: one per user
  TopicOf,    \* the topic of a client's user
  Unknown,    \* sequences of events whose type the contract does not list
  Batch,      \* SSE_REPLAY_BATCH
  MaxPerOrg,  \* maxSseConnectionsPerOrg (the clients are of one org)
  MaxEvents,  \* BOUND on the events appended
  MaxFaults   \* BOUND on failed reads and process restarts

ASSUME StreamConstants ==
  /\ IsFiniteSet(Clients)
  /\ TopicOf \in [Clients -> Topics]
  /\ Unknown \subseteq Nat
  /\ Batch \in Nat \ {0}
  /\ MaxPerOrg \in Nat \ {0}
  /\ MaxEvents \in Nat
  /\ MaxFaults \in Nat

VARIABLES
  latest,       \* the newest sequence in the event table's history
  pruned,       \* the sequences that retention has deleted
  unpublished,  \* appended by this process and not yet given to its bus
  conn,         \* the connection of each client
  topic,        \* the topics of the replay hub
  orgCount,     \* CloudSseStreamRegistry.perOrgCounts
  closing,      \* CloudSseStreamRegistry.closing, CloudSseReplayHub.closed
  client,       \* what each client has received, over all its connections
  faults        \* failures that may still happen

tableVars == <<latest, pruned, unpublished>>
serverVars == <<conn, topic, orgCount, closing>>
vars == <<tableVars, serverVars, client, faults>>

-----------------------------------------------------------------------------
SequenceNumbers == 0 .. MaxEvents

\* seen: sequences written or deliberately left out; snaps: the latestSequence
\* of each snapshot.required written; page and rows: the catch-up read in
\* flight; earliest: 0 for a table without rows.
NoConn == [pc |-> "none", after |-> 0, last |-> 0, seen |-> {}, snaps |-> {},
           page |-> 0, rows |-> {}, earliest |-> 0, newest |-> 0]

\* subs: the subscribers, and at: the lastSequence of each of them; last: of
\* the topic; after and rows: the poll in flight.
NoTopic == [open |-> FALSE, subs |-> {}, at |-> [c \in Clients |-> 0], last |-> 0,
            polling |-> FALSE, requested |-> FALSE, after |-> 0, rows |-> {}]

Connections ==
  [pc : {"none", "cursor", "drain", "live"}, after : SequenceNumbers, last : SequenceNumbers,
   seen : SUBSET SequenceNumbers, snaps : SUBSET SequenceNumbers, page : SequenceNumbers,
   rows : SUBSET SequenceNumbers, earliest : SequenceNumbers, newest : SequenceNumbers]

HubTopics ==
  [open : BOOLEAN, subs : SUBSET Clients, at : [Clients -> SequenceNumbers], last : SequenceNumbers,
   polling : BOOLEAN, requested : BOOLEAN, after : SequenceNumbers, rows : SUBSET SequenceNumbers]

Tracked == {c \in Clients : conn[c].pc \in {"drain", "live"}}
Live == {c \in Clients : conn[c].pc = "live"}

Init ==
  /\ latest = 0 /\ pruned = {} /\ unpublished = {}
  /\ conn = [c \in Clients |-> NoConn]
  /\ topic = [t \in Topics |-> NoTopic]
  /\ orgCount = 0
  /\ closing = FALSE
  /\ client = [c \in Clients |-> [cursor |-> 0, has |-> {}]]
  /\ faults = MaxFaults

-----------------------------------------------------------------------------
(* The event table *)

Retained == {n \in 1 .. latest : n \notin pruned}

\* listSessionEventsForStream: sequence > after ORDER BY sequence LIMIT Batch
Rows(after) ==
  LET newer == {n \in Retained : n > after}
  IN  {n \in newer : Cardinality({m \in newer : m < n}) < Batch}

\* appendProjectedSessionEvent commits; only the process that ran it will
\* publish the event on its bus.
AppendEvent(here) ==
  /\ latest < MaxEvents
  /\ latest' = latest + 1
  /\ unpublished' = IF here THEN unpublished \cup {latest + 1} ELSE unpublished
  /\ UNCHANGED <<pruned, serverVars, client, faults>>

\* Retention goes by created_at, which the writers supply: it may leave any
\* hole in the sequences.
Prune(n) ==
  /\ n \in Retained
  /\ pruned' = pruned \cup {n}
  /\ UNCHANGED <<latest, unpublished, serverVars, client, faults>>

-----------------------------------------------------------------------------
(* createOrderedSseWriter *)

\* writeIfNew for each of the rows in order.  A row that does not follow the
\* last one is dropped and a snapshot.required is written in its place, except
\* for the first row of a client that has no cursor.
WriteRows(k, rows) ==
  LET new == {n \in rows : n > k.last}
      follows == {n \in new : \/ n - 1 \in new \cup {k.last}
                              \/ k.last = 0 /\ n = Min(new)}
  IN  [k EXCEPT !.last = Max(new \cup {@}),
                !.seen = @ \cup follows,
                !.snaps = @ \cup (new \ follows)]

\* Mutant of WriteGapSnapshot: the position moves on and nothing is written.
SkipGap(k) ==
  [k EXCEPT !.last = Max({@, k.earliest, k.newest})]

\* writeGapSnapshot(earliest, newest) when the cursor is already too old
WriteGapSnapshot(k) ==
  LET observed == Max({k.earliest, k.newest})
  IN  [k EXCEPT !.last = Max({@, observed}), !.snaps = @ \cup {observed}]

-----------------------------------------------------------------------------
(* CloudSseReplayHub *)

\* Mutant of ReplayAfter: only the topic's own position counts.
ReplayAfterTopic(tp) == tp.last

\* replayAfterSequence
ReplayAfter(tp) == Min({tp.last} \cup {tp.at[c] : c \in tp.subs})

\* requestPoll, and the part of poll up to its await
RequestPoll(tp) ==
  IF ~tp.open THEN tp
  ELSE IF tp.polling THEN [tp EXCEPT !.requested = TRUE]
  ELSE [tp EXCEPT !.polling = TRUE, !.requested = FALSE,
                  !.after = ReplayAfter(tp), !.rows = Rows(ReplayAfter(tp))]

\* The finally block of poll
Polled(tp) ==
  LET done == [tp EXCEPT !.polling = FALSE, !.requested = FALSE, !.after = 0, !.rows = {}]
  IN  IF tp.requested /\ tp.subs # {} THEN RequestPoll(done) ELSE done

\* wake: every topic of the session shares the wake key
Woken == [t \in Topics |-> RequestPoll(topic[t])]

\* subscribe, for a client whose writer has reached last
Subscribed(tp, c, last) ==
  RequestPoll(IF tp.open
              THEN [tp EXCEPT !.subs = @ \cup {c}, !.at[c] = last]
              ELSE [NoTopic EXCEPT !.open = TRUE, !.subs = {c}, !.at[c] = last, !.last = last])

\* The function subscribe returns; without subscribers the topic is deleted
\* and a poll still in flight ends without effect.
Unsubscribed(tp, c) ==
  IF c \notin tp.subs THEN tp
  ELSE IF tp.subs = {c} THEN NoTopic
  ELSE [tp EXCEPT !.subs = @ \ {c}, !.at[c] = 0]

\* The interval timer of a topic
TimerPoll(t) ==
  /\ topic[t].open
  /\ topic' = [topic EXCEPT ![t] = RequestPoll(@)]
  /\ UNCHANGED <<tableVars, conn, orgCount, closing, client, faults>>

\* poll after its await: the rows go to every subscriber the page is complete
\* for; one that joined behind the page asks for another poll.
PollReturns(t) ==
  LET tp == topic[t]
      behind == {c \in tp.subs : tp.at[c] < tp.after}
      served == tp.subs \ behind
  IN  /\ tp.polling
      /\ topic' = [topic EXCEPT ![t] =
           Polled([tp EXCEPT
             !.at = [c \in Clients |-> IF c \in served THEN Max({@[c]} \cup tp.rows) ELSE @[c]],
             !.last = Max({@} \cup tp.rows),
             !.requested = \/ @
                           \/ Cardinality(tp.rows) >= Batch
                           \/ tp.rows # {} /\ behind # {}])]
      /\ conn' = [c \in Clients |->
           IF c \in served
           THEN WriteRows(conn[c], {n \in tp.rows : n > tp.at[c]})
           ELSE conn[c]]
      /\ UNCHANGED <<tableVars, orgCount, closing, client, faults>>

\* loadEvents rejects: no subscriber has an onError.
PollFails(t) ==
  /\ topic[t].polling
  /\ faults > 0 /\ faults' = faults - 1
  /\ topic' = [topic EXCEPT ![t] = Polled(@)]
  /\ UNCHANGED <<tableVars, conn, orgCount, closing, client>>

-----------------------------------------------------------------------------
(* The bus and the notification listener *)

\* Mutant of Publish: an event that the catch-up has already passed is written
\* once more.
PublishAgain(n) ==
  /\ n \in unpublished
  /\ unpublished' = unpublished \ {n}
  /\ conn' = [c \in Clients |->
       IF c \in Live /\ n <= conn[c].last + 1
       THEN [conn[c] EXCEPT !.last = Max({@, n}), !.seen = @ \cup {n}]
       ELSE conn[c]]
  /\ topic' = IF \E c \in Live : n > conn[c].last + 1 THEN Woken ELSE topic
  /\ UNCHANGED <<latest, pruned, orgCount, closing, client, faults>>

\* publish to the subscriptions of the streams.  Appends of one process may be
\* published in any order.
Publish(n) ==
  /\ n \in unpublished
  /\ unpublished' = unpublished \ {n}
  /\ conn' = [c \in Clients |->
       IF c \in Live /\ n = conn[c].last + 1 THEN WriteRows(conn[c], {n}) ELSE conn[c]]
  /\ topic' = IF \E c \in Live : n > conn[c].last + 1 THEN Woken ELSE topic
  /\ UNCHANGED <<latest, pruned, orgCount, closing, client, faults>>

\* handleNotification; a NOTIFY may be late, repeated or missing.
Notify ==
  /\ latest > 0
  /\ topic' = Woken
  /\ UNCHANGED <<tableVars, conn, orgCount, closing, client, faults>>

-----------------------------------------------------------------------------
(* handleSessionSse, handleWorkspaceSse *)

\* The request arrives and the cursor is queried.  A client resumes after the
\* last id it received.
Connect(c) ==
  /\ conn[c].pc = "none"
  /\ conn' = [conn EXCEPT ![c] =
       [NoConn EXCEPT !.pc = "cursor",
                      !.after = client[c].cursor,
                      !.last = client[c].cursor,
                      !.earliest = IF Retained = {} THEN 0 ELSE Min(Retained),
                      !.newest = Max(Retained \cup {0})]]
  /\ UNCHANGED <<tableVars, topic, orgCount, closing, client, faults>>

\* The lookup throws, or CloudSseStreamRegistry.track answers 503 or 429.
Refuse(c) ==
  /\ conn[c].pc = "cursor"
  /\ conn' = [conn EXCEPT ![c] = NoConn]
  /\ UNCHANGED <<tableVars, topic, orgCount, closing, client, faults>>

\* Subscribing to the bus and to the hub follows the catch-up without an await.
GoLive(c, k) ==
  /\ conn' = [conn EXCEPT ![c] =
       [k EXCEPT !.pc = "live", !.page = 0, !.rows = {}, !.earliest = 0, !.newest = 0]]
  /\ topic' = [topic EXCEPT ![TopicOf[c]] = Subscribed(@, c, k.last)]

HasReplayGap(k) == k.after > 0 /\ k.earliest > k.after + 1

\* The cursor is known: the stream is tracked, and either skips to the newest
\* event behind a snapshot.required or asks for the first catch-up page.
Open(c) ==
  /\ conn[c].pc = "cursor" /\ ~closing /\ orgCount < MaxPerOrg
  /\ orgCount' = orgCount + 1
  /\ \/ /\ HasReplayGap(conn[c])
        /\ GoLive(c, WriteGapSnapshot(conn[c]))
     \/ /\ ~HasReplayGap(conn[c])
        /\ conn' = [conn EXCEPT ![c].pc = "drain", ![c].page = conn[c].after,
                                ![c].rows = Rows(conn[c].after),
                                ![c].earliest = 0, ![c].newest = 0]
        /\ UNCHANGED topic
  /\ UNCHANGED <<tableVars, closing, client, faults>>

\* A catch-up page arrives; a full one is followed by another.
DrainPage(c) ==
  LET k == WriteRows(conn[c], conn[c].rows)
      full == Cardinality(conn[c].rows) >= Batch
  IN  /\ conn[c].pc = "drain"
      /\ \/ ~full /\ GoLive(c, k)
         \/ /\ full
            /\ conn' = [conn EXCEPT ![c] =
                 [k EXCEPT !.page = Max(conn[c].rows), !.rows = Rows(Max(conn[c].rows))]]
            /\ UNCHANGED topic
      /\ UNCHANGED <<tableVars, orgCount, closing, client, faults>>

-----------------------------------------------------------------------------
(* The end of a connection *)

\* What a client that received the frames up to sequence m of its connection
\* knows: the events, and everything behind a snapshot it fetched.  Its
\* Last-Event-ID is the id of the last frame; the id of a snapshot.required is
\* the writer's sequence before it.
Received(c, m) ==
  LET k == conn[c]
      snaps == {n \in k.snaps : n <= m}
      events == {n \in k.seen \ Unknown : n <= m}
      before(n) == Max({k.after} \cup {i \in k.seen \cup k.snaps : i < n})
  IN  [cursor |-> Max({client[c].cursor} \cup events \cup {before(n) : n \in snaps}),
       has |-> client[c].has \cup events \cup UNION {1 .. n : n \in snaps}]

\* Mutants of Close: the slot of the organization is not given back, or one is
\* given back that was never taken.
CloseKeepingSlot(c, m) ==
  /\ conn[c].pc # "none"
  /\ client' = [client EXCEPT ![c] = Received(c, m)]
  /\ conn' = [conn EXCEPT ![c] = NoConn]
  /\ topic' = [topic EXCEPT ![TopicOf[c]] = Unsubscribed(@, c)]
  /\ UNCHANGED <<tableVars, orgCount, closing, faults>>

CloseFreeingSlot(c, m) ==
  /\ conn[c].pc # "none"
  /\ client' = [client EXCEPT ![c] = Received(c, m)]
  /\ conn' = [conn EXCEPT ![c] = NoConn]
  /\ topic' = [topic EXCEPT ![TopicOf[c]] = Unsubscribed(@, c)]
  /\ orgCount' = orgCount - 1
  /\ UNCHANGED <<tableVars, closing, faults>>

\* The client leaves, the lifetime timer fires or the buffer limit destroys the
\* response: cleanup.  What was written after m never arrived.
Close(c, m) ==
  /\ conn[c].pc # "none"
  /\ client' = [client EXCEPT ![c] = Received(c, m)]
  /\ conn' = [conn EXCEPT ![c] = NoConn]
  /\ topic' = [topic EXCEPT ![TopicOf[c]] = Unsubscribed(@, c)]
  /\ orgCount' = IF c \in Tracked THEN orgCount - 1 ELSE orgCount
  /\ UNCHANGED <<tableVars, closing, faults>>

\* CloudHttpServer.close: the hub is closed, then every tracked stream.  A
\* request that still waits for its cursor is refused later.
Shutdown(m) ==
  /\ ~closing /\ faults > 0 /\ faults' = faults - 1
  /\ closing' = TRUE
  /\ client' = [c \in Clients |-> IF c \in Tracked THEN Received(c, m[c]) ELSE client[c]]
  /\ conn' = [c \in Clients |-> IF c \in Tracked THEN NoConn ELSE conn[c]]
  /\ topic' = [t \in Topics |-> NoTopic]
  /\ orgCount' = orgCount - Cardinality(Tracked)
  /\ UNCHANGED tableVars

\* The process ends and another takes its place: when its shutdown is over, or
\* at once.  A catch-up read that rejects is such an end: the answer of the
\* error path finds the headers sent and throws out of the request handler.
Restart(m) ==
  /\ \/ closing /\ UNCHANGED faults
     \/ ~closing /\ faults > 0 /\ faults' = faults - 1
  /\ client' = [c \in Clients |-> Received(c, m[c])]
  /\ conn' = [c \in Clients |-> NoConn]
  /\ topic' = [t \in Topics |-> NoTopic]
  /\ unpublished' = {} /\ orgCount' = 0 /\ closing' = FALSE
  /\ UNCHANGED <<latest, pruned>>

Next ==
  \/ \E here \in BOOLEAN : AppendEvent(here)
  \/ \E n \in SequenceNumbers : Prune(n) \/ Publish(n)
  \/ Notify
  \/ \E t \in Topics : TimerPoll(t) \/ PollReturns(t) \/ PollFails(t)
  \/ \E c \in Clients : \/ Connect(c) \/ Refuse(c) \/ Open(c) \/ DrainPage(c)
                        \/ \E m \in SequenceNumbers : Close(c, m)
  \/ \E m \in [Clients -> SequenceNumbers] : Shutdown(m) \/ Restart(m)

Spec == Init /\ [][Next]_vars

-----------------------------------------------------------------------------
(* Properties *)

\* The variables keep their types.
StreamTypeOK ==
  /\ latest \in SequenceNumbers
  /\ pruned \subseteq 1 .. latest
  /\ unpublished \subseteq 1 .. latest
  /\ conn \in [Clients -> Connections]
  /\ topic \in [Topics -> HubTopics]
  /\ orgCount \in Nat
  /\ closing \in BOOLEAN
  /\ client \in [Clients -> [cursor : SequenceNumbers, has : SUBSET SequenceNumbers]]
  /\ faults \in 0 .. MaxFaults

Known(c) ==
  client[c].has \cup (conn[c].seen \ Unknown) \cup UNION {1 .. n : n \in conn[c].snaps}
Reached(c) == Max({client[c].cursor, conn[c].last})

\* No event is skipped silently: every sequence behind the cursor of a client
\* or of its connection was written to it, or a snapshot.required told it to
\* fetch the state that contains it, over any number of connections; all that
\* may be missing is what retention had deleted before the first event of a
\* client that came without a cursor.
NoSilentGap ==
  \A c \in Clients : \A n \in 1 .. Reached(c) :
    \/ n \in Known(c) \cup Unknown
    \/ n \in pruned /\ \A i \in Known(c) : n < i

\* The hub never believes that a stream has got an event that its writer has
\* not passed: such an event would not be read for it again.
ReplayNotAhead ==
  \A t \in Topics : \A c \in topic[t].subs : topic[t].at[c] <= conn[c].last

\* A topic, with its timer, exists exactly as long as one of its streams is
\* live, and serves exactly those streams.
TopicsAreNeeded ==
  \A t \in Topics :
    /\ topic[t].subs = {c \in Live : TopicOf[c] = t}
    /\ topic[t].open <=> topic[t].subs # {}

\* The count that limits the connections of an organization is the number of
\* its open streams, however they end.
SlotsReturned == orgCount = Cardinality(Tracked)

\* While a connection lasts its three sources never take it back: what a step
\* writes lies beyond all that was written before.
NeverGoesBack ==
  [][\A c \in Tracked : conn'[c].pc # "none" =>
       /\ conn'[c].last >= conn[c].last
       /\ \A n \in (conn'[c].seen \cup conn'[c].snaps) \ (conn[c].seen \cup conn[c].snaps) :
            n > conn[c].last]_vars

\* Queries return or fail, the interval timers fire.
Fairness ==
  /\ \A t \in Topics : WF_vars(TimerPoll(t)) /\ WF_vars(PollReturns(t))
  /\ \A c \in Clients : WF_vars(Open(c) \/ Refuse(c)) /\ WF_vars(DrainPage(c))

FairSpec == Spec /\ Fairness

\* A stream that stays open passes every event that is retained: neither a lost
\* notification nor a failed poll nor an event of another process leaves it
\* behind for ever.
StreamsCatchUp ==
  \A c \in Clients : \A n \in 1 .. MaxEvents :
    c \in Tracked /\ n \in Retained ~> c \notin Tracked \/ n \notin Retained \/ conn[c].last >= n
=============================================================================

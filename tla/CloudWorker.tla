------------------------------ MODULE CloudWorker ------------------------------
(***************************************************************************)
(* The worker processes of the Cloud control plane                         *)
(* (packages/cloud-server/src/worker.ts), running against SessionStore.    *)
(*                                                                         *)
(* A lane is one activation of processSessionCommands (from the worker     *)
(* loop or from an HTTP request) or of appendRuntimeEvent.  Everything     *)
(* between two awaits is one step, a call of the store included; between   *)
(* steps any other lane, worker, timer or fault may move.  The timer that  *)
(* renews a lease while a command executes takes two steps: the renewal    *)
(* commits in the store, and later its answer is applied to the process.   *)
(*                                                                         *)
(* A workspace is abstracted to the set of commands whose effects it       *)
(* contains, and so are the checkpoints taken of it.                       *)
(***************************************************************************)
EXTENDS SessionStore

CONSTANTS
  Lanes,
  WorkerOf,      \* the worker process a lane runs in
  Nil,           \* no session, no command
  NoCheckpoint,  \* nothing stored under the session's latest key
  MaxRetries,    \* MAX_STALE_CHECKPOINT_RETRIES
  MaxLeases,     \* entries a worker's lease cache may hold
  AutoProcess,   \* autoProcessCommands: HTTP requests run lanes too
  MaxRenewals,   \* BOUND on the renewals the timers start
  MaxEvents,     \* BOUND on the runtime events delivered
  MaxFaults      \* BOUND on crashes and shutdowns

ASSUME WorkerConstants ==
  /\ WorkerOf \in [Lanes -> Workers]
  /\ \A files \in SUBSET Commands : NoCheckpoint # files
  /\ MaxRetries \in Nat \ {0}
  /\ MaxLeases \in Nat \ {0}
  /\ AutoProcess \in BOOLEAN
  /\ MaxRenewals \in Nat
  /\ MaxEvents \in Nat
  /\ MaxFaults \in Nat

VARIABLES
  phase,      \* shutdownStarted, shutdownCompleted and the steps between them
  leases,     \* the lease cache of each worker, one entry per session
  lane,       \* where each activation is, and its local variables
  renewal,    \* the timer renewal of a lane whose answer is still to come
  stopping,   \* the active leases a stopping worker has still to recover
  warm,       \* the sessions a worker has a runtime for
  workspace,  \* the session's files on a worker's disk
  latest,     \* object store: the checkpoint under the session's latest key
  archive,    \* object store: all that the session's manifests contain
  budget      \* renewals, events and faults that may still happen

processVars == <<phase, leases, lane, renewal, stopping>>
fileVars == <<warm, workspace, latest, archive>>
vars == <<storeVars, processVars, fileVars, budget>>

-----------------------------------------------------------------------------
NoCopy == [session |-> Nil, leasedBy |-> NoWorker, leaseToken |-> NoToken, checkpointVersion |-> 0]

\* The local variables of an activation that has no command.
Activation(pc, s, l) ==
  [pc |-> pc, session |-> s, lease |-> l, command |-> Nil,
   tries |-> 0, aborted |-> FALSE, snapshot |-> {}]

Idle == Activation("idle", Nil, NoCopy)

NoRenewal == [outcome |-> "none", lease |-> NoCopy, mine |-> FALSE]

CommandPC == {"renew", "claim", "next", "reserve", "exec", "run", "failing",
              "save", "put", "ack", "retry"}
EventPC == {"evRenew", "evAppend", "evCheckpoint", "evRetry", "evSave", "evPut"}

Executing == {"exec", "run"}
Renewing == Executing \cup {"failing"}                    \* inside executeWithLeaseRenewal
Active == Renewing \cup {"save", "put", "ack", "retry"}   \* in activeCommands

ActiveLanes(w) == {i \in Lanes : WorkerOf[i] = w /\ lane[i].pc \in Active}
Busy(w, s) == \E i \in ActiveLanes(w) : lane[i].session = s

\* this.leases.delete(key)
Dropped(w, s) == [leases EXCEPT ![w][s] = NoCopy]

\* Mutant of Touched: nothing is evicted.
TouchedUnbounded(w, l) == {[leases EXCEPT ![w][l.session] = l]}

\* touchLease: the entry becomes the most recent one, and an older one goes
\* when there are more than MaxLeases.
Touched(w, l) ==
  LET new == [leases[w] EXCEPT ![l.session] = l]
      held == {s \in Sessions : new[s] # NoCopy}
  IN  IF Cardinality(held) <= MaxLeases
      THEN {[leases EXCEPT ![w] = new]}
      ELSE {[leases EXCEPT ![w] = [new EXCEPT ![s] = NoCopy]] : s \in held \ {l.session}}

Advanced(l) == [l EXCEPT !.checkpointVersion = @ + 1]

\* The lane is done with its command.  A renewal still in flight then only
\* concerns the cache; after an abort only its failure does.
Detach(i) ==
  renewal' = [renewal EXCEPT ![i] =
    IF lane[i].aborted /\ @.outcome = "ok" THEN NoRenewal ELSE [@ EXCEPT !.mine = FALSE]]

\* The activation ends: it returned, or threw to its caller.
Stop(i) == lane' = [lane EXCEPT ![i] = Idle] /\ Detach(i)

Goto(i, pc) == lane' = [lane EXCEPT ![i].pc = pc]

-----------------------------------------------------------------------------
WorkerInit ==
  /\ Init
  /\ phase = [w \in Workers |-> "up"]
  /\ leases = [w \in Workers |-> [s \in Sessions |-> NoCopy]]
  /\ lane = [i \in Lanes |-> Idle]
  /\ renewal = [i \in Lanes |-> NoRenewal]
  /\ stopping = [w \in Workers |-> {}]
  /\ warm = [w \in Workers |-> {}]
  /\ workspace = [w \in Workers |-> [s \in Sessions |-> {}]]
  /\ latest = [s \in Sessions |-> NoCheckpoint]
  /\ archive = [s \in Sessions |-> {}]
  /\ budget = [renewals |-> MaxRenewals, events |-> MaxEvents, faults |-> MaxFaults]

-----------------------------------------------------------------------------
(* processSessionCommands: getting the lease *)

\* Mutant of Runnable: a session whose first command was left running by a lost
\* lease is not listed.
RunnablePending(s, d) ==
  /\ ~Live(s, d)
  /\ \E c \in Commands :
       /\ SessionOf[c] = s /\ command[c].status = "pending"
       /\ command[c].delay <= d
       /\ \A e \in Commands :
            SessionOf[e] = s /\ Unsettled(e) =>
              command[c].createdSequence <= command[e].createdSequence

\* listRunnableSessions: no live lease, and the first unsettled command is
\* running or available.
Runnable(s, d) ==
  /\ ~Live(s, d)
  /\ \E c \in Commands :
       /\ SessionOf[c] = s /\ Unsettled(c)
       /\ command[c].status = "pending" => command[c].delay <= d
       /\ \A e \in Commands :
            SessionOf[e] = s /\ Unsettled(e) =>
              command[c].createdSequence <= command[e].createdSequence

StartLane(i, s) ==
  LET w == WorkerOf[i]
      cached == leases[w][s]
  IN  /\ lane[i].pc = "idle" /\ phase[w] = "up"
      /\ lane' = [lane EXCEPT ![i] =
           Activation(IF cached # NoCopy THEN "renew" ELSE "claim", s, cached)]
      /\ UNCHANGED <<storeVars, phase, leases, renewal, stopping, fileVars, budget>>

\* processAllSessionCommands gives a runnable session to a lane.
LoopLane(i, s, d) == Runnable(s, d) /\ StartLane(i, s)

\* An HTTP request drains the session it has just enqueued a command for.
HttpLane(i, s) ==
  /\ AutoProcess
  /\ \E c \in Commands : SessionOf[c] = s /\ Unsettled(c)
  /\ StartLane(i, s)

LaneRenew(i, d) ==
  LET s == lane[i].session
  IN  /\ lane[i].pc = "renew"
      /\ RenewSessionLease(lane[i].lease, d)
      /\ leases' \in Touched(WorkerOf[i], LeaseCopy(s))
      /\ lane' = [lane EXCEPT ![i].pc = "next", ![i].lease = LeaseCopy(s)]
      /\ UNCHANGED <<phase, renewal, stopping, fileVars, budget>>

\* Any error of the renewal, stale lease or not: forget it and claim anew.
LaneRenewFails(i) ==
  /\ lane[i].pc = "renew"
  /\ leases' = Dropped(WorkerOf[i], lane[i].session)
  /\ lane' = [lane EXCEPT ![i].pc = "claim", ![i].lease = NoCopy]
  /\ UNCHANGED <<storeVars, phase, renewal, stopping, fileVars, budget>>

LaneClaim(i, d) ==
  LET w == WorkerOf[i]
      s == lane[i].session
      claimed == [session |-> s, leasedBy |-> w,
                  leaseToken |-> Token(session[s].nextLeaseAttempt + 1, w),
                  checkpointVersion |-> lease[s].checkpointVersion]
  IN  /\ lane[i].pc = "claim"
      /\ ClaimSessionLease(s, w, d)
      /\ leases' \in Touched(w, claimed)
      /\ lane' = [lane EXCEPT ![i].pc = "next", ![i].lease = claimed]
      /\ UNCHANGED <<phase, renewal, stopping, fileVars, budget>>

\* claimSessionLease returned null (or the bound on leases is reached).
LaneClaimDenied(i, d) ==
  LET s == lane[i].session
  IN  /\ lane[i].pc = "claim"
      /\ \/ Live(s, d)
         \/ ~ActiveWorkerQuotaAllows(d)
         \/ session[s].nextLeaseAttempt = MaxLeaseAttempts
      /\ Stop(i)
      /\ UNCHANGED <<storeVars, phase, leases, stopping, fileVars, budget>>

-----------------------------------------------------------------------------
(* processSessionCommands: one command *)

LaneNext(i, d) ==
  /\ lane[i].pc = "next" /\ phase[WorkerOf[i]] = "up"
  /\ \E c \in Commands :
       /\ ClaimNextSessionCommand(lane[i].lease, c, d)
       /\ lane' = [lane EXCEPT ![i].pc = "reserve", ![i].command = c]
  /\ UNCHANGED <<phase, leases, renewal, stopping, fileVars, budget>>

\* Shutting down, or no command.
LaneNextNone(i, d) ==
  /\ lane[i].pc = "next"
  /\ \/ phase[WorkerOf[i]] # "up"
     \/ CurrentLease(lane[i].lease, d) /\ \A c \in Commands : ~Ready(lane[i].lease, c, d)
  /\ Stop(i)
  /\ UNCHANGED <<storeVars, phase, leases, stopping, fileVars, budget>>

LaneReserve(i) ==
  /\ lane[i].pc = "reserve"
  /\ Goto(i, "exec")
  /\ UNCHANGED <<storeVars, phase, leases, renewal, stopping, fileVars, budget>>

\* A quota denial: the lease is forgotten, the claimed command left running.
LaneReserveDenied(i) ==
  /\ lane[i].pc = "reserve"
  /\ leases' = Dropped(WorkerOf[i], lane[i].session)
  /\ Stop(i)
  /\ UNCHANGED <<storeVars, phase, stopping, fileVars, budget>>

\* Mutant of LaneProvision: a new runtime does not restore the checkpoint.
LaneProvisionUnrestored(i) ==
  /\ lane[i].pc = "exec" /\ ~lane[i].aborted
  /\ warm' = [warm EXCEPT ![WorkerOf[i]] = @ \cup {lane[i].session}]
  /\ Goto(i, "run")
  /\ UNCHANGED <<storeVars, phase, leases, renewal, stopping, workspace, latest, archive, budget>>

\* The runtime of a session is keyed by the session alone: one that is still
\* there is used with the files as they are, a new one first restores the latest
\* checkpoint, if there is one.
LaneProvision(i) ==
  LET w == WorkerOf[i]
      s == lane[i].session
  IN  /\ lane[i].pc = "exec" /\ ~lane[i].aborted
      /\ warm' = [warm EXCEPT ![w] = @ \cup {s}]
      /\ workspace' = IF s \in warm[w] \/ latest[s] = NoCheckpoint THEN workspace
                      ELSE [workspace EXCEPT ![w][s] = latest[s]]
      /\ Goto(i, "run")
      /\ UNCHANGED <<storeVars, phase, leases, renewal, stopping, latest, archive, budget>>

\* No capacity for a runtime: the command is deferred and the lease given up.
LaneDefer(i, d) ==
  /\ lane[i].pc = "exec"
  /\ DeferSessionCommand(lane[i].lease, lane[i].command, d)
  /\ leases' = Dropped(WorkerOf[i], lane[i].session)
  /\ Stop(i)
  /\ UNCHANGED <<phase, stopping, fileVars, budget>>

\* Mutant of LaneExecuted: the command is acked without a checkpoint.
LaneExecutedUnsaved(i) ==
  /\ lane[i].pc = "run" /\ ~lane[i].aborted
  /\ workspace' = [workspace EXCEPT ![WorkerOf[i]][lane[i].session] = @ \cup {lane[i].command}]
  /\ Goto(i, "ack")
  /\ UNCHANGED <<storeVars, phase, leases, renewal, stopping, warm, latest, archive, budget>>

\* The runtime has done the command's work, and nobody aborted it.
LaneExecuted(i) ==
  /\ lane[i].pc = "run" /\ ~lane[i].aborted
  /\ workspace' = [workspace EXCEPT ![WorkerOf[i]][lane[i].session] = @ \cup {lane[i].command}]
  /\ Goto(i, "save")
  /\ UNCHANGED <<storeVars, phase, leases, renewal, stopping, warm, latest, archive, budget>>

\* Lease lost or worker stopping: the command is left to whoever recovers or
\* takes over the lease.  (What a command has done before it is aborted or
\* fails is not tracked.)
LaneAborted(i) ==
  /\ lane[i].pc \in Executing /\ lane[i].aborted
  /\ Stop(i)
  /\ UNCHANGED <<storeVars, phase, leases, stopping, fileVars, budget>>

\* The command failed: the failure event marks the session, then the command.
LaneError(i, d) ==
  /\ lane[i].pc \in Executing /\ ~lane[i].aborted
  /\ UpdateSessionStatus(lane[i].lease, "errored", d)
  /\ Goto(i, "failing")
  /\ UNCHANGED <<phase, leases, renewal, stopping, fileVars, budget>>

LaneFail(i, d) ==
  /\ lane[i].pc = "failing"
  /\ FailSessionCommand(lane[i].lease, lane[i].command, d)
  /\ Stop(i)
  /\ UNCHANGED <<phase, leases, stopping, fileVars, budget>>

-----------------------------------------------------------------------------
(* Checkpoint, then ack.  The renewal timer no longer runs. *)

\* saveSessionCheckpoint reads the files ...
Collect(i, from, to) ==
  /\ lane[i].pc = from
  /\ lane' = [lane EXCEPT ![i].pc = to, ![i].snapshot = workspace[WorkerOf[i]][lane[i].session]]
  /\ UNCHANGED <<storeVars, phase, leases, renewal, stopping, fileVars, budget>>

\* ... and writes the manifest, under its own key and under the latest key.
\* Nothing here reads the lease.
PutCheckpoint(i) ==
  LET s == lane[i].session
  IN  /\ latest' = [latest EXCEPT ![s] = lane[i].snapshot]
      /\ archive' = [archive EXCEPT ![s] = @ \cup lane[i].snapshot]
      /\ UNCHANGED <<warm, workspace>>

\* Mutant of LaneCollect: the lane adopts the next version before the ack.
LaneCollectAdvances(i) ==
  /\ lane[i].pc = "save"
  /\ lane' = [lane EXCEPT ![i].pc = "put", ![i].lease = Advanced(@),
                          ![i].snapshot = workspace[WorkerOf[i]][lane[i].session]]
  /\ UNCHANGED <<storeVars, phase, leases, renewal, stopping, fileVars, budget>>

LaneCollect(i) == Collect(i, "save", "put")

LanePut(i) ==
  /\ lane[i].pc = "put"
  /\ PutCheckpoint(i)
  /\ lane' = [lane EXCEPT ![i].pc = "ack", ![i].snapshot = {}]
  /\ UNCHANGED <<storeVars, phase, leases, renewal, stopping, budget>>

\* Mutant of LaneAck: the ack is not fenced by the lease.
LaneAckUnfenced(i, d) ==
  /\ lane[i].pc = "ack"
  /\ command' = [command EXCEPT ![lane[i].command].status = "acked"]
  /\ Stop(i)
  /\ UNCHANGED <<session, lease, phase, leases, stopping, fileVars, budget>>

\* Acked: the lane goes on to the next command, or yields to other sessions.
LaneAck(i, d) ==
  /\ lane[i].pc = "ack"
  /\ CheckpointAndAckSessionCommand(lane[i].lease, lane[i].command, d)
  /\ leases' \in Touched(WorkerOf[i], Advanced(lane[i].lease))
  /\ \/ /\ lane' = [lane EXCEPT ![i] = Activation("next", lane[i].session, Advanced(lane[i].lease))]
        /\ Detach(i)
     \/ Stop(i)
  /\ UNCHANGED <<phase, stopping, fileVars, budget>>

\* The transaction commits but its answer is lost: the lane sees an error.
LaneAckLost(i, d) ==
  /\ lane[i].pc = "ack"
  /\ CheckpointAndAckSessionCommand(lane[i].lease, lane[i].command, d)
  /\ Stop(i)
  /\ UNCHANGED <<phase, leases, stopping, fileVars, budget>>

\* The version moved on under the lane (a runtime event checkpointed): renew
\* for the current version and save again.
LaneAckStaleVersion(i, d) ==
  LET l == lane[i].lease
  IN  /\ lane[i].pc = "ack"
      /\ CurrentLease(l, d) /\ Owned(l, lane[i].command)
      /\ l.checkpointVersion # lease[l.session].checkpointVersion
      /\ lane[i].tries + 1 < MaxRetries
      /\ lane' = [lane EXCEPT ![i].pc = "retry", ![i].tries = @ + 1]
      /\ UNCHANGED <<storeVars, phase, leases, renewal, stopping, fileVars, budget>>

LaneRetry(i, d) ==
  /\ lane[i].pc = "retry"
  /\ RenewSessionLease(lane[i].lease, d)
  /\ lane' = [lane EXCEPT ![i].pc = "save", ![i].lease = LeaseCopy(lane[i].session)]
  /\ UNCHANGED <<phase, leases, renewal, stopping, fileVars, budget>>

\* A call of the store, the quota service or the object store throws, because
\* the lease is stale or for a reason of its own: the activation ends, the
\* command stays running under its lease and the cache keeps the lease.  (A
\* claimSessionLease that throws leaves nothing behind at all.)
LaneThrows(i) ==
  /\ lane[i].pc \in (CommandPC \cup EventPC) \ {"renew", "claim"}
  /\ Stop(i)
  /\ UNCHANGED <<storeVars, phase, leases, stopping, fileVars, budget>>

-----------------------------------------------------------------------------
(* executeWithLeaseRenewal: the timer.  There is one renewal in flight at a  *)
(* time; it may outlive the activation that started it.                      *)

TimerFires(i) ==
  /\ lane[i].pc \in Renewing /\ ~lane[i].aborted /\ renewal[i] = NoRenewal
  /\ budget.renewals > 0
  /\ budget' = [budget EXCEPT !.renewals = @ - 1]

\* The renewal commits; its answer may be lost.
TimerRenew(i, d) ==
  /\ TimerFires(i)
  /\ RenewSessionLease(lane[i].lease, d)
  /\ \E outcome \in {"ok", "failed"} :
       renewal' = [renewal EXCEPT ![i] =
         [outcome |-> outcome, lease |-> LeaseCopy(lane[i].session), mine |-> TRUE]]
  /\ UNCHANGED <<phase, leases, lane, stopping, fileVars>>

\* The renewal throws, stale lease or not.
TimerRenewFails(i) ==
  /\ TimerFires(i)
  /\ renewal' = [renewal EXCEPT ![i] =
       [outcome |-> "failed", lease |-> lane[i].lease, mine |-> TRUE]]
  /\ UNCHANGED <<storeVars, phase, leases, lane, stopping, fileVars>>

\* A renewed lease goes to the cache and to the lane, unless the command was
\* aborted; a failure drops whatever lease the cache then holds for the
\* session and aborts the command.
TimerApply(i) ==
  LET w == WorkerOf[i]
      r == renewal[i]
  IN  /\ r # NoRenewal
      /\ \/ /\ r.outcome = "ok" /\ ~(r.mine /\ lane[i].aborted)
            /\ leases' \in Touched(w, r.lease)
            /\ lane' = IF r.mine /\ lane[i].pc \in Renewing
                       THEN [lane EXCEPT ![i].lease = r.lease] ELSE lane
         \/ /\ r.outcome = "ok" /\ r.mine /\ lane[i].aborted
            /\ UNCHANGED <<leases, lane>>
         \/ /\ r.outcome = "failed"
            /\ leases' = Dropped(w, r.lease.session)
            /\ lane' = IF r.mine THEN [lane EXCEPT ![i].aborted = TRUE] ELSE lane
      /\ renewal' = [renewal EXCEPT ![i] = NoRenewal]
      /\ UNCHANGED <<storeVars, phase, stopping, fileVars, budget>>

-----------------------------------------------------------------------------
(* appendRuntimeEvent *)

\* An event of the session's runtime, stamped with the cached lease.
StartEvent(i, s) ==
  LET w == WorkerOf[i]
  IN  /\ lane[i].pc = "idle" /\ phase[w] = "up" /\ budget.events > 0
      /\ leases[w][s] # NoCopy /\ s \in warm[w]
      /\ lane' = [lane EXCEPT ![i] = Activation("evRenew", s, leases[w][s])]
      /\ budget' = [budget EXCEPT !.events = @ - 1]
      /\ UNCHANGED <<storeVars, phase, leases, renewal, stopping, fileVars>>

\* Renew before the event, or for the current version after a stale checkpoint.
\* An event whose runtime is gone by then is discarded.
EventRenew(i, d) ==
  LET s == lane[i].session
  IN  /\ lane[i].pc \in {"evRenew", "evRetry"}
      /\ RenewSessionLease(lane[i].lease, d)
      /\ IF lane[i].pc = "evRenew" /\ s \notin warm[WorkerOf[i]]
         THEN Stop(i)
         ELSE /\ lane' = [lane EXCEPT ![i].lease = LeaseCopy(s),
                   ![i].pc = IF @ = "evRenew" THEN "evAppend" ELSE "evCheckpoint"]
              /\ UNCHANGED renewal
      /\ UNCHANGED <<phase, leases, stopping, fileVars, budget>>

\* The event is appended, with the session status it carries, if any.
EventAppend(i, d) ==
  /\ lane[i].pc = "evAppend"
  /\ \E status \in {"idle", "running", "errored", session[lane[i].session].status} :
       UpdateSessionStatus(lane[i].lease, status, d)
  /\ Goto(i, "evCheckpoint")
  /\ UNCHANGED <<phase, leases, renewal, stopping, fileVars, budget>>

\* checkpointLease
EventCheckpoint(i, d) ==
  /\ lane[i].pc = "evCheckpoint"
  /\ CheckpointSession(lane[i].lease, d)
  /\ lane' = [lane EXCEPT ![i].pc = "evSave", ![i].lease = Advanced(@)]
  /\ UNCHANGED <<phase, leases, renewal, stopping, fileVars, budget>>

EventCheckpointStaleVersion(i, d) ==
  LET l == lane[i].lease
  IN  /\ lane[i].pc = "evCheckpoint"
      /\ CurrentLease(l, d)
      /\ l.checkpointVersion # lease[l.session].checkpointVersion
      /\ lane[i].tries + 1 < MaxRetries
      /\ lane' = [lane EXCEPT ![i].pc = "evRetry", ![i].tries = @ + 1]
      /\ UNCHANGED <<storeVars, phase, leases, renewal, stopping, fileVars, budget>>

EventCollect(i) == Collect(i, "evSave", "evPut")

EventPut(i) ==
  /\ lane[i].pc = "evPut"
  /\ PutCheckpoint(i)
  /\ leases' \in Touched(WorkerOf[i], lane[i].lease)
  /\ Stop(i)
  /\ UNCHANGED <<storeVars, phase, stopping, budget>>

\* The lease is stale: the event is discarded and the cached lease with it.
EventStale(i, d) ==
  /\ lane[i].pc \in EventPC \ {"evSave", "evPut"}
  /\ ~CurrentLease(lane[i].lease, d)
  /\ leases' = Dropped(WorkerOf[i], lane[i].session)
  /\ Stop(i)
  /\ UNCHANGED <<storeVars, phase, stopping, fileVars, budget>>

-----------------------------------------------------------------------------
(* The process *)

\* One batch of the reaper, at the start of a pass of the worker loop.
Reap(w, R, d) ==
  /\ phase[w] = "up"
  /\ ReapExpiredSessionLeases(R, d)
  /\ UNCHANGED <<processVars, fileVars, budget>>

\* An idle runtime is closed; the files stay until the next restore.
EvictRuntime(w, s) ==
  /\ s \in warm[w] /\ ~Busy(w, s)
  /\ warm' = [warm EXCEPT ![w] = @ \ {s}]
  /\ UNCHANGED <<storeVars, processVars, workspace, latest, archive, budget>>

\* All that the process had in memory is gone; its disk may be too.
ProcessGone(w) ==
  LET mine == {i \in Lanes : WorkerOf[i] = w}
  IN  /\ phase' = [phase EXCEPT ![w] = "stopped"]
      /\ leases' = [leases EXCEPT ![w] = [s \in Sessions |-> NoCopy]]
      /\ lane' = [i \in Lanes |-> IF i \in mine THEN Idle ELSE lane[i]]
      /\ renewal' = [i \in Lanes |-> IF i \in mine THEN NoRenewal ELSE renewal[i]]
      /\ stopping' = [stopping EXCEPT ![w] = {}]
      /\ warm' = [warm EXCEPT ![w] = {}]
      /\ workspace' \in {workspace, [workspace EXCEPT ![w] = [s \in Sessions |-> {}]]}
      /\ UNCHANGED <<storeVars, latest, archive>>

Crash(w) ==
  /\ phase[w] # "stopped" /\ budget.faults > 0
  /\ ProcessGone(w)
  /\ budget' = [budget EXCEPT !.faults = @ - 1]

\* A new process under the same worker id.
Restart(w) ==
  /\ phase[w] = "stopped"
  /\ phase' = [phase EXCEPT ![w] = "up"]
  /\ UNCHANGED <<storeVars, leases, lane, renewal, stopping, fileVars, budget>>

\* beginShutdown: nothing new is started, what runs may finish.
BeginShutdown(w) ==
  /\ phase[w] = "up" /\ budget.faults > 0
  /\ phase' = [phase EXCEPT ![w] = "draining"]
  /\ budget' = [budget EXCEPT !.faults = @ - 1]
  /\ UNCHANGED <<storeVars, leases, lane, renewal, stopping, fileVars>>

\* completeShutdown, when the drain has ended or timed out: abort what is still
\* active, and remember one lease per session to recover.
AbortActive(w) ==
  LET active == ActiveLanes(w)
  IN  /\ phase[w] = "draining"
      /\ phase' = [phase EXCEPT ![w] = "recovering"]
      /\ lane' = [i \in Lanes |-> IF i \in active THEN [lane[i] EXCEPT !.aborted = TRUE] ELSE lane[i]]
      /\ \E S \in SUBSET {lane[i].lease : i \in active} :
           /\ \A i \in active : Cardinality({l \in S : l.session = lane[i].session}) = 1
           /\ stopping' = [stopping EXCEPT ![w] = S]
      /\ UNCHANGED <<storeVars, leases, renewal, fileVars, budget>>

\* recoverShutdownLeases
RecoverActive(w, l, d) ==
  /\ phase[w] = "recovering"
  /\ RecoverSessionLease(l, d)
  /\ leases' = Dropped(w, l.session)
  /\ stopping' = [stopping EXCEPT ![w] = @ \ {l}]
  /\ UNCHANGED <<phase, lane, renewal, fileVars, budget>>

\* The lease is somebody else's by now, or the store throws.
RecoverActiveFails(w, l) ==
  /\ phase[w] = "recovering"
  /\ stopping' = [stopping EXCEPT ![w] = @ \ {l}]
  /\ UNCHANGED <<storeVars, phase, leases, lane, renewal, fileVars, budget>>

\* releaseCachedLeasesForShutdown takes the cache as it is now ...
BeginRelease(w) ==
  /\ phase[w] = "recovering" /\ stopping[w] = {}
  /\ phase' = [phase EXCEPT ![w] = "releasing"]
  /\ stopping' = [stopping EXCEPT ![w] = {leases[w][s] : s \in Sessions} \ {NoCopy}]
  /\ UNCHANGED <<storeVars, leases, lane, renewal, fileVars, budget>>

\* ... and releases every lease of it; one that fails is forgotten all the same.
ReleaseCached(w, l) ==
  /\ phase[w] = "releasing"
  /\ ReleaseSessionLease(l) \/ UNCHANGED storeVars
  /\ leases' = Dropped(w, l.session)
  /\ stopping' = [stopping EXCEPT ![w] = @ \ {l}]
  /\ UNCHANGED <<phase, lane, renewal, fileVars, budget>>

\* The process exits, whatever its lanes are still doing.
Exit(w) ==
  /\ phase[w] = "releasing" /\ stopping[w] = {}
  /\ ProcessGone(w)
  /\ UNCHANGED budget

-----------------------------------------------------------------------------
Environment ==
  /\ \/ \E s \in Sessions : CreateSession(s)
     \/ \E c \in Commands : EnqueueSessionCommand(c)
     \/ Tick
  /\ UNCHANGED <<processVars, fileVars, budget>>

CommandStep(i, d) ==
  \/ LaneRenew(i, d) \/ LaneRenewFails(i) \/ LaneClaim(i, d) \/ LaneClaimDenied(i, d)
  \/ LaneNext(i, d) \/ LaneNextNone(i, d) \/ LaneReserve(i) \/ LaneReserveDenied(i)
  \/ LaneProvision(i) \/ LaneDefer(i, d) \/ LaneExecuted(i) \/ LaneAborted(i)
  \/ LaneError(i, d) \/ LaneFail(i, d)
  \/ LaneCollect(i) \/ LanePut(i) \/ LaneAck(i, d) \/ LaneAckLost(i, d)
  \/ LaneAckStaleVersion(i, d) \/ LaneRetry(i, d) \/ LaneThrows(i)

EventStep(i, d) ==
  \/ EventRenew(i, d) \/ EventAppend(i, d) \/ EventCheckpoint(i, d)
  \/ EventCheckpointStaleVersion(i, d) \/ EventCollect(i) \/ EventPut(i) \/ EventStale(i, d)

TimerStep(i, d) == TimerRenew(i, d) \/ TimerRenewFails(i) \/ TimerApply(i)

ShutdownStep(w, d) ==
  \/ AbortActive(w)
  \/ \E l \in stopping[w] :
       RecoverActive(w, l, d) \/ RecoverActiveFails(w, l) \/ ReleaseCached(w, l)
  \/ BeginRelease(w)
  \/ Exit(w)
  \/ Restart(w)

WorkerNext ==
  \/ Environment
  \/ \E i \in Lanes, s \in Sessions : HttpLane(i, s) \/ StartEvent(i, s)
  \/ \E d \in Clock :
       \/ \E i \in Lanes :
            \/ \E s \in Sessions : LoopLane(i, s, d)
            \/ CommandStep(i, d) \/ EventStep(i, d) \/ TimerStep(i, d)
       \/ \E w \in Workers :
            \/ \E R \in SUBSET Sessions : Reap(w, R, d)
            \/ ShutdownStep(w, d)
  \/ \E w \in Workers :
       \/ \E s \in Sessions : EvictRuntime(w, s)
       \/ Crash(w)
       \/ BeginShutdown(w)

WorkerSpec == WorkerInit /\ [][WorkerNext]_vars

-----------------------------------------------------------------------------
(* Properties *)

LeaseCopyRows ==
  [session : Sessions \cup {Nil}, leasedBy : Workers \cup {NoWorker},
   leaseToken : Tokens, checkpointVersion : Nat]

\* Every variable of the processes and of the object store has its shape, and
\* a cache never holds more than maxLeases entries.
WorkerTypeOK ==
  /\ phase \in [Workers -> {"up", "draining", "recovering", "releasing", "stopped"}]
  /\ leases \in [Workers -> [Sessions -> LeaseCopyRows]]
  /\ \A w \in Workers : Cardinality({s \in Sessions : leases[w][s] # NoCopy}) <= MaxLeases
  /\ lane \in [Lanes -> [pc : CommandPC \cup EventPC \cup {"idle"},
                         session : Sessions \cup {Nil}, lease : LeaseCopyRows,
                         command : Commands \cup {Nil}, tries : 0..MaxRetries,
                         aborted : BOOLEAN, snapshot : SUBSET Commands]]
  /\ renewal \in [Lanes -> [outcome : {"none", "ok", "failed"}, lease : LeaseCopyRows,
                            mine : BOOLEAN]]
  /\ stopping \in [Workers -> SUBSET LeaseCopyRows]
  /\ warm \in [Workers -> SUBSET Sessions]
  /\ workspace \in [Workers -> [Sessions -> SUBSET Commands]]
  /\ latest \in [Sessions -> (SUBSET Commands) \cup {NoCheckpoint}]
  /\ archive \in [Sessions -> SUBSET Commands]
  /\ budget \in [renewals : 0..MaxRenewals, events : 0..MaxEvents, faults : 0..MaxFaults]

\* A lane that is working on a command.
WorksOn(i, c) == lane[i].pc \in Active \cup {"reserve"} /\ lane[i].command = c

\* Two activations that share a lease (two lanes of one worker, through its
\* cache) never work on the same command, whatever was aborted, deferred,
\* recovered or retried before.
ExclusiveExecution ==
  \A i, j \in Lanes, c \in Commands :
    i # j /\ WorksOn(i, c) /\ WorksOn(j, c) =>
      lane[i].lease.leaseToken # lane[j].lease.leaseToken

\* As long as the lease of an activation is still the session's row, the
\* command it works on is running and is claimed with that lease (or already
\* failed by the activation itself): nobody took it, settled it or put it back
\* behind its back.
LaneOwnsItsCommand ==
  \A i \in Lanes, c \in Commands :
    WorksOn(i, c) /\ lease[SessionOf[c]].leaseToken = lane[i].lease.leaseToken =>
      Owned(lane[i].lease, c)

\* Every copy of a lease that a process keeps was issued to that worker, and is
\* never ahead of the row: a worker does not believe in a checkpoint version
\* that was not committed, whatever answers were lost or arrived late.
CopiesComeFromTheStore ==
  \A w \in Workers :
    LET mine == {i \in Lanes : WorkerOf[i] = w}
        copies == ({leases[w][s] : s \in Sessions} \cup {lane[i].lease : i \in mine}
                   \cup {renewal[i].lease : i \in mine} \cup stopping[w]) \ {NoCopy}
    IN  \A l \in copies :
          /\ l.leasedBy = w
          /\ \E n \in 1..session[l.session].nextLeaseAttempt : l.leaseToken = Token(n, w)
          /\ lease[l.session].leaseToken = l.leaseToken =>
               l.checkpointVersion <= lease[l.session].checkpointVersion

\* checkpointAndAckCommand saves before it acks: an acked command is in a
\* manifest of the object store, across crashes, stale workers, retries and
\* concurrent checkpoints.
AckedHasManifest ==
  \A c \in Commands : command[c].status = "acked" => c \in archive[SessionOf[c]]

\* With one worker and one lane, the latest checkpoint contains every command
\* that was acked, so that a restored workspace never goes back behind an
\* answer already given: across crashes, shutdowns, lost disks, evicted runtimes,
\* aborted and deferred commands.
CheckpointCoversAcked ==
  \A c \in Commands :
    command[c].status = "acked" =>
      latest[SessionOf[c]] # NoCheckpoint /\ c \in latest[SessionOf[c]]

\* While a command whose checkpoint is written awaits its ack, nothing of the
\* session is behind it: no older snapshot of its files is still to be written,
\* and no other process has a runtime of the session or an event of one.
NothingLags ==
  \A i \in Lanes :
    LET s == lane[i].session
        saving == {j \in Lanes : lane[j].pc \in {"put", "evPut"} /\ lane[j].session = s}
        hearing == {j \in Lanes : lane[j].pc \in EventPC /\ lane[j].session = s}
    IN  lane[i].pc = "ack" =>
          /\ \A j \in saving : lane[i].command \in lane[j].snapshot
          /\ \A j \in hearing : WorkerOf[j] = WorkerOf[i]
          /\ \A w \in Workers : s \in warm[w] => w = WorkerOf[i]

\* Whatever lanes and workers there are: the latest checkpoint contains every
\* command that was acked, as long as nothing lagged at an ack.  No lock in the
\* code keeps saves in order or closes the runtime of a worker that lost the
\* lease, so the first half is a condition: nothing else can lose an acked command.
SavesInOrderCover == []NothingLags => []CheckpointCoversAcked

\* The workers only ever do to the tables what the methods of the store do:
\* every step of this specification is a step of SessionStore or leaves the
\* tables alone.  What SessionStoreProofs proves of Spec holds here too.
ImplementsStore == Spec

\* docs/managed-workers.md: "a stale worker cannot overwrite checkpoint metadata
\* after lease loss".  When an activation writes a session's latest manifest,
\* no other lease holds the session.
StaleWorkerNeverOverwrites ==
  [][\A i \in Lanes :
       LET s == lane[i].session
       IN  /\ lane[i].pc \in {"put", "evPut"}
           /\ lane'[i].pc # lane[i].pc
           /\ latest' # latest
           => lease[s].leaseToken \in {NoToken, lane[i].lease.leaseToken}]_vars

-----------------------------------------------------------------------------
(* Fairness: timers fire and database and runtime calls return, so time       *)
(* passes, a lane at work takes its next step, answers to renewals arrive,    *)
(* the loop of a worker that is up picks up runnable sessions and reaps, and  *)
(* a shutdown proceeds.  Nothing is assumed of requests, events and faults.   *)

Fairness ==
  /\ WF_vars(Tick /\ UNCHANGED <<processVars, fileVars, budget>>)
  /\ WF_vars(\E i \in Lanes, s \in Sessions, d \in Clock : LoopLane(i, s, d))
  /\ WF_vars(\E w \in Workers, R \in SUBSET Sessions, d \in Clock : Reap(w, R, d))
  /\ \A i \in Lanes :
       /\ WF_vars(\E d \in Clock : CommandStep(i, d) \/ EventStep(i, d))
       /\ WF_vars(TimerApply(i))
  /\ \A w \in Workers : WF_vars(\E d \in Clock : ShutdownStep(w, d))

FairWorkerSpec == WorkerSpec /\ Fairness

\* BOUND: the session has used up the leases the model issues.
OutOfLeases(s) == session[s].nextLeaseAttempt = MaxLeaseAttempts

\* A command that was enqueued is eventually acked or failed, as long as leases
\* can be had: no crash, shutdown, abort, lost answer or deferral leaves it in
\* a state that nobody picks up.
CommandsSettle ==
  \A c \in Commands :
    command[c].status # "absent" ~>
      command[c].status \in {"acked", "failed"} \/ OutOfLeases(SessionOf[c])

\* No session stays running for ever: a claim marks it, and with nothing left
\* to do, or its worker gone, the reaper clears the mark.
SessionsComeToRest ==
  \A s \in Sessions :
    session[s].status = "running" ~> session[s].status # "running" \/ OutOfLeases(s)
=============================================================================

------------------------------ MODULE SessionStore ------------------------------
(***************************************************************************)
(* The session, lease and command tables of the Cloud control-plane store  *)
(* (packages/cloud-server/src/postgres-store-domains/sessions.ts and the   *)
(* in-memory domain with the same contract).                               *)
(*                                                                         *)
(* Every method of the repository is one database transaction, so every    *)
(* method is one action.  A method that throws, or returns null, changes   *)
(* nothing and has no action of its own; the modules that compose the      *)
(* store use the enabling conditions to take their error paths.            *)
(*                                                                         *)
(* The callers are as general as can be: Next lets anybody present any     *)
(* copy of a lease, however stale, at any time.  A worker process is one   *)
(* such caller (module CloudWorker), so what holds here holds under it.    *)
(*                                                                         *)
(* Time is relative.  A lease row keeps the ticks left before it expires,  *)
(* a command the ticks left before it is available, and Tick lets one tick *)
(* pass.  Expiry is judged by the CALLER's clock, which may be ahead of    *)
(* (d > 0) or behind (d < 0) true time by up to Skew ticks.                *)
(***************************************************************************)
EXTENDS Integers, FiniteSets

CONSTANTS
  Sessions, Workers, Commands,
  SessionOf,            \* the session a command id is addressed to
  NoWorker,             \* SQL NULL in leased_by and claimed_by
  TTL,                  \* leaseTtlMs, in ticks
  RetryAfter,           \* retryAfterMs of a deferral, in ticks
  Skew,                 \* largest error of a host's clock, in ticks
  MaxAttempts,          \* maxCommandAttempts of the reaper (3 in the code)
  MaxActiveWorkers,     \* maxActiveWorkersPerOrg; 0 switches the quota off
  MaxQueuedCommands,    \* maxQueuedCommandsPerOrg; 0 switches the quota off
  MaxLeaseAttempts,     \* BOUND on next_lease_attempt
  MaxCheckpointVersion  \* BOUND on checkpoint_version

ASSUME StoreConstants ==
  /\ SessionOf \in [Commands -> Sessions]
  /\ NoWorker \notin Workers
  /\ TTL \in Nat \ {0}
  /\ RetryAfter \in Nat \ {0}
  /\ Skew \in Nat
  /\ MaxAttempts \in Nat \ {0}
  /\ MaxActiveWorkers \in Nat
  /\ MaxQueuedCommands \in Nat
  /\ MaxLeaseAttempts \in Nat
  /\ MaxCheckpointVersion \in Nat

VARIABLES
  session,   \* cloud_sessions
  lease,     \* cloud_worker_leases, at most one row per session
  command    \* cloud_session_commands

storeVars == <<session, lease, command>>

-----------------------------------------------------------------------------
(* Rows *)

Clock == (-Skew)..Skew

\* `${tenantId}:${sessionId}:${attempt}:${workerId}`; the session is the key
\* of the table the token is kept in.
Token(attempt, w) == <<attempt, w>>
NoToken == Token(0, NoWorker)

\* No delay: available_at is NULL, or so long past that every clock agrees.
Available == -Skew

\* The absent lease row.
NoLease ==
  [leasedBy |-> NoWorker, leaseToken |-> NoToken, ttl |-> 0, checkpointVersion |-> 0]

\* A command id that nobody has enqueued yet.
NoCommand ==
  [status |-> "absent", claimedBy |-> NoWorker, claimedLeaseToken |-> NoToken,
   attemptCount |-> 0, delay |-> Available, createdSequence |-> 0]

Tokens == Nat \X (Workers \cup {NoWorker})

SessionRows ==
  [status : {"absent", "idle", "running", "errored"},
   nextLeaseAttempt : Nat, nextCommandSequence : Nat]

LeaseRows ==
  [leasedBy : Workers \cup {NoWorker}, leaseToken : Tokens,
   ttl : Int, checkpointVersion : Nat]

CommandRows ==
  [status : {"absent", "pending", "running", "acked", "failed"},
   claimedBy : Workers \cup {NoWorker}, claimedLeaseToken : Tokens,
   attemptCount : Nat, delay : Int, createdSequence : Nat]

\* What a worker keeps of a lease: the part of WorkerLeaseRecord that the
\* store reads back from its caller.
LeaseCopies ==
  {[session |-> s, leasedBy |-> w, leaseToken |-> Token(n, w), checkpointVersion |-> v] :
     s \in Sessions, w \in Workers, n \in 1..MaxLeaseAttempts,
     v \in 0..MaxCheckpointVersion}

LeaseCopy(s) ==
  [session |-> s, leasedBy |-> lease[s].leasedBy, leaseToken |-> lease[s].leaseToken,
   checkpointVersion |-> lease[s].checkpointVersion]

Present(s) == lease[s].leaseToken # NoToken
Expired(s, d) == lease[s].ttl <= d
Live(s, d) == Present(s) /\ ~Expired(s, d)

\* Mutant of CurrentLease: the token is compared, the expiry is not.
CurrentLeaseUnexpiring(l, d) ==
  lease[l.session].leaseToken = l.leaseToken /\ Present(l.session)

\* assertCurrentLease: the row exists, carries the caller's token and has not
\* expired on the caller's clock.
CurrentLease(l, d) ==
  /\ lease[l.session].leaseToken = l.leaseToken
  /\ Live(l.session, d)

\* Mutants of Owned: the status, or the token, is not compared.
OwnedInAnyStatus(l, c) ==
  SessionOf[c] = l.session /\ command[c].claimedLeaseToken = l.leaseToken

OwnedByAnyLease(l, c) ==
  SessionOf[c] = l.session /\ command[c].status = "running"

\* running, and claimed with the token the caller presents
Owned(l, c) ==
  /\ SessionOf[c] = l.session
  /\ command[c].status = "running"
  /\ command[c].claimedLeaseToken = l.leaseToken

Unsettled(c) == command[c].status \in {"pending", "running"}

-----------------------------------------------------------------------------
Init ==
  /\ session = [s \in Sessions |->
                  [status |-> "absent", nextLeaseAttempt |-> 0, nextCommandSequence |-> 0]]
  /\ lease = [s \in Sessions |-> NoLease]
  /\ command = [c \in Commands |-> NoCommand]

-----------------------------------------------------------------------------
(* Sessions and the command queue *)

\* An existing row is returned unchanged.
CreateSession(s) ==
  /\ session[s].status = "absent"
  /\ session' = [session EXCEPT ![s].status = "idle"]
  /\ UNCHANGED <<lease, command>>

QueueQuotaAllows ==
  \/ MaxQueuedCommands = 0
  \/ Cardinality({c \in Commands : Unsettled(c)}) < MaxQueuedCommands

\* A known id is returned unchanged, or rejected when its content differs.
EnqueueSessionCommand(c) ==
  LET s == SessionOf[c]
      sequence == session[s].nextCommandSequence + 1
  IN  /\ session[s].status # "absent"
      /\ command[c].status = "absent"
      /\ QueueQuotaAllows
      /\ session' = [session EXCEPT ![s].nextCommandSequence = sequence]
      /\ command' = [command EXCEPT ![c] =
                      [@ EXCEPT !.status = "pending", !.createdSequence = sequence]]
      /\ UNCHANGED lease

\* The status write of a worker, fenced by its lease token.
UpdateSessionStatus(l, status, d) ==
  /\ CurrentLease(l, d)
  /\ session' = [session EXCEPT ![l.session].status = status]
  /\ UNCHANGED <<lease, command>>

-----------------------------------------------------------------------------
(* Leases *)

\* The leases of the organisation that are live on the caller's clock.
ActiveWorkerQuotaAllows(d) ==
  \/ MaxActiveWorkers = 0
  \/ Cardinality({s \in Sessions : Live(s, d)}) < MaxActiveWorkers

\* The checkpoint version is carried over from an expired row that is still
\* there, and starts again at 0 (NoLease) when the row has been deleted.
ClaimSessionLease(s, w, d) ==
  LET attempt == session[s].nextLeaseAttempt + 1
  IN  /\ session[s].status # "absent"
      /\ ~Live(s, d)
      /\ ActiveWorkerQuotaAllows(d)
      /\ session[s].nextLeaseAttempt < MaxLeaseAttempts
      /\ session' = [session EXCEPT ![s] =
                       [@ EXCEPT !.nextLeaseAttempt = attempt, !.status = "running"]]
      /\ lease' = [lease EXCEPT ![s] =
                     [leasedBy |-> w, leaseToken |-> Token(attempt, w), ttl |-> TTL + d,
                      checkpointVersion |-> lease[s].checkpointVersion]]
      /\ UNCHANGED command

RenewSessionLease(l, d) ==
  /\ CurrentLease(l, d)
  /\ lease' = [lease EXCEPT ![l.session].ttl = TTL + d]
  /\ UNCHANGED <<session, command>>

\* Mutant of ReleaseSessionLease: a status the table does not know.
ReleaseToStopped(l) ==
  /\ lease[l.session].leaseToken = l.leaseToken
  /\ lease' = [lease EXCEPT ![l.session] = NoLease]
  /\ session' = [session EXCEPT ![l.session].status = "stopped"]
  /\ UNCHANGED command

\* The row goes, whoever's clock says what; running commands are not touched.
ReleaseSessionLease(l) ==
  /\ lease[l.session].leaseToken = l.leaseToken
  /\ lease' = [lease EXCEPT ![l.session] = NoLease]
  /\ session' = [session EXCEPT ![l.session].status = "idle"]
  /\ UNCHANGED command

CheckpointSession(l, d) ==
  /\ CurrentLease(l, d)
  /\ l.checkpointVersion = lease[l.session].checkpointVersion
  /\ l.checkpointVersion < MaxCheckpointVersion
  /\ lease' = [lease EXCEPT ![l.session].checkpointVersion = @ + 1]
  /\ UNCHANGED <<session, command>>

-----------------------------------------------------------------------------
(* Lease recovery *)

\* The commands the lease of session s was running.
Held(s) ==
  {c \in Commands : /\ SessionOf[c] = s
                    /\ command[c].status = "running"
                    /\ command[c].claimedLeaseToken = lease[s].leaseToken}

Exhausted(c) == command[c].attemptCount >= MaxAttempts

Recovered(c, d) ==
  IF Exhausted(c)
  THEN [command[c] EXCEPT !.status = "failed"]
  ELSE [command[c] EXCEPT !.status = "pending", !.claimedBy = NoWorker,
                          !.claimedLeaseToken = NoToken, !.delay = d]

\* Mutants of RecoverLeases: the row stays, or the session keeps its status.
RecoverKeepingLease(R, d) ==
  /\ command' = [c \in Commands |->
                   IF SessionOf[c] \in R /\ c \in Held(SessionOf[c])
                   THEN Recovered(c, d) ELSE command[c]]
  /\ UNCHANGED <<session, lease>>

RecoverKeepingStatus(R, d) ==
  /\ command' = [c \in Commands |->
                   IF SessionOf[c] \in R /\ c \in Held(SessionOf[c])
                   THEN Recovered(c, d) ELSE command[c]]
  /\ lease' = [s \in Sessions |-> IF s \in R THEN NoLease ELSE lease[s]]
  /\ UNCHANGED session

\* recoverPostgresSessionLease for every session of R: a command out of
\* attempts fails, the others are retried, the row goes.
RecoverLeases(R, d) ==
  LET Failed(s) == Held(s) # {} /\ \A c \in Held(s) : Exhausted(c)
  IN  /\ command' = [c \in Commands |->
                       IF SessionOf[c] \in R /\ c \in Held(SessionOf[c])
                       THEN Recovered(c, d) ELSE command[c]]
      /\ lease' = [s \in Sessions |-> IF s \in R THEN NoLease ELSE lease[s]]
      /\ session' = [s \in Sessions |->
                       IF s \in R
                       THEN [session[s] EXCEPT !.status = IF Failed(s) THEN "errored" ELSE "idle"]
                       ELSE session[s]]

\* One batch: the rows that have expired, less those the LIMIT or SKIP LOCKED
\* leaves out.
ReapExpiredSessionLeases(R, d) ==
  /\ R # {}
  /\ \A s \in R : Present(s) /\ Expired(s, d)
  /\ RecoverLeases(R, d)

\* The same recovery on behalf of the lease's holder, expired or not.
RecoverSessionLease(l, d) ==
  /\ lease[l.session].leaseToken = l.leaseToken
  /\ RecoverLeases({l.session}, d)

-----------------------------------------------------------------------------
(* Commands *)

\* Mutant of Claimable: a lease may claim again what it is running.
ClaimableAgain(l) ==
  {c \in Commands : SessionOf[c] = l.session /\ Unsettled(c)}

\* pending, or left running by another lease (target_lease_token is NULL:
\* no producer sets it)
Claimable(l) ==
  {c \in Commands :
     /\ SessionOf[c] = l.session
     /\ \/ command[c].status = "pending"
        \/ command[c].status = "running" /\ command[c].claimedLeaseToken # l.leaseToken}

\* Mutant of IsNext: any claimable command will do.
IsNextOfAny(l, c) == c \in Claimable(l)

\* ORDER BY created_sequence LIMIT 1
IsNext(l, c) ==
  /\ c \in Claimable(l)
  /\ \A e \in Claimable(l) : command[c].createdSequence <= command[e].createdSequence

\* The first claimable command, unless it is pending and not yet available:
\* then the whole queue waits for it.
Ready(l, c, d) ==
  /\ IsNext(l, c)
  /\ command[c].status = "pending" => command[c].delay <= d

ClaimNextSessionCommand(l, c, d) ==
  /\ CurrentLease(l, d)
  /\ Ready(l, c, d)
  /\ command' = [command EXCEPT ![c] =
                   [@ EXCEPT !.status = "running", !.claimedBy = l.leasedBy,
                             !.claimedLeaseToken = l.leaseToken,
                             !.attemptCount = command[c].attemptCount + 1, !.delay = Available]]
  /\ UNCHANGED <<session, lease>>

\* Acking an acked command again is answered and changes nothing.
AckSessionCommand(l, c, d) ==
  /\ CurrentLease(l, d)
  /\ Owned(l, c)
  /\ command' = [command EXCEPT ![c].status = "acked"]
  /\ UNCHANGED <<session, lease>>

CheckpointAndAckSessionCommand(l, c, d) ==
  /\ CurrentLease(l, d)
  /\ Owned(l, c)
  /\ l.checkpointVersion = lease[l.session].checkpointVersion
  /\ l.checkpointVersion < MaxCheckpointVersion
  /\ lease' = [lease EXCEPT ![l.session].checkpointVersion = @ + 1]
  /\ command' = [command EXCEPT ![c].status = "acked"]
  /\ UNCHANGED session

FailSessionCommand(l, c, d) ==
  /\ CurrentLease(l, d)
  /\ Owned(l, c)
  /\ command' = [command EXCEPT ![c].status = "failed"]
  /\ UNCHANGED <<session, lease>>

\* The command goes back to the queue for RetryAfter and the lease is given up.
DeferSessionCommand(l, c, d) ==
  /\ CurrentLease(l, d)
  /\ Owned(l, c)
  /\ command' = [command EXCEPT ![c] =
                   [@ EXCEPT !.status = "pending", !.claimedBy = NoWorker,
                             !.claimedLeaseToken = NoToken, !.delay = RetryAfter + d]]
  /\ lease' = [lease EXCEPT ![l.session] = NoLease]
  /\ session' = [session EXCEPT ![l.session].status = "idle"]

-----------------------------------------------------------------------------
(* Time *)

Elapse(t) == IF t > -Skew THEN t - 1 ELSE t

\* One tick passes for every stored deadline.
Tick ==
  /\ lease' = [s \in Sessions |->
                 IF Present(s) THEN [lease[s] EXCEPT !.ttl = Elapse(@)] ELSE lease[s]]
  /\ command' = [c \in Commands |-> [command[c] EXCEPT !.delay = Elapse(@)]]
  /\ UNCHANGED session

-----------------------------------------------------------------------------
LeaseCall(l, d) ==
  \/ \E status \in {"idle", "running", "errored"} : UpdateSessionStatus(l, status, d)
  \/ RenewSessionLease(l, d)
  \/ ReleaseSessionLease(l)
  \/ CheckpointSession(l, d)
  \/ RecoverSessionLease(l, d)

CommandCall(l, c, d) ==
  \/ ClaimNextSessionCommand(l, c, d)
  \/ AckSessionCommand(l, c, d)
  \/ CheckpointAndAckSessionCommand(l, c, d)
  \/ FailSessionCommand(l, c, d)
  \/ DeferSessionCommand(l, c, d)

Next ==
  \/ \E s \in Sessions : CreateSession(s)
  \/ \E c \in Commands : EnqueueSessionCommand(c)
  \/ \E s \in Sessions, w \in Workers, d \in Clock : ClaimSessionLease(s, w, d)
  \/ \E R \in SUBSET Sessions, d \in Clock : ReapExpiredSessionLeases(R, d)
  \/ \E l \in LeaseCopies, d \in Clock : LeaseCall(l, d)
  \/ \E l \in LeaseCopies, c \in Commands, d \in Clock : CommandCall(l, c, d)
  \/ Tick

Spec == Init /\ [][Next]_storeVars

-----------------------------------------------------------------------------
(* Properties *)

\* Every row has the shape its table declares.
TypeOK ==
  /\ session \in [Sessions -> SessionRows]
  /\ lease \in [Sessions -> LeaseRows]
  /\ command \in [Commands -> CommandRows]

\* The lease row of a session is the newest lease that was ever issued for it
\* (claimSessionLease increments next_lease_attempt), and its token names its
\* holder: a row can never be an older lease that came back.
LeaseIsNewest ==
  \A s \in Sessions :
    Present(s) => /\ lease[s].leasedBy \in Workers
                  /\ lease[s].leaseToken = Token(session[s].nextLeaseAttempt, lease[s].leasedBy)

\* A pending command carries no claim; a running one names the lease that
\* claimed it, which is the session's row or a lease issued before it.  SQL
\* compares claimed_lease_token <> $3, which is never true of NULL: a running
\* command without a token could never be claimed again.
ClaimsAreAccounted ==
  \A c \in Commands :
    /\ command[c].status \in {"absent", "pending"} =>
         command[c].claimedBy = NoWorker /\ command[c].claimedLeaseToken = NoToken
    /\ command[c].status \in {"running", "acked", "failed"} =>
         /\ command[c].claimedBy \in Workers
         /\ \E n \in 1..session[SessionOf[c]].nextLeaseAttempt :
              command[c].claimedLeaseToken = Token(n, command[c].claimedBy)

\* A lease starts a command at most once, across deferrals, reaping, recovery
\* and takeover: the attempts of a command never outnumber the leases issued
\* for its session, and while a lease stands, a command that it has not
\* claimed has used at most the leases before it.
OneAttemptPerLease ==
  \A c \in Commands :
    LET s == SessionOf[c]
    IN  /\ command[c].attemptCount <= session[s].nextLeaseAttempt
        /\ Present(s) /\ command[c].claimedLeaseToken # lease[s].leaseToken
             => command[c].attemptCount < session[s].nextLeaseAttempt

\* acked and failed are final: nothing that a late, duplicated or stale call
\* of the store does may reopen, re-run or re-settle a command.
SettledIsFinal ==
  [][\A c \in Commands :
       command[c].status \in {"acked", "failed"} =>
         /\ command'[c].status = command[c].status
         /\ command'[c].attemptCount = command[c].attemptCount
         /\ command'[c].claimedLeaseToken = command[c].claimedLeaseToken]_storeVars

\* A running command is settled, deferred or retried only while the lease that
\* claimed it is still the session's row.  The one thing another lease may do
\* to it is take it over, and only the row's own lease may.
OnlyTheHolderDecides ==
  [][\A c \in Commands :
       LET s == SessionOf[c]
       IN  command[c].status = "running" =>
             \/ command'[c].status = "running"
                /\ command'[c].claimedLeaseToken = command[c].claimedLeaseToken
             \/ command[c].claimedLeaseToken = lease[s].leaseToken
             \/ /\ command'[c].status = "running"
                /\ command'[c].claimedLeaseToken = lease[s].leaseToken]_storeVars

\* A new lease gets a token that no command of the session was ever claimed
\* with, so a call made under an older lease can not pass for one of its own.
TokensAreFresh ==
  [][\A s \in Sessions :
       /\ lease'[s].leaseToken # lease[s].leaseToken
       /\ lease'[s].leaseToken # NoToken
       => \A c \in Commands :
            SessionOf[c] = s =>
              command[c].claimedLeaseToken[1] < lease'[s].leaseToken[1]]_storeVars

\* A command as an item of a queue.
QueueEntry(c) ==
  [state |-> CASE command[c].status = "absent" -> "absent"
               [] command[c].status = "pending" -> "open"
               [] command[c].status = "running" -> "held"
               [] OTHER -> "done",
   holder |-> command[c].claimedLeaseToken,
   takes |-> command[c].attemptCount,
   place |-> command[c].createdSequence]

Queue ==
  INSTANCE WorkQueue WITH
    Items <- Commands, LineOf <- SessionOf, Nobody <- NoToken,
    entry <- [c \in Commands |-> QueueEntry(c)]

\* The tables implement a first come, first served queue with exclusive holders,
\* one queue for each session: whichever leases expire, are reaped, recovered,
\* deferred or taken over, a command is claimed in its turn, by a lease that has
\* not got it, and a settled one is left alone.
ImplementsQueue == Queue!Spec

\* maxActiveWorkersPerOrg: claimSessionLease checks the number of live leases,
\* renewals do not.  With synchronised clocks (Skew = 0) the quota holds in
\* every state all the same, because an expired lease can not be renewed.
ActiveWorkerQuota ==
  Skew = 0 /\ MaxActiveWorkers > 0 =>
    Cardinality({s \in Sessions : Live(s, 0)}) <= MaxActiveWorkers
=============================================================================

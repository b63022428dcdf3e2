--------------------------- MODULE CloudWorkerProofs ---------------------------
(* Theorems about CloudWorker, for every number of workers, lanes, sessions   *)
(* and commands, every clock skew and every value of the bounds.              *)
(*                                                                            *)
(* The invariants are stacked.  CopyInv says where the copies of a lease that *)
(* a process keeps come from: with it every step is a step of SessionStore.   *)
(* OwnInv, on top of it, says who works on which command, and ManifestInv     *)
(* where the effects of a command are on their way to its ack.                *)
EXTENDS CloudWorker, SessionStoreProofs, FiniteSetTheorems

Phases == {"up", "draining", "recovering", "releasing", "stopped"}
PCs == CommandPC \cup EventPC \cup {"idle"}

LaneRows ==
  [pc : PCs,
   session : Sessions \cup {Nil}, lease : LeaseCopyRows,
   command : Commands \cup {Nil}, tries : 0..MaxRetries,
   aborted : BOOLEAN, snapshot : SUBSET Commands]

RenewalRows == [outcome : {"none", "ok", "failed"}, lease : LeaseCopyRows, mine : BOOLEAN]

\* The positions at which a lane works on a command.
Works == Active \cup {"reserve"}

\* The bounds of SessionStore.
RowsBounded ==
  \A s \in Sessions : /\ session[s].nextLeaseAttempt <= MaxLeaseAttempts
                      /\ lease[s].checkpointVersion <= MaxCheckpointVersion

\* A copy of a lease of worker w: issued, to w, and not ahead of the row.
Known(w, l) ==
  /\ l \in LeaseCopies
  /\ l.leasedBy = w
  /\ l.leaseToken[1] <= session[l.session].nextLeaseAttempt
  /\ lease[l.session].leaseToken = l.leaseToken =>
       l.checkpointVersion <= lease[l.session].checkpointVersion

\* The same of a copy, after the step.
KnownNext(w, l) ==
  /\ l \in LeaseCopies
  /\ l.leasedBy = w
  /\ l.leaseToken[1] <= session'[l.session].nextLeaseAttempt
  /\ lease'[l.session].leaseToken = l.leaseToken =>
       l.checkpointVersion <= lease'[l.session].checkpointVersion

CacheKnown(w, s) ==
  leases[w][s] # NoCopy => Known(w, leases[w][s]) /\ leases[w][s].session = s

LaneKnown(i) ==
  /\ lane[i].pc = "idle" => lane[i] = Idle
  /\ lane[i].pc # "idle" => lane[i].session \in Sessions
  /\ lane[i].pc = "claim" => lane[i].lease = NoCopy
  /\ lane[i].pc \notin {"idle", "claim"} =>
       Known(WorkerOf[i], lane[i].lease) /\ lane[i].lease.session = lane[i].session
  /\ lane[i].pc \in Works =>
       lane[i].command \in Commands /\ SessionOf[lane[i].command] = lane[i].session

\* A renewal that the lane still waits for is one of its own lease.
RenewalKnown(i) ==
  /\ renewal[i] # NoRenewal => Known(WorkerOf[i], renewal[i].lease)
  /\ renewal[i].mine => /\ renewal[i] # NoRenewal
                        /\ lane[i].pc \in Active
                        /\ renewal[i].lease.session = lane[i].lease.session
                        /\ renewal[i].lease.leaseToken = lane[i].lease.leaseToken

CachesKnown ==
  /\ leases \in [Workers -> [Sessions -> LeaseCopyRows]]
  /\ \A w \in Workers, s \in Sessions : CacheKnown(w, s)

LanesKnown == lane \in [Lanes -> LaneRows] /\ \A i \in Lanes : LaneKnown(i)

RenewalsKnown == renewal \in [Lanes -> RenewalRows] /\ \A i \in Lanes : RenewalKnown(i)

StopsKnown ==
  /\ stopping \in [Workers -> SUBSET LeaseCopyRows]
  /\ \A w \in Workers : \A l \in stopping[w] : Known(w, l)

FilesTyped ==
  /\ warm \in [Workers -> SUBSET Sessions]
  /\ workspace \in [Workers -> [Sessions -> SUBSET Commands]]
  /\ latest \in [Sessions -> (SUBSET Commands) \cup {NoCheckpoint}]
  /\ archive \in [Sessions -> SUBSET Commands]
  /\ budget \in [renewals : 0..MaxRenewals, events : 0..MaxEvents, faults : 0..MaxFaults]

CopyInv ==
  /\ IInv
  /\ RowsBounded
  /\ phase \in [Workers -> Phases]
  /\ CachesKnown
  /\ LanesKnown
  /\ RenewalsKnown
  /\ StopsKnown
  /\ FilesTyped

Entries(w) == {s \in Sessions : leases[w][s] # NoCopy}
CacheBounded == \A w \in Workers : IsFiniteSet(Entries(w)) /\ Cardinality(Entries(w)) <= MaxLeases

OwnInv == LaneOwnsItsCommand /\ ExclusiveExecution

LaneSaves(i) ==
  LET w == WorkerOf[i]
      s == lane[i].session
      c == lane[i].command
  IN  /\ lane[i].pc \in {"run", "save", "put", "ack", "retry"} => s \in warm[w]
      /\ lane[i].pc \in {"save", "put", "ack", "retry"} => c \in workspace[w][s]
      /\ lane[i].pc = "put" => c \in lane[i].snapshot
      /\ lane[i].pc = "ack" => c \in archive[s]

ManifestInv == AckedHasManifest /\ \A i \in Lanes : LaneSaves(i)

\* The files S contain all that was acked in session s; the same after the step.
Covers(S, s) == \A c \in Commands : SessionOf[c] = s /\ command[c].status = "acked" => c \in S
CoversNext(S, s) == \A c \in Commands : SessionOf[c] = s /\ command'[c].status = "acked" => c \in S

WarmCovers(i) ==
  \A s \in warm[WorkerOf[i]] : Covers(workspace[WorkerOf[i]][s], s)

LaneCovers(i) ==
  LET s == lane[i].session
  IN  /\ lane[i].pc \in EventPC => Covers(workspace[WorkerOf[i]][s], s)
      /\ lane[i].pc \in {"put", "evPut"} => Covers(lane[i].snapshot, s)
      /\ lane[i].pc = "ack" => latest[s] # NoCheckpoint /\ lane[i].command \in latest[s]

CoverInv ==
  /\ CheckpointCoversAcked
  /\ \A i \in Lanes : WarmCovers(i) /\ LaneCovers(i)

-----------------------------------------------------------------------------
(* What a step of the store does to a row, and so to the copies of it. *)

\* A row keeps its lease, and then its version only grows; or the lease goes;
\* or a new one is issued.
RowStep(s) ==
  /\ session'[s].nextLeaseAttempt \in session[s].nextLeaseAttempt .. MaxLeaseAttempts
  /\ \/ /\ lease'[s].leaseToken = lease[s].leaseToken
        /\ lease'[s].checkpointVersion \in lease[s].checkpointVersion .. MaxCheckpointVersion
     \/ lease'[s] = NoLease
     \/ /\ lease'[s].leaseToken[1] = session[s].nextLeaseAttempt + 1
        /\ lease'[s].checkpointVersion = lease[s].checkpointVersion

LEMMA RowSteps ==
  ASSUME IInv, RowsBounded, [Next]_storeVars, NEW s \in Sessions
  PROVE  RowStep(s)
<1> DEFINE n == session[s].nextLeaseAttempt
           v == lease[s].checkpointVersion
<1>0. /\ lease \in [Sessions -> LeaseRows] /\ lease[s] \in LeaseRows
      /\ session \in [Sessions -> SessionRows] /\ session[s] \in SessionRows
      /\ n \in Nat /\ n \in n .. MaxLeaseAttempts
      /\ v \in Nat /\ v \in v .. MaxCheckpointVersion
      /\ MaxLeaseAttempts \in Nat /\ MaxCheckpointVersion \in Nat
  BY StoreConstants DEF IInv, TypeOK, RowsBounded, SessionRows, LeaseRows
<1>1. CASE session'[s].nextLeaseAttempt = n /\ lease'[s] = lease[s]
  BY <1>0, <1>1 DEF RowStep
<1>2. CASE session'[s].nextLeaseAttempt = n /\ lease'[s] = NoLease
  BY <1>0, <1>2 DEF RowStep
<1>3. CASE /\ session'[s].nextLeaseAttempt = n
           /\ lease'[s].leaseToken = lease[s].leaseToken
           /\ lease'[s].checkpointVersion \in v .. MaxCheckpointVersion
  BY <1>0, <1>3 DEF RowStep
<1>4. ASSUME NEW t \in Sessions, CreateSession(t) PROVE RowStep(s)
  BY <1>0, <1>1, <1>4 DEF CreateSession, SessionRows
<1>5. ASSUME NEW c \in Commands, EnqueueSessionCommand(c) PROVE RowStep(s)
  BY <1>0, <1>1, <1>5 DEF EnqueueSessionCommand, SessionRows
<1>6. ASSUME NEW t \in Sessions, NEW w \in Workers, NEW d \in Clock, ClaimSessionLease(t, w, d)
      PROVE  RowStep(s)
  <2> DEFINE srow == [session[s] EXCEPT !.nextLeaseAttempt = n + 1, !.status = "running"]
             lrow == [leasedBy |-> w, leaseToken |-> Token(n + 1, w), ttl |-> TTL + d,
                      checkpointVersion |-> v]
  <2>1. CASE t # s
    BY <1>0, <1>1, <1>6, <2>1 DEF ClaimSessionLease
  <2>2. CASE t = s
    <3>1. session'[s] = srow /\ lease'[s] = lrow /\ n < MaxLeaseAttempts
      BY <1>0, <1>6, <2>2 DEF ClaimSessionLease
    <3>2. srow.nextLeaseAttempt = n + 1
      <4>1. n + 1 \in Nat
        BY <1>0
      <4> QED
        BY <1>0, <4>1, ClaimedSessionRow, Zenon
    <3>3. lrow.leaseToken[1] = n + 1 /\ lrow.checkpointVersion = v
      BY DEF Token
    <3> HIDE DEF srow, lrow
    <3> QED
      BY <1>0, <3>1, <3>2, <3>3 DEF RowStep
  <2> QED
    BY <2>1, <2>2
<1>7. ASSUME NEW R \in SUBSET Sessions, NEW d \in Clock, RecoverLeases(R, d) PROVE RowStep(s)
  <2>1. session'[s].nextLeaseAttempt = n
    BY <1>0, <1>7 DEF RecoverLeases, SessionRows
  <2>2. lease'[s] = lease[s] \/ lease'[s] = NoLease
    BY <1>7 DEF RecoverLeases
  <2> QED
    BY <1>1, <1>2, <2>1, <2>2
<1>8. ASSUME NEW l \in LeaseCopies, NEW d \in Clock, LeaseCall(l, d) PROVE RowStep(s)
  <2>0. l.session \in Sessions
    BY CopiesTyped
  <2>1. CASE RecoverSessionLease(l, d)
    BY <1>7, <2>0, <2>1 DEF RecoverSessionLease
  <2>2. CASE ReleaseSessionLease(l)
    BY <1>0, <1>1, <1>2, <2>0, <2>2 DEF ReleaseSessionLease, SessionRows
  <2>3. CASE RenewSessionLease(l, d)
    BY <1>0, <1>3, <2>0, <2>3 DEF RenewSessionLease, LeaseRows
  <2>4. CASE CheckpointSession(l, d)
    BY <1>0, <1>3, <2>0, <2>4 DEF CheckpointSession, LeaseRows
  <2>5. CASE \E st \in {"idle", "running", "errored"} : UpdateSessionStatus(l, st, d)
    BY <1>0, <1>1, <2>0, <2>5 DEF UpdateSessionStatus, SessionRows
  <2> QED
    BY <1>8, <2>1, <2>2, <2>3, <2>4, <2>5 DEF LeaseCall
<1>9. ASSUME NEW l \in LeaseCopies, NEW c \in Commands, NEW d \in Clock, CommandCall(l, c, d)
      PROVE  RowStep(s)
  <2>0. l.session \in Sessions
    BY CopiesTyped
  <2>1. CASE DeferSessionCommand(l, c, d)
    BY <1>0, <1>1, <1>2, <2>0, <2>1 DEF DeferSessionCommand, SessionRows
  <2>2. CASE CheckpointAndAckSessionCommand(l, c, d)
    BY <1>0, <1>3, <2>0, <2>2 DEF CheckpointAndAckSessionCommand, LeaseRows
  <2> QED
    BY <1>1, <1>9, <2>1, <2>2
       DEF CommandCall, ClaimNextSessionCommand, AckSessionCommand, FailSessionCommand
<1>10. CASE Tick
  BY <1>0, <1>3, <1>10 DEF Tick, LeaseRows
<1> QED
  BY <1>1, <1>4, <1>5, <1>6, <1>7, <1>8, <1>9, <1>10
     DEF Next, ReapExpiredSessionLeases, storeVars

LEMMA RowsBoundedStep ==
  ASSUME IInv, RowsBounded, [Next]_storeVars
  PROVE  RowsBounded'
<1> SUFFICES ASSUME NEW s \in Sessions
             PROVE  /\ session'[s].nextLeaseAttempt <= MaxLeaseAttempts
                    /\ lease'[s].checkpointVersion <= MaxCheckpointVersion
  BY DEF RowsBounded
<1>1. /\ session[s].nextLeaseAttempt \in Nat /\ lease[s].checkpointVersion \in Nat
      /\ lease[s].checkpointVersion <= MaxCheckpointVersion
      /\ MaxLeaseAttempts \in Nat /\ MaxCheckpointVersion \in Nat
  BY StoreConstants DEF IInv, TypeOK, SessionRows, LeaseRows, RowsBounded
<1>2. NoLease.checkpointVersion = 0
  BY DEF NoLease
<1> QED
  BY <1>1, <1>2, RowSteps DEF RowStep

\* A copy, field by field.
LEMMA CopyFields ==
  ASSUME NEW l \in LeaseCopies
  PROVE  /\ l = [session |-> l.session, leasedBy |-> l.leasedBy,
                 leaseToken |-> Token(l.leaseToken[1], l.leasedBy),
                 checkpointVersion |-> l.checkpointVersion]
         /\ l.session \in Sessions
         /\ l.leasedBy \in Workers
         /\ l.leaseToken = Token(l.leaseToken[1], l.leasedBy)
         /\ l.leaseToken[1] \in 1..MaxLeaseAttempts
         /\ l.leaseToken[1] \in Nat \ {0}
         /\ l.leaseToken # NoToken
         /\ l.checkpointVersion \in 0..MaxCheckpointVersion
         /\ l.checkpointVersion \in Nat
         /\ l \in LeaseCopyRows
         /\ l # NoCopy
<1>1. PICK s \in Sessions, w \in Workers, n \in 1..MaxLeaseAttempts, v \in 0..MaxCheckpointVersion :
        l = [session |-> s, leasedBy |-> w, leaseToken |-> Token(n, w), checkpointVersion |-> v]
  BY DEF LeaseCopies
<1>2. n \in Nat \ {0} /\ v \in Nat
  BY StoreConstants
<1>3. Token(n, w) \in Tokens /\ Token(n, w) # NoToken /\ Token(n, w)[1] = n
  BY <1>2 DEF Token, NoToken, Tokens
<1>4. l.session = s /\ l.leasedBy = w /\ l.leaseToken = Token(n, w) /\ l.checkpointVersion = v
  BY <1>1
<1>5. l \in LeaseCopyRows
  BY <1>1, <1>2, <1>3 DEF LeaseCopyRows
<1>6. NoCopy.leaseToken = NoToken
  BY DEF NoCopy
<1> QED
  BY <1>1, <1>2, <1>3, <1>4, <1>5, <1>6

LEMMA CopyBuilt ==
  ASSUME NEW s \in Sessions, NEW w \in Workers, NEW n \in 1..MaxLeaseAttempts,
         NEW v \in 0..MaxCheckpointVersion, NEW l,
         l = [session |-> s, leasedBy |-> w, leaseToken |-> Token(n, w), checkpointVersion |-> v]
  PROVE  /\ l \in LeaseCopies
         /\ l.session = s /\ l.leasedBy = w /\ l.leaseToken = Token(n, w)
         /\ l.leaseToken[1] = n /\ l.checkpointVersion = v
  BY DEF LeaseCopies, Token

\* A row that carries the token of a known copy carried it before the step.
LEMMA TokenCameBefore ==
  ASSUME IInv, RowsBounded, [Next]_storeVars, NEW w \in Workers, NEW l, Known(w, l),
         lease'[l.session].leaseToken = l.leaseToken
  PROVE  /\ lease[l.session].leaseToken = l.leaseToken
         /\ lease[l.session].checkpointVersion <= lease'[l.session].checkpointVersion
<1> DEFINE s == l.session
<1>1. /\ s \in Sessions /\ l.leaseToken # NoToken /\ l.leaseToken[1] \in Nat
      /\ l.leaseToken[1] <= session[s].nextLeaseAttempt
  BY CopyFields DEF Known
<1>2. session[s].nextLeaseAttempt \in Nat /\ lease[s].checkpointVersion \in Nat
  BY <1>1 DEF IInv, TypeOK, SessionRows, LeaseRows
<1>3. lease'[s] # NoLease
  BY <1>1, RowsTyped
<1>4. lease'[s].leaseToken[1] # session[s].nextLeaseAttempt + 1
  BY <1>1, <1>2
<1> QED
  BY <1>1, <1>2, <1>3, <1>4, RowSteps, StoreConstants DEF RowStep

\* A known copy stays known: leases are only ever issued and versions only grow.
LEMMA KnownStays ==
  ASSUME IInv, RowsBounded, [Next]_storeVars, NEW w \in Workers, NEW l, Known(w, l)
  PROVE  KnownNext(w, l)
<1> DEFINE s == l.session
<1>1. /\ s \in Sessions /\ l.leaseToken[1] \in Nat /\ l.checkpointVersion \in Nat
      /\ l \in LeaseCopies /\ l.leasedBy = w
      /\ l.leaseToken[1] <= session[s].nextLeaseAttempt
  BY CopyFields DEF Known, KnownNext
<1>2. session[s].nextLeaseAttempt \in Nat /\ lease[s].checkpointVersion \in Nat
  BY <1>1 DEF IInv, TypeOK, SessionRows, LeaseRows
<1>3. /\ session'[s].nextLeaseAttempt \in Nat
      /\ session[s].nextLeaseAttempt <= session'[s].nextLeaseAttempt
  BY <1>1, <1>2, RowSteps, StoreConstants DEF RowStep
<1>4. ASSUME lease'[s].leaseToken = l.leaseToken
      PROVE  l.checkpointVersion <= lease'[s].checkpointVersion
  <2>1. /\ lease[s].leaseToken = l.leaseToken
        /\ lease[s].checkpointVersion <= lease'[s].checkpointVersion
    BY <1>4, TokenCameBefore
  <2>2. lease'[s].checkpointVersion \in Nat
    <3>1. IInv'
      BY NextIInv
    <3> QED
      BY <1>1, <3>1 DEF IInv, TypeOK, LeaseRows
  <2> QED
    BY <1>1, <1>2, <2>1, <2>2 DEF Known, KnownNext
<1> QED
  BY <1>1, <1>2, <1>3, <1>4 DEF Known, KnownNext

\* The row that a known copy still names is a lease of the same worker: what a
\* renewal returns is known.
LEMMA RowIsKnown ==
  ASSUME IInv, RowsBounded, NEW w \in Workers, NEW l, Known(w, l),
         lease[l.session].leaseToken = l.leaseToken
  PROVE  /\ Known(w, LeaseCopy(l.session))
         /\ LeaseCopy(l.session).session = l.session
         /\ LeaseCopy(l.session).leaseToken = l.leaseToken
<1> DEFINE s == l.session
           k == LeaseCopy(s)
<1>1. /\ s \in Sessions /\ l.leaseToken # NoToken
      /\ l.leaseToken = Token(l.leaseToken[1], w)
      /\ l.leaseToken[1] \in 1..MaxLeaseAttempts /\ l.leaseToken[1] \in Nat
      /\ l.leaseToken[1] <= session[s].nextLeaseAttempt
  BY CopyFields DEF Known, KnownNext
<1>2. lease[s].checkpointVersion \in 0..MaxCheckpointVersion
  BY <1>1, StoreConstants DEF IInv, TypeOK, RowsBounded, LeaseRows
<1>3. lease[s].leasedBy = w
  <2>1. lease[s].leaseToken = Token(session[s].nextLeaseAttempt, lease[s].leasedBy)
    BY <1>1 DEF IInv, LeaseIsNewest, Present
  <2> QED
    BY <1>1, <2>1 DEF Token
<1>4. k = [session |-> s, leasedBy |-> w, leaseToken |-> Token(l.leaseToken[1], w),
           checkpointVersion |-> lease[s].checkpointVersion]
  BY <1>1, <1>3 DEF LeaseCopy
<1>5. /\ k \in LeaseCopies
      /\ k.session = s /\ k.leasedBy = w /\ k.leaseToken = l.leaseToken
      /\ k.leaseToken[1] = l.leaseToken[1] /\ k.checkpointVersion = lease[s].checkpointVersion
  BY <1>1, <1>2, <1>4, CopyBuilt
<1> HIDE DEF k
<1>6. k.checkpointVersion <= lease[s].checkpointVersion
  BY <1>2, <1>5, StoreConstants
<1>7. Known(w, k)
  BY <1>1, <1>5, <1>6 DEF Known, KnownNext
<1> QED
  BY <1>5, <1>7 DEF k

\* What claimSessionLease returns is known.
LEMMA ClaimIsKnown ==
  ASSUME IInv, RowsBounded, NEW s \in Sessions, NEW w \in Workers, NEW d \in Clock,
         ClaimSessionLease(s, w, d), NEW l,
         l = [session |-> s, leasedBy |-> w,
              leaseToken |-> Token(session[s].nextLeaseAttempt + 1, w),
              checkpointVersion |-> lease[s].checkpointVersion]
  PROVE  KnownNext(w, l) /\ l.session = s
<1> DEFINE n == session[s].nextLeaseAttempt
           v == lease[s].checkpointVersion
<1>1. /\ n \in Nat /\ v \in Nat /\ v <= MaxCheckpointVersion /\ n < MaxLeaseAttempts
      /\ session[s] \in SessionRows /\ n + 1 \in Nat
      /\ MaxCheckpointVersion \in Nat /\ MaxLeaseAttempts \in Nat
  BY StoreConstants DEF IInv, TypeOK, RowsBounded, SessionRows, LeaseRows, ClaimSessionLease
<1>2. n + 1 \in 1..MaxLeaseAttempts /\ v \in 0..MaxCheckpointVersion
  BY <1>1
<1>3. /\ l \in LeaseCopies /\ l.session = s /\ l.leasedBy = w
      /\ l.leaseToken = Token(n + 1, w) /\ l.leaseToken[1] = n + 1 /\ l.checkpointVersion = v
  BY <1>2, CopyBuilt
<1>4. session'[s].nextLeaseAttempt = n + 1
  <2>1. session'[s] = [session[s] EXCEPT !.nextLeaseAttempt = n + 1, !.status = "running"]
    BY DEF ClaimSessionLease, IInv, TypeOK
  <2> QED
    BY <1>1, <2>1, ClaimedSessionRow, Zenon
<1>5. lease'[s].checkpointVersion = v
  BY DEF ClaimSessionLease, IInv, TypeOK
<1> QED
  BY <1>1, <1>3, <1>4, <1>5 DEF Known, KnownNext

\* After a checkpoint of its session, the advanced copy is known.
LEMMA AdvancedIsKnown ==
  ASSUME IInv, RowsBounded, NEW w \in Workers, NEW l, Known(w, l),
         session' = session,
         l.checkpointVersion = lease[l.session].checkpointVersion,
         l.checkpointVersion < MaxCheckpointVersion,
         lease' = [lease EXCEPT ![l.session].checkpointVersion = @ + 1]
  PROVE  /\ KnownNext(w, Advanced(l))
         /\ Advanced(l).session = l.session
         /\ Advanced(l).leaseToken = l.leaseToken
<1> DEFINE s == l.session
           k == Advanced(l)
           n == l.leaseToken[1]
           v == l.checkpointVersion
<1>1. /\ s \in Sessions /\ w \in Workers /\ n \in 1..MaxLeaseAttempts
      /\ v \in Nat /\ MaxCheckpointVersion \in Nat /\ n <= session[s].nextLeaseAttempt
      /\ l = [session |-> s, leasedBy |-> w, leaseToken |-> Token(n, w), checkpointVersion |-> v]
      /\ l.leaseToken = Token(n, w)
  BY CopyFields, StoreConstants DEF Known, KnownNext
<1>2. v + 1 \in 0..MaxCheckpointVersion
  BY <1>1
<1>3. k = [session |-> s, leasedBy |-> w, leaseToken |-> Token(n, w), checkpointVersion |-> v + 1]
  BY <1>1 DEF Advanced
<1>4. /\ k \in LeaseCopies /\ k.session = s /\ k.leasedBy = w /\ k.leaseToken = Token(n, w)
      /\ k.leaseToken[1] = n /\ k.checkpointVersion = v + 1
  BY <1>1, <1>2, <1>3, CopyBuilt
<1> HIDE DEF k
<1>5. lease'[s].checkpointVersion = v + 1
  BY <1>1 DEF IInv, TypeOK, LeaseRows
<1>6. KnownNext(w, k)
  BY <1>1, <1>4, <1>5 DEF Known, KnownNext
<1> QED
  BY <1>1, <1>4, <1>6 DEF k

-----------------------------------------------------------------------------
(* Every step is a step of the store, or leaves the tables alone. *)

\* The lane presents a known copy, for a command of its session.
LEMMA LanePresents ==
  ASSUME CopyInv, NEW i \in Lanes
  PROVE  /\ WorkerOf[i] \in Workers
         /\ lane[i] \in LaneRows
         /\ lane[i].pc # "idle" => lane[i].session \in Sessions
         /\ lane[i].pc \notin {"idle", "claim"} =>
              /\ Known(WorkerOf[i], lane[i].lease)
              /\ lane[i].lease \in LeaseCopies
              /\ lane[i].lease.session = lane[i].session
         /\ lane[i].pc \in Works =>
              lane[i].command \in Commands /\ SessionOf[lane[i].command] = lane[i].session
  BY WorkerConstants DEF CopyInv, LanesKnown, LaneKnown, Known

LEMMA StatusKept ==
  ASSUME IInv, NEW s \in Sessions, session' = [session EXCEPT ![s].status = session[s].status]
  PROVE  session' = session
  BY DEF IInv, TypeOK, SessionRows

LEMMA CommandStepOfStore ==
  ASSUME CopyInv, NEW i \in Lanes, NEW d \in Clock, CommandStep(i, d)
  PROVE  Next \/ UNCHANGED storeVars
<1> USE DEF Works, Active, Renewing, Executing
<1>1. CASE LaneRenew(i, d)
  BY LanePresents, <1>1 DEF LaneRenew, Next, LeaseCall
<1>2. CASE LaneClaim(i, d)
  BY LanePresents, <1>2 DEF LaneClaim, Next
<1>3. CASE LaneNext(i, d)
  BY LanePresents, <1>3 DEF LaneNext, Next, CommandCall
<1>4. CASE LaneDefer(i, d)
  BY LanePresents, <1>4 DEF LaneDefer, Next, CommandCall
<1>5. CASE LaneError(i, d)
  BY LanePresents, <1>5 DEF LaneError, Next, LeaseCall
<1>6. CASE LaneFail(i, d)
  BY LanePresents, <1>6 DEF LaneFail, Next, CommandCall
<1>7. CASE LaneAck(i, d) \/ LaneAckLost(i, d)
  BY LanePresents, <1>7 DEF LaneAck, LaneAckLost, Next, CommandCall
<1>8. CASE LaneRetry(i, d)
  BY LanePresents, <1>8 DEF LaneRetry, Next, LeaseCall
<1> QED
  BY <1>1, <1>2, <1>3, <1>4, <1>5, <1>6, <1>7, <1>8
     DEF CommandStep, LaneRenewFails, LaneClaimDenied, LaneNextNone, LaneReserve,
         LaneReserveDenied, LaneProvision, LaneExecuted, LaneAborted, LaneCollect, Collect,
         LanePut, LaneAckStaleVersion, LaneThrows

LEMMA EventStepOfStore ==
  ASSUME CopyInv, NEW i \in Lanes, NEW d \in Clock, EventStep(i, d)
  PROVE  Next \/ UNCHANGED storeVars
<1>1. CASE EventRenew(i, d)
  BY LanePresents, <1>1 DEF EventRenew, Next, LeaseCall
<1>2. CASE EventAppend(i, d)
  <2>0. /\ lane[i].pc = "evAppend" /\ lane[i].lease \in LeaseCopies
        /\ lane[i].lease.session = lane[i].session /\ lane[i].session \in Sessions
    BY LanePresents, <1>2 DEF EventAppend
  <2>1. PICK status \in {"idle", "running", "errored", session[lane[i].session].status} :
          UpdateSessionStatus(lane[i].lease, status, d)
    BY <1>2 DEF EventAppend
  <2>2. CASE status \in {"idle", "running", "errored"}
    BY <2>0, <2>1, <2>2 DEF Next, LeaseCall
  <2>3. CASE status = session[lane[i].session].status
    <3>1. session' = [session EXCEPT ![lane[i].session].status = session[lane[i].session].status]
      BY <2>0, <2>1, <2>3 DEF UpdateSessionStatus
    <3>2. session' = session
      BY <2>0, <3>1, StatusKept DEF CopyInv
    <3> QED
      BY <2>1, <3>2 DEF UpdateSessionStatus, storeVars
  <2> QED
    BY <2>1, <2>2, <2>3
<1>3. CASE EventCheckpoint(i, d)
  BY LanePresents, <1>3 DEF EventCheckpoint, Next, LeaseCall
<1> QED
  BY <1>1, <1>2, <1>3
     DEF EventStep, EventCheckpointStaleVersion, EventCollect, Collect, EventPut, EventStale

LEMMA TimerStepOfStore ==
  ASSUME CopyInv, NEW i \in Lanes, NEW d \in Clock, TimerStep(i, d)
  PROVE  Next \/ UNCHANGED storeVars
<1> USE DEF Works, Active, Renewing, Executing
<1>1. CASE TimerRenew(i, d)
  BY LanePresents, <1>1 DEF TimerRenew, TimerFires, Next, LeaseCall
<1> QED
  BY <1>1 DEF TimerStep, TimerRenewFails, TimerApply

LEMMA ShutdownStepOfStore ==
  ASSUME CopyInv, NEW w \in Workers, NEW d \in Clock, ShutdownStep(w, d)
  PROVE  Next \/ UNCHANGED storeVars
<1>0. \A l \in stopping[w] : l \in LeaseCopies
  BY DEF CopyInv, StopsKnown, Known
<1>1. ASSUME NEW l \in stopping[w], RecoverActive(w, l, d) \/ ReleaseCached(w, l)
      PROVE  Next \/ UNCHANGED storeVars
  BY <1>0, <1>1 DEF RecoverActive, ReleaseCached, Next, LeaseCall
<1> QED
  BY <1>1 DEF ShutdownStep, AbortActive, RecoverActiveFails, BeginRelease, Exit, ProcessGone, Restart

LEMMA StoreStep ==
  ASSUME CopyInv, [WorkerNext]_vars
  PROVE  [Next]_storeVars
<1>1. CASE Environment
  BY <1>1 DEF Environment, Next
<1>2. ASSUME NEW i \in Lanes, NEW s \in Sessions, HttpLane(i, s) \/ StartEvent(i, s)
      PROVE  UNCHANGED storeVars
  BY <1>2 DEF HttpLane, StartLane, StartEvent
<1>3. ASSUME NEW d \in Clock, NEW i \in Lanes,
             \/ \E s \in Sessions : LoopLane(i, s, d)
             \/ CommandStep(i, d) \/ EventStep(i, d) \/ TimerStep(i, d)
      PROVE  Next \/ UNCHANGED storeVars
  BY <1>3, CommandStepOfStore, EventStepOfStore, TimerStepOfStore DEF LoopLane, StartLane
<1>4. ASSUME NEW d \in Clock, NEW w \in Workers,
             (\E R \in SUBSET Sessions : Reap(w, R, d)) \/ ShutdownStep(w, d)
      PROVE  Next \/ UNCHANGED storeVars
  BY <1>4, ShutdownStepOfStore DEF Reap, Next
<1>5. ASSUME NEW w \in Workers,
             (\E s \in Sessions : EvictRuntime(w, s)) \/ Crash(w) \/ BeginShutdown(w)
      PROVE  UNCHANGED storeVars
  BY <1>5 DEF EvictRuntime, Crash, ProcessGone, BeginShutdown
<1>6. CASE UNCHANGED vars
  BY <1>6 DEF vars
<1>7. CASE WorkerNext
  BY <1>1, <1>2, <1>3, <1>4, <1>5, <1>7 DEF WorkerNext
<1> QED
  BY <1>6, <1>7

-----------------------------------------------------------------------------
(* What a step does to the copies a process keeps. *)

\* Every step keeps the store's invariants and the copies that are known.
Keeps ==
  /\ IInv' /\ RowsBounded'
  /\ \A w \in Workers : \A l \in LeaseCopies : Known(w, l) => KnownNext(w, l)

LEMMA StepKeeps ==
  ASSUME CopyInv, [WorkerNext]_vars
  PROVE  Keeps
<1>1. [Next]_storeVars /\ IInv /\ RowsBounded
  BY StoreStep DEF CopyInv
<1> QED
  BY <1>1, NextIInv, RowsBoundedStep, KnownStays DEF Keeps

LEMMA CachesKept ==
  ASSUME CopyInv, Keeps, leases' \in [Workers -> [Sessions -> LeaseCopyRows]],
         \A w \in Workers, s \in Sessions :
           \/ leases'[w][s] \in {leases[w][s], NoCopy}
           \/ KnownNext(w, leases'[w][s]) /\ leases'[w][s].session = s
  PROVE  CachesKnown'
<1> SUFFICES ASSUME NEW w \in Workers, NEW s \in Sessions, leases'[w][s] # NoCopy
             PROVE  KnownNext(w, leases'[w][s]) /\ leases'[w][s].session = s
  BY DEF CachesKnown, CacheKnown, Known, KnownNext
<1>1. CASE leases'[w][s] = leases[w][s]
  <2>1. Known(w, leases[w][s]) /\ leases[w][s].session = s
    BY <1>1 DEF CopyInv, CachesKnown, CacheKnown
  <2> QED
    BY <1>1, <2>1 DEF Keeps, Known
<1> QED
  BY <1>1

LEMMA NoCopyTyped == NoCopy \in LeaseCopyRows /\ NoCopy.session = Nil
  BY RowsTyped DEF NoCopy, LeaseCopyRows

LEMMA CachesDropped ==
  ASSUME CopyInv, Keeps, NEW w \in Workers, NEW s \in Sessions, leases' = Dropped(w, s)
  PROVE  CachesKnown'
<1>1. leases \in [Workers -> [Sessions -> LeaseCopyRows]]
  BY DEF CopyInv, CachesKnown
<1>2. leases' \in [Workers -> [Sessions -> LeaseCopyRows]]
  BY <1>1, NoCopyTyped DEF Dropped
<1>3. \A v \in Workers, t \in Sessions : leases'[v][t] \in {leases[v][t], NoCopy}
  BY <1>1 DEF Dropped
<1> QED
  BY <1>2, <1>3, CachesKept

\* The three things touchLease may leave in an entry.
LEMMA TouchedEntries ==
  ASSUME CopyInv, NEW w \in Workers, NEW l \in LeaseCopyRows, l.session \in Sessions,
         leases' \in Touched(w, l)
  PROVE  /\ leases' \in [Workers -> [Sessions -> LeaseCopyRows]]
         /\ \A v \in Workers, t \in Sessions :
              \/ leases'[v][t] \in {leases[v][t], NoCopy}
              \/ v = w /\ t = l.session /\ leases'[v][t] = l
<1> DEFINE new == [leases[w] EXCEPT ![l.session] = l]
           Goal == /\ leases' \in [Workers -> [Sessions -> LeaseCopyRows]]
                   /\ \A v \in Workers, t \in Sessions :
                        \/ leases'[v][t] \in {leases[v][t], NoCopy}
                        \/ v = w /\ t = l.session /\ leases'[v][t] = l
<1>1. leases \in [Workers -> [Sessions -> LeaseCopyRows]]
  BY DEF CopyInv, CachesKnown
<1>2. /\ new \in [Sessions -> LeaseCopyRows]
      /\ \A t \in Sessions : new[t] = IF t = l.session THEN l ELSE leases[w][t]
  BY <1>1
<1>3. \/ leases' = [leases EXCEPT ![w] = new]
      \/ \E s \in Sessions : leases' = [leases EXCEPT ![w] = [new EXCEPT ![s] = NoCopy]]
  BY DEF Touched
<1> HIDE DEF new
<1>4. CASE leases' = [leases EXCEPT ![w] = new]
  BY <1>1, <1>2, <1>4
<1>5. ASSUME NEW s \in Sessions, leases' = [leases EXCEPT ![w] = [new EXCEPT ![s] = NoCopy]]
      PROVE  Goal
  <2> DEFINE newer == [new EXCEPT ![s] = NoCopy]
  <2>1. /\ newer \in [Sessions -> LeaseCopyRows]
        /\ \A t \in Sessions : newer[t] \in {new[t], NoCopy}
    BY <1>2, NoCopyTyped
  <2>2. leases' = [leases EXCEPT ![w] = newer]
    BY <1>5
  <2> HIDE DEF newer
  <2> QED
    BY <1>1, <1>2, <2>1, <2>2
<1> QED
  BY <1>3, <1>4, <1>5

LEMMA CachesTouched ==
  ASSUME CopyInv, Keeps, NEW w \in Workers, NEW l, KnownNext(w, l), leases' \in Touched(w, l)
  PROVE  CachesKnown'
<1>1. l \in LeaseCopyRows /\ l.session \in Sessions
  BY CopyFields DEF Known, KnownNext
<1> QED
  BY <1>1, TouchedEntries, CachesKept

LEMMA CachesSame ==
  ASSUME CopyInv, Keeps, leases' = leases
  PROVE  CachesKnown'
  BY CachesKept DEF CopyInv, CachesKnown

LEMMA StopsKept ==
  ASSUME CopyInv, Keeps, NEW w \in Workers, NEW S,
         \A l \in S : l \in stopping[w] \/ Known(w, l),
         stopping' = [stopping EXCEPT ![w] = S]
  PROVE  StopsKnown'
<1>1. \A v \in Workers : \A l \in stopping[v] : l \in LeaseCopyRows /\ l \in LeaseCopies /\ Known(v, l)
  BY CopyFields DEF CopyInv, StopsKnown, Known
<1>2. \A l \in S : l \in LeaseCopyRows /\ l \in LeaseCopies /\ Known(w, l)
  BY <1>1, CopyFields DEF Known, KnownNext
<1>3. stopping \in [Workers -> SUBSET LeaseCopyRows]
  BY DEF CopyInv, StopsKnown
<1>4. /\ stopping' \in [Workers -> SUBSET LeaseCopyRows]
      /\ \A v \in Workers : stopping'[v] = IF v = w THEN S ELSE stopping[v]
  BY <1>2, <1>3
<1>5. \A v \in Workers : \A l \in stopping'[v] : KnownNext(v, l)
  BY <1>1, <1>2, <1>4 DEF Keeps
<1> QED
  BY <1>4, <1>5 DEF StopsKnown, Known, KnownNext

LEMMA StopsSame ==
  ASSUME CopyInv, Keeps, stopping' = stopping
  PROVE  StopsKnown'
<1>1. \A w \in Workers : \A l \in stopping[w] : KnownNext(w, l)
  BY DEF CopyInv, StopsKnown, Keeps, Known
<1> QED
  BY <1>1 DEF CopyInv, StopsKnown, Known, KnownNext

-----------------------------------------------------------------------------
(* What a step does to a lane. *)

\* After the step lane i is at p, with these local variables, and no other lane
\* has moved.
At(i, p, s, l, c, files) ==
  /\ lane' \in [Lanes -> LaneRows]
  /\ \A j \in Lanes : j # i => lane'[j] = lane[j]
  /\ lane'[i].pc = p
  /\ lane'[i].session = s
  /\ lane'[i].lease = l
  /\ lane'[i].command = c
  /\ lane'[i].snapshot = files

LEMMA ActivationTyped ==
  ASSUME NEW p \in PCs, NEW s \in Sessions \cup {Nil}, NEW l \in LeaseCopyRows
  PROVE  /\ Activation(p, s, l) \in LaneRows
         /\ Activation(p, s, l).pc = p /\ Activation(p, s, l).session = s
         /\ Activation(p, s, l).lease = l /\ Activation(p, s, l).command = Nil
         /\ Activation(p, s, l).snapshot = {}
  BY WorkerConstants DEF Activation, LaneRows

LEMMA IdleTyped ==
  /\ Idle \in LaneRows
  /\ Idle.pc = "idle" /\ Idle.session = Nil /\ Idle.lease = NoCopy
  /\ Idle.command = Nil /\ Idle.snapshot = {}
  BY NoCopyTyped, WorkerConstants DEF Idle, Activation, LaneRows, PCs

LEMMA WritesPC ==
  ASSUME LanesKnown, NEW i \in Lanes, NEW p \in PCs, Goto(i, p)
  PROVE  At(i, p, lane[i].session, lane[i].lease, lane[i].command, lane[i].snapshot)
  BY DEF LanesKnown, LaneRows, Goto, At

LEMMA WritesLane ==
  ASSUME LanesKnown, NEW i \in Lanes, NEW r \in LaneRows, lane' = [lane EXCEPT ![i] = r]
  PROVE  At(i, r.pc, r.session, r.lease, r.command, r.snapshot)
<1>1. lane'[i] = r /\ lane' \in [Lanes -> LaneRows] /\ \A j \in Lanes : j # i => lane'[j] = lane[j]
  BY DEF LanesKnown
<1> QED
  BY <1>1, Zenon DEF At

LEMMA WritesLease ==
  ASSUME LanesKnown, NEW i \in Lanes, NEW p \in PCs, NEW l \in LeaseCopyRows,
         lane' = [lane EXCEPT ![i].pc = p, ![i].lease = l]
  PROVE  At(i, p, lane[i].session, l, lane[i].command, lane[i].snapshot)
<1> DEFINE r == lane[i]
           q == [r EXCEPT !.pc = p, !.lease = l]
<1>1. r \in LaneRows /\ lane' = [lane EXCEPT ![i] = q]
  BY DEF LanesKnown
<1> HIDE DEF r
<1>2. /\ q \in LaneRows /\ q.pc = p /\ q.session = r.session /\ q.lease = l
      /\ q.command = r.command /\ q.snapshot = r.snapshot
  BY <1>1 DEF LaneRows
<1> HIDE DEF q
<1>3. At(i, q.pc, q.session, q.lease, q.command, q.snapshot)
  BY <1>1, <1>2, WritesLane
<1> QED
  BY <1>2, <1>3, Zenon DEF r

LEMMA WritesCommand ==
  ASSUME LanesKnown, NEW i \in Lanes, NEW p \in PCs, NEW c \in Commands,
         lane' = [lane EXCEPT ![i].pc = p, ![i].command = c]
  PROVE  At(i, p, lane[i].session, lane[i].lease, c, lane[i].snapshot)
<1> DEFINE r == lane[i]
           q == [r EXCEPT !.pc = p, !.command = c]
<1>1. r \in LaneRows /\ lane' = [lane EXCEPT ![i] = q]
  BY DEF LanesKnown
<1> HIDE DEF r
<1>2. /\ q \in LaneRows /\ q.pc = p /\ q.session = r.session /\ q.lease = r.lease
      /\ q.command = c /\ q.snapshot = r.snapshot
  BY <1>1 DEF LaneRows
<1> HIDE DEF q
<1>3. At(i, q.pc, q.session, q.lease, q.command, q.snapshot)
  BY <1>1, <1>2, WritesLane
<1> QED
  BY <1>2, <1>3, Zenon DEF r

LEMMA WritesSnapshot ==
  ASSUME LanesKnown, NEW i \in Lanes, NEW p \in PCs, NEW files \in SUBSET Commands,
         lane' = [lane EXCEPT ![i].pc = p, ![i].snapshot = files]
  PROVE  At(i, p, lane[i].session, lane[i].lease, lane[i].command, files)
  BY DEF LanesKnown, LaneRows, At

LEMMA WritesTries ==
  ASSUME LanesKnown, NEW i \in Lanes, NEW p \in PCs, lane[i].tries + 1 < MaxRetries,
         lane' = [lane EXCEPT ![i].pc = p, ![i].tries = @ + 1]
  PROVE  At(i, p, lane[i].session, lane[i].lease, lane[i].command, lane[i].snapshot)
<1>1. lane[i].tries + 1 \in 0..MaxRetries
  BY WorkerConstants DEF LanesKnown, LaneRows
<1> QED
  BY <1>1 DEF LanesKnown, LaneRows, At

LEMMA WritesStart ==
  ASSUME LanesKnown, NEW i \in Lanes, NEW p \in PCs, NEW s \in Sessions, NEW l \in LeaseCopyRows,
         lane' = [lane EXCEPT ![i] = Activation(p, s, l)]
  PROVE  At(i, p, s, l, Nil, {})
  BY ActivationTyped DEF LanesKnown, At

LEMMA WritesIdle ==
  ASSUME LanesKnown, NEW i \in Lanes, Stop(i)
  PROVE  At(i, "idle", Nil, NoCopy, Nil, {}) /\ lane'[i] = Idle
  BY IdleTyped DEF LanesKnown, Stop, At

\* A lane that has moved is known if what it carries is.
LEMMA LaneMoved ==
  ASSUME CopyInv, Keeps, NEW i \in Lanes, NEW p \in PCs, NEW s, NEW l, NEW c, NEW files,
         At(i, p, s, l, c, files),
         p = "idle" => lane'[i] = Idle,
         p # "idle" => s \in Sessions,
         p = "claim" => l = NoCopy,
         p \notin {"idle", "claim"} => KnownNext(WorkerOf[i], l) /\ l.session = s,
         p \in Works => c \in Commands /\ SessionOf[c] = s
  PROVE  LanesKnown'
<1> SUFFICES ASSUME NEW j \in Lanes PROVE LaneKnown(j)'
  BY DEF LanesKnown, At
<1>1. CASE j = i
  BY <1>1 DEF LaneKnown, Known, KnownNext, At
<1>2. CASE j # i
  <2>1. lane'[j] = lane[j] /\ LaneKnown(j) /\ WorkerOf[j] \in Workers
    BY <1>2, WorkerConstants DEF At, CopyInv, LanesKnown
  <2>2. lane[j].pc \notin {"idle", "claim"} => KnownNext(WorkerOf[j], lane[j].lease)
    BY <2>1 DEF LaneKnown, Keeps, Known
  <2> QED
    BY <2>1, <2>2 DEF LaneKnown, Known, KnownNext
<1> QED
  BY <1>1, <1>2

\* A renewal stays known as long as the lane that waits for it goes on with the
\* lease it was for.
LEMMA RenewalsKept ==
  ASSUME CopyInv, Keeps, renewal' \in [Lanes -> RenewalRows],
         \A i \in Lanes :
           /\ renewal'[i] # NoRenewal =>
                renewal[i] # NoRenewal /\ renewal'[i].lease = renewal[i].lease
           /\ renewal'[i].mine => /\ renewal[i].mine /\ renewal'[i] # NoRenewal
                                  /\ lane'[i].pc \in Active
                                  /\ lane'[i].lease.session = lane[i].lease.session
                                  /\ lane'[i].lease.leaseToken = lane[i].lease.leaseToken
  PROVE  RenewalsKnown'
<1> SUFFICES ASSUME NEW i \in Lanes PROVE RenewalKnown(i)'
  BY DEF RenewalsKnown
<1>1. RenewalKnown(i) /\ WorkerOf[i] \in Workers
  BY WorkerConstants DEF CopyInv, RenewalsKnown
<1>2. renewal'[i] # NoRenewal => KnownNext(WorkerOf[i], renewal'[i].lease)
  BY <1>1 DEF RenewalKnown, Keeps, Known
<1> QED
  BY <1>1, <1>2 DEF RenewalKnown, Known, KnownNext

LEMMA NoRenewalTyped ==
  NoRenewal \in RenewalRows /\ NoRenewal.mine = FALSE /\ NoRenewal.outcome = "none"
  BY NoCopyTyped DEF NoRenewal, RenewalRows

LEMMA RenewalsSame ==
  ASSUME CopyInv, Keeps, NEW i \in Lanes, NEW p, NEW s, NEW l, NEW c, NEW files,
         At(i, p, s, l, c, files), renewal' = renewal,
         lane[i].pc \in Active => /\ p \in Active
                                  /\ l.session = lane[i].lease.session
                                  /\ l.leaseToken = lane[i].lease.leaseToken
  PROVE  RenewalsKnown'
<1>1. renewal \in [Lanes -> RenewalRows] /\ \A j \in Lanes : RenewalKnown(j)
  BY DEF CopyInv, RenewalsKnown
<1>2. \A j \in Lanes : renewal[j].mine =>
        /\ renewal[j] # NoRenewal
        /\ lane'[j].pc \in Active
        /\ lane'[j].lease.session = lane[j].lease.session
        /\ lane'[j].lease.leaseToken = lane[j].lease.leaseToken
  BY <1>1 DEF RenewalKnown, At
<1> QED
  BY <1>1, <1>2, RenewalsKept

LEMMA MineCleared ==
  ASSUME NEW r \in RenewalRows
  PROVE  LET row == [r EXCEPT !.mine = FALSE]
         IN  row \in RenewalRows /\ row.mine = FALSE /\ row.lease = r.lease
  BY DEF RenewalRows

LEMMA SameMine ==
  ASSUME NEW r \in RenewalRows, NEW b, r.mine = b
  PROVE  [r EXCEPT !.mine = b] = r
  BY DEF RenewalRows

LEMMA NothingCleared == [NoRenewal EXCEPT !.mine = FALSE] = NoRenewal
  BY NoRenewalTyped, SameMine, Zenon

LEMMA RenewalsDetached ==
  ASSUME CopyInv, Keeps, NEW i \in Lanes, NEW p, NEW s, NEW l, NEW c, NEW files,
         At(i, p, s, l, c, files), Detach(i)
  PROVE  RenewalsKnown'
<1>1. renewal \in [Lanes -> RenewalRows] /\ \A j \in Lanes : RenewalKnown(j)
  BY DEF CopyInv, RenewalsKnown
<1> DEFINE row == [renewal[i] EXCEPT !.mine = FALSE]
<1>2. /\ row \in RenewalRows /\ row.mine = FALSE /\ row.lease = renewal[i].lease
      /\ renewal[i] = NoRenewal => row = NoRenewal
  <2>1. /\ row \in RenewalRows /\ row.mine = FALSE /\ row.lease = renewal[i].lease
    <3>1. renewal[i] \in RenewalRows
      BY <1>1
    <3> QED
      BY <3>1, MineCleared, Zenon
  <2>2. ASSUME renewal[i] = NoRenewal PROVE row = NoRenewal
    BY <2>2, NothingCleared, Zenon
  <2> QED
    BY <2>1, <2>2
<1>3. \/ renewal' = [renewal EXCEPT ![i] = NoRenewal]
      \/ renewal' = [renewal EXCEPT ![i] = row]
  BY <1>1 DEF Detach
<1> HIDE DEF row
<1>4. /\ renewal' \in [Lanes -> RenewalRows]
      /\ renewal'[i] \in {NoRenewal, row}
      /\ \A j \in Lanes : j # i => renewal'[j] = renewal[j]
  BY <1>1, <1>2, <1>3, NoRenewalTyped
<1>5. \A j \in Lanes : j # i /\ renewal'[j].mine =>
        /\ renewal[j].mine /\ renewal'[j] # NoRenewal
        /\ lane'[j] = lane[j] /\ lane[j].pc \in Active
  BY <1>1, <1>4 DEF RenewalKnown, At
<1>6. renewal'[i].mine = FALSE
  BY <1>2, <1>4, NoRenewalTyped
<1> QED
  BY <1>2, <1>4, <1>5, <1>6, RenewalsKept

LEMMA LaneStops ==
  ASSUME CopyInv, Keeps, NEW i \in Lanes, Stop(i)
  PROVE  LanesKnown' /\ RenewalsKnown'
<1>1. At(i, "idle", Nil, NoCopy, Nil, {}) /\ lane'[i] = Idle
  BY WritesIdle DEF CopyInv
<1>2. LanesKnown'
  <2>1. "idle" \in PCs /\ "idle" \notin Works
    BY DEF PCs, Works, Active, Renewing, Executing
  <2> QED
    BY <1>1, <2>1, LaneMoved
<1>3. RenewalsKnown'
  BY <1>1, RenewalsDetached DEF Stop
<1> QED
  BY <1>2, <1>3

\* A lane goes on with a lease that is known after the step.
LEMMA LaneGoesOn ==
  ASSUME CopyInv, Keeps, NEW i \in Lanes, NEW p \in PCs \ {"idle", "claim"}, NEW l, NEW files,
         At(i, p, lane[i].session, l, lane[i].command, files),
         renewal' = renewal,
         lane[i].pc # "idle",
         KnownNext(WorkerOf[i], l),
         l.session = lane[i].session,
         lane[i].pc \in Active => p \in Active /\ l.leaseToken = lane[i].lease.leaseToken,
         p \in Works => lane[i].pc \in Works
  PROVE  LanesKnown' /\ RenewalsKnown'
<1>1. LanesKnown'
  BY LanePresents, LaneMoved
<1>2. lane[i].pc \in Active => lane[i].lease.session = lane[i].session
  BY LanePresents DEF Active, Renewing, Executing
<1>3. RenewalsKnown'
  BY <1>2, RenewalsSame
<1> QED
  BY <1>1, <1>3

\* The lease it had is one.
LEMMA LaneAdvances ==
  ASSUME CopyInv, Keeps, NEW i \in Lanes, NEW p \in PCs \ {"idle", "claim"}, NEW files,
         At(i, p, lane[i].session, lane[i].lease, lane[i].command, files),
         renewal' = renewal,
         lane[i].pc \notin {"idle", "claim"},
         lane[i].pc \in Active => p \in Active,
         p \in Works => lane[i].pc \in Works
  PROVE  LanesKnown' /\ RenewalsKnown'
<1>1. KnownNext(WorkerOf[i], lane[i].lease) /\ lane[i].lease.session = lane[i].session
  BY LanePresents DEF Keeps
<1> QED
  BY <1>1, LaneGoesOn

\* So is the one that a renewal of it returned.
LEMMA RenewalReturns ==
  ASSUME CopyInv, Keeps, NEW i \in Lanes, NEW d \in Clock, lane[i].pc \notin {"idle", "claim"},
         RenewSessionLease(lane[i].lease, d)
  PROVE  /\ KnownNext(WorkerOf[i], LeaseCopy(lane[i].session))
         /\ LeaseCopy(lane[i].session) \in LeaseCopyRows
         /\ LeaseCopy(lane[i].session).session = lane[i].session
         /\ LeaseCopy(lane[i].session).leaseToken = lane[i].lease.leaseToken
<1>1. /\ Known(WorkerOf[i], lane[i].lease) /\ WorkerOf[i] \in Workers
      /\ lane[i].lease.session = lane[i].session
      /\ lease[lane[i].lease.session].leaseToken = lane[i].lease.leaseToken
  BY LanePresents DEF RenewSessionLease, CurrentLease
<1>2. /\ Known(WorkerOf[i], LeaseCopy(lane[i].session))
      /\ LeaseCopy(lane[i].session).session = lane[i].session
      /\ LeaseCopy(lane[i].session).leaseToken = lane[i].lease.leaseToken
  BY <1>1, RowIsKnown DEF CopyInv
<1>3. LeaseCopy(lane[i].session) \in LeaseCopies
  BY <1>2 DEF Known
<1>4. KnownNext(WorkerOf[i], LeaseCopy(lane[i].session))
  BY <1>1, <1>2, <1>3 DEF Keeps
<1> QED
  BY <1>2, <1>3, <1>4, CopyFields

ProcessKnown == CachesKnown /\ LanesKnown /\ RenewalsKnown /\ StopsKnown

LEMMA StartKnown ==
  ASSUME CopyInv, Keeps, NEW i \in Lanes, NEW s \in Sessions, StartLane(i, s) \/ StartEvent(i, s)
  PROVE  ProcessKnown'
<1> DEFINE w == WorkerOf[i]
           l == leases[w][s]
           p == IF StartEvent(i, s) THEN "evRenew" ELSE IF l # NoCopy THEN "renew" ELSE "claim"
<1>1. /\ LanesKnown /\ w \in Workers /\ l \in LeaseCopyRows /\ CacheKnown(w, s)
      /\ lane[i].pc = "idle"
  BY WorkerConstants DEF CopyInv, CachesKnown, StartLane, StartEvent
<1>2. /\ p \in PCs /\ p # "idle" /\ p \notin Works
      /\ p = "claim" => l = NoCopy
      /\ p # "claim" => l # NoCopy
  BY DEF PCs, CommandPC, EventPC, Works, Active, Renewing, Executing, StartEvent
<1>3. /\ lane' = [lane EXCEPT ![i] = Activation(p, s, l)]
      /\ leases' = leases /\ renewal' = renewal /\ stopping' = stopping
  <2>1. CASE StartEvent(i, s)
    BY <2>1 DEF StartEvent
  <2>2. CASE ~StartEvent(i, s)
    BY <2>2 DEF StartLane
  <2> QED
    BY <2>1, <2>2
<1> HIDE DEF p
<1>4. At(i, p, s, l, Nil, {})
  BY <1>1, <1>2, <1>3, WritesStart
<1>5. l # NoCopy => KnownNext(w, l) /\ l.session = s
  BY <1>1 DEF CacheKnown, Keeps, Known
<1>6. LanesKnown'
  BY <1>2, <1>4, <1>5, LaneMoved
<1>7. RenewalsKnown'
  BY <1>1, <1>3, <1>4, RenewalsSame DEF Active, Renewing, Executing
<1> QED
  BY <1>3, <1>6, <1>7, CachesSame, StopsSame DEF ProcessKnown

LEMMA CommandStepKnown ==
  ASSUME CopyInv, Keeps, NEW i \in Lanes, NEW d \in Clock, CommandStep(i, d)
  PROVE  ProcessKnown'
<1> USE DEF Works, Active, Renewing, Executing, PCs, CommandPC
<1> DEFINE w == WorkerOf[i]
           s == lane[i].session
<1>0. LanesKnown /\ w \in Workers /\ IInv /\ RowsBounded
  BY WorkerConstants DEF CopyInv
<1>1. CASE LaneRenew(i, d)
  <2>1. KnownNext(w, LeaseCopy(s)) /\ LeaseCopy(s) \in LeaseCopyRows /\ LeaseCopy(s).session = s
    BY <1>1, RenewalReturns DEF LaneRenew
  <2>2. At(i, "next", s, LeaseCopy(s), lane[i].command, lane[i].snapshot)
    BY <1>0, <1>1, <2>1, WritesLease DEF LaneRenew
  <2>3. LanesKnown' /\ RenewalsKnown'
    BY <1>1, <2>1, <2>2, LaneGoesOn DEF LaneRenew
  <2> QED
    BY <1>0, <1>1, <2>1, <2>3, CachesTouched, StopsSame DEF LaneRenew, ProcessKnown
<1>2. CASE LaneRenewFails(i)
  <2>1. NoCopy \in LeaseCopyRows /\ lane[i].pc = "renew" /\ s \in Sessions
    BY <1>2, NoCopyTyped, LanePresents DEF LaneRenewFails
  <2>2. At(i, "claim", s, NoCopy, lane[i].command, lane[i].snapshot)
    BY <1>0, <1>2, <2>1, WritesLease DEF LaneRenewFails
  <2>3. LanesKnown'
    BY <2>1, <2>2, LaneMoved
  <2>4. RenewalsKnown'
    BY <1>2, <2>1, <2>2, RenewalsSame DEF LaneRenewFails
  <2> QED
    BY <1>0, <1>2, <2>1, <2>3, <2>4, CachesDropped, StopsSame DEF LaneRenewFails, ProcessKnown
<1>3. CASE LaneClaim(i, d)
  <2> DEFINE l == [session |-> s, leasedBy |-> w,
                   leaseToken |-> Token(session[s].nextLeaseAttempt + 1, w),
                   checkpointVersion |-> lease[s].checkpointVersion]
  <2>1. /\ lane[i].pc = "claim" /\ s \in Sessions /\ ClaimSessionLease(s, w, d)
        /\ leases' \in Touched(w, l)
        /\ lane' = [lane EXCEPT ![i].pc = "next", ![i].lease = l]
        /\ renewal' = renewal /\ stopping' = stopping
    BY <1>3, LanePresents DEF LaneClaim
  <2>2. KnownNext(w, l) /\ l.session = s
    BY <1>0, <2>1, ClaimIsKnown
  <2> HIDE DEF l
  <2>3. l \in LeaseCopyRows
    BY <2>2, CopyFields DEF KnownNext
  <2>4. At(i, "next", s, l, lane[i].command, lane[i].snapshot)
    BY <1>0, <2>1, <2>3, WritesLease
  <2>5. LanesKnown' /\ RenewalsKnown'
    BY <2>1, <2>2, <2>4, LaneGoesOn
  <2> QED
    BY <1>0, <2>1, <2>2, <2>5, CachesTouched, StopsSame DEF ProcessKnown
<1>4. CASE LaneNext(i, d)
  <2>1. PICK c \in Commands : /\ ClaimNextSessionCommand(lane[i].lease, c, d)
                              /\ lane' = [lane EXCEPT ![i].pc = "reserve", ![i].command = c]
    BY <1>4 DEF LaneNext
  <2>2. /\ lane[i].pc = "next" /\ s \in Sessions /\ lane[i].lease.session = s
        /\ KnownNext(w, lane[i].lease) /\ SessionOf[c] = s
    BY <1>4, <2>1, LanePresents
       DEF LaneNext, Keeps, ClaimNextSessionCommand, Ready, IsNext, Claimable
  <2>3. At(i, "reserve", s, lane[i].lease, c, lane[i].snapshot)
    BY <1>0, <2>1, WritesCommand
  <2>4. LanesKnown'
    BY <2>2, <2>3, LaneMoved
  <2>5. RenewalsKnown'
    BY <1>4, <2>2, <2>3, RenewalsSame DEF LaneNext
  <2> QED
    BY <1>4, <2>4, <2>5, CachesSame, StopsSame DEF LaneNext, ProcessKnown
<1>5. ASSUME Stop(i), leases' = leases \/ leases' = Dropped(w, s), stopping' = stopping, s \in Sessions
      PROVE  ProcessKnown'
  BY <1>0, <1>5, LaneStops, CachesSame, CachesDropped, StopsSame DEF ProcessKnown
<1>6. CASE \/ LaneClaimDenied(i, d) \/ LaneNextNone(i, d) \/ LaneReserveDenied(i)
           \/ LaneDefer(i, d) \/ LaneAborted(i) \/ LaneFail(i, d) \/ LaneAckLost(i, d)
           \/ LaneThrows(i)
  <2>1. lane[i].pc # "idle"
    BY <1>6 DEF LaneClaimDenied, LaneNextNone, LaneReserveDenied, LaneDefer, LaneAborted,
                LaneFail, LaneAckLost, LaneThrows, EventPC
  <2> QED
    BY <1>5, <1>6, <2>1, LanePresents
       DEF LaneClaimDenied, LaneNextNone, LaneReserveDenied, LaneDefer, LaneAborted,
           LaneFail, LaneAckLost, LaneThrows
<1>7. CASE LaneReserve(i) \/ LaneProvision(i) \/ LaneExecuted(i) \/ LaneError(i, d)
  <2>1. PICK p \in {"exec", "run", "save", "failing"} : Goto(i, p)
    BY <1>7 DEF LaneReserve, LaneProvision, LaneExecuted, LaneError
  <2>2. /\ lane[i].pc \in {"reserve", "exec", "run"} /\ leases' = leases
        /\ renewal' = renewal /\ stopping' = stopping
    BY <1>7 DEF LaneReserve, LaneProvision, LaneExecuted, LaneError
  <2>3. At(i, p, s, lane[i].lease, lane[i].command, lane[i].snapshot)
    BY <1>0, <2>1, WritesPC
  <2>4. LanesKnown' /\ RenewalsKnown'
    BY <2>2, <2>3, LaneAdvances
  <2> QED
    BY <2>2, <2>4, CachesSame, StopsSame DEF ProcessKnown
<1>8. CASE LaneCollect(i) \/ LanePut(i)
  <2>0. lane[i].pc \in {"save", "put"} /\ leases' = leases /\ renewal' = renewal /\ stopping' = stopping
    BY <1>8 DEF LaneCollect, Collect, LanePut
  <2>1. workspace[w][s] \in SUBSET Commands
    BY <1>0, <2>0, LanePresents DEF CopyInv, FilesTyped
  <2>2. \E p \in {"put", "ack"}, files \in SUBSET Commands :
          lane' = [lane EXCEPT ![i].pc = p, ![i].snapshot = files]
    BY <1>8, <2>1 DEF LaneCollect, Collect, LanePut
  <2>3. PICK p \in {"put", "ack"}, files \in SUBSET Commands :
          At(i, p, s, lane[i].lease, lane[i].command, files)
    BY <1>0, <2>2, WritesSnapshot
  <2>4. LanesKnown' /\ RenewalsKnown'
    BY <2>0, <2>3, LaneAdvances
  <2> QED
    BY <2>0, <2>4, CachesSame, StopsSame DEF ProcessKnown
<1>9. CASE LaneAck(i, d)
  <2> DEFINE l == Advanced(lane[i].lease)
  <2>1. /\ lane[i].pc = "ack" /\ s \in Sessions
        /\ Known(w, lane[i].lease) /\ lane[i].lease.session = s
        /\ CheckpointAndAckSessionCommand(lane[i].lease, lane[i].command, d)
        /\ leases' \in Touched(w, l) /\ stopping' = stopping
        /\ \/ lane' = [lane EXCEPT ![i] = Activation("next", s, l)] /\ Detach(i)
           \/ Stop(i)
    BY <1>9, LanePresents DEF LaneAck
  <2>2. KnownNext(w, l) /\ l.session = s
    BY <1>0, <2>1, AdvancedIsKnown DEF CheckpointAndAckSessionCommand
  <2> HIDE DEF l
  <2>3. l \in LeaseCopyRows
    BY <2>2, CopyFields DEF KnownNext
  <2>4. CASE lane' = [lane EXCEPT ![i] = Activation("next", s, l)] /\ Detach(i)
    <3>1. At(i, "next", s, l, Nil, {})
      BY <1>0, <2>1, <2>3, <2>4, WritesStart
    <3>2. LanesKnown'
      BY <2>1, <2>2, <3>1, LaneMoved
    <3>3. RenewalsKnown'
      BY <2>4, <3>1, RenewalsDetached
    <3> QED
      BY <1>0, <2>1, <2>2, <3>2, <3>3, CachesTouched, StopsSame DEF ProcessKnown
  <2>5. CASE Stop(i)
    BY <1>0, <2>1, <2>2, <2>5, LaneStops, CachesTouched, StopsSame DEF ProcessKnown
  <2> QED
    BY <2>1, <2>4, <2>5
<1>10. CASE LaneAckStaleVersion(i, d)
  <2>1. /\ lane[i].pc = "ack" /\ leases' = leases /\ renewal' = renewal /\ stopping' = stopping
        /\ lane[i].tries + 1 < MaxRetries
        /\ lane' = [lane EXCEPT ![i].pc = "retry", ![i].tries = @ + 1]
    BY <1>10 DEF LaneAckStaleVersion
  <2>2. At(i, "retry", s, lane[i].lease, lane[i].command, lane[i].snapshot)
    BY <1>0, <2>1, WritesTries
  <2>3. LanesKnown' /\ RenewalsKnown'
    BY <2>1, <2>2, LaneAdvances
  <2> QED
    BY <2>1, <2>3, CachesSame, StopsSame DEF ProcessKnown
<1>11. CASE LaneRetry(i, d)
  <2>1. /\ KnownNext(w, LeaseCopy(s)) /\ LeaseCopy(s) \in LeaseCopyRows
        /\ LeaseCopy(s).session = s /\ LeaseCopy(s).leaseToken = lane[i].lease.leaseToken
    BY <1>11, RenewalReturns DEF LaneRetry
  <2>2. At(i, "save", s, LeaseCopy(s), lane[i].command, lane[i].snapshot)
    BY <1>0, <1>11, <2>1, WritesLease DEF LaneRetry
  <2>3. LanesKnown' /\ RenewalsKnown'
    BY <1>11, <2>1, <2>2, LaneGoesOn DEF LaneRetry
  <2> QED
    BY <1>11, <2>3, CachesSame, StopsSame DEF LaneRetry, ProcessKnown
<1> QED
  BY <1>1, <1>2, <1>3, <1>4, <1>6, <1>7, <1>8, <1>9, <1>10, <1>11 DEF CommandStep

LEMMA EventStepKnown ==
  ASSUME CopyInv, Keeps, NEW i \in Lanes, NEW d \in Clock, EventStep(i, d)
  PROVE  ProcessKnown'
<1> USE DEF Works, Active, Renewing, Executing, PCs, EventPC
<1> DEFINE w == WorkerOf[i]
           s == lane[i].session
<1>0. LanesKnown /\ w \in Workers /\ IInv /\ RowsBounded
  BY WorkerConstants DEF CopyInv
<1>1. CASE EventRenew(i, d)
  <2>0. /\ lane[i].pc \in {"evRenew", "evRetry"} /\ RenewSessionLease(lane[i].lease, d)
        /\ leases' = leases /\ stopping' = stopping
        /\ \/ Stop(i)
           \/ /\ renewal' = renewal
              /\ \E p \in {"evAppend", "evCheckpoint"} :
                   lane' = [lane EXCEPT ![i].lease = LeaseCopy(s), ![i].pc = p]
    BY <1>1 DEF EventRenew
  <2>1. CASE Stop(i)
    BY <2>0, <2>1, LaneStops, CachesSame, StopsSame DEF ProcessKnown
  <2>2. ASSUME renewal' = renewal, NEW p \in {"evAppend", "evCheckpoint"},
               lane' = [lane EXCEPT ![i].lease = LeaseCopy(s), ![i].pc = p]
        PROVE  ProcessKnown'
    <3>1. /\ KnownNext(w, LeaseCopy(s)) /\ LeaseCopy(s) \in LeaseCopyRows
          /\ LeaseCopy(s).session = s
      BY <2>0, RenewalReturns
    <3>2. At(i, p, s, LeaseCopy(s), lane[i].command, lane[i].snapshot)
      <4> DEFINE l == LeaseCopy(s)
                 r == lane[i]
                 q == [r EXCEPT !.lease = l, !.pc = p]
      <4>1. r \in LaneRows /\ lane' = [lane EXCEPT ![i] = q]
        BY <1>0, <2>2 DEF LanesKnown
      <4> HIDE DEF l, r
      <4>2. /\ q \in LaneRows /\ q.pc = p /\ q.session = r.session /\ q.lease = l
            /\ q.command = r.command /\ q.snapshot = r.snapshot
        <5>1. l \in LeaseCopyRows /\ p \in PCs
          BY <3>1 DEF l, PCs, EventPC
        <5> QED
          BY <4>1, <5>1 DEF LaneRows
      <4> HIDE DEF q
      <4>3. At(i, q.pc, q.session, q.lease, q.command, q.snapshot)
        BY <1>0, <4>1, <4>2, WritesLane
      <4> QED
        BY <4>2, <4>3, Zenon DEF l, r
    <3>3. LanesKnown' /\ RenewalsKnown'
      BY <2>0, <2>2, <3>1, <3>2, LaneGoesOn
    <3> QED
      BY <2>0, <3>3, CachesSame, StopsSame DEF ProcessKnown
  <2> QED
    BY <2>0, <2>1, <2>2
<1>2. CASE EventAppend(i, d)
  <2>1. At(i, "evCheckpoint", s, lane[i].lease, lane[i].command, lane[i].snapshot)
    BY <1>0, <1>2, WritesPC DEF EventAppend
  <2>2. LanesKnown' /\ RenewalsKnown'
    BY <1>2, <2>1, LaneAdvances DEF EventAppend
  <2> QED
    BY <1>2, <2>2, CachesSame, StopsSame DEF EventAppend, ProcessKnown
<1>3. CASE EventCheckpoint(i, d)
  <2> DEFINE l == Advanced(lane[i].lease)
  <2>1. /\ lane[i].pc = "evCheckpoint" /\ s \in Sessions
        /\ Known(w, lane[i].lease) /\ lane[i].lease.session = s
        /\ CheckpointSession(lane[i].lease, d)
        /\ leases' = leases /\ renewal' = renewal /\ stopping' = stopping
        /\ lane' = [lane EXCEPT ![i].pc = "evSave", ![i].lease = l]
    BY <1>0, <1>3, LanePresents DEF EventCheckpoint
  <2>2. KnownNext(w, l) /\ l.session = s
    BY <1>0, <2>1, AdvancedIsKnown DEF CheckpointSession
  <2> HIDE DEF l
  <2>3. l \in LeaseCopyRows
    BY <2>2, CopyFields DEF KnownNext
  <2>4. At(i, "evSave", s, l, lane[i].command, lane[i].snapshot)
    BY <1>0, <2>1, <2>3, WritesLease
  <2>5. LanesKnown' /\ RenewalsKnown'
    BY <2>1, <2>2, <2>4, LaneGoesOn
  <2> QED
    BY <2>1, <2>5, CachesSame, StopsSame DEF ProcessKnown
<1>4. CASE EventCheckpointStaleVersion(i, d)
  <2>1. /\ lane[i].pc = "evCheckpoint" /\ leases' = leases /\ renewal' = renewal
        /\ stopping' = stopping /\ lane[i].tries + 1 < MaxRetries
        /\ lane' = [lane EXCEPT ![i].pc = "evRetry", ![i].tries = @ + 1]
    BY <1>4 DEF EventCheckpointStaleVersion
  <2>2. At(i, "evRetry", s, lane[i].lease, lane[i].command, lane[i].snapshot)
    BY <1>0, <2>1, WritesTries
  <2>3. LanesKnown' /\ RenewalsKnown'
    BY <2>1, <2>2, LaneAdvances
  <2> QED
    BY <2>1, <2>3, CachesSame, StopsSame DEF ProcessKnown
<1>5. CASE EventCollect(i)
  <2>0. lane[i].pc = "evSave" /\ leases' = leases /\ renewal' = renewal /\ stopping' = stopping
    BY <1>5 DEF EventCollect, Collect
  <2>1. workspace[w][s] \in SUBSET Commands
    BY <1>0, <2>0, LanePresents DEF CopyInv, FilesTyped
  <2>2. At(i, "evPut", s, lane[i].lease, lane[i].command, workspace[w][s])
    BY <1>0, <1>5, <2>1, WritesSnapshot DEF EventCollect, Collect
  <2>3. LanesKnown' /\ RenewalsKnown'
    BY <2>0, <2>2, LaneAdvances
  <2> QED
    BY <2>0, <2>3, CachesSame, StopsSame DEF ProcessKnown
<1>6. CASE EventPut(i)
  <2>1. KnownNext(w, lane[i].lease)
    BY <1>6, LanePresents DEF EventPut, Keeps
  <2> QED
    BY <1>0, <1>6, <2>1, LaneStops, CachesTouched, StopsSame DEF EventPut, ProcessKnown
<1>7. CASE EventStale(i, d)
  <2>1. s \in Sessions
    BY <1>7, LanePresents DEF EventStale
  <2> QED
    BY <1>0, <1>7, <2>1, LaneStops, CachesDropped, StopsSame DEF EventStale, ProcessKnown
<1> QED
  BY <1>1, <1>2, <1>3, <1>4, <1>5, <1>6, <1>7 DEF EventStep

\* Lanes that keep what they carry, or end.
LEMMA LanesKept ==
  ASSUME CopyInv, Keeps, lane' \in [Lanes -> LaneRows],
         \A i \in Lanes :
           \/ lane'[i] \in {lane[i], Idle}
           \/ /\ lane[i].pc # "idle"
              /\ lane'[i].pc = lane[i].pc /\ lane'[i].session = lane[i].session
              /\ lane'[i].lease = lane[i].lease /\ lane'[i].command = lane[i].command
  PROVE  LanesKnown'
<1> SUFFICES ASSUME NEW i \in Lanes PROVE LaneKnown(i)'
  BY DEF LanesKnown
<1>1. CASE lane'[i] = Idle
  BY <1>1, IdleTyped DEF LaneKnown, Works, Active, Renewing, Executing
<1>2. CASE lane'[i] # Idle
  <2>1. /\ LaneKnown(i) /\ WorkerOf[i] \in Workers
        /\ lane'[i].pc = lane[i].pc /\ lane'[i].session = lane[i].session
        /\ lane'[i].lease = lane[i].lease /\ lane'[i].command = lane[i].command
        /\ lane[i].pc # "idle"
    BY <1>2, WorkerConstants DEF CopyInv, LanesKnown, LaneKnown
  <2>2. lane[i].pc # "claim" => KnownNext(WorkerOf[i], lane[i].lease)
    BY <2>1 DEF LaneKnown, Keeps, Known
  <2> QED
    BY <2>1, <2>2 DEF LaneKnown, Known, KnownNext
<1> QED
  BY <1>1, <1>2

LEMMA LanesSame ==
  ASSUME CopyInv, Keeps, lane' = lane
  PROVE  LanesKnown'
  BY LanesKept DEF CopyInv, LanesKnown

LEMMA AllRenewalsSame ==
  ASSUME CopyInv, Keeps, renewal' = renewal,
         \A i \in Lanes : lane[i].pc \in Active => /\ lane'[i].pc = lane[i].pc
                                                   /\ lane'[i].lease = lane[i].lease
  PROVE  RenewalsKnown'
<1>1. renewal \in [Lanes -> RenewalRows] /\ \A i \in Lanes : RenewalKnown(i)
  BY DEF CopyInv, RenewalsKnown
<1> QED
  BY <1>1, RenewalsKept DEF RenewalKnown

LEMMA AbortedRow ==
  ASSUME NEW x \in LaneRows, NEW b \in BOOLEAN
  PROVE  LET row == [x EXCEPT !.aborted = b]
         IN  /\ row \in LaneRows /\ row.pc = x.pc /\ row.session = x.session
             /\ row.lease = x.lease /\ row.command = x.command /\ row.snapshot = x.snapshot
  BY DEF LaneRows

LEMMA Aborted ==
  ASSUME NEW x \in LaneRows
  PROVE  LET row == [x EXCEPT !.aborted = TRUE]
         IN  /\ row \in LaneRows /\ row.pc = x.pc /\ row.session = x.session
             /\ row.lease = x.lease /\ row.command = x.command /\ row.snapshot = x.snapshot
  BY AbortedRow, Zenon

\* The answer of a renewal is kept with the lane that waits for it.
LEMMA RenewalStarts ==
  ASSUME CopyInv, Keeps, NEW i \in Lanes, NEW outcome \in {"ok", "failed"}, NEW l,
         lane[i].pc \in Renewing, lane' = lane,
         KnownNext(WorkerOf[i], l), l.session = lane[i].lease.session,
         l.leaseToken = lane[i].lease.leaseToken,
         renewal' = [renewal EXCEPT ![i] = [outcome |-> outcome, lease |-> l, mine |-> TRUE]]
  PROVE  RenewalsKnown'
<1> DEFINE row == [outcome |-> outcome, lease |-> l, mine |-> TRUE]
<1>1. row \in RenewalRows /\ row.lease = l /\ row # NoRenewal
  BY CopyFields DEF RenewalRows, NoRenewal, KnownNext
<1>2. renewal' = [renewal EXCEPT ![i] = row]
  OBVIOUS
<1> HIDE DEF row
<1>3. /\ renewal' \in [Lanes -> RenewalRows]
      /\ \A j \in Lanes : renewal'[j] = IF j = i THEN row ELSE renewal[j]
  BY <1>1, <1>2 DEF CopyInv, RenewalsKnown
<1> SUFFICES ASSUME NEW j \in Lanes PROVE RenewalKnown(j)'
  BY <1>3 DEF RenewalsKnown
<1>4. RenewalKnown(j) /\ WorkerOf[j] \in Workers
  BY WorkerConstants DEF CopyInv, RenewalsKnown
<1>5. CASE j = i
  BY <1>1, <1>3, <1>5 DEF RenewalKnown, Known, KnownNext, Active
<1>6. CASE j # i
  <2>1. renewal[j] # NoRenewal => KnownNext(WorkerOf[j], renewal[j].lease)
    BY <1>4 DEF RenewalKnown, Keeps, Known
  <2> QED
    BY <1>3, <1>4, <1>6, <2>1 DEF RenewalKnown, Known, KnownNext
<1> QED
  BY <1>5, <1>6

LEMMA RenewalEnds ==
  ASSUME CopyInv, Keeps, NEW i \in Lanes, renewal' = [renewal EXCEPT ![i] = NoRenewal],
         \A j \in Lanes : j # i => lane'[j] = lane[j]
  PROVE  RenewalsKnown'
<1>1. renewal \in [Lanes -> RenewalRows] /\ \A j \in Lanes : RenewalKnown(j)
  BY DEF CopyInv, RenewalsKnown
<1>2. /\ renewal' \in [Lanes -> RenewalRows]
      /\ \A j \in Lanes : renewal'[j] = IF j = i THEN NoRenewal ELSE renewal[j]
  BY <1>1, NoRenewalTyped
<1>3. \A j \in Lanes : renewal'[j].mine => j # i
  BY <1>2, NoRenewalTyped
<1> QED
  BY <1>1, <1>2, <1>3, RenewalsKept DEF RenewalKnown

LEMMA TimerStepKnown ==
  ASSUME CopyInv, Keeps, NEW i \in Lanes, NEW d \in Clock, TimerStep(i, d)
  PROVE  ProcessKnown'
<1> DEFINE w == WorkerOf[i]
           s == lane[i].session
           r == renewal[i]
<1>0. /\ LanesKnown /\ lane[i] \in LaneRows /\ w \in Workers
      /\ RenewalKnown(i) /\ r \in RenewalRows
  BY WorkerConstants DEF CopyInv, LanesKnown, RenewalsKnown
<1>1. CASE TimerRenew(i, d)
  <2>1. /\ lane[i].pc \in Renewing /\ RenewSessionLease(lane[i].lease, d)
        /\ leases' = leases /\ lane' = lane /\ stopping' = stopping
    BY <1>1 DEF TimerRenew, TimerFires
  <2>2. /\ KnownNext(w, LeaseCopy(s)) /\ LeaseCopy(s).session = s
        /\ LeaseCopy(s).leaseToken = lane[i].lease.leaseToken /\ lane[i].lease.session = s
    BY <2>1, RenewalReturns, LanePresents DEF Renewing, Executing
  <2>3. RenewalsKnown'
    BY <1>1, <2>1, <2>2, RenewalStarts DEF TimerRenew
  <2> QED
    BY <2>1, <2>3, CachesSame, LanesSame, StopsSame DEF ProcessKnown
<1>2. CASE TimerRenewFails(i)
  <2>1. /\ lane[i].pc \in Renewing /\ leases' = leases /\ lane' = lane /\ stopping' = stopping
    BY <1>2 DEF TimerRenewFails, TimerFires
  <2>2. KnownNext(w, lane[i].lease)
    BY <2>1, LanePresents DEF Renewing, Executing, Keeps
  <2>3. RenewalsKnown'
    BY <1>2, <2>1, <2>2, RenewalStarts DEF TimerRenewFails
  <2> QED
    BY <2>1, <2>3, CachesSame, LanesSame, StopsSame DEF ProcessKnown
<1>3. CASE TimerApply(i)
  <2>1. /\ r # NoRenewal /\ stopping' = stopping
        /\ renewal' = [renewal EXCEPT ![i] = NoRenewal]
        /\ leases' \in Touched(w, r.lease) \/ leases' = leases \/ leases' = Dropped(w, r.lease.session)
        /\ \/ lane' = lane
           \/ r.mine /\ lane[i].pc \in Renewing /\ lane' = [lane EXCEPT ![i].lease = r.lease]
           \/ r.mine /\ lane' = [lane EXCEPT ![i].aborted = TRUE]
    BY <1>3 DEF TimerApply
  <2>2. Known(w, r.lease) /\ r.lease \in LeaseCopies
    BY <1>0, <2>1 DEF RenewalKnown, Known
  <2>3. KnownNext(w, r.lease) /\ r.lease.session \in Sessions /\ r.lease \in LeaseCopyRows
    BY <1>0, <2>2, CopyFields DEF Keeps
  <2>4. CachesKnown'
    BY <1>0, <2>1, <2>3, CachesTouched, CachesSame, CachesDropped
  <2>5. CASE lane' = lane
    BY <2>1, <2>4, <2>5, LanesSame, RenewalEnds, StopsSame DEF ProcessKnown
  <2>6. CASE r.mine /\ lane[i].pc \in Renewing /\ lane' = [lane EXCEPT ![i].lease = r.lease]
    <3>1. At(i, lane[i].pc, s, r.lease, lane[i].command, lane[i].snapshot)
      BY <1>0, <2>3, <2>6 DEF LanesKnown, LaneRows, At
    <3>2. /\ lane[i].pc \in PCs /\ lane[i].pc \notin {"idle", "claim"} /\ lane[i].pc \in Works
          /\ r.lease.session = s /\ s \in Sessions
          /\ lane[i].command \in Commands /\ SessionOf[lane[i].command] = s
      BY <1>0, <2>6, LanePresents DEF RenewalKnown, Renewing, Executing, Works, Active, LaneRows
    <3>3. LanesKnown'
      BY <2>3, <3>1, <3>2, LaneMoved
    <3> QED
      BY <2>1, <2>4, <3>1, <3>3, RenewalEnds, StopsSame DEF ProcessKnown, At
  <2>7. CASE r.mine /\ lane' = [lane EXCEPT ![i].aborted = TRUE]
    <3> DEFINE row == [lane[i] EXCEPT !.aborted = TRUE]
    <3>1. /\ row \in LaneRows /\ row.pc = lane[i].pc /\ row.session = lane[i].session
          /\ row.lease = lane[i].lease /\ row.command = lane[i].command
      BY <1>0, Aborted, Zenon
    <3>2. lane' = [lane EXCEPT ![i] = row]
      BY <2>7
    <3> HIDE DEF row
    <3>3. /\ lane' \in [Lanes -> LaneRows] /\ lane'[i] = row
          /\ \A j \in Lanes : j # i => lane'[j] = lane[j]
      BY <1>0, <3>1, <3>2 DEF LanesKnown
    <3>4. lane[i].pc # "idle"
      BY <1>0, <2>7 DEF RenewalKnown, Active, Renewing, Executing
    <3>5. LanesKnown'
      BY <3>1, <3>3, <3>4, LanesKept
    <3> QED
      BY <2>1, <2>4, <3>3, <3>5, RenewalEnds, StopsSame DEF ProcessKnown
  <2> QED
    BY <2>1, <2>5, <2>6, <2>7
<1> QED
  BY <1>1, <1>2, <1>3 DEF TimerStep

LEMMA GoneKnown ==
  ASSUME CopyInv, Keeps, NEW w \in Workers, ProcessGone(w)
  PROVE  ProcessKnown'
<1> DEFINE none == [s \in Sessions |-> NoCopy]
<1>1. /\ leases \in [Workers -> [Sessions -> LeaseCopyRows]] /\ lane \in [Lanes -> LaneRows]
      /\ renewal \in [Lanes -> RenewalRows] /\ \A i \in Lanes : RenewalKnown(i)
      /\ none \in [Sessions -> LeaseCopyRows]
  BY NoCopyTyped DEF CopyInv, CachesKnown, LanesKnown, RenewalsKnown
<1>2. CachesKnown'
  <2>1. leases' = [leases EXCEPT ![w] = none] /\ \A s \in Sessions : none[s] = NoCopy
    BY DEF ProcessGone
  <2> HIDE DEF none
  <2>2. /\ leases' \in [Workers -> [Sessions -> LeaseCopyRows]]
        /\ \A v \in Workers, s \in Sessions : leases'[v][s] \in {leases[v][s], NoCopy}
    BY <1>1, <2>1
  <2> QED
    BY <2>2, CachesKept
<1>3. /\ lane' \in [Lanes -> LaneRows] /\ renewal' \in [Lanes -> RenewalRows]
      /\ \A i \in Lanes : \/ lane'[i] = lane[i] /\ renewal'[i] = renewal[i]
                          \/ lane'[i] = Idle /\ renewal'[i] = NoRenewal
  BY <1>1, IdleTyped, NoRenewalTyped DEF ProcessGone
<1>4. LanesKnown'
  BY <1>3, LanesKept
<1>5. RenewalsKnown'
  <2>1. \A i \in Lanes : renewal'[i].mine => renewal'[i] = renewal[i] /\ lane'[i] = lane[i]
    BY <1>3, NoRenewalTyped
  <2> QED
    BY <1>1, <1>3, <2>1, RenewalsKept DEF RenewalKnown
<1>6. StopsKnown'
  <2> DEFINE S == {}
  <2>1. stopping' = [stopping EXCEPT ![w] = S]
    BY DEF ProcessGone
  <2>2. \A l \in S : l \in stopping[w] \/ Known(w, l)
    OBVIOUS
  <2> HIDE DEF S
  <2> QED
    BY <2>1, <2>2, StopsKept
<1> QED
  BY <1>2, <1>4, <1>5, <1>6 DEF ProcessKnown

LEMMA ProcessSame ==
  ASSUME CopyInv, Keeps, leases' = leases, lane' = lane, renewal' = renewal, stopping' = stopping
  PROVE  ProcessKnown'
  BY CachesSame, LanesSame, AllRenewalsSame, StopsSame DEF ProcessKnown

LEMMA AbortActiveKnown ==
  ASSUME CopyInv, Keeps, NEW w \in Workers, AbortActive(w)
  PROVE  ProcessKnown'
<1> DEFINE active == ActiveLanes(w)
           Row(i) == [lane[i] EXCEPT !.aborted = TRUE]
<1>1. lane \in [Lanes -> LaneRows]
  BY DEF CopyInv, LanesKnown
<1>2. \A i \in Lanes : \/ lane'[i] = lane[i]
                       \/ i \in active /\ lane'[i] = Row(i)
  <2>1. lane' = [i \in Lanes |-> IF i \in active THEN Row(i) ELSE lane[i]]
    BY DEF AbortActive
  <2> HIDE DEF active, Row
  <2> QED
    BY <2>1
<1>3. \A i \in active : i \in Lanes /\ WorkerOf[i] = w /\ lane[i].pc \in Active
  BY DEF ActiveLanes
<1>4. \A i \in Lanes :
        /\ lane'[i] \in LaneRows /\ lane'[i].pc = lane[i].pc /\ lane'[i].session = lane[i].session
        /\ lane'[i].lease = lane[i].lease /\ lane'[i].command = lane[i].command
        /\ lane'[i] = lane[i] \/ i \in active
  <2> SUFFICES ASSUME NEW i \in Lanes PROVE <1>4!(i)
    OBVIOUS
  <2>1. CASE lane'[i] = lane[i]
    BY <1>1, <2>1
  <2>2. CASE i \in active /\ lane'[i] = Row(i)
    <3>1. lane[i] \in LaneRows
      BY <1>1
    <3> QED
      BY <2>2, <3>1, Aborted, Zenon
  <2> QED
    BY <1>2, <2>1, <2>2
<1>5. lane' \in [Lanes -> LaneRows]
  <2>1. lane' = [i \in Lanes |-> lane'[i]]
    BY DEF AbortActive
  <2> QED
    BY <1>4, <2>1
<1>6. LanesKnown'
  BY <1>3, <1>4, <1>5, LanesKept DEF Active, Renewing, Executing
<1>7. RenewalsKnown'
  BY <1>4, AllRenewalsSame DEF AbortActive
<1>8. StopsKnown'
  <2>1. PICK S \in SUBSET {lane[i].lease : i \in active} : stopping' = [stopping EXCEPT ![w] = S]
    BY DEF AbortActive
  <2>2. \A i \in active : Known(w, lane[i].lease)
    BY <1>3, LanePresents DEF Active, Renewing, Executing
  <2>3. \A l \in S : Known(w, l)
    BY <2>1, <2>2
  <2> QED
    BY <2>1, <2>3, StopsKept
<1> QED
  BY <1>6, <1>7, <1>8, CachesSame DEF AbortActive, ProcessKnown

LEMMA ShutdownStepKnown ==
  ASSUME CopyInv, Keeps, NEW w \in Workers, NEW d \in Clock, ShutdownStep(w, d)
  PROVE  ProcessKnown'
<1>1. ASSUME NEW l \in stopping[w],
             RecoverActive(w, l, d) \/ RecoverActiveFails(w, l) \/ ReleaseCached(w, l)
      PROVE  ProcessKnown'
  <2>1. /\ lane' = lane /\ renewal' = renewal
        /\ leases' = leases \/ leases' = Dropped(w, l.session)
        /\ stopping' = [stopping EXCEPT ![w] = @ \ {l}]
    BY <1>1 DEF RecoverActive, RecoverActiveFails, ReleaseCached
  <2>2. l.session \in Sessions
    BY CopyFields DEF CopyInv, StopsKnown, Known
  <2>3. StopsKnown'
    <3>1. stopping' = [stopping EXCEPT ![w] = stopping[w] \ {l}]
      BY <2>1
    <3> QED
      BY <3>1, StopsKept
  <2> QED
    BY <2>1, <2>2, <2>3, CachesSame, CachesDropped, LanesSame, AllRenewalsSame DEF ProcessKnown
<1>2. CASE BeginRelease(w)
  <2>1. StopsKnown'
    <3> DEFINE S == {leases[w][s] : s \in Sessions} \ {NoCopy}
    <3>1. \A l \in S : Known(w, l)
      BY DEF CopyInv, CachesKnown, CacheKnown
    <3>2. stopping' = [stopping EXCEPT ![w] = S]
      BY <1>2 DEF BeginRelease
    <3> QED
      BY <3>1, <3>2, StopsKept
  <2> QED
    BY <1>2, <2>1, CachesSame, LanesSame, AllRenewalsSame DEF BeginRelease, ProcessKnown
<1>3. CASE Exit(w)
  BY <1>3, GoneKnown DEF Exit
<1>4. CASE Restart(w)
  BY <1>4, ProcessSame DEF Restart
<1>5. CASE AbortActive(w)
  BY <1>5, AbortActiveKnown
<1> QED
  BY <1>1, <1>2, <1>3, <1>4, <1>5 DEF ShutdownStep

LEMMA StepKnown ==
  ASSUME CopyInv, [WorkerNext]_vars
  PROVE  ProcessKnown' /\ Keeps
<1>0. Keeps
  BY StepKeeps
<1>1. CASE UNCHANGED vars \/ Environment
  BY <1>0, <1>1, ProcessSame DEF vars, Environment, processVars
<1>2. ASSUME NEW i \in Lanes, NEW s \in Sessions, HttpLane(i, s) \/ StartEvent(i, s)
      PROVE  ProcessKnown'
  BY <1>0, <1>2, StartKnown DEF HttpLane
<1>3. ASSUME NEW d \in Clock, NEW i \in Lanes,
             \/ \E s \in Sessions : LoopLane(i, s, d)
             \/ CommandStep(i, d) \/ EventStep(i, d) \/ TimerStep(i, d)
      PROVE  ProcessKnown'
  BY <1>0, <1>3, StartKnown, CommandStepKnown, EventStepKnown, TimerStepKnown DEF LoopLane
<1>4. ASSUME NEW d \in Clock, NEW w \in Workers,
             (\E R \in SUBSET Sessions : Reap(w, R, d)) \/ ShutdownStep(w, d)
      PROVE  ProcessKnown'
  BY <1>0, <1>4, ProcessSame, ShutdownStepKnown DEF Reap, processVars
<1>5. ASSUME NEW w \in Workers,
             (\E s \in Sessions : EvictRuntime(w, s)) \/ Crash(w) \/ BeginShutdown(w)
      PROVE  ProcessKnown'
  BY <1>0, <1>5, ProcessSame, GoneKnown DEF EvictRuntime, Crash, BeginShutdown, processVars
<1>6. CASE WorkerNext
  BY <1>0, <1>1, <1>2, <1>3, <1>4, <1>5, <1>6 DEF WorkerNext
<1> QED
  BY <1>0, <1>1, <1>6

-----------------------------------------------------------------------------
(* What a step does to the files and manifests. *)

\* Manifests only grow; a workspace in use only grows, unless its runtime is
\* closed while no command runs in it, or its process ends.
FilesGrow ==
  /\ \A s \in Sessions : archive[s] \subseteq archive'[s]
  /\ \A w \in Workers : \A s \in warm[w] :
       \/ s \in warm'[w] /\ workspace[w][s] \subseteq workspace'[w][s]
       \/ workspace' = workspace /\ lane' = lane /\ ~Busy(w, s)
       \/ \A i \in Lanes : WorkerOf[i] = w => lane'[i] = Idle

Budgets == [renewals : 0..MaxRenewals, events : 0..MaxEvents, faults : 0..MaxFaults]

LEMMA BudgetSpent ==
  ASSUME NEW b \in Budgets
  PROVE  /\ b.renewals > 0 => [b EXCEPT !.renewals = @ - 1] \in Budgets
         /\ b.events > 0 => [b EXCEPT !.events = @ - 1] \in Budgets
         /\ b.faults > 0 => [b EXCEPT !.faults = @ - 1] \in Budgets
  BY WorkerConstants DEF Budgets

LEMMA FilesSame ==
  ASSUME CopyInv, UNCHANGED fileVars, budget' \in Budgets
  PROVE  FilesTyped' /\ FilesGrow
  BY DEF CopyInv, FilesTyped, FilesGrow, fileVars, Budgets

LEMMA FilesPut ==
  ASSUME CopyInv, NEW i \in Lanes, lane[i].pc \in {"put", "evPut"}, PutCheckpoint(i),
         budget' = budget
  PROVE  FilesTyped' /\ FilesGrow
<1>1. lane[i].session \in Sessions /\ lane[i].snapshot \in SUBSET Commands
  BY LanePresents DEF LaneRows
<1>2. FilesTyped
  BY DEF CopyInv
<1> QED
  BY <1>1, <1>2 DEF FilesTyped, FilesGrow, PutCheckpoint

LEMMA FilesProvision ==
  ASSUME CopyInv, NEW i \in Lanes, LaneProvision(i)
  PROVE  FilesTyped' /\ FilesGrow
<1> DEFINE w == WorkerOf[i]
           s == lane[i].session
<1>1. w \in Workers /\ s \in Sessions
  BY LanePresents DEF LaneProvision
<1>2. FilesTyped
  BY DEF CopyInv
<1>3. /\ warm' \in [Workers -> SUBSET Sessions]
      /\ \A v \in Workers : warm[v] \subseteq warm'[v]
  BY <1>1, <1>2 DEF LaneProvision, FilesTyped
<1>4. CASE s \in warm[w] \/ latest[s] = NoCheckpoint
  BY <1>2, <1>3, <1>4 DEF LaneProvision, FilesTyped, FilesGrow
<1>5. CASE s \notin warm[w] /\ latest[s] # NoCheckpoint
  <2>1. workspace' = [workspace EXCEPT ![w][s] = latest[s]] /\ latest[s] \in SUBSET Commands
    BY <1>1, <1>2, <1>5 DEF LaneProvision, FilesTyped
  <2>2. /\ workspace' \in [Workers -> [Sessions -> SUBSET Commands]]
        /\ \A v \in Workers, t \in Sessions : v # w \/ t # s => workspace'[v][t] = workspace[v][t]
    BY <1>1, <1>2, <2>1 DEF FilesTyped
  <2>3. \A v \in Workers : \A t \in warm[v] : t \in Sessions /\ (v # w \/ t # s)
    BY <1>2, <1>5 DEF FilesTyped
  <2> QED
    BY <1>2, <1>3, <2>2, <2>3 DEF LaneProvision, FilesTyped, FilesGrow
<1> QED
  BY <1>4, <1>5

LEMMA FilesExecuted ==
  ASSUME CopyInv, NEW i \in Lanes, LaneExecuted(i)
  PROVE  FilesTyped' /\ FilesGrow
<1> DEFINE w == WorkerOf[i]
           s == lane[i].session
           c == lane[i].command
<1>1. w \in Workers /\ s \in Sessions /\ c \in Commands
  BY LanePresents DEF LaneExecuted, Works, Active, Renewing, Executing
<1>2. FilesTyped
  BY DEF CopyInv
<1>3. workspace' = [workspace EXCEPT ![w][s] = workspace[w][s] \cup {c}]
  BY DEF LaneExecuted
<1>4. /\ workspace' \in [Workers -> [Sessions -> SUBSET Commands]]
      /\ \A v \in Workers, t \in Sessions : workspace[v][t] \subseteq workspace'[v][t]
  BY <1>1, <1>2, <1>3 DEF FilesTyped
<1> QED
  BY <1>2, <1>4 DEF LaneExecuted, FilesTyped, FilesGrow

LEMMA FilesGone ==
  ASSUME CopyInv, NEW w \in Workers, ProcessGone(w), budget' \in Budgets
  PROVE  FilesTyped' /\ FilesGrow
<1>1. FilesTyped
  BY DEF CopyInv
<1>2. \A i \in Lanes : WorkerOf[i] = w => lane'[i] = Idle
  BY DEF ProcessGone
<1> DEFINE none == [s \in Sessions |-> {}]
<1>3. none \in [Sessions -> SUBSET Commands]
  OBVIOUS
<1>4. workspace' = workspace \/ workspace' = [workspace EXCEPT ![w] = none]
  BY DEF ProcessGone
<1> HIDE DEF none
<1>5. /\ workspace' \in [Workers -> [Sessions -> SUBSET Commands]]
      /\ \A v \in Workers : v # w => workspace'[v] = workspace[v]
  BY <1>1, <1>3, <1>4 DEF FilesTyped
<1>6. /\ warm' \in [Workers -> SUBSET Sessions]
      /\ \A v \in Workers : v # w => warm'[v] = warm[v]
  BY <1>1 DEF FilesTyped, ProcessGone
<1> QED
  BY <1>1, <1>2, <1>5, <1>6 DEF FilesTyped, FilesGrow, ProcessGone, Budgets

LEMMA FilesEvicted ==
  ASSUME CopyInv, NEW w \in Workers, NEW s \in Sessions, EvictRuntime(w, s)
  PROVE  FilesTyped' /\ FilesGrow
<1>1. FilesTyped
  BY DEF CopyInv
<1>2. warm' = [warm EXCEPT ![w] = warm[w] \ {s}] /\ ~Busy(w, s) /\ lane' = lane
  BY DEF EvictRuntime, processVars
<1>3. /\ warm' \in [Workers -> SUBSET Sessions]
      /\ \A v \in Workers : \A t \in warm[v] : t \in warm'[v] \/ (v = w /\ t = s)
  BY <1>1, <1>2 DEF FilesTyped
<1> QED
  BY <1>1, <1>2, <1>3 DEF EvictRuntime, FilesTyped, FilesGrow

LEMMA FilesStep ==
  ASSUME CopyInv, [WorkerNext]_vars
  PROVE  FilesTyped' /\ FilesGrow
<1> DEFINE Goal == FilesTyped' /\ FilesGrow
<1>0. budget \in Budgets
  BY DEF CopyInv, FilesTyped, Budgets
<1>1. CASE UNCHANGED <<fileVars, budget>>
  BY <1>0, <1>1, FilesSame
<1>2. CASE UNCHANGED vars \/ Environment
  BY <1>1, <1>2 DEF vars, Environment
<1>3. ASSUME NEW i \in Lanes, NEW s \in Sessions, StartLane(i, s) \/ StartEvent(i, s)
      PROVE  Goal
  <2>1. UNCHANGED fileVars /\ budget' \in Budgets
    BY <1>0, <1>3, BudgetSpent DEF StartLane, StartEvent
  <2> QED
    BY <2>1, FilesSame
<1>4. ASSUME NEW i \in Lanes, NEW d \in Clock, CommandStep(i, d)
      PROVE  Goal
  <2>1. CASE LaneProvision(i) \/ LaneExecuted(i)
    BY <2>1, FilesProvision, FilesExecuted
  <2>2. CASE LanePut(i)
    BY <2>2, FilesPut DEF LanePut
  <2> QED
    BY <1>1, <1>4, <2>1, <2>2
       DEF CommandStep, LaneRenew, LaneRenewFails, LaneClaim, LaneClaimDenied, LaneNext,
           LaneNextNone, LaneReserve, LaneReserveDenied, LaneDefer, LaneAborted, LaneError,
           LaneFail, LaneCollect, Collect, LaneAck, LaneAckLost, LaneAckStaleVersion,
           LaneRetry, LaneThrows
<1>5. ASSUME NEW i \in Lanes, NEW d \in Clock, EventStep(i, d) \/ TimerStep(i, d)
      PROVE  Goal
  <2>1. CASE EventPut(i)
    BY <2>1, FilesPut DEF EventPut
  <2>2. CASE TimerRenew(i, d) \/ TimerRenewFails(i)
    <3>1. UNCHANGED fileVars /\ budget' \in Budgets
      BY <1>0, <2>2, BudgetSpent DEF TimerRenew, TimerRenewFails, TimerFires
    <3> QED
      BY <3>1, FilesSame
  <2> QED
    BY <1>1, <1>5, <2>1, <2>2
       DEF EventStep, EventRenew, EventAppend, EventCheckpoint, EventCheckpointStaleVersion,
           EventCollect, Collect, EventStale, TimerStep, TimerApply
<1>6. ASSUME NEW w \in Workers, NEW d \in Clock,
             (\E R \in SUBSET Sessions : Reap(w, R, d)) \/ ShutdownStep(w, d)
      PROVE  Goal
  <2>1. CASE Exit(w)
    BY <1>0, <2>1, FilesGone DEF Exit
  <2> QED
    BY <1>1, <1>6, <2>1
       DEF Reap, ShutdownStep, AbortActive, RecoverActive, RecoverActiveFails, BeginRelease,
           ReleaseCached, Restart
<1>7. ASSUME NEW w \in Workers,
             (\E s \in Sessions : EvictRuntime(w, s)) \/ Crash(w) \/ BeginShutdown(w)
      PROVE  Goal
  <2>1. CASE Crash(w)
    BY <1>0, <2>1, FilesGone, BudgetSpent DEF Crash
  <2>2. CASE BeginShutdown(w)
    <3>1. UNCHANGED fileVars /\ budget' \in Budgets
      BY <1>0, <2>2, BudgetSpent DEF BeginShutdown
    <3> QED
      BY <3>1, FilesSame
  <2> QED
    BY <1>7, <2>1, <2>2, FilesEvicted
<1>8. CASE WorkerNext
  BY <1>2, <1>3, <1>4, <1>5, <1>6, <1>7, <1>8 DEF WorkerNext, HttpLane, LoopLane
<1> QED
  BY <1>2, <1>8

LEMMA PhaseStep ==
  ASSUME CopyInv, [WorkerNext]_vars
  PROVE  phase' \in [Workers -> Phases]
<1>0. phase \in [Workers -> Phases]
  BY DEF CopyInv
<1>1. CASE phase' = phase
  BY <1>0, <1>1
<1>2. ASSUME NEW w \in Workers, NEW p \in Phases, phase' = [phase EXCEPT ![w] = p]
      PROVE  phase' \in [Workers -> Phases]
  BY <1>0, <1>2
<1>3. ASSUME NEW i \in Lanes, NEW d \in Clock,
             \/ \E s \in Sessions : HttpLane(i, s) \/ StartEvent(i, s) \/ LoopLane(i, s, d)
             \/ CommandStep(i, d) \/ EventStep(i, d) \/ TimerStep(i, d)
      PROVE  phase' = phase
  BY <1>3 DEF HttpLane, LoopLane, StartLane, StartEvent,
           CommandStep, LaneRenew, LaneRenewFails, LaneClaim, LaneClaimDenied, LaneNext,
           LaneNextNone, LaneReserve, LaneReserveDenied, LaneProvision, LaneDefer, LaneExecuted,
           LaneAborted, LaneError, LaneFail, LaneCollect, Collect, LanePut, LaneAck, LaneAckLost,
           LaneAckStaleVersion, LaneRetry, LaneThrows,
           EventStep, EventRenew, EventAppend, EventCheckpoint, EventCheckpointStaleVersion,
           EventCollect, EventPut, EventStale, TimerStep, TimerRenew, TimerRenewFails, TimerApply
<1>4. ASSUME NEW w \in Workers, NEW d \in Clock,
             \/ \E R \in SUBSET Sessions : Reap(w, R, d)
             \/ ShutdownStep(w, d)
             \/ \E s \in Sessions : EvictRuntime(w, s)
             \/ Crash(w) \/ BeginShutdown(w)
      PROVE  phase' = phase \/ \E p \in Phases : phase' = [phase EXCEPT ![w] = p]
  BY <1>4 DEF Phases, Reap, processVars, ShutdownStep, AbortActive, RecoverActive,
              RecoverActiveFails, BeginRelease, ReleaseCached, Exit, Restart, ProcessGone,
              EvictRuntime, Crash, BeginShutdown
<1>5. CASE WorkerNext
  <2>1. \E d \in Clock : TRUE
    BY StoreConstants DEF Clock
  <2> QED
    BY <1>1, <1>2, <1>3, <1>4, <1>5, <2>1 DEF WorkerNext, Environment, processVars
<1> QED
  BY <1>1, <1>5 DEF vars, processVars

LEMMA InitCopyInv == WorkerInit => CopyInv
<1> SUFFICES ASSUME WorkerInit PROVE CopyInv
  OBVIOUS
<1>1. IInv
  BY InitIInv DEF WorkerInit
<1>2. RowsBounded
  BY StoreConstants DEF WorkerInit, Init, RowsBounded, NoLease
<1>3. phase \in [Workers -> Phases] /\ CachesKnown /\ StopsKnown
  BY NoCopyTyped DEF WorkerInit, Phases, CachesKnown, CacheKnown, StopsKnown
<1>4. LanesKnown
  BY IdleTyped DEF WorkerInit, LanesKnown, LaneKnown, Works, Active, Renewing, Executing
<1>5. RenewalsKnown
  BY NoRenewalTyped DEF WorkerInit, RenewalsKnown, RenewalKnown
<1>6. FilesTyped
  BY WorkerConstants DEF WorkerInit, FilesTyped
<1> QED
  BY <1>1, <1>2, <1>3, <1>4, <1>5, <1>6 DEF CopyInv

LEMMA NextCopyInv == CopyInv /\ [WorkerNext]_vars => CopyInv'
  BY StepKnown, FilesStep, PhaseStep DEF CopyInv, ProcessKnown, Keeps

LEMMA SpecCopyInv == WorkerSpec => []CopyInv
  BY InitCopyInv, NextCopyInv, PTL DEF WorkerSpec

\* Every copy of a lease in a cache, a lane, a pending renewal or the list of a
\* stopping worker was issued to that worker and is not ahead of the row.
THEOREM CopiesAreIssued == WorkerSpec => []CopiesComeFromTheStore
<1>1. ASSUME CopyInv PROVE CopiesComeFromTheStore
  <2> SUFFICES ASSUME NEW w \in Workers, NEW l, l # NoCopy,
                      \/ \E s \in Sessions : l = leases[w][s]
                      \/ \E i \in Lanes : WorkerOf[i] = w /\ l \in {lane[i].lease, renewal[i].lease}
                      \/ l \in stopping[w]
               PROVE  /\ l.leasedBy = w
                      /\ \E n \in 1..session[l.session].nextLeaseAttempt : l.leaseToken = Token(n, w)
                      /\ lease[l.session].leaseToken = l.leaseToken =>
                           l.checkpointVersion <= lease[l.session].checkpointVersion
    BY DEF CopiesComeFromTheStore
  <2>1. Known(w, l)
    <3>1. CASE \E s \in Sessions : l = leases[w][s]
      BY <1>1, <3>1 DEF CopyInv, CachesKnown, CacheKnown
    <3>2. ASSUME NEW i \in Lanes, WorkerOf[i] = w, l = lane[i].lease PROVE Known(w, l)
      BY <1>1, <3>2, IdleTyped DEF CopyInv, LanesKnown, LaneKnown
    <3>3. ASSUME NEW i \in Lanes, WorkerOf[i] = w, l = renewal[i].lease PROVE Known(w, l)
      BY <1>1, <3>3 DEF CopyInv, RenewalsKnown, RenewalKnown, NoRenewal
    <3>4. CASE l \in stopping[w]
      BY <1>1, <3>4 DEF CopyInv, StopsKnown
    <3> QED
      BY <3>1, <3>2, <3>3, <3>4
  <2>2. /\ l.session \in Sessions /\ l.leaseToken[1] \in Nat \ {0}
        /\ l.leaseToken = Token(l.leaseToken[1], w)
        /\ l.leaseToken[1] <= session[l.session].nextLeaseAttempt
    BY <2>1, CopyFields DEF Known
  <2>3. session[l.session].nextLeaseAttempt \in Nat
    BY <1>1, <2>2 DEF CopyInv, IInv, TypeOK, SessionRows
  <2>4. l.leaseToken[1] \in 1..session[l.session].nextLeaseAttempt
    BY <2>2, <2>3
  <2> QED
    BY <2>1, <2>2, <2>4 DEF Known
<1> QED
  BY <1>1, SpecCopyInv, PTL

\* The workers implement the store: whatever they do, crash or retry, the tables
\* go through a behaviour of SessionStore, so every theorem about Spec is one
\* about WorkerSpec.
THEOREM WorkersImplementStore == WorkerSpec => ImplementsStore
<1>1. WorkerInit => Init
  BY DEF WorkerInit
<1>2. CopyInv /\ [WorkerNext]_vars => [Next]_storeVars
  BY StoreStep
<1> QED
  BY <1>1, <1>2, SpecCopyInv, PTL DEF WorkerSpec, Spec, ImplementsStore

-----------------------------------------------------------------------------
(* The lease cache stays within its limit. *)

HeldIn(f) == {s \in Sessions : f[s] # NoCopy}

\* A set of at most MaxLeases.
Small(S) == IsFiniteSet(S) /\ Cardinality(S) <= MaxLeases

LEMMA FewerIsSmall ==
  ASSUME NEW S, Small(S), NEW T \in SUBSET S
  PROVE  Small(T)
<1>1. IsFiniteSet(T) /\ Cardinality(T) <= Cardinality(S)
  BY FS_Subset DEF Small
<1>2. Cardinality(S) \in Nat /\ Cardinality(T) \in Nat
  BY <1>1, FS_CardinalityType DEF Small
<1> QED
  BY <1>1, <1>2, WorkerConstants DEF Small

\* One entry comes, and one goes if that was one too many.
LEMMA EvictionSuffices ==
  ASSUME NEW S, Small(S), NEW T, NEW x, T \subseteq S \cup {x}
  PROVE  /\ Cardinality(T) <= MaxLeases => Small(T)
         /\ \A y \in T : Small(T \ {y})
<1>1. /\ IsFiniteSet(S \cup {x})
      /\ Cardinality(S \cup {x}) = IF x \in S THEN Cardinality(S) ELSE Cardinality(S) + 1
  BY FS_AddElement DEF Small
<1>2. IsFiniteSet(T) /\ Cardinality(T) <= Cardinality(S \cup {x})
  BY <1>1, FS_Subset
<1>3. Cardinality(S) \in Nat /\ Cardinality(T) \in Nat
  BY <1>2, FS_CardinalityType DEF Small
<1>4. \A y \in T : IsFiniteSet(T \ {y}) /\ Cardinality(T \ {y}) = Cardinality(T) - 1
  BY <1>2, FS_RemoveElement
<1> QED
  BY <1>1, <1>2, <1>3, <1>4, WorkerConstants DEF Small

LEMMA TouchStaysSmall ==
  ASSUME CachesKnown, CacheBounded, NEW w \in Workers, NEW l, leases' \in Touched(w, l)
  PROVE  CacheBounded'
<1> DEFINE new == [leases[w] EXCEPT ![l.session] = l]
           held == HeldIn(new)
<1>1. leases \in [Workers -> [Sessions -> LeaseCopyRows]]
  BY DEF CachesKnown
<1>2. /\ \A v \in Workers : Small(Entries(v))
      /\ held \subseteq Entries(w) \cup {l.session}
  BY <1>1 DEF CacheBounded, Small, Entries, HeldIn
<1>3. \/ Cardinality(held) <= MaxLeases /\ leases' = [leases EXCEPT ![w] = new]
      \/ \E s \in held : leases' = [leases EXCEPT ![w] = [new EXCEPT ![s] = NoCopy]]
  BY DEF Touched, HeldIn
<1>4. \A v \in Workers : v # w => Entries(v)' = Entries(v)
  BY <1>1, <1>3 DEF Entries
<1>5. CASE Cardinality(held) <= MaxLeases /\ leases' = [leases EXCEPT ![w] = new]
  <2>1. Entries(w)' = held
    BY <1>1, <1>5 DEF Entries, HeldIn
  <2> HIDE DEF held
  <2>2. Small(held)
    BY <1>2, <1>5, EvictionSuffices
  <2> QED
    BY <1>2, <1>4, <2>1, <2>2 DEF CacheBounded, Small
<1>6. ASSUME NEW s \in held, leases' = [leases EXCEPT ![w] = [new EXCEPT ![s] = NoCopy]]
      PROVE  CacheBounded'
  <2> DEFINE newer == [new EXCEPT ![s] = NoCopy]
  <2>1. leases'[w] = newer
    BY <1>1, <1>6
  <2>2. HeldIn(newer) = held \ {s}
    BY <1>1 DEF HeldIn
  <2>3. Entries(w)' = HeldIn(newer)
    BY <2>1 DEF Entries, HeldIn
  <2> HIDE DEF held, newer
  <2>4. Small(held \ {s})
    BY <1>2, <1>6, EvictionSuffices
  <2> QED
    BY <1>2, <1>4, <2>2, <2>3, <2>4 DEF CacheBounded, Small
<1> QED
  BY <1>3, <1>5, <1>6

LEMMA LossStaysSmall ==
  ASSUME CacheBounded, \A w \in Workers : Entries(w)' \subseteq Entries(w)
  PROVE  CacheBounded'
<1>1. \A w \in Workers : Small(Entries(w)')
  BY FewerIsSmall DEF CacheBounded, Small
<1> QED
  BY <1>1 DEF CacheBounded, Small

\* The only things a step may do to the caches.
LEMMA CacheSteps ==
  ASSUME [WorkerNext]_vars
  PROVE  \/ leases' = leases
         \/ \E w \in Workers : \/ \E s : leases' = Dropped(w, s)
                               \/ \E l : leases' \in Touched(w, l)
                               \/ leases' = [leases EXCEPT ![w] = [s \in Sessions |-> NoCopy]]
<1> DEFINE Goal == \/ leases' = leases
                   \/ \E w \in Workers : \/ \E s : leases' = Dropped(w, s)
                                         \/ \E l : leases' \in Touched(w, l)
                                         \/ leases' = [leases EXCEPT ![w] = [s \in Sessions |-> NoCopy]]
<1>1. ASSUME NEW i \in Lanes, NEW d \in Clock, CommandStep(i, d) PROVE Goal
  <2>1. WorkerOf[i] \in Workers
    BY WorkerConstants
  <2>2. CASE leases' = leases
    BY <2>2
  <2>3. CASE \E s : leases' = Dropped(WorkerOf[i], s)
    BY <2>1, <2>3
  <2>4. CASE \E l : leases' \in Touched(WorkerOf[i], l)
    BY <2>1, <2>4
  <2> HIDE DEF Goal
  <2> QED
    BY <1>1, <2>2, <2>3, <2>4
       DEF CommandStep, LaneRenew, LaneRenewFails, LaneClaim, LaneClaimDenied, LaneNext,
           LaneNextNone, LaneReserve, LaneReserveDenied, LaneProvision, LaneDefer, LaneExecuted,
           LaneAborted, LaneError, LaneFail, LaneCollect, Collect, LanePut, LaneAck, LaneAckLost,
           LaneAckStaleVersion, LaneRetry, LaneThrows
<1>2. ASSUME NEW i \in Lanes, NEW d \in Clock, EventStep(i, d) \/ TimerStep(i, d) PROVE Goal
  <2>1. WorkerOf[i] \in Workers
    BY WorkerConstants
  <2>2. CASE leases' = leases
    BY <2>2
  <2>3. CASE \E s : leases' = Dropped(WorkerOf[i], s)
    BY <2>1, <2>3
  <2>4. CASE \E l : leases' \in Touched(WorkerOf[i], l)
    BY <2>1, <2>4
  <2> HIDE DEF Goal
  <2> QED
    BY <1>2, <2>2, <2>3, <2>4
       DEF EventStep, EventRenew, EventAppend, EventCheckpoint, EventCheckpointStaleVersion,
           EventCollect, Collect, EventPut, EventStale,
           TimerStep, TimerRenew, TimerRenewFails, TimerApply
<1>3. ASSUME NEW w \in Workers, NEW d \in Clock,
             (\E R \in SUBSET Sessions : Reap(w, R, d)) \/ ShutdownStep(w, d)
      PROVE  Goal
  BY <1>3 DEF Reap, processVars, ShutdownStep, AbortActive, RecoverActive, RecoverActiveFails,
              BeginRelease, ReleaseCached, Exit, ProcessGone, Restart
<1>4. ASSUME NEW w \in Workers,
             (\E s \in Sessions : EvictRuntime(w, s)) \/ Crash(w) \/ BeginShutdown(w)
      PROVE  Goal
  BY <1>4 DEF EvictRuntime, processVars, Crash, ProcessGone, BeginShutdown
<1>5. CASE WorkerNext
  BY <1>1, <1>2, <1>3, <1>4, <1>5
     DEF WorkerNext, Environment, processVars, HttpLane, LoopLane, StartLane, StartEvent
<1> QED
  BY <1>5 DEF vars, processVars

LEMMA NextCacheBounded == CopyInv /\ CacheBounded /\ [WorkerNext]_vars => CacheBounded'
<1> SUFFICES ASSUME CopyInv, CacheBounded, [WorkerNext]_vars PROVE CacheBounded'
  OBVIOUS
<1>0. CachesKnown /\ leases \in [Workers -> [Sessions -> LeaseCopyRows]]
  BY DEF CopyInv, CachesKnown
<1>1. CASE leases' = leases
  BY <1>1, LossStaysSmall DEF Entries
<1>2. ASSUME NEW w \in Workers, NEW s, leases' = Dropped(w, s) PROVE CacheBounded'
  <2>1. \A v \in Workers : Entries(v)' \subseteq Entries(v)
    BY <1>0, <1>2 DEF Dropped, Entries
  <2> QED
    BY <2>1, LossStaysSmall
<1>3. ASSUME NEW w \in Workers, leases' = [leases EXCEPT ![w] = [s \in Sessions |-> NoCopy]]
      PROVE  CacheBounded'
  <2>1. \A v \in Workers : Entries(v)' \subseteq Entries(v)
    BY <1>0, <1>3 DEF Entries
  <2> QED
    BY <2>1, LossStaysSmall
<1> QED
  BY <1>0, <1>1, <1>2, <1>3, CacheSteps, TouchStaysSmall

\* Every variable of the processes and the object store keeps its shape, and no
\* cache ever holds more than MaxLeases leases.
THEOREM WorkerTypeCorrect == WorkerSpec => []WorkerTypeOK
<1>1. WorkerInit => CacheBounded
  <2> SUFFICES ASSUME WorkerInit PROVE CacheBounded
    OBVIOUS
  <2>1. \A w \in Workers : Entries(w) = {}
    BY DEF WorkerInit, Entries
  <2> QED
    BY <2>1, FS_EmptySet, WorkerConstants DEF CacheBounded
<1>2. CopyInv /\ CacheBounded => WorkerTypeOK
  BY DEF CopyInv, CacheBounded, Entries, WorkerTypeOK, Phases, CachesKnown, LanesKnown, LaneRows,
         PCs, RenewalsKnown, RenewalRows, StopsKnown, FilesTyped
<1> QED
  BY <1>1, <1>2, NextCacheBounded, SpecCopyInv, PTL DEF WorkerSpec

-----------------------------------------------------------------------------
(* Who works on which command. *)

\* The steps of a lane after which it works on a command.
WorkStep(i, d) ==
  \/ LaneNext(i, d) \/ LaneReserve(i) \/ LaneProvision(i) \/ LaneExecuted(i) \/ LaneError(i, d)
  \/ LaneCollect(i) \/ LanePut(i) \/ LaneAckStaleVersion(i, d) \/ LaneRetry(i, d)

\* What the lane does not change while it waits.
LaneWaits(i) ==
  /\ lane'[i].pc = lane[i].pc
  /\ lane'[i].session = lane[i].session
  /\ lane'[i].command = lane[i].command
  /\ lane'[i].snapshot = lane[i].snapshot
  /\ lane'[i].lease.leaseToken = lane[i].lease.leaseToken

LaneTurn(i) == lane'[i].pc \notin Works \/ LaneWaits(i) \/ \E d \in Clock : WorkStep(i, d)

LEMMA StopTurns ==
  ASSUME CopyInv, NEW i \in Lanes, Stop(i), NEW j \in Lanes
  PROVE  LaneTurn(j)
<1>1. At(i, "idle", Nil, NoCopy, Nil, {})
  BY WritesIdle DEF CopyInv
<1>2. "idle" \notin Works
  BY DEF Works, Active, Renewing, Executing
<1> QED
  BY <1>1, <1>2 DEF At, LaneTurn, LaneWaits

LEMMA CommandStepTurns ==
  ASSUME CopyInv, NEW i \in Lanes, NEW d \in Clock, CommandStep(i, d), NEW j \in Lanes
  PROVE  LaneTurn(j)
<1>0. LanesKnown /\ lane \in [Lanes -> LaneRows] /\ lane[i] \in LaneRows
  BY DEF CopyInv, LanesKnown
<1>1. CASE Stop(i)
  BY <1>1, StopTurns
<1>2. CASE LaneRenew(i, d) \/ LaneRenewFails(i) \/ LaneClaim(i, d)
  <2>1. \/ lane' = [lane EXCEPT ![i].pc = "next", ![i].lease = lane'[i].lease]
        \/ lane' = [lane EXCEPT ![i].pc = "claim", ![i].lease = lane'[i].lease]
    BY <1>0, <1>2 DEF LaneRenew, LaneRenewFails, LaneClaim
  <2>2. /\ lane'[i].pc \in {"next", "claim"}
        /\ \A k \in Lanes : k # i => lane'[k] = lane[k]
    BY <1>0, <2>1 DEF LaneRows
  <2> QED
    BY <2>2 DEF LaneTurn, LaneWaits, Works, Active, Renewing, Executing
<1>3. CASE WorkStep(i, d)
  <2>1. \A k \in Lanes : k # i => lane'[k] = lane[k]
    BY <1>0, <1>3 DEF WorkStep, LaneNext, LaneReserve, LaneProvision, LaneExecuted, LaneError,
                      Goto, LaneCollect, Collect, LanePut, LaneAckStaleVersion, LaneRetry
  <2> QED
    BY <1>3, <2>1 DEF LaneTurn, LaneWaits
<1>4. CASE LaneAck(i, d)
  <2> DEFINE row == Activation("next", lane[i].session, Advanced(lane[i].lease))
  <2>1. CASE lane' = [lane EXCEPT ![i] = row]
    <3>1. row.pc = "next"
      BY DEF Activation
    <3> HIDE DEF row
    <3>2. lane'[i].pc = "next" /\ \A k \in Lanes : k # i => lane'[k] = lane[k]
      BY <1>0, <2>1, <3>1
    <3> QED
      BY <3>2 DEF LaneTurn, LaneWaits, Works, Active, Renewing, Executing
  <2> QED
    BY <1>1, <1>4, <2>1 DEF LaneAck
<1> QED
  BY <1>1, <1>2, <1>3, <1>4
     DEF CommandStep, WorkStep, LaneClaimDenied, LaneNextNone, LaneReserveDenied, LaneDefer,
         LaneAborted, LaneFail, LaneAckLost, LaneThrows

LEMMA StartTurns ==
  ASSUME CopyInv, NEW i \in Lanes, NEW s \in Sessions, StartLane(i, s) \/ StartEvent(i, s),
         NEW j \in Lanes
  PROVE  LaneTurn(j)
<1>1. \E p \in {"renew", "claim", "evRenew"} :
        lane' = [lane EXCEPT ![i] = Activation(p, s, leases[WorkerOf[i]][s])]
  BY DEF StartLane, StartEvent
<1>2. lane \in [Lanes -> LaneRows]
  BY DEF CopyInv, LanesKnown
<1>3. /\ lane'[i].pc \in {"renew", "claim", "evRenew"}
      /\ \A k \in Lanes : k # i => lane'[k] = lane[k]
  BY <1>1, <1>2 DEF Activation
<1> QED
  BY <1>3 DEF LaneTurn, LaneWaits, Works, Active, Renewing, Executing

LEMMA EventStepTurns ==
  ASSUME CopyInv, NEW i \in Lanes, NEW d \in Clock, EventStep(i, d), NEW j \in Lanes
  PROVE  LaneTurn(j)
<1>0. lane \in [Lanes -> LaneRows] /\ lane[i] \in LaneRows
  BY DEF CopyInv, LanesKnown
<1>1. CASE Stop(i)
  BY <1>1, StopTurns
<1>2. CASE EventRenew(i, d) /\ ~Stop(i)
  <2>1. \E p \in {"evAppend", "evCheckpoint"}, l \in {LeaseCopy(lane[i].session)} :
          lane' = [lane EXCEPT ![i].lease = l, ![i].pc = p]
    BY <1>0, <1>2 DEF EventRenew
  <2>2. lane'[i].pc \in EventPC /\ \A k \in Lanes : k # i => lane'[k] = lane[k]
    BY <1>0, <2>1 DEF LaneRows, EventPC
  <2> QED
    BY <2>2 DEF LaneTurn, LaneWaits, Works, Active, Renewing, Executing, EventPC
<1>3. CASE EventAppend(i, d) \/ EventCheckpoint(i, d) \/ EventCheckpointStaleVersion(i, d) \/ EventCollect(i)
  <2>1. lane'[i].pc \in EventPC /\ \A k \in Lanes : k # i => lane'[k] = lane[k]
    BY <1>0, <1>3 DEF EventAppend, EventCheckpoint, EventCheckpointStaleVersion, EventCollect,
                      Collect, Goto, LaneRows, EventPC
  <2> QED
    BY <2>1 DEF LaneTurn, LaneWaits, Works, Active, Renewing, Executing, EventPC
<1> QED
  BY <1>1, <1>2, <1>3 DEF EventStep, EventPut, EventStale, EventRenew

LEMMA TimerStepTurns ==
  ASSUME CopyInv, NEW i \in Lanes, NEW d \in Clock, TimerStep(i, d), NEW j \in Lanes
  PROVE  LaneWaits(j)
<1> DEFINE r == renewal[i]
           row == [lane[i] EXCEPT !.aborted = TRUE]
<1>0. lane \in [Lanes -> LaneRows] /\ lane[i] \in LaneRows /\ RenewalKnown(i)
  BY DEF CopyInv, LanesKnown, RenewalsKnown
<1>1. \/ lane' = lane
      \/ r.mine /\ lane' = [lane EXCEPT ![i].lease = r.lease]
      \/ lane' = [lane EXCEPT ![i] = row]
  BY DEF TimerStep, TimerRenew, TimerRenewFails, TimerApply
<1>2. CASE lane' = lane
  BY <1>2 DEF LaneWaits
<1>3. CASE r.mine /\ lane' = [lane EXCEPT ![i].lease = r.lease]
  <2>1. r.lease.leaseToken = lane[i].lease.leaseToken
    BY <1>0, <1>3 DEF RenewalKnown
  <2>2. \A k \in Lanes : LaneWaits(k)
    BY <1>0, <1>3, <2>1 DEF LaneRows, LaneWaits
  <2> QED
    BY <2>2
<1>4. CASE lane' = [lane EXCEPT ![i] = row]
  <2>1. /\ row.pc = lane[i].pc /\ row.session = lane[i].session /\ row.lease = lane[i].lease
        /\ row.command = lane[i].command /\ row.snapshot = lane[i].snapshot
    BY <1>0, Aborted, Zenon
  <2> HIDE DEF row
  <2> QED
    BY <1>0, <1>4, <2>1 DEF LaneWaits
<1> QED
  BY <1>1, <1>2, <1>3, <1>4

LEMMA GoneTurns ==
  ASSUME NEW w \in Workers, ProcessGone(w), NEW j \in Lanes
  PROVE  LaneWaits(j) \/ lane'[j] = Idle
<1>1. lane'[j] = Idle \/ lane'[j] = lane[j]
  BY DEF ProcessGone
<1> QED
  BY <1>1 DEF LaneWaits

LEMMA ShutdownStepTurns ==
  ASSUME CopyInv, NEW w \in Workers, NEW d \in Clock, ShutdownStep(w, d), NEW j \in Lanes
  PROVE  LaneWaits(j) \/ lane'[j] = Idle
<1>1. CASE AbortActive(w)
  <2> DEFINE row == [lane[j] EXCEPT !.aborted = TRUE]
  <2>1. lane'[j] = lane[j] \/ lane'[j] = row
    BY <1>1 DEF AbortActive
  <2>2. lane[j] \in LaneRows
    BY DEF CopyInv, LanesKnown
  <2>3. /\ row.pc = lane[j].pc /\ row.session = lane[j].session /\ row.lease = lane[j].lease
        /\ row.command = lane[j].command /\ row.snapshot = lane[j].snapshot
    BY <2>2, Aborted, Zenon
  <2> HIDE DEF row
  <2> QED
    BY <2>1, <2>3 DEF LaneWaits
<1>2. CASE lane' = lane
  BY <1>2 DEF LaneWaits
<1>3. CASE Exit(w)
  BY <1>3, GoneTurns DEF Exit
<1> QED
  BY <1>1, <1>2, <1>3
     DEF ShutdownStep, RecoverActive, RecoverActiveFails, BeginRelease, ReleaseCached, Restart

\* In every step, every lane waits, is done with its command or takes one of
\* its steps.
LEMMA LaneTurns ==
  ASSUME CopyInv, [WorkerNext]_vars, NEW j \in Lanes
  PROVE  LaneTurn(j)
<1>1. CASE lane' = lane
  BY <1>1 DEF LaneTurn, LaneWaits
<1>2. CASE LaneWaits(j) \/ lane'[j] = Idle
  BY <1>2, IdleTyped DEF LaneTurn, Works, Active, Renewing, Executing
<1>3. CASE WorkerNext
  BY <1>1, <1>2, <1>3, GoneTurns, StartTurns, CommandStepTurns, EventStepTurns, TimerStepTurns, ShutdownStepTurns
     DEF WorkerNext, Crash, Environment, processVars, HttpLane, LoopLane, Reap, EvictRuntime, BeginShutdown
<1> QED
  BY <1>1, <1>3 DEF vars, processVars

\* What the lane carries through one of its steps.
LEMMA WorkStepKeeps ==
  ASSUME CopyInv, NEW i \in Lanes, NEW d \in Clock, WorkStep(i, d)
  PROVE  /\ \A j \in Lanes : j # i => lane'[j] = lane[j]
         /\ lane'[i].session = lane[i].session
         /\ lane'[i].lease.leaseToken = lane[i].lease.leaseToken
         /\ LaneNext(i, d) \/ (lane[i].pc \in Works /\ lane'[i].command = lane[i].command)
<1> USE DEF Works, Active, Renewing, Executing, PCs, CommandPC
<1>0. LanesKnown
  BY DEF CopyInv
<1>1. CASE LaneNext(i, d)
  <2>1. PICK c \in Commands : lane' = [lane EXCEPT ![i].pc = "reserve", ![i].command = c]
    BY <1>1 DEF LaneNext
  <2>2. At(i, "reserve", lane[i].session, lane[i].lease, c, lane[i].snapshot)
    BY <1>0, <2>1, WritesCommand
  <2> QED
    BY <1>1, <2>2 DEF At
<1>2. CASE LaneReserve(i) \/ LaneProvision(i) \/ LaneExecuted(i) \/ LaneError(i, d)
  <2>1. PICK p \in {"exec", "run", "save", "failing"} : Goto(i, p)
    BY <1>2 DEF LaneReserve, LaneProvision, LaneExecuted, LaneError
  <2>2. lane[i].pc \in Works
    BY <1>2 DEF LaneReserve, LaneProvision, LaneExecuted, LaneError
  <2>3. At(i, p, lane[i].session, lane[i].lease, lane[i].command, lane[i].snapshot)
    BY <1>0, <2>1, WritesPC
  <2> QED
    BY <2>2, <2>3 DEF At
<1>3. CASE LaneCollect(i) \/ LanePut(i)
  <2>1. lane[i].pc \in {"save", "put"} /\ WorkerOf[i] \in Workers /\ lane[i].session \in Sessions
    BY <1>3, LanePresents DEF LaneCollect, Collect, LanePut
  <2>2. workspace[WorkerOf[i]][lane[i].session] \in SUBSET Commands
    BY <2>1 DEF CopyInv, FilesTyped
  <2>3. \E p \in {"put", "ack"}, files \in SUBSET Commands :
          lane' = [lane EXCEPT ![i].pc = p, ![i].snapshot = files]
    BY <1>3, <2>2 DEF LaneCollect, Collect, LanePut
  <2>4. PICK p \in {"put", "ack"}, files \in SUBSET Commands :
          At(i, p, lane[i].session, lane[i].lease, lane[i].command, files)
    BY <1>0, <2>3, WritesSnapshot
  <2> QED
    BY <2>1, <2>4 DEF At
<1>4. CASE LaneAckStaleVersion(i, d)
  <2>1. At(i, "retry", lane[i].session, lane[i].lease, lane[i].command, lane[i].snapshot)
    BY <1>0, <1>4, WritesTries DEF LaneAckStaleVersion
  <2> QED
    BY <1>4, <2>1 DEF At, LaneAckStaleVersion
<1>5. CASE LaneRetry(i, d)
  <2>1. /\ lane[i].pc = "retry" /\ Known(WorkerOf[i], lane[i].lease) /\ WorkerOf[i] \in Workers
        /\ lane[i].lease.session = lane[i].session
        /\ lease[lane[i].lease.session].leaseToken = lane[i].lease.leaseToken
    BY <1>5, LanePresents DEF LaneRetry, RenewSessionLease, CurrentLease
  <2> DEFINE l == LeaseCopy(lane[i].session)
  <2>2. Known(WorkerOf[i], l) /\ l.leaseToken = lane[i].lease.leaseToken
    BY <2>1, RowIsKnown DEF CopyInv
  <2>3. l \in LeaseCopyRows
    BY <2>2, CopyFields DEF Known
  <2>4. lane' = [lane EXCEPT ![i].pc = "save", ![i].lease = l]
    BY <1>5 DEF LaneRetry
  <2> HIDE DEF l
  <2>5. At(i, "save", lane[i].session, l, lane[i].command, lane[i].snapshot)
    BY <1>0, <2>3, <2>4, WritesLease
  <2> QED
    BY <2>1, <2>2, <2>5 DEF At
<1> QED
  BY <1>1, <1>2, <1>3, <1>4, <1>5 DEF WorkStep

\* The lane takes the command from the queue.
TakesUp(i, c) ==
  \E d \in Clock : /\ lane[i].pc = "next"
                   /\ ClaimNextSessionCommand(lane[i].lease, c, d)

\* The lane settles the command, and is done with it.
Settles(i, c) ==
  /\ lane[i].pc \in {"ack", "failing"}
  /\ lane[i].command = c
  /\ Owned(lane[i].lease, c)
  /\ lane'[i].pc \notin Works

Acks(i) == \E d \in Clock : LaneAck(i, d) \/ LaneAckLost(i, d)

\* A lane that works on a command has done so before, under the same lease, or
\* has just taken it up.
LEMMA WorkCameBefore ==
  ASSUME CopyInv, [WorkerNext]_vars, NEW i \in Lanes, NEW c \in Commands, WorksOn(i, c)'
  PROVE  /\ lane'[i].lease.leaseToken = lane[i].lease.leaseToken
         /\ lane'[i].session = lane[i].session
         /\ WorksOn(i, c) \/ (TakesUp(i, c) /\ \A j \in Lanes : j # i => lane'[j] = lane[j])
<1>0. lane'[i].pc \in Works /\ lane'[i].command = c
  BY DEF WorksOn, Works
<1>1. CASE LaneWaits(i)
  BY <1>0, <1>1 DEF LaneWaits, WorksOn, Works
<1>2. ASSUME NEW d \in Clock, WorkStep(i, d), ~LaneNext(i, d)
      PROVE  /\ lane'[i].lease.leaseToken = lane[i].lease.leaseToken
             /\ lane'[i].session = lane[i].session
             /\ WorksOn(i, c)
  BY <1>0, <1>2, WorkStepKeeps DEF WorksOn, Works
<1>3. ASSUME NEW d \in Clock, LaneNext(i, d)
      PROVE  /\ lane'[i].lease.leaseToken = lane[i].lease.leaseToken
             /\ lane'[i].session = lane[i].session
             /\ TakesUp(i, c) /\ \A j \in Lanes : j # i => lane'[j] = lane[j]
  <2>1. PICK e \in Commands : /\ ClaimNextSessionCommand(lane[i].lease, e, d)
                              /\ lane' = [lane EXCEPT ![i].pc = "reserve", ![i].command = e]
    BY <1>3 DEF LaneNext
  <2>2. LanesKnown /\ "reserve" \in PCs
    BY DEF CopyInv, PCs, CommandPC
  <2>3. At(i, "reserve", lane[i].session, lane[i].lease, e, lane[i].snapshot)
    BY <2>1, <2>2, WritesCommand
  <2>4. e = c /\ lane[i].pc = "next"
    BY <1>0, <1>3, <2>3 DEF At, LaneNext
  <2>5. TakesUp(i, c)
    BY <2>1, <2>4 DEF TakesUp
  <2> QED
    BY <2>3, <2>5 DEF At
<1> QED
  BY <1>0, <1>1, <1>2, <1>3, LaneTurns DEF LaneTurn

\* What a step may do to a command.  A running one changes its claim only when
\* its lease goes, when another lease takes it up, or when a lane that works on
\* it settles it.
CommandTurn(c) ==
  \/ /\ command'[c].status = command[c].status
     /\ command'[c].claimedLeaseToken = command[c].claimedLeaseToken
  \/ /\ command'[c].status # "acked"
     /\ \/ command[c].status # "running"
        \/ lease'[SessionOf[c]].leaseToken # command[c].claimedLeaseToken
        \/ \E i \in Lanes : TakesUp(i, c)
  \/ \E i \in Lanes : /\ Settles(i, c)
                      /\ command'[c].status = "acked" => Acks(i)

LEMMA RecoveryTurns ==
  ASSUME CopyInv, NEW R \in SUBSET Sessions, NEW d \in Clock, RecoverLeases(R, d), NEW c \in Commands
  PROVE  CommandTurn(c)
<1>0. IInv /\ SessionOf[c] \in Sessions
  BY StoreConstants DEF CopyInv
<1>1. CASE command'[c] = command[c]
  BY <1>1 DEF CommandTurn
<1>2. CASE SessionOf[c] \in R /\ c \in Held(SessionOf[c])
  <2>1. command'[c] = Recovered(c, d)
    BY <1>2 DEF RecoverLeases
  <2>2. command'[c].status # "acked"
    BY <1>0, <2>1, RecoveredTyped
  <2>3. lease'[SessionOf[c]].leaseToken = NoToken
    BY <1>0, <1>2, RowsTyped DEF RecoverLeases
  <2>4. command[c].claimedLeaseToken # NoToken
    <3>1. PICK n \in 1..session[SessionOf[c]].nextLeaseAttempt :
            command[c].claimedLeaseToken = Token(n, command[c].claimedBy)
      BY <1>0, <1>2 DEF IInv, ClaimsAreAccounted, Held
    <3>2. n # 0
      BY <1>0 DEF IInv, TypeOK, SessionRows
    <3> QED
      BY <3>1, <3>2 DEF Token, NoToken
  <2> QED
    BY <2>2, <2>3, <2>4 DEF CommandTurn
<1> QED
  BY <1>1, <1>2 DEF RecoverLeases

LEMMA EnvironmentTurns ==
  ASSUME CopyInv, Environment, NEW c \in Commands
  PROVE  CommandTurn(c)
<1>0. command \in [Commands -> CommandRows] /\ command[c] \in CommandRows
  BY DEF CopyInv, IInv, TypeOK
<1>1. CASE \E s \in Sessions : CreateSession(s)
  BY <1>1 DEF CreateSession, CommandTurn
<1>2. ASSUME NEW e \in Commands, EnqueueSessionCommand(e) PROVE CommandTurn(c)
  <2>1. CASE e = c
    BY <1>0, <1>2, <2>1 DEF EnqueueSessionCommand, CommandRows, CommandTurn
  <2>2. CASE e # c
    BY <1>0, <1>2, <2>2 DEF EnqueueSessionCommand, CommandTurn
  <2> QED
    BY <2>1, <2>2
<1>3. CASE Tick
  BY <1>0, <1>3 DEF Tick, CommandRows, CommandTurn
<1> QED
  BY <1>1, <1>2, <1>3 DEF Environment

LEMMA CommandStepCommand ==
  ASSUME CopyInv, NEW i \in Lanes, NEW d \in Clock, CommandStep(i, d), NEW c \in Commands
  PROVE  CommandTurn(c)
<1>0. command \in [Commands -> CommandRows] /\ command[c] \in CommandRows /\ LanesKnown
  BY DEF CopyInv, IInv, TypeOK
<1>1. CASE command' = command
  BY <1>1 DEF CommandTurn
<1>2. CASE LaneNext(i, d)
  <2>1. PICK e \in Commands : ClaimNextSessionCommand(lane[i].lease, e, d)
    BY <1>2 DEF LaneNext
  <2>2. CASE e = c
    <3>1. command'[c].status # "acked"
      BY <1>0, <2>1, <2>2 DEF ClaimNextSessionCommand, CommandRows
    <3>2. TakesUp(i, c)
      BY <1>2, <2>1, <2>2 DEF LaneNext, TakesUp
    <3> QED
      BY <3>1, <3>2 DEF CommandTurn
  <2>3. CASE e # c
    BY <1>0, <2>1, <2>3 DEF ClaimNextSessionCommand, CommandTurn
  <2> QED
    BY <2>2, <2>3
<1>3. CASE LaneDefer(i, d)
  <2>0. /\ DeferSessionCommand(lane[i].lease, lane[i].command, d)
        /\ lane[i].lease \in LeaseCopies /\ lane[i].command \in Commands
    BY <1>3, LanePresents DEF LaneDefer, Works, Active, Renewing, Executing
  <2>1. CASE lane[i].command = c
    <3>1. /\ SessionOf[c] = lane[i].lease.session /\ SessionOf[c] \in Sessions
          /\ command[c].claimedLeaseToken = lane[i].lease.leaseToken
      BY <2>0, <2>1, StoreConstants DEF DeferSessionCommand, Owned
    <3>2. command'[c].status # "acked"
      BY <1>0, <2>0, <2>1 DEF DeferSessionCommand, CommandRows
    <3>3. lease'[SessionOf[c]].leaseToken = NoToken
      BY <2>0, <3>1, RowsTyped DEF DeferSessionCommand, CopyInv, IInv, TypeOK
    <3> QED
      BY <2>0, <3>1, <3>2, <3>3, CopiesTyped DEF CommandTurn
  <2>2. CASE lane[i].command # c
    BY <1>0, <2>0, <2>2 DEF DeferSessionCommand, CommandTurn
  <2> QED
    BY <2>1, <2>2
<1>4. CASE LaneFail(i, d) \/ LaneAck(i, d) \/ LaneAckLost(i, d)
  <2>0. /\ lane[i].pc \in {"ack", "failing"} /\ lane[i].command \in Commands
        /\ lane[i].session \in Sessions
        /\ Owned(lane[i].lease, lane[i].command)
    BY <1>4, LanePresents
       DEF LaneFail, LaneAck, LaneAckLost, FailSessionCommand, CheckpointAndAckSessionCommand,
           Works, Active, Renewing, Executing
  <2>1. \/ Acks(i) /\ command' = [command EXCEPT ![lane[i].command].status = "acked"]
        \/ lane[i].pc = "failing" /\ command' = [command EXCEPT ![lane[i].command].status = "failed"]
    BY <1>4 DEF Acks, LaneFail, LaneAck, LaneAckLost, FailSessionCommand, CheckpointAndAckSessionCommand
  <2>2. lane'[i].pc \notin Works
    <3>1. CASE Stop(i)
      BY <1>0, <3>1, WritesIdle, IdleTyped DEF Works, Active, Renewing, Executing
    <3>2. CASE LaneAck(i, d) /\ ~Stop(i)
      <4> DEFINE row == Activation("next", lane[i].session, Advanced(lane[i].lease))
      <4>1. lane' = [lane EXCEPT ![i] = row] /\ row.pc = "next"
        BY <3>2 DEF LaneAck, Activation
      <4> HIDE DEF row
      <4>2. lane'[i].pc = "next"
        BY <1>0, <4>1 DEF LanesKnown
      <4> QED
        BY <4>2 DEF Works, Active, Renewing, Executing
    <3> QED
      BY <1>4, <3>1, <3>2 DEF LaneFail, LaneAckLost
  <2>3. CASE lane[i].command = c
    BY <1>0, <2>0, <2>1, <2>2, <2>3 DEF CommandRows, Settles, CommandTurn
  <2>4. CASE lane[i].command # c
    BY <1>0, <2>0, <2>1, <2>4 DEF CommandTurn
  <2> QED
    BY <2>3, <2>4
<1> QED
  BY <1>1, <1>2, <1>3, <1>4
     DEF CommandStep, LaneRenew, LaneRenewFails, LaneClaim, LaneClaimDenied,
         LaneNextNone, LaneReserve, LaneReserveDenied, LaneProvision, LaneExecuted,
         LaneAborted, LaneError, LaneCollect, Collect, LanePut,
         LaneAckStaleVersion, LaneRetry, LaneThrows, storeVars,
         RenewSessionLease, ClaimSessionLease, UpdateSessionStatus

LEMMA CommandTurns ==
  ASSUME CopyInv, [WorkerNext]_vars, NEW c \in Commands
  PROVE  CommandTurn(c)
<1>1. CASE command' = command
  BY <1>1 DEF CommandTurn
<1>2. ASSUME NEW i \in Lanes, NEW d \in Clock, EventStep(i, d) \/ TimerStep(i, d)
      PROVE  command' = command
  BY <1>2 DEF EventStep, EventRenew, EventAppend, EventCheckpoint, EventCheckpointStaleVersion,
              EventCollect, Collect, EventPut, EventStale,
              TimerStep, TimerRenew, TimerRenewFails, TimerApply, storeVars,
              RenewSessionLease, UpdateSessionStatus, CheckpointSession
<1>3. ASSUME NEW w \in Workers, NEW d \in Clock, NEW R \in SUBSET Sessions, Reap(w, R, d)
      PROVE  CommandTurn(c)
  BY <1>3, RecoveryTurns DEF Reap, ReapExpiredSessionLeases
<1>4. ASSUME NEW w \in Workers, NEW d \in Clock, ShutdownStep(w, d)
      PROVE  CommandTurn(c)
  <2>1. ASSUME NEW l \in stopping[w], RecoverActive(w, l, d) PROVE CommandTurn(c)
    <3>1. {l.session} \in SUBSET Sessions
      BY CopyFields DEF CopyInv, StopsKnown, Known
    <3> QED
      BY <2>1, <3>1, RecoveryTurns DEF RecoverActive, RecoverSessionLease
  <2> QED
    BY <1>1, <1>4, <2>1
       DEF ShutdownStep, AbortActive, RecoverActiveFails, BeginRelease, ReleaseCached, Exit,
           ProcessGone, Restart, storeVars, ReleaseSessionLease
<1>5. CASE WorkerNext
  BY <1>1, <1>2, <1>3, <1>4, <1>5, EnvironmentTurns, CommandStepCommand
     DEF WorkerNext, HttpLane, LoopLane, StartLane, StartEvent, EvictRuntime, Crash, ProcessGone,
         BeginShutdown, storeVars
<1> QED
  BY <1>1, <1>5 DEF vars, storeVars

\* The inductive step: the lease that a lane holds is never the one that takes
\* its command up again, and a lane that settles the command works under the
\* lease that claimed it, which no other lane on that command shares.
LEMMA NextOwnInv == CopyInv /\ OwnInv /\ [WorkerNext]_vars => OwnInv'
<1> SUFFICES ASSUME CopyInv, OwnInv, [WorkerNext]_vars PROVE OwnInv'
  OBVIOUS
<1>0. [Next]_storeVars /\ IInv /\ RowsBounded
  BY StoreStep DEF CopyInv
<1>1. ASSUME NEW i \in Lanes, NEW c \in Commands, TakesUp(i, c),
             NEW j \in Lanes, WorksOn(j, c)
      PROVE  lane[j].lease.leaseToken # lane[i].lease.leaseToken
  <2>1. /\ lease[SessionOf[c]].leaseToken = lane[i].lease.leaseToken
        /\ ~(command[c].status = "running" /\ command[c].claimedLeaseToken = lane[i].lease.leaseToken)
    BY <1>1 DEF TakesUp, ClaimNextSessionCommand, CurrentLease, Ready, IsNext, Claimable
  <2> QED
    BY <1>1, <2>1 DEF OwnInv, LaneOwnsItsCommand, Owned
<1>2. LaneOwnsItsCommand'
  <2> SUFFICES ASSUME NEW i \in Lanes, NEW c \in Commands, WorksOn(i, c)',
                      lease'[SessionOf[c]].leaseToken = lane'[i].lease.leaseToken
               PROVE  Owned(lane[i].lease, c)'
    BY DEF LaneOwnsItsCommand
  <2> DEFINE t == lane[i].lease.leaseToken
  <2>0. /\ lane'[i].lease.leaseToken = t
        /\ WorksOn(i, c) \/ TakesUp(i, c)
        /\ lane'[i].lease.session = SessionOf[c]
    <3>1. LaneKnown(i)'
      BY StepKnown DEF ProcessKnown, LanesKnown
    <3>2. lane'[i].pc \in Works /\ lane'[i].command = c
      BY DEF WorksOn, Works
    <3>3. lane'[i].lease.session = SessionOf[c]
      BY <3>1, <3>2 DEF LaneKnown, Works, Active, Renewing, Executing
    <3> QED
      BY <3>3, WorkCameBefore
  <2>1. CASE TakesUp(i, c)
    <3>1. command'[c].status = "running" /\ command'[c].claimedLeaseToken = t
      BY <1>0, <2>1 DEF TakesUp, ClaimNextSessionCommand, IInv, TypeOK, CommandRows
    <3> QED
      BY <2>0, <3>1 DEF Owned
  <2>2. CASE WorksOn(i, c)
    <3>1. /\ Known(WorkerOf[i], lane[i].lease) /\ WorkerOf[i] \in Workers
          /\ lane[i].lease.session = SessionOf[c]
      BY <2>2, LanePresents DEF WorksOn, Works, Active, Renewing, Executing
    <3>2. lease[SessionOf[c]].leaseToken = t
      BY <1>0, <2>0, <3>1, TokenCameBefore
    <3>3. command[c].status = "running" /\ command[c].claimedLeaseToken = t
      BY <2>2, <3>2 DEF OwnInv, LaneOwnsItsCommand, Owned
    <3>4. ASSUME NEW j \in Lanes, TakesUp(j, c) PROVE FALSE
      BY <3>2, <3>3, <3>4 DEF TakesUp, ClaimNextSessionCommand, CurrentLease, Ready, IsNext, Claimable
    <3>5. ASSUME NEW j \in Lanes, Settles(j, c) PROVE FALSE
      <4>1. WorksOn(j, c) /\ lane[j].lease.leaseToken = t
        BY <3>3, <3>5 DEF Settles, WorksOn, Owned, Active, Renewing, Executing
      <4>2. j = i
        BY <2>2, <4>1 DEF OwnInv, ExclusiveExecution
      <4> QED
        BY <3>5, <4>2 DEF Settles, WorksOn, Works
    <3>6. lease'[SessionOf[c]].leaseToken = command[c].claimedLeaseToken
      BY <2>0, <3>3
    <3>7. /\ command'[c].status = command[c].status
          /\ command'[c].claimedLeaseToken = command[c].claimedLeaseToken
      BY <3>3, <3>4, <3>5, <3>6, CommandTurns DEF CommandTurn
    <3> QED
      BY <2>0, <3>3, <3>7 DEF Owned
  <2> QED
    BY <2>0, <2>1, <2>2
<1>3. ExclusiveExecution'
  <2> SUFFICES ASSUME NEW i \in Lanes, NEW j \in Lanes, NEW c \in Commands, i # j,
                      WorksOn(i, c)', WorksOn(j, c)',
                      lane'[i].lease.leaseToken = lane'[j].lease.leaseToken
               PROVE  FALSE
    BY DEF ExclusiveExecution
  <2>1. lane[i].lease.leaseToken = lane[j].lease.leaseToken
    BY WorkCameBefore
  <2>2. CASE WorksOn(i, c) /\ WorksOn(j, c)
    BY <2>1, <2>2 DEF OwnInv, ExclusiveExecution
  <2>3. CASE ~WorksOn(i, c)
    <3>1. TakesUp(i, c) /\ lane'[j] = lane[j]
      BY <2>3, WorkCameBefore
    <3>2. WorksOn(j, c)
      BY <3>1 DEF WorksOn
    <3> QED
      BY <1>1, <2>1, <3>1, <3>2
  <2>4. CASE ~WorksOn(j, c)
    <3>1. TakesUp(j, c) /\ lane'[i] = lane[i]
      BY <2>4, WorkCameBefore
    <3>2. WorksOn(i, c)
      BY <3>1 DEF WorksOn
    <3> QED
      BY <1>1, <2>1, <3>1, <3>2
  <2> QED
    BY <2>2, <2>3, <2>4
<1> QED
  BY <1>2, <1>3 DEF OwnInv

LEMMA SpecOwnInv == WorkerSpec => []OwnInv
<1>1. WorkerInit => OwnInv
  <2> SUFFICES ASSUME WorkerInit PROVE OwnInv
    OBVIOUS
  <2>1. \A i \in Lanes, c \in Commands : ~WorksOn(i, c)
    BY IdleTyped DEF WorkerInit, WorksOn, Active, Renewing, Executing
  <2> QED
    BY <2>1 DEF OwnInv, LaneOwnsItsCommand, ExclusiveExecution
<1> QED
  BY <1>1, NextOwnInv, SpecCopyInv, PTL DEF WorkerSpec

\* As long as the lease of an activation is the session's row, its command is
\* running and claimed with that lease.
THEOREM LanesOwnTheirCommands == WorkerSpec => []LaneOwnsItsCommand
<1>1. OwnInv => LaneOwnsItsCommand
  BY DEF OwnInv
<1> QED
  BY <1>1, SpecOwnInv, PTL

\* No two activations that share a lease work on the same command.
THEOREM ExecutionIsExclusive == WorkerSpec => []ExclusiveExecution
<1>1. OwnInv => ExclusiveExecution
  BY DEF OwnInv
<1> QED
  BY <1>1, SpecOwnInv, PTL

-----------------------------------------------------------------------------
(* What an activation has done is in its runtime's files, then in a manifest, *)
(* and only then acked.                                                       *)

LEMMA WaitingSaves ==
  ASSUME CopyInv, [WorkerNext]_vars, NEW i \in Lanes, LaneSaves(i), LaneWaits(i)
  PROVE  LaneSaves(i)'
<1> USE DEF Active, Renewing, Executing
<1> DEFINE w == WorkerOf[i]
           s == lane[i].session
<1>1. w \in Workers /\ (lane[i].pc # "idle" => s \in Sessions)
  BY LanePresents
<1>2. FilesGrow
  BY FilesStep
<1>3. lane[i].pc \in {"run", "save", "put", "ack", "retry"} =>
        s \in warm'[w] /\ workspace[w][s] \subseteq workspace'[w][s]
  <2> SUFFICES ASSUME lane[i].pc \in {"run", "save", "put", "ack", "retry"}
               PROVE  s \in warm'[w] /\ workspace[w][s] \subseteq workspace'[w][s]
    OBVIOUS
  <2>1. s \in warm[w] /\ Busy(w, s)
    BY DEF LaneSaves, Busy, ActiveLanes
  <2>2. lane'[i] # Idle
    BY IdleTyped DEF LaneWaits
  <2> QED
    BY <1>1, <1>2, <2>1, <2>2 DEF FilesGrow
<1>4. lane[i].pc = "ack" => archive[s] \subseteq archive'[s]
  BY <1>1, <1>2 DEF FilesGrow
<1> QED
  BY <1>3, <1>4 DEF LaneSaves, LaneWaits

LEMMA WorkingSaves ==
  ASSUME CopyInv, NEW i \in Lanes, LaneSaves(i), NEW d \in Clock, WorkStep(i, d)
  PROVE  LaneSaves(i)'
<1> USE DEF PCs, CommandPC
<1> DEFINE w == WorkerOf[i]
           s == lane[i].session
           c == lane[i].command
<1>0. /\ w \in Workers /\ LanesKnown /\ FilesTyped
      /\ lane[i].pc # "idle" => s \in Sessions
      /\ lane[i].pc \in Works => c \in Commands
  BY LanePresents DEF CopyInv
<1>1. CASE LaneNext(i, d) \/ LaneReserve(i) \/ LaneError(i, d)
  <2>1. lane'[i].pc \in {"reserve", "exec", "failing"}
    BY <1>0, <1>1 DEF LaneNext, LaneReserve, LaneError, Goto, LanesKnown, LaneRows
  <2> QED
    BY <2>1 DEF LaneSaves
<1>2. CASE LaneProvision(i)
  <2>1. At(i, "run", s, lane[i].lease, c, lane[i].snapshot)
    BY <1>0, <1>2, WritesPC DEF LaneProvision
  <2>2. s \in warm'[w]
    BY <1>0, <1>2 DEF LaneProvision, FilesTyped
  <2> QED
    BY <2>1, <2>2 DEF At, LaneSaves
<1>3. CASE LaneExecuted(i)
  <2>1. At(i, "save", s, lane[i].lease, c, lane[i].snapshot)
    BY <1>0, <1>3, WritesPC DEF LaneExecuted
  <2>2. c \in workspace'[w][s] /\ s \in warm'[w]
    BY <1>0, <1>3 DEF LaneExecuted, FilesTyped, LaneSaves
  <2> QED
    BY <2>1, <2>2 DEF At, LaneSaves
<1>4. CASE LaneCollect(i)
  <2>1. /\ lane[i].pc = "save" /\ UNCHANGED fileVars
        /\ lane' = [lane EXCEPT ![i].pc = "put", ![i].snapshot = workspace[w][s]]
    BY <1>4 DEF LaneCollect, Collect
  <2>2. workspace[w][s] \in SUBSET Commands
    BY <1>0, <2>1 DEF FilesTyped
  <2>3. At(i, "put", s, lane[i].lease, c, workspace[w][s])
    BY <1>0, <2>1, <2>2, WritesSnapshot
  <2> QED
    BY <2>1, <2>3 DEF At, LaneSaves, fileVars
<1>5. CASE LanePut(i)
  <2>1. lane[i].pc = "put" /\ lane' = [lane EXCEPT ![i].pc = "ack", ![i].snapshot = {}]
    BY <1>5 DEF LanePut
  <2>2. At(i, "ack", s, lane[i].lease, c, {})
    BY <1>0, <2>1, WritesSnapshot
  <2>3. c \in archive'[s] /\ warm' = warm /\ workspace' = workspace
    BY <1>0, <1>5, <2>1 DEF LanePut, PutCheckpoint, FilesTyped, LaneSaves
  <2> QED
    BY <2>1, <2>2, <2>3 DEF At, LaneSaves
<1>6. CASE LaneAckStaleVersion(i, d) \/ LaneRetry(i, d)
  <2>1. lane[i].pc \in {"ack", "retry"} /\ lane'[i].pc \in {"retry", "save"} /\ UNCHANGED fileVars
    BY <1>0, <1>6 DEF LaneAckStaleVersion, LaneRetry, LanesKnown, LaneRows
  <2>2. lane'[i].session = s /\ lane'[i].command = c
    BY <1>6, <2>1, WorkStepKeeps DEF LaneNext
  <2> QED
    BY <2>1, <2>2 DEF LaneSaves, fileVars
<1> QED
  BY <1>1, <1>2, <1>3, <1>4, <1>5, <1>6 DEF WorkStep

LEMMA NextManifestInv == CopyInv /\ ManifestInv /\ [WorkerNext]_vars => ManifestInv'
<1> SUFFICES ASSUME CopyInv, ManifestInv, [WorkerNext]_vars PROVE ManifestInv'
  OBVIOUS
<1>1. ASSUME NEW i \in Lanes PROVE LaneSaves(i)'
  <2>1. LaneSaves(i)
    BY DEF ManifestInv
  <2>2. CASE lane'[i].pc \notin Works
    BY <2>2 DEF LaneSaves, Works, Active, Renewing, Executing
  <2> QED
    BY <2>1, <2>2, LaneTurns, WaitingSaves, WorkingSaves DEF LaneTurn
<1>2. ASSUME NEW c \in Commands, command'[c].status = "acked"
      PROVE  c \in archive'[SessionOf[c]]
  <2>1. c \in archive[SessionOf[c]]
    <3>1. CASE command[c].status = "acked"
      BY <3>1 DEF ManifestInv, AckedHasManifest
    <3>2. ASSUME NEW i \in Lanes, lane[i].pc = "ack", lane[i].command = c
          PROVE  c \in archive[SessionOf[c]]
      <4>1. SessionOf[c] = lane[i].session
        BY <3>2, LanePresents DEF Works, Active
      <4> QED
        BY <3>2, <4>1 DEF ManifestInv, LaneSaves
    <3> QED
      BY <1>2, <3>1, <3>2, CommandTurns
         DEF CommandTurn, Settles, Acks, LaneAck, LaneAckLost
  <2>2. SessionOf[c] \in Sessions
    BY StoreConstants
  <2> QED
    BY <2>1, <2>2, FilesStep DEF FilesGrow
<1> QED
  BY <1>1, <1>2 DEF ManifestInv, AckedHasManifest

LEMMA SpecManifestInv == WorkerSpec => []ManifestInv
<1>1. WorkerInit => ManifestInv
  <2> SUFFICES ASSUME WorkerInit PROVE ManifestInv
    OBVIOUS
  <2>1. \A i \in Lanes : lane[i].pc = "idle"
    BY IdleTyped DEF WorkerInit
  <2>2. \A c \in Commands : command[c].status = "absent"
    BY DEF WorkerInit, Init, NoCommand
  <2> QED
    BY <2>1, <2>2 DEF ManifestInv, AckedHasManifest, LaneSaves
<1> QED
  BY <1>1, NextManifestInv, SpecCopyInv, PTL DEF WorkerSpec

\* A command is in a manifest of the object store before it is acked, and stays
\* there: across crashes, stale workers, retries and concurrent checkpoints.
THEOREM AckedIsSaved == WorkerSpec => []AckedHasManifest
<1>1. ManifestInv => AckedHasManifest
  BY DEF ManifestInv
<1> QED
  BY <1>1, SpecManifestInv, PTL

-----------------------------------------------------------------------------
(* The latest checkpoint contains all that was acked, as long as nothing lags *)
(* behind an ack: the files of its session are read, and written, by nobody   *)
(* who has not seen the command.                                              *)

NoneAcked == \A c \in Commands : command'[c].status = "acked" => command[c].status = "acked"

LEMMA AckSteps ==
  ASSUME CopyInv, [WorkerNext]_vars
  PROVE  NoneAcked \/ \E i \in Lanes : Acks(i)
  BY CommandTurns DEF CommandTurn, NoneAcked

\* The lane does nothing that needs a new look at the files.
LaneCalm(i) ==
  \/ LaneWaits(i)
  \/ lane'[i].pc \notin EventPC \cup {"put", "ack"}
  \/ /\ lane[i].pc \in EventPC
     /\ lane'[i].pc \in EventPC \ {"evPut"}
     /\ lane'[i].session = lane[i].session

LEMMA CoversStays ==
  ASSUME NoneAcked, NEW S, NEW s, Covers(S, s)
  PROVE  CoversNext(S, s)
  BY DEF NoneAcked, Covers, CoversNext

LEMMA CalmLanesCover ==
  ASSUME CoverInv, NoneAcked, NEW i \in Lanes, LaneCalm(i),
         workspace' = workspace, latest' = latest
  PROVE  LaneCovers(i)'
<1> DEFINE s == lane[i].session
           files == workspace[WorkerOf[i]][s]
<1>1. LaneCovers(i)
  BY DEF CoverInv
<1>2. /\ lane[i].pc \in EventPC => CoversNext(files, s)
      /\ lane[i].pc \in {"put", "evPut"} => CoversNext(lane[i].snapshot, s)
  BY <1>1, CoversStays DEF LaneCovers
<1>3. CASE LaneWaits(i)
  BY <1>1, <1>2, <1>3 DEF LaneCovers, LaneWaits, Covers, CoversNext
<1>4. CASE lane'[i].pc \notin EventPC \cup {"put", "ack"}
  BY <1>4 DEF LaneCovers, EventPC
<1>5. CASE /\ lane[i].pc \in EventPC
           /\ lane'[i].pc \in EventPC \ {"evPut"}
           /\ lane'[i].session = lane[i].session
  BY <1>1, <1>2, <1>5 DEF LaneCovers, EventPC, Covers, CoversNext
<1> QED
  BY <1>3, <1>4, <1>5 DEF LaneCalm

LEMMA WarmStaysCovered ==
  ASSUME CoverInv, NoneAcked, NEW i \in Lanes, workspace' = workspace,
         warm'[WorkerOf[i]] \subseteq warm[WorkerOf[i]]
  PROVE  WarmCovers(i)'
<1>1. \A s \in warm[WorkerOf[i]] : CoversNext(workspace[WorkerOf[i]][s], s)
  BY CoversStays DEF CoverInv, WarmCovers
<1> QED
  BY <1>1 DEF WarmCovers, Covers, CoversNext

LEMMA CalmStepCovers ==
  ASSUME CoverInv, NoneAcked, \A i \in Lanes : LaneCalm(i),
         workspace' = workspace, latest' = latest,
         \A i \in Lanes : warm'[WorkerOf[i]] \subseteq warm[WorkerOf[i]]
  PROVE  CoverInv'
<1>1. CheckpointCoversAcked'
  BY DEF CoverInv, CheckpointCoversAcked, NoneAcked
<1> QED
  BY <1>1, CalmLanesCover, WarmStaysCovered DEF CoverInv

LEMMA OthersWait ==
  ASSUME CopyInv, NEW i \in Lanes, NEW d \in Clock, CommandStep(i, d) \/ EventStep(i, d),
         NEW j \in Lanes, j # i
  PROVE  lane'[j] = lane[j]
<1>0. lane \in [Lanes -> LaneRows]
  BY DEF CopyInv, LanesKnown
<1>1. CASE Stop(i)
  BY <1>0, <1>1 DEF Stop
<1>2. CASE \/ LaneRenew(i, d) \/ LaneRenewFails(i) \/ LaneClaim(i, d) \/ LaneNext(i, d)
           \/ LaneReserve(i) \/ LaneProvision(i) \/ LaneExecuted(i) \/ LaneError(i, d)
  BY <1>0, <1>2 DEF LaneRenew, LaneRenewFails, LaneClaim, LaneNext, LaneReserve, LaneProvision,
                    LaneExecuted, LaneError, Goto
<1>3. CASE \/ LaneCollect(i) \/ LanePut(i) \/ (LaneAck(i, d) /\ ~Stop(i))
           \/ LaneAckStaleVersion(i, d) \/ LaneRetry(i, d)
  BY <1>0, <1>3 DEF LaneCollect, Collect, LanePut, LaneAck, LaneAckStaleVersion, LaneRetry
<1>4. CASE \/ (EventRenew(i, d) /\ ~Stop(i)) \/ EventAppend(i, d) \/ EventCheckpoint(i, d)
           \/ EventCheckpointStaleVersion(i, d) \/ EventCollect(i)
  BY <1>0, <1>4 DEF EventRenew, EventAppend, EventCheckpoint, EventCheckpointStaleVersion,
                    EventCollect, Collect, Goto
<1> QED
  BY <1>1, <1>2, <1>3, <1>4
     DEF CommandStep, EventStep, LaneClaimDenied, LaneNextNone, LaneReserveDenied, LaneDefer,
         LaneAborted, LaneFail, LaneAckLost, LaneThrows, EventPut, EventStale

\* What a step of another lane leaves of the files of a session.
FilesStay == \A w \in Workers, s \in Sessions :
               Covers(workspace[w][s], s) => CoversNext(workspace'[w][s], s)

LEMMA OthersCover ==
  ASSUME CopyInv, CoverInv, NoneAcked, FilesStay, NEW j \in Lanes, lane'[j] = lane[j],
         lane[j].pc = "ack" => /\ latest'[lane[j].session] # NoCheckpoint
                               /\ lane[j].command \in latest'[lane[j].session]
  PROVE  LaneCovers(j)'
<1> DEFINE s == lane[j].session
           v == WorkerOf[j]
<1>1. LaneCovers(j) /\ v \in Workers /\ (lane[j].pc # "idle" => s \in Sessions)
  BY LanePresents DEF CoverInv
<1>2. lane[j].pc \in EventPC => CoversNext(workspace'[v][s], s)
  BY <1>1 DEF LaneCovers, FilesStay, EventPC
<1>3. lane[j].pc \in {"put", "evPut"} => CoversNext(lane[j].snapshot, s)
  BY <1>1, CoversStays DEF LaneCovers
<1> QED
  BY <1>1, <1>2, <1>3 DEF LaneCovers, Covers, CoversNext

LEMMA AckCovers ==
  ASSUME CopyInv, ManifestInv, CoverInv, NothingLags, NEW i \in Lanes, Acks(i)
  PROVE  CoverInv'
<1> DEFINE s == lane[i].session
           c == lane[i].command
           w == WorkerOf[i]
<1>1. /\ lane[i].pc = "ack" /\ UNCHANGED fileVars
      /\ command' = [command EXCEPT ![c].status = "acked"]
  BY DEF Acks, LaneAck, LaneAckLost, CheckpointAndAckSessionCommand
<1>2. c \in Commands /\ SessionOf[c] = s
  BY <1>1, LanePresents DEF Works, Active
<1>3. \A e \in Commands : command'[e].status = "acked" => e = c \/ command[e].status = "acked"
  BY <1>1 DEF CopyInv, IInv, TypeOK
<1>4. lane'[i].pc \in {"next", "idle"} /\ \A j \in Lanes : j # i => lane'[j] = lane[j]
  <2>1. CASE Stop(i)
    BY <2>1, WritesIdle, IdleTyped DEF CopyInv, At
  <2>2. CASE ~Stop(i)
    <3> DEFINE row == Activation("next", s, Advanced(lane[i].lease))
    <3>1. lane' = [lane EXCEPT ![i] = row] /\ row.pc = "next"
      BY <2>2 DEF Acks, LaneAck, LaneAckLost, Activation
    <3> HIDE DEF row
    <3> QED
      BY <3>1 DEF CopyInv, LanesKnown
  <2> QED
    BY <2>1, <2>2
<1>5. latest[s] # NoCheckpoint /\ c \in latest[s] /\ c \in workspace[w][s]
  BY <1>1 DEF CoverInv, LaneCovers, ManifestInv, LaneSaves
<1>6. CheckpointCoversAcked'
  BY <1>1, <1>2, <1>3, <1>5 DEF CheckpointCoversAcked, CoverInv, fileVars
<1>7. ASSUME NEW S, NEW t, Covers(S, t), t = s => c \in S
      PROVE  CoversNext(S, t)
  BY <1>2, <1>3, <1>7 DEF Covers, CoversNext
<1>8. ASSUME NEW j \in Lanes PROVE WarmCovers(j)'
  <2> DEFINE v == WorkerOf[j]
  <2>1. ASSUME NEW t \in warm[v] PROVE CoversNext(workspace[v][t], t)
    <3>1. Covers(workspace[v][t], t)
      BY DEF CoverInv, WarmCovers
    <3>2. t = s => v = w
      BY <1>1, WorkerConstants DEF NothingLags
    <3> QED
      BY <1>5, <1>7, <3>1, <3>2
  <2> QED
    BY <1>1, <2>1 DEF WarmCovers, Covers, CoversNext, fileVars
<1>9. ASSUME NEW j \in Lanes PROVE LaneCovers(j)'
  <2> DEFINE v == WorkerOf[j]
             t == lane[j].session
  <2>1. CASE j = i
    BY <1>4, <2>1 DEF LaneCovers, EventPC
  <2>2. CASE j # i
    <3>1. LaneCovers(j) /\ lane'[j] = lane[j]
      BY <1>4, <2>2 DEF CoverInv
    <3>2. lane[j].pc \in EventPC => CoversNext(workspace[v][t], t)
      <4>1. lane[j].pc \in EventPC /\ t = s => v = w
        BY <1>1 DEF NothingLags
      <4> QED
        BY <1>5, <1>7, <3>1, <4>1 DEF LaneCovers
    <3>3. lane[j].pc \in {"put", "evPut"} => CoversNext(lane[j].snapshot, t)
      <4>1. lane[j].pc \in {"put", "evPut"} /\ t = s => c \in lane[j].snapshot
        BY <1>1 DEF NothingLags
      <4> QED
        BY <1>7, <3>1, <4>1 DEF LaneCovers
    <3> QED
      BY <1>1, <3>1, <3>2, <3>3 DEF LaneCovers, Covers, CoversNext, fileVars
  <2> QED
    BY <2>1, <2>2
<1> QED
  BY <1>6, <1>8, <1>9 DEF CoverInv

LEMMA ProvisionCovers ==
  ASSUME CopyInv, CoverInv, NoneAcked, NEW i \in Lanes, LaneProvision(i)
  PROVE  CoverInv'
<1> DEFINE s == lane[i].session
           w == WorkerOf[i]
<1>1. /\ w \in Workers /\ s \in Sessions /\ LanesKnown /\ FilesTyped
      /\ latest' = latest /\ warm' = [warm EXCEPT ![w] = @ \cup {s}]
      /\ workspace' = IF s \in warm[w] \/ latest[s] = NoCheckpoint THEN workspace
                      ELSE [workspace EXCEPT ![w][s] = latest[s]]
  BY LanePresents DEF LaneProvision, CopyInv
<1>2. CheckpointCoversAcked'
  BY <1>1 DEF CoverInv, CheckpointCoversAcked, NoneAcked
<1>3. At(i, "run", s, lane[i].lease, lane[i].command, lane[i].snapshot)
  BY <1>1, WritesPC DEF LaneProvision, PCs, CommandPC
<1>4. latest[s] # NoCheckpoint => CoversNext(latest[s], s)
  BY CoversStays DEF CoverInv, CheckpointCoversAcked, Covers
<1>5. ASSUME NEW v \in Workers, NEW t \in Sessions
      PROVE  \/ workspace'[v][t] = workspace[v][t]
             \/ t = s /\ latest[s] # NoCheckpoint /\ workspace'[v][t] = latest[s]
  <2>1. CASE workspace' = workspace
    BY <2>1
  <2>2. CASE workspace' = [workspace EXCEPT ![w][s] = latest[s]] /\ latest[s] # NoCheckpoint
    BY <1>1, <2>2 DEF FilesTyped
  <2> QED
    BY <1>1, <2>1, <2>2
<1>6. FilesStay
  <2> SUFFICES ASSUME NEW v \in Workers, NEW t \in Sessions, Covers(workspace[v][t], t)
               PROVE  CoversNext(workspace'[v][t], t)
    BY DEF FilesStay
  <2>1. CoversNext(workspace[v][t], t)
    BY CoversStays
  <2> QED
    BY <1>4, <1>5, <2>1
<1>7. CoversNext(workspace'[w][s], s)
  <2>1. CASE s \in warm[w]
    BY <1>1, <1>6, <2>1 DEF CoverInv, WarmCovers, FilesStay
  <2>2. CASE s \notin warm[w] /\ latest[s] = NoCheckpoint
    <3>1. Covers(workspace[w][s], s)
      BY <2>2 DEF CoverInv, CheckpointCoversAcked, Covers
    <3> QED
      BY <1>1, <1>6, <3>1 DEF FilesStay
  <2>3. CASE s \notin warm[w] /\ latest[s] # NoCheckpoint
    BY <1>1, <1>4, <2>3 DEF FilesTyped
  <2> QED
    BY <2>1, <2>2, <2>3
<1>8. ASSUME NEW j \in Lanes PROVE WarmCovers(j)'
  <2> DEFINE v == WorkerOf[j]
  <2>1. ASSUME NEW t \in warm'[v] PROVE CoversNext(workspace'[v][t], t)
    <3>1. v \in Workers /\ t \in Sessions /\ (t \in warm[v] \/ (v = w /\ t = s))
      BY <1>1, WorkerConstants DEF FilesTyped
    <3>2. t \in warm[v] => Covers(workspace[v][t], t)
      BY DEF CoverInv, WarmCovers
    <3> QED
      BY <1>6, <1>7, <3>1, <3>2 DEF FilesStay
  <2> QED
    BY <2>1 DEF WarmCovers, Covers, CoversNext
<1>9. ASSUME NEW j \in Lanes PROVE LaneCovers(j)'
  <2>1. CASE j = i
    BY <1>3, <2>1 DEF At, LaneCovers, EventPC
  <2>2. CASE j # i
    <3>1. lane'[j] = lane[j] /\ LaneCovers(j)
      BY <1>3, <2>2 DEF At, CoverInv
    <3> QED
      BY <1>1, <1>6, <3>1, OthersCover DEF LaneCovers
  <2> QED
    BY <2>1, <2>2
<1> QED
  BY <1>2, <1>8, <1>9 DEF CoverInv

LEMMA ExecutedCovers ==
  ASSUME CopyInv, CoverInv, NoneAcked, NEW i \in Lanes, LaneExecuted(i)
  PROVE  CoverInv'
<1> DEFINE s == lane[i].session
           w == WorkerOf[i]
<1>1. /\ w \in Workers /\ s \in Sessions /\ LanesKnown /\ FilesTyped
      /\ latest' = latest /\ warm' = warm
      /\ workspace' = [workspace EXCEPT ![w][s] = @ \cup {lane[i].command}]
  BY LanePresents DEF LaneExecuted, CopyInv
<1>2. CheckpointCoversAcked'
  BY <1>1 DEF CoverInv, CheckpointCoversAcked, NoneAcked
<1>3. At(i, "save", s, lane[i].lease, lane[i].command, lane[i].snapshot)
  BY <1>1, WritesPC DEF LaneExecuted, PCs, CommandPC
<1>4. \A v \in Workers, t \in Sessions : workspace[v][t] \subseteq workspace'[v][t]
  BY <1>1 DEF FilesTyped
<1>5. FilesStay
  BY <1>4, CoversStays DEF FilesStay, CoversNext
<1>6. ASSUME NEW j \in Lanes PROVE WarmCovers(j)'
  <2> DEFINE v == WorkerOf[j]
  <2>1. ASSUME NEW t \in warm[v] PROVE CoversNext(workspace'[v][t], t)
    <3>1. v \in Workers /\ t \in Sessions /\ Covers(workspace[v][t], t)
      BY <1>1, WorkerConstants DEF FilesTyped, CoverInv, WarmCovers
    <3> QED
      BY <1>5, <3>1 DEF FilesStay
  <2> QED
    BY <1>1, <2>1 DEF WarmCovers, Covers, CoversNext
<1>7. ASSUME NEW j \in Lanes PROVE LaneCovers(j)'
  <2>1. CASE j = i
    BY <1>3, <2>1 DEF At, LaneCovers, EventPC
  <2>2. CASE j # i
    <3>1. lane'[j] = lane[j] /\ LaneCovers(j)
      BY <1>3, <2>2 DEF At, CoverInv
    <3> QED
      BY <1>1, <1>5, <3>1, OthersCover DEF LaneCovers
  <2> QED
    BY <2>1, <2>2
<1> QED
  BY <1>2, <1>6, <1>7 DEF CoverInv

\* A save reads the files of a runtime, or of one that was closed meanwhile.
LEMMA CollectCovers ==
  ASSUME CopyInv, ManifestInv, CoverInv, NoneAcked, NEW i \in Lanes,
         LaneCollect(i) \/ EventCollect(i)
  PROVE  CoverInv'
<1> DEFINE s == lane[i].session
           w == WorkerOf[i]
           files == workspace[w][s]
<1>1. /\ UNCHANGED fileVars /\ lane[i].pc \in {"save", "evSave"}
      /\ \E p \in {"put", "evPut"} : lane' = [lane EXCEPT ![i].pc = p, ![i].snapshot = files]
  BY DEF LaneCollect, EventCollect, Collect
<1>2. w \in Workers /\ s \in Sessions /\ LanesKnown /\ files \in SUBSET Commands
  BY <1>1, LanePresents DEF CopyInv, FilesTyped
<1>3. PICK p \in {"put", "evPut"} : At(i, p, s, lane[i].lease, lane[i].command, files)
  BY <1>1, <1>2, WritesSnapshot DEF PCs, CommandPC, EventPC
<1>4. Covers(files, s)
  BY <1>1 DEF CoverInv, LaneCovers, WarmCovers, ManifestInv, LaneSaves, EventPC
<1>5. CoversNext(files, s)
  BY <1>4, CoversStays
<1>6. ASSUME NEW j \in Lanes PROVE LaneCovers(j)'
  <2>1. CASE j = i
    BY <1>1, <1>3, <1>5, <2>1 DEF LaneCovers, At, Covers, CoversNext, fileVars
  <2>2. CASE j # i
    <3>1. LaneCalm(j)
      BY <1>3, <2>2 DEF At, LaneCalm, LaneWaits
    <3> QED
      BY <1>1, <3>1, CalmLanesCover DEF fileVars
  <2> QED
    BY <2>1, <2>2
<1>7. CheckpointCoversAcked' /\ \A j \in Lanes : WarmCovers(j)'
  BY <1>1, WarmStaysCovered DEF CoverInv, CheckpointCoversAcked, NoneAcked, fileVars
<1> QED
  BY <1>6, <1>7 DEF CoverInv

LEMMA PutCovers ==
  ASSUME CopyInv, ManifestInv, CoverInv, NothingLags, NoneAcked, NEW i \in Lanes,
         LanePut(i) \/ EventPut(i)
  PROVE  CoverInv'
<1> DEFINE s == lane[i].session
           files == lane[i].snapshot
<1>1. /\ lane[i].pc \in {"put", "evPut"} /\ warm' = warm /\ workspace' = workspace
      /\ latest' = [latest EXCEPT ![s] = files]
  BY DEF LanePut, EventPut, PutCheckpoint
<1>2. s \in Sessions /\ FilesTyped /\ LanesKnown /\ files \in SUBSET Commands
  BY <1>1, LanePresents DEF CopyInv, LaneRows
<1>3. /\ latest'[s] = files /\ \A t \in Sessions : t # s => latest'[t] = latest[t]
  BY <1>1, <1>2 DEF FilesTyped
<1>4. CoversNext(files, s)
  BY <1>1, CoversStays DEF CoverInv, LaneCovers
<1>5. files # NoCheckpoint
  BY <1>2, WorkerConstants
<1>6. CheckpointCoversAcked'
  BY <1>3, <1>4, <1>5, StoreConstants DEF CoverInv, CheckpointCoversAcked, NoneAcked, CoversNext
<1>7. LaneCovers(i)' /\ \A j \in Lanes : j # i => lane'[j] = lane[j]
  <2>1. CASE LanePut(i)
    <3>1. At(i, "ack", s, lane[i].lease, lane[i].command, {})
      BY <1>2, <2>1, WritesSnapshot DEF LanePut, PCs, CommandPC
    <3>2. lane[i].command \in files
      BY <2>1 DEF LanePut, ManifestInv, LaneSaves
    <3> QED
      BY <1>3, <1>5, <3>1, <3>2 DEF At, LaneCovers, EventPC
  <2>2. CASE EventPut(i)
    BY <1>2, <2>2, WritesIdle, IdleTyped DEF EventPut, LaneCovers, EventPC, At
  <2> QED
    BY <2>1, <2>2
<1>8. \A j \in Lanes : WarmCovers(j)'
  BY <1>1, WarmStaysCovered
<1>9. FilesStay
  BY <1>1, CoversStays DEF FilesStay
<1>10. ASSUME NEW j \in Lanes, j # i PROVE LaneCovers(j)'
  <2>1. lane'[j] = lane[j] /\ LaneCovers(j) /\ (lane[j].pc # "idle" => lane[j].session \in Sessions)
    BY <1>7, <1>10, LanePresents DEF CoverInv
  <2>2. lane[j].pc = "ack" /\ lane[j].session = s => lane[j].command \in files
    BY <1>1 DEF NothingLags
  <2> QED
    BY <1>3, <1>5, <1>9, <2>1, <2>2, OthersCover DEF LaneCovers
<1> QED
  BY <1>6, <1>7, <1>8, <1>10 DEF CoverInv

\* The runtime's files contain what was acked when its event arrives.
LEMMA StartEventCovers ==
  ASSUME CopyInv, CoverInv, NoneAcked, NEW i \in Lanes, NEW s \in Sessions, StartEvent(i, s)
  PROVE  CoverInv'
<1> DEFINE w == WorkerOf[i]
<1>1. /\ UNCHANGED fileVars /\ s \in warm[w]
      /\ lane' = [lane EXCEPT ![i] = Activation("evRenew", s, leases[w][s])]
  BY DEF StartEvent
<1>2. w \in Workers /\ LanesKnown /\ leases[w][s] \in LeaseCopyRows
  BY LanePresents DEF CopyInv, CachesKnown
<1>3. At(i, "evRenew", s, leases[w][s], Nil, {})
  BY <1>1, <1>2, WritesStart DEF PCs, EventPC
<1>4. CoversNext(workspace[w][s], s)
  BY <1>1, CoversStays DEF CoverInv, WarmCovers
<1>5. ASSUME NEW j \in Lanes PROVE LaneCovers(j)'
  <2>1. CASE j = i
    BY <1>1, <1>3, <1>4, <2>1 DEF At, LaneCovers, Covers, CoversNext, fileVars
  <2>2. CASE j # i
    <3>1. LaneCalm(j)
      BY <1>3, <2>2 DEF At, LaneCalm, LaneWaits
    <3> QED
      BY <1>1, <3>1, CalmLanesCover DEF fileVars
  <2> QED
    BY <2>1, <2>2
<1>6. CheckpointCoversAcked' /\ \A j \in Lanes : WarmCovers(j)'
  BY <1>1, WarmStaysCovered DEF CoverInv, CheckpointCoversAcked, NoneAcked, fileVars
<1> QED
  BY <1>5, <1>6 DEF CoverInv

LEMMA CommandStepCovers ==
  ASSUME CopyInv, ManifestInv, CoverInv, NothingLags, NoneAcked,
         NEW i \in Lanes, NEW d \in Clock, CommandStep(i, d), ~Acks(i)
  PROVE  CoverInv'
<1>0. LanesKnown /\ lane \in [Lanes -> LaneRows] /\ lane[i] \in LaneRows
  BY DEF CopyInv, LanesKnown
<1>1. ASSUME UNCHANGED fileVars, lane'[i].pc \notin EventPC \cup {"put", "ack"}
      PROVE  CoverInv'
  <2>1. \A j \in Lanes : LaneCalm(j)
    BY <1>1, OthersWait DEF LaneCalm, LaneWaits
  <2> QED
    BY <1>1, <2>1, CalmStepCovers DEF fileVars
<1>2. CASE LaneProvision(i) \/ LaneExecuted(i) \/ LaneCollect(i) \/ LanePut(i)
  BY <1>2, ProvisionCovers, ExecutedCovers, CollectCovers, PutCovers
<1>3. CASE \/ LaneRenew(i, d) \/ LaneRenewFails(i) \/ LaneClaim(i, d) \/ LaneNext(i, d)
           \/ LaneReserve(i) \/ LaneError(i, d) \/ LaneAckStaleVersion(i, d) \/ LaneRetry(i, d)
  <2>1. lane'[i].pc \in {"next", "claim", "reserve", "exec", "failing", "retry", "save"}
    BY <1>0, <1>3 DEF LaneRenew, LaneRenewFails, LaneClaim, LaneNext, LaneReserve, LaneError,
                      Goto, LaneAckStaleVersion, LaneRetry, LaneRows
  <2>2. UNCHANGED fileVars
    BY <1>3 DEF LaneRenew, LaneRenewFails, LaneClaim, LaneNext, LaneReserve, LaneError,
                LaneAckStaleVersion, LaneRetry
  <2> QED
    BY <1>1, <2>1, <2>2 DEF EventPC
<1>4. CASE Stop(i) /\ UNCHANGED fileVars
  <2>1. lane'[i].pc = "idle"
    BY <1>0, <1>4, WritesIdle, IdleTyped
  <2> QED
    BY <1>1, <1>4, <2>1 DEF EventPC
<1> QED
  BY <1>2, <1>3, <1>4
     DEF CommandStep, Acks, LaneClaimDenied, LaneNextNone, LaneReserveDenied, LaneDefer,
         LaneAborted, LaneFail, LaneThrows

LEMMA EventStepCovers ==
  ASSUME CopyInv, ManifestInv, CoverInv, NothingLags, NoneAcked,
         NEW i \in Lanes, NEW d \in Clock, EventStep(i, d)
  PROVE  CoverInv'
<1>0. LanesKnown /\ lane \in [Lanes -> LaneRows] /\ lane[i] \in LaneRows
  BY DEF CopyInv, LanesKnown
<1>1. ASSUME UNCHANGED fileVars, LaneCalm(i)
      PROVE  CoverInv'
  <2>1. \A j \in Lanes : LaneCalm(j)
    BY <1>1, OthersWait DEF LaneCalm, LaneWaits
  <2> QED
    BY <1>1, <2>1, CalmStepCovers DEF fileVars
<1>2. CASE EventCollect(i) \/ EventPut(i)
  BY <1>2, CollectCovers, PutCovers
<1>3. CASE Stop(i) /\ UNCHANGED fileVars
  <2>1. lane'[i].pc = "idle"
    BY <1>0, <1>3, WritesIdle, IdleTyped
  <2> QED
    BY <1>1, <1>3, <2>1 DEF EventPC, LaneCalm
<1>4. CASE EventRenew(i, d) /\ ~Stop(i)
  <2>1. \E p \in {"evAppend", "evCheckpoint"}, l \in {LeaseCopy(lane[i].session)} :
          lane' = [lane EXCEPT ![i].lease = l, ![i].pc = p]
    BY <1>0, <1>4 DEF EventRenew
  <2>2. lane'[i].pc \in {"evAppend", "evCheckpoint"} /\ lane'[i].session = lane[i].session
    BY <1>0, <2>1 DEF LaneRows
  <2> QED
    BY <1>1, <1>4, <2>2 DEF EventRenew, EventPC, LaneCalm
<1>5. CASE EventAppend(i, d) \/ EventCheckpoint(i, d) \/ EventCheckpointStaleVersion(i, d)
  <2>1. /\ lane[i].pc \in EventPC /\ lane'[i].pc \in EventPC \ {"evPut"}
        /\ lane'[i].session = lane[i].session
    BY <1>0, <1>5 DEF EventAppend, EventCheckpoint, EventCheckpointStaleVersion, Goto, LaneRows, EventPC
  <2> QED
    BY <1>1, <1>5, <2>1 DEF LaneCalm, EventAppend, EventCheckpoint, EventCheckpointStaleVersion
<1> QED
  BY <1>2, <1>3, <1>4, <1>5 DEF EventStep, EventRenew, EventStale

LEMMA GoneCovers ==
  ASSUME CopyInv, CoverInv, NoneAcked, NEW w \in Workers, ProcessGone(w)
  PROVE  CoverInv'
<1>1. CheckpointCoversAcked'
  BY DEF ProcessGone, CoverInv, CheckpointCoversAcked, NoneAcked
<1>2. FilesTyped /\ workspace \in [Workers -> [Sessions -> SUBSET Commands]]
  BY DEF CopyInv, FilesTyped
<1>3. ASSUME NEW i \in Lanes, WorkerOf[i] = w PROVE WarmCovers(i)' /\ LaneCovers(i)'
  <2>1. warm'[w] = {} /\ lane'[i] = Idle
    BY <1>2, <1>3 DEF ProcessGone, FilesTyped
  <2> QED
    BY <1>3, <2>1, IdleTyped DEF WarmCovers, LaneCovers, EventPC
<1>4. ASSUME NEW i \in Lanes, WorkerOf[i] # w PROVE WarmCovers(i)' /\ LaneCovers(i)'
  <2> DEFINE v == WorkerOf[i]
  <2>0. v \in Workers
    BY WorkerConstants
  <2>1. warm'[v] = warm[v] /\ workspace'[v] = workspace[v] /\ lane'[i] = lane[i] /\ latest' = latest
    BY <1>2, <1>4, <2>0 DEF ProcessGone, FilesTyped
  <2>2. WarmCovers(i) /\ LaneCovers(i)
    BY DEF CoverInv
  <2>3. /\ \A s \in warm[v] : CoversNext(workspace[v][s], s)
        /\ lane[i].pc \in EventPC => CoversNext(workspace[v][lane[i].session], lane[i].session)
        /\ lane[i].pc \in {"put", "evPut"} => CoversNext(lane[i].snapshot, lane[i].session)
    BY <2>2, CoversStays DEF WarmCovers, LaneCovers
  <2>4. WarmCovers(i)'
    BY <2>1, <2>3 DEF WarmCovers, Covers, CoversNext
  <2>5. LaneCovers(i)'
    BY <2>1, <2>2, <2>3 DEF LaneCovers, Covers, CoversNext
  <2> QED
    BY <2>4, <2>5
<1> QED
  BY <1>1, <1>3, <1>4 DEF CoverInv

LEMMA NextCoverInv ==
  CopyInv /\ ManifestInv /\ CoverInv /\ NothingLags /\ [WorkerNext]_vars => CoverInv'
<1> SUFFICES ASSUME CopyInv, ManifestInv, CoverInv, NothingLags, [WorkerNext]_vars
             PROVE  CoverInv'
  OBVIOUS
<1>1. ASSUME NEW i \in Lanes, Acks(i) PROVE CoverInv'
  BY <1>1, AckCovers
<1>2. CASE NoneAcked /\ \A i \in Lanes : ~Acks(i)
  <2>1. CASE /\ \A i \in Lanes : LaneWaits(i)
             /\ latest' = latest /\ workspace' = workspace
             /\ \A i \in Lanes : warm'[WorkerOf[i]] \subseteq warm[WorkerOf[i]]
    BY <1>2, <2>1, CalmStepCovers DEF LaneCalm
  <2>2. CASE lane' = lane /\ UNCHANGED fileVars
    BY <2>1, <2>2 DEF LaneWaits, fileVars
  <2>3. ASSUME NEW i \in Lanes, NEW s \in Sessions, StartLane(i, s)
        PROVE  CoverInv'
    <3>1. PICK p \in {"renew", "claim"} :
            lane' = [lane EXCEPT ![i] = Activation(p, s, leases[WorkerOf[i]][s])]
      BY <2>3 DEF StartLane
    <3>2. lane'[i].pc = p /\ \A j \in Lanes : j # i => lane'[j] = lane[j]
      BY <3>1 DEF CopyInv, LanesKnown, Activation
    <3>3. \A j \in Lanes : LaneCalm(j)
      BY <3>2 DEF LaneCalm, LaneWaits, EventPC
    <3> QED
      BY <1>2, <2>3, <3>3, CalmStepCovers DEF StartLane, fileVars
  <2>4. ASSUME NEW i \in Lanes, NEW d \in Clock, TimerStep(i, d)
        PROVE  CoverInv'
    <3>1. UNCHANGED fileVars
      BY <2>4 DEF TimerStep, TimerRenew, TimerRenewFails, TimerApply
    <3> QED
      BY <2>1, <2>4, <3>1, TimerStepTurns DEF fileVars
  <2>5. ASSUME NEW w \in Workers, NEW d \in Clock, ShutdownStep(w, d)
        PROVE  CoverInv'
    <3>1. CASE Exit(w)
      BY <1>2, <3>1, GoneCovers DEF Exit
    <3>2. CASE AbortActive(w)
      <4>1. \A i \in Lanes : LaneWaits(i) \/ lane'[i] = Idle
        BY <2>5, ShutdownStepTurns
      <4>2. \A i \in Lanes : LaneCalm(i)
        BY <4>1, IdleTyped DEF LaneCalm, EventPC
      <4> QED
        BY <1>2, <3>2, <4>2, CalmStepCovers DEF AbortActive, fileVars
    <3> QED
      BY <2>2, <2>5, <3>1, <3>2
         DEF ShutdownStep, RecoverActive, RecoverActiveFails, BeginRelease, ReleaseCached, Restart
  <2>6. ASSUME NEW w \in Workers, NEW s \in Sessions, EvictRuntime(w, s)
        PROVE  CoverInv'
    <3>1. warm' = [warm EXCEPT ![w] = warm[w] \ {s}] /\ warm \in [Workers -> SUBSET Sessions]
      BY <2>6 DEF EvictRuntime, CopyInv, FilesTyped
    <3>2. \A i \in Lanes : warm'[WorkerOf[i]] \subseteq warm[WorkerOf[i]]
      BY <3>1, WorkerConstants
    <3> QED
      BY <2>1, <2>6, <3>2 DEF EvictRuntime, processVars, LaneWaits
  <2>7. CASE WorkerNext
    BY <1>2, <2>2, <2>3, <2>4, <2>5, <2>6, <2>7, StartEventCovers, CommandStepCovers,
       EventStepCovers, GoneCovers
       DEF WorkerNext, Environment, processVars, HttpLane, LoopLane, Reap, Crash, BeginShutdown
  <2> QED
    BY <2>2, <2>7 DEF vars, processVars
<1> QED
  BY <1>1, <1>2, AckSteps

\* The latest checkpoint of a session contains every command that was acked,
\* for any number of lanes and workers, whatever crashed, was aborted, deferred,
\* evicted or taken over, as long as no snapshot, runtime or event of the session
\* lagged behind a command whose ack was under way.
THEOREM LatestCoversAcked == WorkerSpec => SavesInOrderCover
<1>1. WorkerInit => CoverInv
  <2> SUFFICES ASSUME WorkerInit PROVE CoverInv
    OBVIOUS
  <2>1. \A i \in Lanes : lane[i].pc = "idle"
    BY IdleTyped DEF WorkerInit
  <2>2. \A c \in Commands : command[c].status = "absent"
    BY DEF WorkerInit, Init, NoCommand
  <2>3. \A w \in Workers : warm[w] = {}
    BY DEF WorkerInit
  <2> QED
    BY <2>1, <2>2, <2>3, WorkerConstants
    DEF CoverInv, CheckpointCoversAcked, WarmCovers, LaneCovers, Covers, EventPC
<1>2. CopyInv /\ ManifestInv /\ CoverInv /\ NothingLags /\ [WorkerNext]_vars => CoverInv'
  BY NextCoverInv
<1>3. CoverInv => CheckpointCoversAcked
  BY DEF CoverInv
<1> QED
  BY <1>1, <1>2, <1>3, SpecCopyInv, SpecManifestInv, PTL DEF WorkerSpec, SavesInOrderCover
=============================================================================

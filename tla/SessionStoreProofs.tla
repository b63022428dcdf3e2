-------------------------- MODULE SessionStoreProofs --------------------------
(* Theorems about SessionStore, for every number of sessions, workers and     *)
(* commands, every clock skew and every value of the bounds.                  *)
EXTENDS SessionStore, FiniteSetTheorems, TLAPS

\* The inductive invariant: OneAttemptPerLease needs to know that the row is
\* the newest lease and that a pending command carries no claim.
IInv == TypeOK /\ LeaseIsNewest /\ ClaimsAreAccounted /\ OneAttemptPerLease

\* The rows of SessionStore's Init and the deletions have the declared shape.
LEMMA RowsTyped ==
  /\ NoToken \in Tokens
  /\ NoLease \in LeaseRows
  /\ NoCommand \in CommandRows
  /\ NoLease.leaseToken = NoToken
<1>1. NoToken \in Tokens
  BY DEF NoToken, Token, Tokens
<1>2. Available \in Int
  BY StoreConstants DEF Available
<1> QED
  BY <1>1, <1>2 DEF NoLease, NoCommand, LeaseRows, CommandRows

LEMMA ClockTyped == ASSUME NEW d \in Clock PROVE d \in Int
  BY StoreConstants DEF Clock

LEMMA ElapseTyped == ASSUME NEW t \in Int PROVE Elapse(t) \in Int
  BY StoreConstants DEF Elapse

\* A lease copy is well formed and its token is never the absent row's.
LEMMA CopiesTyped ==
  ASSUME NEW l \in LeaseCopies
  PROVE  /\ l.session \in Sessions
         /\ l.leasedBy \in Workers
         /\ l.leaseToken \in Tokens
         /\ l.checkpointVersion \in Nat
         /\ l.leaseToken # NoToken
         /\ \E n \in Nat \ {0} : l.leaseToken = Token(n, l.leasedBy)
<1>1. PICK s \in Sessions, w \in Workers, n \in 1..MaxLeaseAttempts, v \in 0..MaxCheckpointVersion :
        l = [session |-> s, leasedBy |-> w, leaseToken |-> Token(n, w), checkpointVersion |-> v]
  BY DEF LeaseCopies
<1>2. n \in Nat \ {0} /\ v \in Nat
  BY StoreConstants
<1>3. Token(n, w) \in Tokens /\ Token(n, w) # NoToken
  BY <1>2 DEF Token, NoToken, Tokens
<1> QED
  BY <1>1, <1>2, <1>3

\* The session row that claimSessionLease writes.
LEMMA ClaimedSessionRow ==
  ASSUME NEW r \in SessionRows, NEW k \in Nat
  PROVE  LET new == [r EXCEPT !.nextLeaseAttempt = k, !.status = "running"]
         IN  new \in SessionRows /\ new.nextLeaseAttempt = k
  BY DEF SessionRows

LEMMA InitIInv == Init => IInv
<1> SUFFICES ASSUME Init PROVE IInv
  OBVIOUS
<1> USE StoreConstants DEF Init
<1>1. TypeOK
  BY RowsTyped DEF TypeOK, SessionRows
<1>2. LeaseIsNewest
  BY RowsTyped DEF LeaseIsNewest, Present
<1>3. ClaimsAreAccounted
  BY DEF ClaimsAreAccounted, NoCommand
<1>4. OneAttemptPerLease
  BY RowsTyped DEF OneAttemptPerLease, Present, NoCommand
<1> QED
  BY <1>1, <1>2, <1>3, <1>4 DEF IInv

-----------------------------------------------------------------------------
(* One lemma per kind of step: it preserves the inductive invariant. *)

\* What the three invariants read of the state: a step that changes neither a
\* token nor a claim preserves them.
LEMMA ClaimsFrame ==
  ASSUME IInv, TypeOK',
         \A s \in Sessions : /\ session'[s].nextLeaseAttempt = session[s].nextLeaseAttempt
                             /\ lease'[s].leaseToken = lease[s].leaseToken
                             /\ lease'[s].leasedBy = lease[s].leasedBy,
         \A c \in Commands : /\ command'[c].claimedBy = command[c].claimedBy
                             /\ command'[c].claimedLeaseToken = command[c].claimedLeaseToken
                             /\ command'[c].attemptCount = command[c].attemptCount,
         \A c \in Commands : command'[c].status # command[c].status =>
            \/ command[c].status = "absent" /\ command'[c].status = "pending"
            \/ command[c].status = "running" /\ command'[c].status \in {"acked", "failed"}
  PROVE  IInv'
<1>1. \A c \in Commands : SessionOf[c] \in Sessions
  BY StoreConstants
<1>2. LeaseIsNewest'
  BY DEF IInv, LeaseIsNewest, Present
<1>3. ClaimsAreAccounted'
  BY <1>1 DEF IInv, ClaimsAreAccounted
<1>4. OneAttemptPerLease'
  BY <1>1 DEF IInv, OneAttemptPerLease, Present
<1> QED
  BY <1>2, <1>3, <1>4 DEF IInv

LEMMA CreateSessionIInv ==
  ASSUME IInv, NEW s \in Sessions, CreateSession(s)
  PROVE  IInv'
<1>1. [session[s] EXCEPT !.status = "idle"] \in SessionRows
  BY DEF IInv, TypeOK, SessionRows
<1>2. TypeOK' /\ \A t \in Sessions : session'[t].nextLeaseAttempt = session[t].nextLeaseAttempt
  BY <1>1 DEF IInv, TypeOK, CreateSession, SessionRows
<1> QED
  BY <1>2, ClaimsFrame DEF CreateSession

LEMMA EnqueueIInv ==
  ASSUME IInv, NEW c \in Commands, EnqueueSessionCommand(c)
  PROVE  IInv'
<1> DEFINE s == SessionOf[c]
           sequence == session[s].nextCommandSequence + 1
           row == [command[c] EXCEPT !.status = "pending", !.createdSequence = sequence]
<1>1. s \in Sessions /\ sequence \in Nat
  BY StoreConstants DEF IInv, TypeOK, SessionRows
<1>2. /\ row \in CommandRows
      /\ row.status = "pending"
      /\ row.claimedBy = command[c].claimedBy
      /\ row.claimedLeaseToken = command[c].claimedLeaseToken
      /\ row.attemptCount = command[c].attemptCount
  BY <1>1 DEF IInv, TypeOK, CommandRows
<1>3. /\ session' = [session EXCEPT ![s].nextCommandSequence = sequence]
      /\ command' = [command EXCEPT ![c] = row]
      /\ lease' = lease
      /\ command[c].status = "absent"
  BY DEF EnqueueSessionCommand
<1>4. TypeOK' /\ \A t \in Sessions : session'[t].nextLeaseAttempt = session[t].nextLeaseAttempt
  BY <1>1, <1>2, <1>3 DEF IInv, TypeOK, SessionRows
<1>5. \A e \in Commands : command'[e] = IF e = c THEN row ELSE command[e]
  BY <1>3 DEF IInv, TypeOK
<1> HIDE DEF row
<1> QED
  BY <1>2, <1>3, <1>4, <1>5, ClaimsFrame

LEMMA UpdateStatusIInv ==
  ASSUME IInv, NEW l \in LeaseCopies, NEW d \in Clock,
         NEW st \in {"idle", "running", "errored"}, UpdateSessionStatus(l, st, d)
  PROVE  IInv'
<1>1. l.session \in Sessions
  BY CopiesTyped
<1>2. TypeOK' /\ \A t \in Sessions : session'[t].nextLeaseAttempt = session[t].nextLeaseAttempt
  BY <1>1 DEF IInv, TypeOK, UpdateSessionStatus, SessionRows
<1> QED
  BY <1>2, ClaimsFrame DEF UpdateSessionStatus

\* Renewals, checkpoints and the passing of time change deadlines and
\* versions, never a token or a claim.
LEMMA DeadlineStepIInv ==
  ASSUME IInv,
         \/ \E l \in LeaseCopies, d \in Clock : RenewSessionLease(l, d) \/ CheckpointSession(l, d)
         \/ Tick
  PROVE  IInv'
<1>1. /\ session' = session
      /\ lease' \in [Sessions -> LeaseRows]
      /\ \A s \in Sessions : /\ lease'[s].leaseToken = lease[s].leaseToken
                             /\ lease'[s].leasedBy = lease[s].leasedBy
  <2>1. ASSUME NEW l \in LeaseCopies, NEW d \in Clock, RenewSessionLease(l, d) PROVE <1>1!:
    <3>1. l.session \in Sessions /\ TTL + d \in Int
      BY CopiesTyped, ClockTyped, StoreConstants
    <3> QED
      BY <2>1, <3>1 DEF RenewSessionLease, IInv, TypeOK, LeaseRows
  <2>2. ASSUME NEW l \in LeaseCopies, NEW d \in Clock, CheckpointSession(l, d) PROVE <1>1!:
    <3>1. l.session \in Sessions
      BY CopiesTyped
    <3> QED
      BY <2>2, <3>1 DEF CheckpointSession, IInv, TypeOK, LeaseRows
  <2>3. CASE Tick
    BY <2>3, ElapseTyped DEF Tick, IInv, TypeOK, LeaseRows
  <2> QED
    BY <2>1, <2>2, <2>3
<1>2. /\ command' \in [Commands -> CommandRows]
      /\ \A c \in Commands : /\ command'[c].status = command[c].status
                             /\ command'[c].claimedBy = command[c].claimedBy
                             /\ command'[c].claimedLeaseToken = command[c].claimedLeaseToken
                             /\ command'[c].attemptCount = command[c].attemptCount
  <2>1. CASE Tick
    <3>1. /\ command' = [c \in Commands |-> [command[c] EXCEPT !.delay = Elapse(@)]]
          /\ command \in [Commands -> CommandRows]
      BY <2>1 DEF Tick, IInv, TypeOK
    <3> QED
      BY <3>1, ElapseTyped DEF CommandRows
  <2>2. CASE command' = command
    BY <2>2 DEF IInv, TypeOK
  <2> QED
    BY <2>1, <2>2 DEF RenewSessionLease, CheckpointSession
<1>3. TypeOK'
  BY <1>1, <1>2 DEF IInv, TypeOK
<1> QED
  BY <1>1, <1>2, <1>3, ClaimsFrame

LEMMA ClaimLeaseIInv ==
  ASSUME IInv, NEW s \in Sessions, NEW w \in Workers, NEW d \in Clock,
         ClaimSessionLease(s, w, d)
  PROVE  IInv'
<1> DEFINE n == session[s].nextLeaseAttempt
           srow == [session[s] EXCEPT !.nextLeaseAttempt = n + 1, !.status = "running"]
           lrow == [leasedBy |-> w, leaseToken |-> Token(n + 1, w), ttl |-> TTL + d,
                    checkpointVersion |-> lease[s].checkpointVersion]
<1>1. n \in Nat /\ TTL + d \in Int /\ lease[s].checkpointVersion \in Nat
  BY StoreConstants, ClockTyped DEF IInv, TypeOK, SessionRows, LeaseRows
<1>2. Token(n + 1, w) \in Tokens
  BY <1>1 DEF Token, Tokens
<1>3. srow \in SessionRows /\ srow.nextLeaseAttempt = n + 1
  <2>1. session[s] \in SessionRows /\ n + 1 \in Nat
    BY <1>1 DEF IInv, TypeOK
  <2> QED
    BY <2>1, ClaimedSessionRow, Zenon
<1>4. lrow \in LeaseRows /\ lrow.leasedBy = w /\ lrow.leaseToken = Token(n + 1, w)
  BY <1>1, <1>2 DEF LeaseRows
<1>5. /\ session' = [session EXCEPT ![s] = srow]
      /\ lease' = [lease EXCEPT ![s] = lrow]
      /\ command' = command
  BY DEF ClaimSessionLease
<1> HIDE DEF srow, lrow
<1>6. TypeOK'
  BY <1>3, <1>4, <1>5 DEF IInv, TypeOK
<1>7. \A t \in Sessions : /\ session'[t] = IF t = s THEN srow ELSE session[t]
                          /\ lease'[t] = IF t = s THEN lrow ELSE lease[t]
  BY <1>5 DEF IInv, TypeOK
<1>8. LeaseIsNewest'
  <2> SUFFICES ASSUME NEW t \in Sessions, Present(t)'
               PROVE  /\ lease'[t].leasedBy \in Workers
                      /\ lease'[t].leaseToken = Token(session'[t].nextLeaseAttempt, lease'[t].leasedBy)
    BY DEF LeaseIsNewest
  <2>1. CASE t = s
    BY <1>3, <1>4, <1>7, <2>1
  <2>2. CASE t # s
    BY <1>7, <2>2 DEF IInv, LeaseIsNewest, Present
  <2> QED
    BY <2>1, <2>2
<1>9. \A c \in Commands :
        /\ SessionOf[c] \in Sessions
        /\ session[SessionOf[c]].nextLeaseAttempt \in Nat
        /\ session'[SessionOf[c]].nextLeaseAttempt \in Nat
        /\ session[SessionOf[c]].nextLeaseAttempt <= session'[SessionOf[c]].nextLeaseAttempt
        /\ SessionOf[c] = s =>
             session[SessionOf[c]].nextLeaseAttempt < session'[SessionOf[c]].nextLeaseAttempt
  <2> SUFFICES ASSUME NEW c \in Commands PROVE <1>9!(c)
    OBVIOUS
  <2>1. SessionOf[c] \in Sessions /\ session[SessionOf[c]].nextLeaseAttempt \in Nat
    BY StoreConstants DEF IInv, TypeOK, SessionRows
  <2> QED
    BY <1>1, <1>3, <1>7, <2>1
<1>10. ClaimsAreAccounted'
  BY <1>5, <1>9 DEF IInv, ClaimsAreAccounted
<1>11. OneAttemptPerLease'
  <2> SUFFICES ASSUME NEW c \in Commands
               PROVE  /\ command[c].attemptCount <= session'[SessionOf[c]].nextLeaseAttempt
                      /\ Present(SessionOf[c])'
                         /\ command[c].claimedLeaseToken # lease'[SessionOf[c]].leaseToken
                           => command[c].attemptCount < session'[SessionOf[c]].nextLeaseAttempt
    BY <1>5 DEF OneAttemptPerLease
  <2>1. /\ command[c].attemptCount \in Nat
        /\ command[c].attemptCount <= session[SessionOf[c]].nextLeaseAttempt
    BY DEF IInv, TypeOK, CommandRows, OneAttemptPerLease
  <2>2. CASE SessionOf[c] = s
    BY <1>9, <2>1, <2>2
  <2>3. CASE SessionOf[c] # s
    BY <1>7, <1>9, <2>1, <2>3 DEF IInv, OneAttemptPerLease, Present
  <2> QED
    BY <2>2, <2>3
<1> QED
  BY <1>6, <1>8, <1>10, <1>11 DEF IInv

\* A step that deletes lease rows, puts the commands they held back to pending
\* or fails them, and leaves every other claim alone.
LEMMA DeletionFrame ==
  ASSUME IInv, TypeOK',
         \A s \in Sessions : /\ session'[s].nextLeaseAttempt = session[s].nextLeaseAttempt
                             /\ lease'[s] = lease[s] \/ lease'[s] = NoLease,
         \A c \in Commands : command'[c].attemptCount = command[c].attemptCount,
         \A c \in Commands :
           \/ /\ command'[c].claimedBy = command[c].claimedBy
              /\ command'[c].claimedLeaseToken = command[c].claimedLeaseToken
              /\ \/ command'[c].status = command[c].status
                 \/ command[c].status = "running" /\ command'[c].status = "failed"
           \/ /\ command'[c].claimedBy = NoWorker
              /\ command'[c].claimedLeaseToken = NoToken
              /\ command'[c].status = "pending"
              /\ lease'[SessionOf[c]] = NoLease
  PROVE  IInv'
<1>1. \A c \in Commands : SessionOf[c] \in Sessions
  BY StoreConstants
<1>2. LeaseIsNewest'
  BY RowsTyped DEF IInv, LeaseIsNewest, Present
<1>3. ClaimsAreAccounted'
  BY <1>1 DEF IInv, ClaimsAreAccounted
<1>4. OneAttemptPerLease'
  BY <1>1, RowsTyped DEF IInv, OneAttemptPerLease, Present
<1> QED
  BY <1>2, <1>3, <1>4 DEF IInv

LEMMA ReleaseIInv ==
  ASSUME IInv, NEW l \in LeaseCopies, ReleaseSessionLease(l)
  PROVE  IInv'
<1>1. l.session \in Sessions
  BY CopiesTyped
<1>2. TypeOK'
  BY <1>1, RowsTyped DEF IInv, TypeOK, ReleaseSessionLease, SessionRows
<1>3. \A s \in Sessions : /\ session'[s].nextLeaseAttempt = session[s].nextLeaseAttempt
                          /\ lease'[s] = lease[s] \/ lease'[s] = NoLease
  BY <1>1 DEF IInv, TypeOK, ReleaseSessionLease, SessionRows
<1> QED
  BY <1>2, <1>3, DeletionFrame DEF ReleaseSessionLease

\* What recovery does to a command that the lease held.
LEMMA RecoveredTyped ==
  ASSUME IInv, NEW c \in Commands, NEW d \in Clock
  PROVE  /\ Recovered(c, d) \in CommandRows
         /\ Recovered(c, d).attemptCount = command[c].attemptCount
         /\ \/ /\ Recovered(c, d).status = "failed"
               /\ Recovered(c, d).claimedBy = command[c].claimedBy
               /\ Recovered(c, d).claimedLeaseToken = command[c].claimedLeaseToken
            \/ /\ Recovered(c, d).status = "pending"
               /\ Recovered(c, d).claimedBy = NoWorker
               /\ Recovered(c, d).claimedLeaseToken = NoToken
<1>1. command[c] \in CommandRows /\ d \in Int /\ NoToken \in Tokens
  BY ClockTyped, RowsTyped DEF IInv, TypeOK
<1> QED
  BY <1>1 DEF Recovered, CommandRows

LEMMA RecoverIInv ==
  ASSUME IInv, NEW R \in SUBSET Sessions, NEW d \in Clock, RecoverLeases(R, d)
  PROVE  IInv'
<1>1. /\ session' \in [Sessions -> SessionRows]
      /\ \A s \in Sessions : session'[s].nextLeaseAttempt = session[s].nextLeaseAttempt
  <2>1. \A s \in Sessions, st \in {"errored", "idle"} :
          /\ [session[s] EXCEPT !.status = st] \in SessionRows
          /\ [session[s] EXCEPT !.status = st].nextLeaseAttempt = session[s].nextLeaseAttempt
    BY DEF IInv, TypeOK, SessionRows
  <2> QED
    BY <2>1 DEF RecoverLeases, IInv, TypeOK
<1>2. /\ lease' \in [Sessions -> LeaseRows]
      /\ \A s \in Sessions : /\ lease'[s] = lease[s] \/ lease'[s] = NoLease
                             /\ s \in R => lease'[s] = NoLease
  BY RowsTyped DEF RecoverLeases, IInv, TypeOK
<1>3. \A c \in Commands : \/ command'[c] = command[c]
                          \/ /\ command'[c] = Recovered(c, d)
                             /\ SessionOf[c] \in R
                             /\ command[c].status = "running"
  BY DEF RecoverLeases, Held
<1>4. TypeOK'
  <2>1. \A c \in Commands : command'[c] \in CommandRows
    BY <1>3, RecoveredTyped DEF IInv, TypeOK
  <2> QED
    BY <1>1, <1>2, <2>1 DEF TypeOK, RecoverLeases
<1>5. \A c \in Commands : SessionOf[c] \in R => lease'[SessionOf[c]] = NoLease
  BY <1>2
<1> QED
  BY <1>1, <1>2, <1>3, <1>4, <1>5, RecoveredTyped, DeletionFrame

LEMMA DeferIInv ==
  ASSUME IInv, NEW l \in LeaseCopies, NEW c \in Commands, NEW d \in Clock,
         DeferSessionCommand(l, c, d)
  PROVE  IInv'
<1> DEFINE row == [command[c] EXCEPT !.status = "pending", !.claimedBy = NoWorker,
                     !.claimedLeaseToken = NoToken, !.delay = RetryAfter + d]
<1>1. l.session \in Sessions /\ SessionOf[c] = l.session /\ RetryAfter + d \in Int
  BY CopiesTyped, ClockTyped, StoreConstants DEF DeferSessionCommand, Owned
<1>2. /\ row \in CommandRows
      /\ row.status = "pending" /\ row.claimedBy = NoWorker
      /\ row.claimedLeaseToken = NoToken /\ row.attemptCount = command[c].attemptCount
  BY <1>1, RowsTyped DEF IInv, TypeOK, CommandRows
<1>3. /\ command' = [command EXCEPT ![c] = row]
      /\ lease' = [lease EXCEPT ![l.session] = NoLease]
      /\ session' = [session EXCEPT ![l.session].status = "idle"]
  BY DEF DeferSessionCommand
<1> HIDE DEF row
<1>4. TypeOK'
  BY <1>1, <1>2, <1>3, RowsTyped DEF IInv, TypeOK, SessionRows
<1>5. \A s \in Sessions : /\ session'[s].nextLeaseAttempt = session[s].nextLeaseAttempt
                          /\ lease'[s] = lease[s] \/ lease'[s] = NoLease
  BY <1>1, <1>3 DEF IInv, TypeOK, SessionRows
<1>6. \A e \in Commands : command'[e] = IF e = c THEN row ELSE command[e]
  BY <1>3 DEF IInv, TypeOK
<1>7. lease'[SessionOf[c]] = NoLease
  BY <1>1, <1>3 DEF IInv, TypeOK
<1> QED
  BY <1>2, <1>4, <1>5, <1>6, <1>7, DeletionFrame

\* ack, checkpointAndAck and fail settle a running command in place.
LEMMA SettleIInv ==
  ASSUME IInv, NEW l \in LeaseCopies, NEW c \in Commands, NEW d \in Clock,
         \/ AckSessionCommand(l, c, d)
         \/ CheckpointAndAckSessionCommand(l, c, d)
         \/ FailSessionCommand(l, c, d)
  PROVE  IInv'
<1>1. /\ session' = session
      /\ command[c].status = "running"
      /\ \E st \in {"acked", "failed"} : command' = [command EXCEPT ![c].status = st]
  BY DEF AckSessionCommand, CheckpointAndAckSessionCommand, FailSessionCommand, Owned
<1>2. PICK st \in {"acked", "failed"} : command' = [command EXCEPT ![c].status = st]
  BY <1>1
<1>3. /\ command' \in [Commands -> CommandRows]
      /\ \A e \in Commands : /\ command'[e].claimedBy = command[e].claimedBy
                             /\ command'[e].claimedLeaseToken = command[e].claimedLeaseToken
                             /\ command'[e].attemptCount = command[e].attemptCount
                             /\ command'[e].status # command[e].status =>
                                  command[e].status = "running" /\ command'[e].status = st
  BY <1>1, <1>2 DEF IInv, TypeOK, CommandRows
<1>4. /\ lease' \in [Sessions -> LeaseRows]
      /\ \A s \in Sessions : /\ lease'[s].leaseToken = lease[s].leaseToken
                             /\ lease'[s].leasedBy = lease[s].leasedBy
  <2>1. l.session \in Sessions
    BY CopiesTyped
  <2>2. CASE lease' = lease
    BY <2>2 DEF IInv, TypeOK
  <2>3. CASE lease' = [lease EXCEPT ![l.session].checkpointVersion = @ + 1]
    BY <2>1, <2>3 DEF IInv, TypeOK, LeaseRows
  <2> QED
    BY <2>2, <2>3 DEF AckSessionCommand, CheckpointAndAckSessionCommand, FailSessionCommand
<1>5. TypeOK'
  BY <1>1, <1>3, <1>4 DEF IInv, TypeOK
<1> QED
  BY <1>1, <1>3, <1>4, <1>5, ClaimsFrame

\* The step that makes OneAttemptPerLease true: the row's lease claims a
\* command that it has not claimed before.
LEMMA ClaimCommandIInv ==
  ASSUME IInv, NEW l \in LeaseCopies, NEW c \in Commands, NEW d \in Clock,
         ClaimNextSessionCommand(l, c, d)
  PROVE  IInv'
<1> DEFINE s == SessionOf[c]
           n == session[s].nextLeaseAttempt
           k == command[c].attemptCount + 1
           row == [command[c] EXCEPT !.status = "running", !.claimedBy = l.leasedBy,
                     !.claimedLeaseToken = l.leaseToken,
                     !.attemptCount = k, !.delay = Available]
<1>1. /\ s \in Sessions /\ l.session = s /\ l.leasedBy \in Workers /\ l.leaseToken \in Tokens
      /\ lease[s].leaseToken = l.leaseToken /\ l.leaseToken # NoToken
      /\ Available \in Int /\ n \in Nat /\ command[c].attemptCount \in Nat
      /\ \E m \in Nat \ {0} : l.leaseToken = Token(m, l.leasedBy)
  BY CopiesTyped, StoreConstants
     DEF ClaimNextSessionCommand, Ready, IsNext, Claimable, CurrentLease, Available,
         IInv, TypeOK, SessionRows, CommandRows
<1>2. l.leaseToken = Token(n, l.leasedBy) /\ n \in 1..n
  <2>1. l.leaseToken = Token(n, lease[s].leasedBy)
    BY <1>1 DEF IInv, LeaseIsNewest, Present
  <2>2. PICK m \in Nat \ {0} : l.leaseToken = Token(m, l.leasedBy)
    BY <1>1
  <2>3. m = n /\ lease[s].leasedBy = l.leasedBy
    BY <2>1, <2>2 DEF Token
  <2> QED
    BY <1>1, <2>1, <2>2, <2>3
<1>3. command[c].claimedLeaseToken # l.leaseToken
  <2>1. \/ command[c].status = "pending"
        \/ command[c].claimedLeaseToken # l.leaseToken
    BY DEF ClaimNextSessionCommand, Ready, IsNext, Claimable
  <2> QED
    BY <1>1, <2>1 DEF IInv, ClaimsAreAccounted
<1>4. command[c].attemptCount < n
  BY <1>1, <1>3 DEF IInv, OneAttemptPerLease, Present
<1>5. /\ row \in CommandRows
      /\ row.status = "running" /\ row.claimedBy = l.leasedBy
      /\ row.claimedLeaseToken = l.leaseToken
      /\ row.attemptCount = k
  <2>1. command[c] \in CommandRows /\ k \in Nat
    BY <1>1 DEF IInv, TypeOK
  <2> HIDE DEF k
  <2> QED
    BY <1>1, <2>1 DEF CommandRows
<1>6. command' = [command EXCEPT ![c] = row] /\ session' = session /\ lease' = lease
  BY Zenon DEF ClaimNextSessionCommand
<1> HIDE DEF row
<1>7. TypeOK'
  BY <1>5, <1>6 DEF IInv, TypeOK
<1>8. \A e \in Commands : command'[e] = IF e = c THEN row ELSE command[e]
  BY <1>6 DEF IInv, TypeOK
<1>9. LeaseIsNewest'
  BY <1>6 DEF IInv, LeaseIsNewest, Present
<1>10. ClaimsAreAccounted'
  <2> SUFFICES ASSUME NEW e \in Commands PROVE ClaimsAreAccounted!(e)'
    BY DEF ClaimsAreAccounted
  <2>1. CASE e = c
    BY <1>1, <1>2, <1>5, <1>6, <1>8, <2>1
  <2>2. CASE e # c
    BY <1>6, <1>8, <2>2 DEF IInv, ClaimsAreAccounted
  <2> QED
    BY <2>1, <2>2
<1>11. OneAttemptPerLease'
  <2> SUFFICES ASSUME NEW e \in Commands PROVE OneAttemptPerLease!(e)'
    BY DEF OneAttemptPerLease
  <2>1. CASE e = c
    BY <1>1, <1>4, <1>5, <1>6, <1>8, <2>1
  <2>2. CASE e # c
    BY <1>6, <1>8, <2>2 DEF IInv, OneAttemptPerLease, Present
  <2> QED
    BY <2>1, <2>2
<1> QED
  BY <1>7, <1>9, <1>10, <1>11 DEF IInv

-----------------------------------------------------------------------------
(* The inductive step and the invariants. *)

LEMMA NextIInv == IInv /\ [Next]_storeVars => IInv'
<1> SUFFICES ASSUME IInv, [Next]_storeVars PROVE IInv'
  OBVIOUS
<1>1. CASE \E s \in Sessions : CreateSession(s)
  BY <1>1, CreateSessionIInv
<1>2. CASE \E c \in Commands : EnqueueSessionCommand(c)
  BY <1>2, EnqueueIInv
<1>3. CASE \E s \in Sessions, w \in Workers, d \in Clock : ClaimSessionLease(s, w, d)
  BY <1>3, ClaimLeaseIInv
<1>4. CASE \E R \in SUBSET Sessions, d \in Clock : ReapExpiredSessionLeases(R, d)
  BY <1>4, RecoverIInv DEF ReapExpiredSessionLeases
<1>5. ASSUME NEW l \in LeaseCopies, NEW d \in Clock, LeaseCall(l, d) PROVE IInv'
  <2>1. CASE \E st \in {"idle", "running", "errored"} : UpdateSessionStatus(l, st, d)
    BY <2>1, UpdateStatusIInv
  <2>2. CASE RenewSessionLease(l, d) \/ CheckpointSession(l, d)
    BY <2>2, DeadlineStepIInv
  <2>3. CASE ReleaseSessionLease(l)
    BY <2>3, ReleaseIInv
  <2>4. CASE RecoverSessionLease(l, d)
    BY <2>4, RecoverIInv, CopiesTyped DEF RecoverSessionLease
  <2> QED
    BY <1>5, <2>1, <2>2, <2>3, <2>4 DEF LeaseCall
<1>6. ASSUME NEW l \in LeaseCopies, NEW c \in Commands, NEW d \in Clock, CommandCall(l, c, d)
      PROVE  IInv'
  BY <1>6, ClaimCommandIInv, SettleIInv, DeferIInv DEF CommandCall
<1>7. CASE Tick
  BY <1>7, DeadlineStepIInv
<1>8. CASE UNCHANGED storeVars
  BY <1>8 DEF storeVars, IInv, TypeOK, LeaseIsNewest, ClaimsAreAccounted, OneAttemptPerLease, Present
<1> QED
  BY <1>1, <1>2, <1>3, <1>4, <1>5, <1>6, <1>7, <1>8 DEF Next

LEMMA SpecIInv == Spec => []IInv
  BY InitIInv, NextIInv, PTL DEF Spec

\* Every row of the three tables keeps its declared shape.
THEOREM TypeCorrect == Spec => []TypeOK
<1>1. IInv => TypeOK
  BY DEF IInv
<1> QED
  BY <1>1, SpecIInv, PTL

\* The lease row of a session is always the newest lease issued for it.
THEOREM NewestLease == Spec => []LeaseIsNewest
<1>1. IInv => LeaseIsNewest
  BY DEF IInv
<1> QED
  BY <1>1, SpecIInv, PTL

\* No running command is without a token, no pending command has one.
THEOREM ClaimAccounting == Spec => []ClaimsAreAccounted
<1>1. IInv => ClaimsAreAccounted
  BY DEF IInv
<1> QED
  BY <1>1, SpecIInv, PTL

\* A lease starts a command at most once.
THEOREM AtMostOneAttempt == Spec => []OneAttemptPerLease
<1>1. IInv => OneAttemptPerLease
  BY DEF IInv
<1> QED
  BY <1>1, SpecIInv, PTL

-----------------------------------------------------------------------------
(* What a step may do to a command that some lease has claimed. *)

\* Every step leaves a command alone, but for its delay, or is one of the
\* transitions of the command's life cycle, under the conditions the store
\* checks.
LEMMA CommandSteps ==
  ASSUME IInv, [Next]_storeVars, NEW c \in Commands
  PROVE  \/ /\ command'[c].status = command[c].status
            /\ command'[c].claimedLeaseToken = command[c].claimedLeaseToken
            /\ command'[c].attemptCount = command[c].attemptCount
         \/ command[c].status = "absent"
         \/ /\ command[c].status \in {"pending", "running"}
            /\ command'[c].status = "running"
            /\ command'[c].claimedLeaseToken = lease[SessionOf[c]].leaseToken
         \/ /\ command[c].status = "running"
            /\ command[c].claimedLeaseToken = lease[SessionOf[c]].leaseToken
<1>0. command \in [Commands -> CommandRows] /\ command[c] \in CommandRows
  BY DEF IInv, TypeOK
<1>1. CASE \E s \in Sessions : CreateSession(s)
  BY <1>1 DEF CreateSession
<1>2. CASE \E e \in Commands : EnqueueSessionCommand(e)
  BY <1>0, <1>2 DEF EnqueueSessionCommand
<1>3. CASE \E s \in Sessions, w \in Workers, d \in Clock : ClaimSessionLease(s, w, d)
  BY <1>3 DEF ClaimSessionLease
<1>4. ASSUME NEW R \in SUBSET Sessions, NEW d \in Clock, RecoverLeases(R, d)
      PROVE  \/ command'[c] = command[c]
             \/ /\ command[c].status = "running"
                /\ command[c].claimedLeaseToken = lease[SessionOf[c]].leaseToken
  BY <1>4 DEF RecoverLeases, Held
<1>5. ASSUME NEW l \in LeaseCopies, NEW d \in Clock, LeaseCall(l, d)
      PROVE  \/ command'[c] = command[c]
             \/ /\ command[c].status = "running"
                /\ command[c].claimedLeaseToken = lease[SessionOf[c]].leaseToken
  <2>1. CASE RecoverSessionLease(l, d)
    BY <1>4, <2>1, CopiesTyped DEF RecoverSessionLease
  <2>2. CASE command' = command
    BY <2>2
  <2> QED
    BY <1>5, <2>1, <2>2
       DEF LeaseCall, UpdateSessionStatus, RenewSessionLease, ReleaseSessionLease, CheckpointSession
<1>6. ASSUME NEW l \in LeaseCopies, NEW e \in Commands, NEW d \in Clock,
             ClaimNextSessionCommand(l, e, d)
      PROVE  \/ command'[c] = command[c]
             \/ /\ command[c].status \in {"pending", "running"}
                /\ command'[c].status = "running"
                /\ command'[c].claimedLeaseToken = lease[SessionOf[c]].leaseToken
  <2>1. CASE e = c
    <3>1. /\ command[c].status \in {"pending", "running"}
          /\ lease[SessionOf[c]].leaseToken = l.leaseToken
      BY <1>6, <2>1 DEF ClaimNextSessionCommand, CurrentLease, Ready, IsNext, Claimable
    <3>2. command'[c].status = "running" /\ command'[c].claimedLeaseToken = l.leaseToken
      BY <1>0, <1>6, <2>1 DEF ClaimNextSessionCommand, CommandRows
    <3> QED
      BY <3>1, <3>2
  <2>2. CASE e # c
    BY <1>0, <1>6, <2>2 DEF ClaimNextSessionCommand
  <2> QED
    BY <2>1, <2>2
<1>7. ASSUME NEW l \in LeaseCopies, NEW e \in Commands, NEW d \in Clock,
             \/ AckSessionCommand(l, e, d)
             \/ CheckpointAndAckSessionCommand(l, e, d)
             \/ FailSessionCommand(l, e, d)
             \/ DeferSessionCommand(l, e, d)
      PROVE  \/ command'[c] = command[c]
             \/ /\ command[c].status = "running"
                /\ command[c].claimedLeaseToken = lease[SessionOf[c]].leaseToken
  <2>1. CASE e = c
    BY <1>7, <2>1 DEF AckSessionCommand, CheckpointAndAckSessionCommand, FailSessionCommand,
                      DeferSessionCommand, CurrentLease, Owned
  <2>2. CASE e # c
    BY <1>0, <1>7, <2>2 DEF AckSessionCommand, CheckpointAndAckSessionCommand,
                            FailSessionCommand, DeferSessionCommand
  <2> QED
    BY <2>1, <2>2
<1>8. CASE Tick
  BY <1>0, <1>8 DEF Tick, CommandRows
<1>9. CASE UNCHANGED storeVars
  BY <1>9 DEF storeVars
<1> QED
  BY <1>1, <1>2, <1>3, <1>4, <1>5, <1>6, <1>7, <1>8, <1>9
     DEF Next, ReapExpiredSessionLeases, CommandCall

\* acked and failed are final, whatever stale or repeated calls the workers make.
THEOREM SettledForever == Spec => SettledIsFinal
<1>1. IInv /\ [Next]_storeVars =>
        [\A c \in Commands :
           command[c].status \in {"acked", "failed"} =>
             /\ command'[c].status = command[c].status
             /\ command'[c].attemptCount = command[c].attemptCount
             /\ command'[c].claimedLeaseToken = command[c].claimedLeaseToken]_storeVars
  BY CommandSteps
<1> QED
  BY <1>1, SpecIInv, PTL DEF Spec, SettledIsFinal

\* Only the lease that holds the row and the claim settles, defers or retries a
\* running command; only the row's lease takes over what an older one left.
THEOREM HolderDecides == Spec => OnlyTheHolderDecides
<1>1. IInv /\ [Next]_storeVars =>
        [\A c \in Commands :
           LET s == SessionOf[c]
           IN  command[c].status = "running" =>
                 \/ command'[c].status = "running"
                    /\ command'[c].claimedLeaseToken = command[c].claimedLeaseToken
                 \/ command[c].claimedLeaseToken = lease[s].leaseToken
                 \/ /\ command'[c].status = "running"
                    /\ command'[c].claimedLeaseToken = lease[s].leaseToken]_storeVars
  BY CommandSteps
<1> QED
  BY <1>1, SpecIInv, PTL DEF Spec, OnlyTheHolderDecides

-----------------------------------------------------------------------------
(* What a step may do to a lease row. *)

LEMMA LeaseSteps ==
  ASSUME IInv, [Next]_storeVars, NEW s \in Sessions
  PROVE  \/ lease'[s].leaseToken = lease[s].leaseToken
         \/ lease'[s].leaseToken = NoToken
         \/ \E w \in Workers : lease'[s].leaseToken = Token(session[s].nextLeaseAttempt + 1, w)
<1>0. lease \in [Sessions -> LeaseRows] /\ NoLease.leaseToken = NoToken
  BY RowsTyped DEF IInv, TypeOK
<1>1. CASE \E t \in Sessions, w \in Workers, d \in Clock : ClaimSessionLease(t, w, d)
  BY <1>0, <1>1 DEF ClaimSessionLease
<1>2. ASSUME NEW R \in SUBSET Sessions, NEW d \in Clock, RecoverLeases(R, d)
      PROVE  lease'[s] = lease[s] \/ lease'[s] = NoLease
  BY <1>2 DEF RecoverLeases
<1>3. ASSUME NEW l \in LeaseCopies, NEW d \in Clock, LeaseCall(l, d)
      PROVE  lease'[s].leaseToken \in {lease[s].leaseToken, NoToken}
  <2>0. l.session \in Sessions
    BY CopiesTyped
  <2>1. CASE RecoverSessionLease(l, d)
    BY <1>0, <1>2, <2>0, <2>1 DEF RecoverSessionLease
  <2>2. CASE ReleaseSessionLease(l)
    BY <1>0, <2>0, <2>2 DEF ReleaseSessionLease
  <2>3. CASE RenewSessionLease(l, d) \/ CheckpointSession(l, d)
    BY <1>0, <2>0, <2>3 DEF RenewSessionLease, CheckpointSession, LeaseRows
  <2> QED
    BY <1>3, <2>1, <2>2, <2>3 DEF LeaseCall, UpdateSessionStatus
<1>4. ASSUME NEW l \in LeaseCopies, NEW c \in Commands, NEW d \in Clock, CommandCall(l, c, d)
      PROVE  lease'[s].leaseToken \in {lease[s].leaseToken, NoToken}
  <2>0. l.session \in Sessions
    BY CopiesTyped
  <2>1. CASE DeferSessionCommand(l, c, d)
    BY <1>0, <2>0, <2>1 DEF DeferSessionCommand
  <2>2. CASE CheckpointAndAckSessionCommand(l, c, d)
    BY <1>0, <2>0, <2>2 DEF CheckpointAndAckSessionCommand, LeaseRows
  <2> QED
    BY <1>4, <2>1, <2>2 DEF CommandCall, ClaimNextSessionCommand, AckSessionCommand, FailSessionCommand
<1>5. CASE Tick
  BY <1>0, <1>5 DEF Tick, LeaseRows
<1> QED
  BY <1>0, <1>1, <1>2, <1>3, <1>4, <1>5
     DEF Next, ReapExpiredSessionLeases, CreateSession, EnqueueSessionCommand, storeVars

\* A new lease's token is newer than any claim made in its session.
THEOREM FreshTokens == Spec => TokensAreFresh
<1>1. ASSUME IInv, [Next]_storeVars, NEW s \in Sessions, NEW c \in Commands, SessionOf[c] = s,
             lease'[s].leaseToken # lease[s].leaseToken, lease'[s].leaseToken # NoToken
      PROVE  command[c].claimedLeaseToken[1] < lease'[s].leaseToken[1]
  <2> DEFINE n == session[s].nextLeaseAttempt
  <2>1. n \in Nat
    BY <1>1 DEF IInv, TypeOK, SessionRows
  <2>2. PICK w \in Workers : lease'[s].leaseToken = Token(n + 1, w)
    BY <1>1, LeaseSteps
  <2>3. lease'[s].leaseToken[1] = n + 1
    BY <2>2 DEF Token
  <2>4. command[c].status \in {"absent", "pending", "running", "acked", "failed"}
    BY <1>1 DEF IInv, TypeOK, CommandRows
  <2>5. \/ command[c].claimedLeaseToken = NoToken
        \/ \E m \in 1..n : command[c].claimedLeaseToken = Token(m, command[c].claimedBy)
    BY <1>1, <2>4 DEF IInv, ClaimsAreAccounted
  <2>6. command[c].claimedLeaseToken[1] \in 0..n
    BY <2>1, <2>5 DEF NoToken, Token
  <2> QED
    BY <2>1, <2>3, <2>6
<1>2. IInv /\ [Next]_storeVars =>
        [\A s \in Sessions :
           /\ lease'[s].leaseToken # lease[s].leaseToken
           /\ lease'[s].leaseToken # NoToken
           => \A c \in Commands :
                SessionOf[c] = s =>
                  command[c].claimedLeaseToken[1] < lease'[s].leaseToken[1]]_storeVars
  BY <1>1
<1> QED
  BY <1>2, SpecIInv, PTL DEF Spec, TokensAreFresh

-----------------------------------------------------------------------------
(* The quota of active workers, with synchronised clocks. *)

LiveSessions == {s \in Sessions : Live(s, 0)}

QuotaInv ==
  Skew = 0 /\ MaxActiveWorkers > 0 =>
    IsFiniteSet(LiveSessions) /\ Cardinality(LiveSessions) <= MaxActiveWorkers

\* A lease that is live was live before the step, or has just been claimed.
LEMMA LiveCameBefore ==
  ASSUME IInv, [Next]_storeVars, Skew = 0, NEW s \in Sessions, Live(s, 0)'
  PROVE  Live(s, 0) \/ \E w \in Workers, d \in Clock : ClaimSessionLease(s, w, d)
<1>0. /\ lease \in [Sessions -> LeaseRows] /\ lease[s] \in LeaseRows /\ lease[s].ttl \in Int
      /\ \A d \in Clock : d = 0
      /\ lease'[s].leaseToken # NoToken
  BY DEF IInv, TypeOK, LeaseRows, Clock, Live, Present
<1>1. lease'[s] = lease[s] => Live(s, 0)
  BY DEF Live, Present, Expired
<1>2. lease'[s] # NoLease
  BY <1>0, RowsTyped
<1>3. lease'[s].leaseToken = lease[s].leaseToken /\ lease'[s].ttl = lease[s].ttl => Live(s, 0)
  BY DEF Live, Present, Expired
<1>4. ASSUME NEW t \in Sessions, NEW w \in Workers, NEW d \in Clock, ClaimSessionLease(t, w, d)
      PROVE  Live(s, 0) \/ \E v \in Workers, e \in Clock : ClaimSessionLease(s, v, e)
  <2>1. CASE t = s
    BY <1>4, <2>1
  <2>2. CASE t # s
    BY <1>0, <1>1, <1>4, <2>2 DEF ClaimSessionLease
  <2> QED
    BY <2>1, <2>2
<1>5. ASSUME NEW R \in SUBSET Sessions, NEW d \in Clock, RecoverLeases(R, d)
      PROVE  lease'[s] \in {lease[s], NoLease}
  BY <1>5 DEF RecoverLeases
<1>6. ASSUME NEW l \in LeaseCopies, NEW d \in Clock, LeaseCall(l, d)
      PROVE  Live(s, 0)
  <2>0. l.session \in Sessions /\ d = 0
    BY <1>0, CopiesTyped
  <2>1. CASE RecoverSessionLease(l, d)
    BY <1>1, <1>2, <1>5, <2>0, <2>1 DEF RecoverSessionLease
  <2>2. CASE ReleaseSessionLease(l)
    BY <1>0, <1>1, <1>2, <2>0, <2>2 DEF ReleaseSessionLease
  <2>3. CASE RenewSessionLease(l, d)
    BY <1>0, <1>1, <2>0, <2>3 DEF RenewSessionLease, CurrentLease
  <2>4. CASE CheckpointSession(l, d)
    BY <1>0, <1>3, <2>0, <2>4 DEF CheckpointSession, LeaseRows
  <2>5. CASE \E st \in {"idle", "running", "errored"} : UpdateSessionStatus(l, st, d)
    BY <1>1, <2>5 DEF UpdateSessionStatus
  <2> QED
    BY <1>6, <2>1, <2>2, <2>3, <2>4, <2>5 DEF LeaseCall
<1>7. ASSUME NEW l \in LeaseCopies, NEW c \in Commands, NEW d \in Clock, CommandCall(l, c, d)
      PROVE  Live(s, 0)
  <2>0. l.session \in Sessions
    BY CopiesTyped
  <2>1. CASE DeferSessionCommand(l, c, d)
    BY <1>0, <1>1, <1>2, <2>0, <2>1 DEF DeferSessionCommand
  <2>2. CASE CheckpointAndAckSessionCommand(l, c, d)
    BY <1>0, <1>3, <2>0, <2>2 DEF CheckpointAndAckSessionCommand, LeaseRows
  <2> QED
    BY <1>1, <1>7, <2>1, <2>2
       DEF CommandCall, ClaimNextSessionCommand, AckSessionCommand, FailSessionCommand
<1>8. CASE Tick
  <2>1. CASE Present(s)
    <3>1. lease'[s] = [lease[s] EXCEPT !.ttl = Elapse(lease[s].ttl)]
      BY <1>8, <2>1 DEF Tick
    <3>2. lease'[s].ttl = Elapse(lease[s].ttl)
      BY <1>0, <3>1 DEF LeaseRows
    <3> QED
      BY <1>0, <2>1, <3>2, ElapseTyped DEF Live, Expired, Elapse
  <2>2. CASE ~Present(s)
    BY <1>1, <1>8, <2>2 DEF Tick
  <2> QED
    BY <2>1, <2>2
<1> QED
  BY <1>1, <1>2, <1>4, <1>5, <1>6, <1>7, <1>8
     DEF Next, ReapExpiredSessionLeases, CreateSession, EnqueueSessionCommand, storeVars

LEMMA NextQuotaInv == IInv /\ QuotaInv /\ [Next]_storeVars => QuotaInv'
<1> SUFFICES ASSUME IInv, QuotaInv, [Next]_storeVars, Skew = 0, MaxActiveWorkers > 0
             PROVE  IsFiniteSet(LiveSessions') /\ Cardinality(LiveSessions') <= MaxActiveWorkers
  BY DEF QuotaInv
<1> DEFINE L == LiveSessions
           M == LiveSessions'
<1>0. /\ IsFiniteSet(L) /\ Cardinality(L) <= MaxActiveWorkers /\ Cardinality(L) \in Nat
      /\ MaxActiveWorkers \in Nat
  BY StoreConstants, FS_CardinalityType DEF QuotaInv
<1>1. ASSUME NEW s \in Sessions, NEW w \in Workers, NEW d \in Clock, ClaimSessionLease(s, w, d)
      PROVE  M \subseteq L \cup {s} /\ Cardinality(L) < MaxActiveWorkers
  <2>1. \A t \in Sessions : t # s => lease'[t] = lease[t]
    BY <1>1 DEF ClaimSessionLease, IInv, TypeOK
  <2>2. d = 0
    BY DEF Clock
  <2> QED
    BY <1>1, <2>1, <2>2
       DEF LiveSessions, Live, Present, Expired, ClaimSessionLease, ActiveWorkerQuotaAllows
<1>2. M \subseteq L \/ \E s \in Sessions : M \subseteq L \cup {s} /\ Cardinality(L) < MaxActiveWorkers
  <2>1. CASE \A s \in Sessions : Live(s, 0)' => Live(s, 0)
    BY <2>1 DEF LiveSessions
  <2>2. ASSUME NEW s \in Sessions, Live(s, 0)', ~Live(s, 0)
        PROVE  M \subseteq L \cup {s} /\ Cardinality(L) < MaxActiveWorkers
    BY <1>1, <2>2, LiveCameBefore
  <2> QED
    BY <2>1, <2>2
<1> HIDE DEF L, M
<1>3. CASE M \subseteq L
  <2>1. IsFiniteSet(M) /\ Cardinality(M) <= Cardinality(L) /\ Cardinality(M) \in Nat
    BY <1>0, <1>3, FS_Subset, FS_CardinalityType
  <2> QED
    BY <1>0, <2>1 DEF M
<1>4. ASSUME NEW s \in Sessions, M \subseteq L \cup {s}, Cardinality(L) < MaxActiveWorkers
      PROVE  IsFiniteSet(M) /\ Cardinality(M) <= MaxActiveWorkers
  <2>1. /\ IsFiniteSet(L \cup {s})
        /\ Cardinality(L \cup {s}) = IF s \in L THEN Cardinality(L) ELSE Cardinality(L) + 1
    BY <1>0, FS_AddElement
  <2>2. IsFiniteSet(M) /\ Cardinality(M) <= Cardinality(L \cup {s}) /\ Cardinality(M) \in Nat
    BY <1>4, <2>1, FS_Subset, FS_CardinalityType
  <2> QED
    BY <1>0, <1>4, <2>1, <2>2
<1> QED
  BY <1>2, <1>3, <1>4 DEF M

\* With synchronised clocks, the live leases never outnumber the quota, however
\* leases are renewed, released, recovered and reaped.
THEOREM QuotaHolds == Spec => []ActiveWorkerQuota
<1>1. Init => QuotaInv
  <2> SUFFICES ASSUME Init PROVE QuotaInv
    OBVIOUS
  <2>1. LiveSessions = {}
    BY RowsTyped DEF LiveSessions, Init, Live, Present
  <2> QED
    BY <2>1, FS_EmptySet, StoreConstants DEF QuotaInv
<1>2. QuotaInv => ActiveWorkerQuota
  BY DEF QuotaInv, ActiveWorkerQuota, LiveSessions
<1> QED
  BY <1>1, <1>2, NextQuotaInv, SpecIInv, PTL DEF Spec
=============================================================================

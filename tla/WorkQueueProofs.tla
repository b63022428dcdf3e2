---------------------------- MODULE WorkQueueProofs ----------------------------
(***************************************************************************)
(* SessionStore implements WorkQueue: the refinement mapping of Queue      *)
(* takes the initial state to an initial state and every step to a step of *)
(* the queue or to a stutter.                                              *)
(***************************************************************************)
EXTENDS SessionStoreProofs

\* A place in the queue of a session is at most the number of places given out;
\* a command that was never enqueued was never claimed.
PlacesIssued ==
  \A c \in Commands :
    /\ command[c].createdSequence <= session[SessionOf[c]].nextCommandSequence
    /\ command[c].status = "absent" => command[c].attemptCount = 0

QInv == IInv /\ PlacesIssued

\* What a step may do to one command.
SameEntry(c) ==
  /\ command'[c].status = command[c].status
  /\ command'[c].claimedLeaseToken = command[c].claimedLeaseToken
  /\ command'[c].attemptCount = command[c].attemptCount
  /\ command'[c].createdSequence = command[c].createdSequence

SubmitStep(c) ==
  /\ command[c].status = "absent"
  /\ command'[c].status = "pending"
  /\ command'[c].claimedLeaseToken = command[c].claimedLeaseToken
  /\ command'[c].attemptCount = command[c].attemptCount
  /\ command'[c].createdSequence = session[SessionOf[c]].nextCommandSequence + 1
  /\ session'[SessionOf[c]].nextCommandSequence = session[SessionOf[c]].nextCommandSequence + 1

TakeStep(c) ==
  /\ command[c].status \in {"pending", "running"}
  /\ command'[c].status = "running"
  /\ command'[c].claimedLeaseToken \notin {NoToken, command[c].claimedLeaseToken}
  /\ command'[c].attemptCount = command[c].attemptCount + 1
  /\ command'[c].createdSequence = command[c].createdSequence
  /\ \A e \in Commands :
       /\ SessionOf[e] = SessionOf[c]
       /\ command[e].createdSequence < command[c].createdSequence
       => \/ command[e].status \in {"absent", "acked", "failed"}
          \/ /\ command[e].status = "running"
             /\ command[e].claimedLeaseToken = command'[c].claimedLeaseToken

GiveBackStep(c) ==
  /\ command[c].status = "running"
  /\ command'[c].status = "pending"
  /\ command'[c].claimedLeaseToken = NoToken
  /\ command'[c].attemptCount = command[c].attemptCount
  /\ command'[c].createdSequence = command[c].createdSequence

FinishStep(c) ==
  /\ command[c].status = "running"
  /\ command'[c].status \in {"acked", "failed"}
  /\ command'[c].claimedLeaseToken = command[c].claimedLeaseToken
  /\ command'[c].attemptCount = command[c].attemptCount
  /\ command'[c].createdSequence = command[c].createdSequence

QueueStep(c) ==
  SameEntry(c) \/ SubmitStep(c) \/ TakeStep(c) \/ GiveBackStep(c) \/ FinishStep(c)

LEMMA EnqueueQueueStep ==
  ASSUME IInv, NEW c \in Commands, NEW e \in Commands, EnqueueSessionCommand(e)
  PROVE  QueueStep(c)
<1>1. /\ command \in [Commands -> CommandRows] /\ session \in [Sessions -> SessionRows]
      /\ SessionOf[e] \in Sessions
  BY StoreConstants DEF IInv, TypeOK
<1> DEFINE sequence == session[SessionOf[e]].nextCommandSequence + 1
<1>2. /\ command[e].status = "absent"
      /\ command' = [command EXCEPT ![e] =
                      [@ EXCEPT !.status = "pending", !.createdSequence = sequence]]
      /\ session' = [session EXCEPT ![SessionOf[e]].nextCommandSequence = sequence]
  BY DEF EnqueueSessionCommand
<1>3. session'[SessionOf[e]].nextCommandSequence = sequence
  BY <1>1, <1>2 DEF SessionRows
<1>4. CASE e = c
  BY <1>1, <1>2, <1>3, <1>4 DEF CommandRows, QueueStep, SubmitStep
<1>5. CASE e # c
  BY <1>1, <1>2, <1>5 DEF QueueStep, SameEntry
<1> QED
  BY <1>4, <1>5

LEMMA RecoverQueueStep ==
  ASSUME IInv, NEW c \in Commands, NEW R \in SUBSET Sessions, NEW d \in Clock, RecoverLeases(R, d)
  PROVE  QueueStep(c)
<1>1. command[c] \in CommandRows
  BY DEF IInv, TypeOK
<1>2. CASE command'[c] = command[c]
  BY <1>2 DEF QueueStep, SameEntry
<1>3. CASE command'[c] = Recovered(c, d) /\ command[c].status = "running"
  <2>1. CASE Exhausted(c)
    BY <1>1, <1>3, <2>1 DEF Recovered, CommandRows, QueueStep, FinishStep
  <2>2. CASE ~Exhausted(c)
    BY <1>1, <1>3, <2>2 DEF Recovered, CommandRows, QueueStep, GiveBackStep
  <2> QED
    BY <2>1, <2>2
<1> QED
  BY <1>2, <1>3 DEF RecoverLeases, Held

LEMMA ClaimQueueStep ==
  ASSUME IInv, NEW c \in Commands, NEW l \in LeaseCopies, NEW e \in Commands, NEW d \in Clock,
         ClaimNextSessionCommand(l, e, d)
  PROVE  QueueStep(c)
<1>1. command \in [Commands -> CommandRows] /\ l.leaseToken # NoToken
  BY CopiesTyped DEF IInv, TypeOK
<1>2. CASE e # c
  BY <1>1, <1>2 DEF ClaimNextSessionCommand, QueueStep, SameEntry
<1>3. CASE e = c
  <2>1. /\ c \in Claimable(l)
        /\ \A x \in Claimable(l) : command[c].createdSequence <= command[x].createdSequence
    BY <1>3 DEF ClaimNextSessionCommand, Ready, IsNext
  <2>2. /\ command[c].status \in {"pending", "running"}
        /\ SessionOf[c] = l.session
    BY <2>1 DEF Claimable
  <2>3. command[c].claimedLeaseToken # l.leaseToken
    BY <1>1, <2>1 DEF Claimable, IInv, ClaimsAreAccounted
  <2>4. /\ command'[c].status = "running"
        /\ command'[c].claimedLeaseToken = l.leaseToken
        /\ command'[c].attemptCount = command[c].attemptCount + 1
        /\ command'[c].createdSequence = command[c].createdSequence
    BY <1>1, <1>3 DEF ClaimNextSessionCommand, CommandRows
  <2>5. ASSUME NEW x \in Commands, SessionOf[x] = SessionOf[c],
               command[x].createdSequence < command[c].createdSequence
        PROVE  \/ command[x].status \in {"absent", "acked", "failed"}
               \/ /\ command[x].status = "running"
                  /\ command[x].claimedLeaseToken = l.leaseToken
    <3>1. command[x] \in CommandRows /\ command[c] \in CommandRows
      BY <1>1
    <3>2. x \notin Claimable(l)
      BY <2>1, <2>5, <3>1 DEF CommandRows
    <3> QED
      BY <2>2, <2>5, <3>1, <3>2 DEF Claimable, CommandRows
  <2>6. TakeStep(c)
    BY <1>1, <2>2, <2>3, <2>4, <2>5 DEF TakeStep
  <2> QED
    BY <2>6 DEF QueueStep
<1> QED
  BY <1>2, <1>3

LEMMA SettleQueueStep ==
  ASSUME IInv, NEW c \in Commands, NEW l \in LeaseCopies, NEW e \in Commands, NEW d \in Clock,
         \/ AckSessionCommand(l, e, d)
         \/ CheckpointAndAckSessionCommand(l, e, d)
         \/ FailSessionCommand(l, e, d)
         \/ DeferSessionCommand(l, e, d)
  PROVE  QueueStep(c)
<1>1. command \in [Commands -> CommandRows]
  BY DEF IInv, TypeOK
<1>2. CASE e # c
  BY <1>1, <1>2 DEF AckSessionCommand, CheckpointAndAckSessionCommand, FailSessionCommand,
                    DeferSessionCommand, QueueStep, SameEntry
<1>3. CASE e = c /\ DeferSessionCommand(l, e, d)
  BY <1>1, <1>3 DEF DeferSessionCommand, Owned, CommandRows, QueueStep, GiveBackStep
<1>4. CASE e = c /\ ~DeferSessionCommand(l, e, d)
  <2>1. /\ command[c].status = "running"
        /\ \E status \in {"acked", "failed"} : command' = [command EXCEPT ![c].status = status]
    BY <1>4 DEF AckSessionCommand, CheckpointAndAckSessionCommand, FailSessionCommand, Owned
  <2> QED
    BY <1>1, <2>1 DEF CommandRows, QueueStep, FinishStep
<1> QED
  BY <1>2, <1>3, <1>4

\* Every step of the store is a step of the queue, for each command.
LEMMA StoreQueueSteps ==
  ASSUME IInv, [Next]_storeVars, NEW c \in Commands
  PROVE  QueueStep(c)
<1>0. command \in [Commands -> CommandRows]
  BY DEF IInv, TypeOK
<1>1. CASE command' = command
  BY <1>1 DEF QueueStep, SameEntry
<1>2. CASE \E e \in Commands : EnqueueSessionCommand(e)
  BY <1>2, EnqueueQueueStep
<1>3. CASE \E R \in SUBSET Sessions, d \in Clock : RecoverLeases(R, d)
  BY <1>3, RecoverQueueStep
<1>4. CASE \E l \in LeaseCopies, e \in Commands, d \in Clock : CommandCall(l, e, d)
  BY <1>4, ClaimQueueStep, SettleQueueStep DEF CommandCall
<1>5. CASE Tick
  BY <1>0, <1>5 DEF Tick, CommandRows, QueueStep, SameEntry
<1>6. CASE \E l \in LeaseCopies, d \in Clock : LeaseCall(l, d)
  <2>1. PICK l \in LeaseCopies, d \in Clock : LeaseCall(l, d)
    BY <1>6
  <2>2. CASE RecoverSessionLease(l, d)
    BY <2>2, <1>3, CopiesTyped DEF RecoverSessionLease
  <2> QED
    BY <1>1, <2>1, <2>2
       DEF LeaseCall, UpdateSessionStatus, RenewSessionLease, ReleaseSessionLease, CheckpointSession
<1> QED
  BY <1>1, <1>2, <1>3, <1>4, <1>5, <1>6
     DEF Next, storeVars, CreateSession, ClaimSessionLease, ReapExpiredSessionLeases

\* Places are given out in increasing order.
LEMMA SequenceGrows ==
  ASSUME IInv, [Next]_storeVars, NEW s \in Sessions
  PROVE  session'[s].nextCommandSequence >= session[s].nextCommandSequence
<1>0. session \in [Sessions -> SessionRows] /\ session[s].nextCommandSequence \in Nat
  BY DEF IInv, TypeOK, SessionRows
<1>1. ASSUME NEW t \in Sessions, CreateSession(t)
      PROVE  session'[s].nextCommandSequence = session[s].nextCommandSequence
  BY <1>0, <1>1 DEF CreateSession, SessionRows
<1>2. ASSUME NEW c \in Commands, EnqueueSessionCommand(c)
      PROVE  session'[s].nextCommandSequence >= session[s].nextCommandSequence
  BY <1>0, <1>2, StoreConstants DEF EnqueueSessionCommand, SessionRows
<1>3. ASSUME NEW t \in Sessions, NEW w \in Workers, NEW d \in Clock, ClaimSessionLease(t, w, d)
      PROVE  session'[s].nextCommandSequence = session[s].nextCommandSequence
  BY <1>0, <1>3 DEF ClaimSessionLease, SessionRows
<1>4. ASSUME NEW R \in SUBSET Sessions, NEW d \in Clock, RecoverLeases(R, d)
      PROVE  session'[s].nextCommandSequence = session[s].nextCommandSequence
  BY <1>0, <1>4 DEF RecoverLeases, SessionRows
<1>5. ASSUME NEW l \in LeaseCopies, NEW d \in Clock, LeaseCall(l, d)
      PROVE  session'[s].nextCommandSequence = session[s].nextCommandSequence
  <2>0. l.session \in Sessions
    BY CopiesTyped
  <2>1. CASE RecoverSessionLease(l, d)
    BY <1>4, <2>0, <2>1 DEF RecoverSessionLease
  <2>2. CASE session' = session
    BY <2>2
  <2>3. CASE \E st \in {"idle", "running", "errored"} :
               session' = [session EXCEPT ![l.session].status = st]
    BY <1>0, <2>3 DEF SessionRows
  <2> QED
    BY <1>5, <2>1, <2>2, <2>3
       DEF LeaseCall, UpdateSessionStatus, RenewSessionLease, ReleaseSessionLease, CheckpointSession
<1>6. ASSUME NEW l \in LeaseCopies, NEW c \in Commands, NEW d \in Clock, CommandCall(l, c, d)
      PROVE  session'[s].nextCommandSequence = session[s].nextCommandSequence
  BY <1>0, <1>6 DEF CommandCall, ClaimNextSessionCommand, AckSessionCommand,
                    CheckpointAndAckSessionCommand, FailSessionCommand, DeferSessionCommand, SessionRows
<1> QED
  BY <1>0, <1>1, <1>2, <1>3, <1>4, <1>5, <1>6
     DEF Next, storeVars, Tick, ReapExpiredSessionLeases

LEMMA SpecQInv == Spec => []QInv
<1>1. Init => QInv
  <2>1. Init => PlacesIssued
    BY StoreConstants DEF Init, PlacesIssued, NoCommand
  <2> QED
    BY <2>1, InitIInv DEF QInv
<1>2. QInv /\ [Next]_storeVars => QInv'
  <2> SUFFICES ASSUME QInv, [Next]_storeVars PROVE QInv'
    OBVIOUS
  <2>1. IInv /\ IInv'
    BY NextIInv DEF QInv
  <2>2. ASSUME NEW c \in Commands
        PROVE  PlacesIssued!(c)'
    <3>1. /\ SessionOf[c] \in Sessions
          /\ command[c] \in CommandRows
          /\ session[SessionOf[c]].nextCommandSequence \in Nat
          /\ session'[SessionOf[c]].nextCommandSequence \in Nat
      BY <2>1, StoreConstants DEF IInv, TypeOK, SessionRows
    <3>2. session'[SessionOf[c]].nextCommandSequence >= session[SessionOf[c]].nextCommandSequence
      BY <2>1, <3>1, SequenceGrows
    <3>3. QueueStep(c)
      BY <2>1, StoreQueueSteps
    <3>4. PlacesIssued!(c)
      BY DEF QInv, PlacesIssued
    <3> QED
      BY <3>1, <3>2, <3>3, <3>4
         DEF CommandRows, QueueStep, SameEntry, SubmitStep, TakeStep, GiveBackStep, FinishStep
  <2> QED
    BY <2>1, <2>2 DEF QInv, PlacesIssued
<1> QED
  BY <1>1, <1>2, PTL DEF Spec

\* The entry of a command, status by status.
LEMMA EntryOf ==
  ASSUME NEW c \in Commands
  PROVE  LET Row(state) == [state |-> state, holder |-> command[c].claimedLeaseToken,
                            takes |-> command[c].attemptCount, place |-> command[c].createdSequence]
         IN  /\ command[c].status = "absent" => QueueEntry(c) = Row("absent")
             /\ command[c].status = "pending" => QueueEntry(c) = Row("open")
             /\ command[c].status = "running" => QueueEntry(c) = Row("held")
             /\ command[c].status \in {"acked", "failed"} => QueueEntry(c) = Row("done")
  BY DEF QueueEntry

\* A step of one command is a step of its entry.
LEMMA EntrySteps ==
  ASSUME QInv, NEW c \in Commands, QueueStep(c)
  PROVE  (QueueEntry(c))' = QueueEntry(c) \/ Queue!Step(c)
<1> DEFINE entry == [e \in Commands |-> QueueEntry(e)]
           Row(state, h, k, p) == [state |-> state, holder |-> h, takes |-> k, place |-> p]
           tok == command[c].claimedLeaseToken
           n == command[c].attemptCount
           seq == command[c].createdSequence
<1>1. \A e \in Commands : command[e] \in CommandRows
  BY DEF QInv, IInv, TypeOK
<1>2. \A e \in Commands : entry[e] = QueueEntry(e)
  OBVIOUS
<1>3. entry'[c] = (QueueEntry(c))'
  OBVIOUS
<1>4. CASE SameEntry(c)
  BY <1>4 DEF SameEntry, QueueEntry
<1>5. CASE SubmitStep(c)
  <2>1. ASSUME NEW e \in Commands, SessionOf[e] = SessionOf[c]
        PROVE  QueueEntry(e).place < command'[c].createdSequence
    <3>1. /\ command[e].createdSequence <= session[SessionOf[c]].nextCommandSequence
          /\ command[e].createdSequence \in Nat
          /\ session[SessionOf[c]].nextCommandSequence \in Nat
      BY <1>1, <2>1, StoreConstants
         DEF QInv, PlacesIssued, IInv, TypeOK, CommandRows, SessionRows
    <3> QED
      BY <1>5, <3>1 DEF SubmitStep, QueueEntry
  <2>2. tok = NoToken /\ n = 0
    BY <1>5 DEF SubmitStep, QInv, IInv, ClaimsAreAccounted, PlacesIssued
  <2>3. QueueEntry(c).state = "absent"
    BY <1>5, EntryOf DEF SubmitStep
  <2>4. (QueueEntry(c))' = Row("open", NoToken, 0, command'[c].createdSequence)
    BY <1>5, <2>2 DEF SubmitStep, QueueEntry
  <2>5. Queue!Submit(c)
    BY <1>2, <1>3, <2>1, <2>3, <2>4 DEF Queue!Submit, Queue!Line
  <2> QED
    BY <2>5 DEF Queue!Step
<1>6. CASE TakeStep(c)
  <2> DEFINE h == command'[c].claimedLeaseToken
  <2>1. PICK state \in {"open", "held"} : QueueEntry(c) = Row(state, tok, n, seq)
    BY <1>6, EntryOf DEF TakeStep
  <2>2. (QueueEntry(c))' = Row("held", h, n + 1, seq)
    BY <1>6 DEF TakeStep, QueueEntry
  <2>3. ASSUME NEW e \in Commands, SessionOf[e] = SessionOf[c], QueueEntry(e).state # "absent",
               QueueEntry(e).place < seq
        PROVE  \/ QueueEntry(e).state = "done"
               \/ QueueEntry(e).state = "held" /\ QueueEntry(e).holder = h
    <3>1. command[e].status # "absent" /\ command[e].createdSequence < seq
      BY <2>3 DEF QueueEntry
    <3>2. \/ command[e].status \in {"acked", "failed"}
          \/ command[e].status = "running" /\ command[e].claimedLeaseToken = h
      BY <1>6, <2>3, <3>1 DEF TakeStep
    <3> QED
      BY <3>2, EntryOf
  <2>4. h \notin {NoToken, tok}
    BY <1>6 DEF TakeStep
  <2> HIDE DEF tok, n, seq, h
  <2>5. /\ (QueueEntry(c))'.holder = h /\ QueueEntry(c).place = seq
        /\ QueueEntry(c).holder = tok /\ QueueEntry(c).takes = n /\ QueueEntry(c).state \in {"open", "held"}
    BY <2>1, <2>2
  <2>6. Queue!Take(c)
    BY <1>2, <1>3, <2>2, <2>3, <2>4, <2>5 DEF Queue!Take, Queue!Line, Queue!Moved
  <2> QED
    BY <2>6 DEF Queue!Step
<1>7. CASE GiveBackStep(c)
  <2>1. QueueEntry(c) = Row("held", tok, n, seq)
    BY <1>7, EntryOf DEF GiveBackStep
  <2>2. (QueueEntry(c))' = Row("open", NoToken, n, seq)
    BY <1>7 DEF GiveBackStep, QueueEntry
  <2>3. Queue!GiveBack(c)
    BY <1>2, <1>3, <2>1, <2>2 DEF Queue!GiveBack, Queue!Moved
  <2> QED
    BY <2>3 DEF Queue!Step
<1>8. CASE FinishStep(c)
  <2>1. QueueEntry(c) = Row("held", tok, n, seq)
    BY <1>8, EntryOf DEF FinishStep
  <2>2. (QueueEntry(c))' = Row("done", tok, n, seq)
    BY <1>8 DEF FinishStep, QueueEntry
  <2>3. Queue!Finish(c)
    BY <1>2, <1>3, <2>1, <2>2 DEF Queue!Finish, Queue!Moved
  <2> QED
    BY <2>3 DEF Queue!Step
<1> QED
  BY <1>4, <1>5, <1>6, <1>7, <1>8 DEF QueueStep

\* The store implements the queue, for any number of sessions, workers and
\* commands and whatever the clocks, deadlines and quotas are.
THEOREM StoreIsAQueue == Spec => ImplementsQueue
<1>1. Init => Queue!Init
  BY DEF Init, Queue!Init, Queue!Absent, QueueEntry, NoCommand
<1>2. QInv /\ [Next]_storeVars => [Queue!Next]_[c \in Commands |-> QueueEntry(c)]
  <2> SUFFICES ASSUME QInv, [Next]_storeVars PROVE Queue!Next
    OBVIOUS
  <2>1. \A c \in Commands : (QueueEntry(c))' = QueueEntry(c) \/ Queue!Step(c)
    BY StoreQueueSteps, EntrySteps DEF QInv
  <2> QED
    BY <2>1 DEF Queue!Next
<1> QED
  BY <1>1, <1>2, SpecQInv, PTL DEF Spec, Queue!Spec, ImplementsQueue
=============================================================================

---------------------------- MODULE WorkflowsProofs ----------------------------
(* Theorems about Workflows, for any number of workflows, runs, schedulers and *)
(* requests, any schedule, any skew and any number of disruptions.             *)
EXTENDS Workflows, FiniteSetTheorems, WellFoundedInduction, TLAPS

-----------------------------------------------------------------------------
(* The inductive invariant, in four layers above the type invariant *)

\* A run that exists belongs to a workflow, an activation at work has one, and
\* from "start" on it has a run that exists; an ending says what comes after it.
RefsOK ==
  /\ \A r \in Runs : IF run[r].status = "absent" THEN run[r] = NoSuchRun
                                                 ELSE run[r].workflow \in Workflows
  /\ \A p \in Starters : starter[p].pc # "idle" => starter[p].workflow \in Workflows
  /\ \A p \in Starters : starter[p].pc \in {"start", "enqueue", "fail"} =>
       starter[p].run \in Runs /\ run[starter[p].run].status # "absent"
  /\ \A r \in Runs : ending[r] # NoEnding => ending[r].after \in AfterRun

Rows == WorkflowTypeOK /\ RefsOK

WorkflowRow == [status : Statuses, next : Nat]
RunStatuses == {"absent", "queued", "running"} \cup Terminal
RunRow == [status : RunStatuses, workflow : Workflows \cup {NoWorkflow}, slot : Nat,
           claim : Nat, ttl : Int, attempts : Nat]
EndingRow == [after : {"none"} \cup AfterRun, next : Nat]
UpdateRow == [id : Nat, workflow : Workflows, status : AfterRun, next : Nat]
StarterRow == [pc : {"idle", "create", "start", "enqueue", "fail"},
               workflow : Workflows \cup {NoWorkflow}, run : Runs \cup {NoRun},
               claim : Nat, after : AfterRun]

Exclusive == OpenRunHoldsWorkflow /\ OneOpenRun

\* What makes PromptFollowsAttach inductive: only an attached run is about to be
\* prompted, and only a prompted one about to be ended.
PromptsOK ==
  /\ PromptFollowsAttach
  /\ \A p \in Starters : starter[p].pc = "enqueue" =>
       run[starter[p].run].status \in {"running"} \cup Terminal
  /\ \A r \in Runs : ending[r] # NoEnding => prompt[r] # "absent"

\* What makes SlotFiresOnce inductive: a slot is used when it is past, and the
\* next slot of an active workflow, or the one a worker is about to write, comes
\* after every slot that was used.
Excused == resumed \cup rearmed

SlotsOK ==
  /\ \A r \in Runs : run[r].slot <= now
  /\ \A r \in Runs :
       LET w == run[r].workflow
       IN  /\ run[r].status # "absent" /\ w \notin Excused
           /\ workflow[w].status = "active" /\ workflow[w].next # 0
           => run[r].slot < workflow[w].next
  /\ \A r, q \in Runs :
       /\ Open(r) /\ ending[r].next # 0
       /\ run[q].workflow = run[r].workflow /\ run[r].workflow \notin Excused
       => run[q].slot < ending[r].next
  /\ \A r, q \in Runs : r # q /\ SameSlot(r, q) => run[r].workflow \in Excused

IInv ==
  /\ Rows
  /\ Exclusive
  /\ OneClaimant
  /\ PromptsOK
  /\ Skew = 0 => SlotsOK

-----------------------------------------------------------------------------
(* Slots *)

\* A set of instants that is not empty has a first one.
LEMMA FirstInstant ==
  ASSUME NEW S \in SUBSET Nat, S # {}
  PROVE  \E x \in S : \A y \in S : x <= y
<1> DEFINE T == {0 .. x : x \in S}
<1>1. T \subseteq FiniteSubsetsOf(Nat) /\ T # {}
  <2>1. \A x \in S : 0 .. x \in SUBSET Nat /\ IsFiniteSet(0 .. x)
    BY FS_Interval
  <2> QED
    BY <2>1 DEF FiniteSubsetsOf
<1> HIDE DEF T
<1>2. PICK U \in T : \A V \in T : <<V, U>> \notin StrictSubsetOrdering(Nat)
  BY <1>1, FS_StrictSubsetOrderingWellFounded, WFMin
<1>3. PICK x \in S : U = 0 .. x
  BY DEF T
<1>4. ASSUME NEW y \in S, y < x PROVE FALSE
  <2>1. 0 .. y \in T
    BY DEF T
  <2>2. 0 .. y \in SUBSET Nat /\ 0 .. x \in SUBSET Nat /\ 0 .. y \subseteq 0 .. x
    BY <1>4
  <2>3. x \in 0 .. x /\ x \notin 0 .. y
    BY <1>4
  <2> QED
    BY <1>2, <1>3, <2>1, <2>2, <2>3 DEF StrictSubsetOrdering
<1> QED
  BY <1>4

\* The next slot is NULL or in the future of the clock it is computed with.
LEMMA NextSlotFacts ==
  ASSUME NEW w \in Workflows, NEW t \in Int
  PROVE  /\ NextSlot(w, t) \in Nat
         /\ NextSlot(w, t) # 0 => t < NextSlot(w, t)
<1> DEFINE coming == {s \in SlotsOf[w] : s > t}
<1>1. coming \in SUBSET Nat
  BY WorkflowConstants
<1>2. CASE coming = {}
  BY <1>2 DEF NextSlot
<1>3. CASE coming # {}
  <2>1. \E s \in coming : \A u \in coming : s <= u
    BY <1>1, <1>3, FirstInstant
  <2>2. NextSlot(w, t) \in coming
    BY <1>3, <2>1 DEF NextSlot
  <2> QED
    BY <1>1, <2>2
<1> QED
  BY <1>2, <1>3

LEMMA NextAfterFacts ==
  ASSUME NEW w \in Workflows, NEW t \in Int, NEW after
  PROVE  /\ NextAfter(w, after, t) \in Nat
         /\ NextAfter(w, after, t) # 0 => t < NextAfter(w, after, t)
  BY NextSlotFacts DEF NextAfter

LEMMA ClockTyped == Clock \subseteq Int /\ (Skew = 0 => Clock = {0})
  BY WorkflowConstants DEF Clock

-----------------------------------------------------------------------------
(* Types and references *)

LEMMA InitRows == Init => Rows
  BY WorkflowConstants
  DEF Init, Rows, WorkflowTypeOK, RefsOK, Idle, NoSuchRun, NoEnding, Starters, Statuses, AfterRun, Terminal

LEMMA RowTypes ==
  WorkflowTypeOK <=>
    /\ workflow \in [Workflows -> WorkflowRow]
    /\ run \in [Runs -> RunRow]
    /\ prompt \in [Runs -> {"absent", "open", "acked", "failed"}]
    /\ ending \in [Runs -> EndingRow]
    /\ starter \in [Starters -> StarterRow]
    /\ updates \subseteq UpdateRow
    /\ now \in Nat /\ now >= Skew
    /\ resumed \subseteq Workflows /\ rearmed \subseteq Workflows
    /\ disruptions \in Nat
  BY DEF WorkflowTypeOK, WorkflowRow, RunRow, RunStatuses, EndingRow, StarterRow, UpdateRow

LEMMA RunRowFields ==
  ASSUME NEW x \in RunRow
  PROVE  /\ x.status \in RunStatuses /\ x.workflow \in Workflows \cup {NoWorkflow} /\ x.slot \in Nat
         /\ x.claim \in Nat /\ x.ttl \in Int /\ x.attempts \in Nat
         /\ \A st \in RunStatuses : [x EXCEPT !.status = st] \in RunRow
         /\ \A c, a \in Nat, t \in Int : [x EXCEPT !.claim = c, !.attempts = a, !.ttl = t] \in RunRow
         /\ \A t \in Int : [x EXCEPT !.ttl = t] \in RunRow
  BY DEF RunRow

\* A claim counts the attempt, takes a live time to live and leaves the rest.
LEMMA NewRunRow ==
  ASSUME NEW w \in Workflows, NEW slot \in Nat, NEW d \in Clock
  PROVE  NewRun(w, slot, d) \in RunRow
  BY WorkflowConstants, ClockTyped DEF NewRun, RunRow, RunStatuses

LEMMA UnclaimedRow ==
  ASSUME NEW x \in RunRow
  PROVE  /\ \A st \in RunStatuses : [x EXCEPT !.status = st, !.claim = 0, !.ttl = 0] \in RunRow
         /\ [x EXCEPT !.claim = 0, !.ttl = 0] \in RunRow
<1>1. /\ \A st \in RunStatuses, c \in Nat, t \in Int :
           [x EXCEPT !.status = st, !.claim = c, !.ttl = t] \in RunRow
      /\ \A c \in Nat, t \in Int : [x EXCEPT !.claim = c, !.ttl = t] \in RunRow
  BY DEF RunRow
<1>2. 0 \in Nat /\ 0 \in Int
  OBVIOUS
<1> QED
  BY <1>1, <1>2, Zenon

LEMMA RunUpdate ==
  ASSUME NEW r \in Runs, run \in [Runs -> RunRow], NEW row \in RunRow,
         run' = [run EXCEPT ![r] = row]
  PROVE  /\ run' \in [Runs -> RunRow]
         /\ run'[r] = row
         /\ \A q \in Runs : q # r => run'[q] = run[q]
  OBVIOUS

LEMMA WorkflowUpdate ==
  ASSUME NEW w \in Workflows, workflow \in [Workflows -> WorkflowRow], NEW row \in WorkflowRow,
         workflow' = [workflow EXCEPT ![w] = row]
  PROVE  /\ workflow' \in [Workflows -> WorkflowRow]
         /\ workflow'[w] = row
         /\ \A v \in Workflows : v # w => workflow'[v] = workflow[v]
  OBVIOUS

LEMMA WorkflowRuns ==
  ASSUME NEW w \in Workflows, workflow \in [Workflows -> WorkflowRow],
         workflow' = [workflow EXCEPT ![w].status = "running"]
  PROVE  /\ workflow' \in [Workflows -> WorkflowRow]
         /\ workflow'[w].status = "running"
         /\ workflow'[w].next = workflow[w].next
         /\ \A v \in Workflows : v # w => workflow'[v] = workflow[v]
  BY DEF WorkflowRow, Statuses

LEMMA StarterUpdate ==
  ASSUME NEW p \in Starters, starter \in [Starters -> StarterRow], NEW row \in StarterRow,
         starter' = [starter EXCEPT ![p] = row]
  PROVE  /\ starter' \in [Starters -> StarterRow]
         /\ starter'[p] = row
         /\ \A q \in Starters : q # p => starter'[q] = starter[q]
  OBVIOUS

LEMMA StarterMoves ==
  ASSUME NEW p \in Starters, starter \in [Starters -> StarterRow],
         NEW pc \in {"create", "start", "enqueue", "fail"}, Move(p, pc)
  PROVE  /\ starter' \in [Starters -> StarterRow]
         /\ starter'[p].pc = pc /\ starter'[p].workflow = starter[p].workflow
         /\ starter'[p].run = starter[p].run /\ starter'[p].claim = starter[p].claim
         /\ starter'[p].after = starter[p].after
         /\ \A q \in Starters : q # p => starter'[q] = starter[q]
  BY DEF Move, StarterRow

LEMMA StarterLeaves ==
  ASSUME NEW p \in Starters, starter \in [Starters -> StarterRow], Leave(p)
  PROVE  /\ starter' \in [Starters -> StarterRow]
         /\ starter'[p].pc = "idle"
         /\ \A q \in Starters : q # p => starter'[q] = starter[q]
<1>1. Idle \in StarterRow /\ Idle.pc = "idle"
  BY DEF Idle, StarterRow, AfterRun
<1> QED
  BY <1>1, StarterUpdate DEF Leave

\* The end of a run, written by a starter or by a worker: of an open run the
\* status changes and its workflow gets a status and a next slot.
LEMMA FinishFacts ==
  ASSUME Rows, NEW r \in Runs, NEW kind \in Terminal, NEW after \in AfterRun, NEW next \in Nat,
         Finish(r, kind, after, next), Open(r)
  PROVE  LET w == run[r].workflow
         IN  /\ w \in Workflows
             /\ workflow' \in [Workflows -> WorkflowRow]
             /\ workflow'[w].status = after /\ workflow'[w].next = next
             /\ \A v \in Workflows : v # w => workflow'[v] = workflow[v]
             /\ run' \in [Runs -> RunRow]
             /\ run'[r] = [run[r] EXCEPT !.status = kind]
             /\ \A q \in Runs : q # r => run'[q] = run[q]
<1> DEFINE row == [status |-> after, next |-> next]
           ended == [run[r] EXCEPT !.status = kind]
<1>1. /\ run' = [run EXCEPT ![r] = ended]
      /\ workflow' = [workflow EXCEPT ![run[r].workflow] = row]
  BY DEF Finish
<1>2. run[r].workflow \in Workflows
  BY DEF Rows, RefsOK, Open
<1>3. row \in WorkflowRow
  BY DEF WorkflowRow, Statuses, AfterRun
<1>4. run[r] \in RunRow
  BY RowTypes DEF Rows
<1>5. ended \in RunRow
  BY <1>4, RunRowFields DEF RunStatuses
<1> QED
  BY <1>1, <1>2, <1>3, <1>5, RunUpdate, WorkflowUpdate, RowTypes DEF Rows

-----------------------------------------------------------------------------
(* What the actions do to the rows *)

\* Only run r and only workflow w change.
OnlyRun(r) == \A q \in Runs : q # r => run'[q] = run[q]
OnlyWorkflow(w) == \A v \in Workflows : v # w => workflow'[v] = workflow[v]
OnlyStarter(p) == \A q \in Starters : q # p => starter'[q] = starter[q]

Typed == workflow' \in [Workflows -> WorkflowRow] /\ run' \in [Runs -> RunRow] /\ starter' \in [Starters -> StarterRow]

\* A run is created, by a request or for a slot that is due.
Created(p, w, r) ==
  /\ w \in Workflows
  /\ run[r].status = "absent"
  /\ workflow[w].status \in {"active", "failed"}
  /\ run'[r].status = "queued" /\ run'[r].workflow = w
  /\ run'[r].claim = 1 /\ run'[r].attempts = 1
  /\ \/ run'[r].slot = 0
     \/ /\ workflow[w].status = "active" /\ workflow[w].next # 0
        /\ run'[r].slot = workflow[w].next /\ \E d \in Clock : workflow[w].next <= now + d
  /\ workflow'[w].status = "running" /\ workflow'[w].next = workflow[w].next
  /\ starter'[p].pc = "start" /\ starter'[p].run = r /\ starter'[p].claim = 1 /\ starter'[p].workflow = w
  /\ OnlyRun(r) /\ OnlyWorkflow(w) /\ OnlyStarter(p)
  /\ Typed

LEMMA CreateWorkflowRunFacts ==
  ASSUME Rows, NEW p \in Starters, NEW r \in Runs, NEW d \in Clock, CreateWorkflowRun(p, r, d)
  PROVE  Created(p, starter[p].workflow, r)
<1> DEFINE w == starter[p].workflow
           moved == [starter[p] EXCEPT !.pc = "start", !.run = r, !.claim = 1]
<1>1. /\ workflow \in [Workflows -> WorkflowRow] /\ run \in [Runs -> RunRow]
      /\ starter \in [Starters -> StarterRow]
  BY RowTypes DEF Rows
<1>2. w \in Workflows
  BY DEF CreateWorkflowRun, Rows, RefsOK
<1>3. /\ run[r].status = "absent" /\ workflow[w].status \in {"active", "failed"}
      /\ run' = [run EXCEPT ![r] = NewRun(w, 0, d)]
      /\ workflow' = [workflow EXCEPT ![w].status = "running"]
      /\ starter' = [starter EXCEPT ![p] = moved]
  <2>1. starter' = [starter EXCEPT ![p].pc = "start", ![p].run = r, ![p].claim = 1]
    BY DEF CreateWorkflowRun
  <2>2. starter' = [starter EXCEPT ![p] = moved]
    BY <1>1, <2>1
  <2> QED
    BY <2>2 DEF CreateWorkflowRun, Runnable
<1>4. NewRun(w, 0, d) \in RunRow
  BY <1>2, NewRunRow
<1>5. run' \in [Runs -> RunRow] /\ run'[r] = NewRun(w, 0, d) /\ OnlyRun(r)
  BY <1>1, <1>3, <1>4, RunUpdate DEF OnlyRun
<1>6. /\ workflow' \in [Workflows -> WorkflowRow] /\ OnlyWorkflow(w)
      /\ workflow'[w].status = "running" /\ workflow'[w].next = workflow[w].next
  BY <1>1, <1>2, <1>3, WorkflowRuns DEF OnlyWorkflow
<1>7. /\ moved \in StarterRow
      /\ moved.pc = "start" /\ moved.run = r /\ moved.claim = 1 /\ moved.workflow = w
  <2>1. starter[p] \in StarterRow
    BY <1>1
  <2> QED
    BY <2>1 DEF StarterRow
<1>8. starter' \in [Starters -> StarterRow] /\ starter'[p] = moved /\ OnlyStarter(p)
  BY <1>1, <1>3, <1>7, StarterUpdate DEF OnlyStarter
<1> HIDE DEF moved
<1> QED
  BY <1>2, <1>3, <1>5, <1>6, <1>7, <1>8 DEF Created, Typed, NewRun

LEMMA ClaimedFacts ==
  ASSUME Rows, NEW p \in Starters, NEW w \in Workflows, NEW r \in Runs, NEW claim \in Nat, Claimed(p, w, r, claim)
  PROVE  /\ starter' \in [Starters -> StarterRow] /\ OnlyStarter(p)
         /\ starter'[p].pc = "start" /\ starter'[p].run = r /\ starter'[p].claim = claim
         /\ starter'[p].workflow = w
<1> DEFINE row == [pc |-> "start", workflow |-> w, run |-> r, claim |-> claim, after |-> "active"]
<1>1. row \in StarterRow
  BY DEF StarterRow, AfterRun
<1> QED
  BY <1>1, StarterUpdate, RowTypes DEF Rows, Claimed, OnlyStarter

LEMMA ClaimDueFacts ==
  ASSUME Rows, NEW p \in Starters, NEW w \in Workflows, NEW r \in Runs, NEW d \in Clock, ClaimDue(p, w, r, d)
  PROVE  Created(p, w, r)
<1> DEFINE row == NewRun(w, workflow[w].next, d)
<1>1. workflow \in [Workflows -> WorkflowRow] /\ run \in [Runs -> RunRow] /\ workflow[w].next \in Nat
  BY RowTypes DEF Rows, WorkflowRow
<1>2. row \in RunRow
  BY <1>1, NewRunRow
<1>3. run' \in [Runs -> RunRow] /\ run'[r] = row /\ OnlyRun(r)
  BY <1>1, <1>2, RunUpdate DEF ClaimDue, OnlyRun
<1>4. /\ workflow' \in [Workflows -> WorkflowRow] /\ OnlyWorkflow(w)
      /\ workflow'[w].status = "running" /\ workflow'[w].next = workflow[w].next
  BY <1>1, WorkflowRuns DEF ClaimDue, OnlyWorkflow
<1>5. /\ starter' \in [Starters -> StarterRow] /\ OnlyStarter(p)
      /\ starter'[p].pc = "start" /\ starter'[p].run = r /\ starter'[p].claim = 1 /\ starter'[p].workflow = w
  BY ClaimedFacts DEF ClaimDue
<1> QED
  BY <1>3, <1>4, <1>5 DEF Created, Typed, ClaimDue, Due, NewRun

\* An unclaimed run gets a new claim, which nobody has had.
Retried(p, r) ==
  /\ Open(r) /\ run[r].workflow \in Workflows
  /\ run'[r].status = run[r].status /\ run'[r].workflow = run[r].workflow
  /\ run'[r].slot = run[r].slot
  /\ run'[r].claim = run[r].attempts + 1 /\ run'[r].attempts = run[r].attempts + 1
  /\ workflow[run[r].workflow].status = "running"
  /\ workflow'[run[r].workflow].status = "running"
  /\ workflow'[run[r].workflow].next = workflow[run[r].workflow].next
  /\ starter'[p].pc = "start" /\ starter'[p].run = r /\ starter'[p].claim = run[r].attempts + 1
  /\ starter'[p].workflow = run[r].workflow
  /\ OnlyRun(r) /\ OnlyWorkflow(run[r].workflow) /\ OnlyStarter(p)
  /\ Typed

LEMMA ClaimRetryFacts ==
  ASSUME Rows, NEW p \in Starters, NEW r \in Runs, NEW d \in Clock, ClaimRetry(p, r, d)
  PROVE  Retried(p, r)
<1> DEFINE w == run[r].workflow
           claim == run[r].attempts + 1
           row == [run[r] EXCEPT !.claim = claim, !.attempts = claim, !.ttl = ClaimTTL + d]
<1>1. workflow \in [Workflows -> WorkflowRow] /\ run \in [Runs -> RunRow] /\ run[r] \in RunRow
  BY RowTypes DEF Rows
<1>2. claim \in Nat /\ ClaimTTL + d \in Int
  <2>1. run[r].attempts \in Nat
    BY <1>1, RunRowFields
  <2> QED
    BY <2>1, WorkflowConstants, ClockTyped
<1>3. row \in RunRow
  BY <1>1, <1>2, RunRowFields
<1>4. Open(r) /\ w \in Workflows /\ workflow[w].status = "running"
  BY DEF ClaimRetry, Retryable, Rows, RefsOK, Open
<1>5. /\ run' = [run EXCEPT ![r] = row]
      /\ workflow' = [workflow EXCEPT ![w].status = "running"]
      /\ Claimed(p, w, r, claim)
  BY DEF ClaimRetry
<1>6. run' \in [Runs -> RunRow] /\ run'[r] = row /\ OnlyRun(r)
  BY <1>1, <1>3, <1>5, RunUpdate DEF OnlyRun
<1>7. /\ row.status = run[r].status /\ row.workflow = w /\ row.slot = run[r].slot
      /\ row.claim = claim /\ row.attempts = claim
  BY <1>1 DEF RunRow
<1>8. /\ workflow' \in [Workflows -> WorkflowRow] /\ OnlyWorkflow(w)
      /\ workflow'[w].status = "running" /\ workflow'[w].next = workflow[w].next
  BY <1>1, <1>4, <1>5, WorkflowRuns DEF OnlyWorkflow
<1>9. /\ starter' \in [Starters -> StarterRow] /\ OnlyStarter(p)
      /\ starter'[p].pc = "start" /\ starter'[p].run = r /\ starter'[p].claim = claim /\ starter'[p].workflow = w
  BY <1>2, <1>4, <1>5, ClaimedFacts
<1> HIDE DEF row
<1> QED
  BY <1>4, <1>6, <1>7, <1>8, <1>9 DEF Retried, Typed

\* The claim is spent: the run is running and its starter about to prompt it.
Attached(p, r) ==
  LET w == run[r].workflow
  IN  /\ starter[p].pc = "start" /\ starter[p].run = r
      /\ w \in Workflows /\ Open(r)
      /\ run'[r].status = "running" /\ run'[r].workflow = w
      /\ run'[r].slot = run[r].slot /\ run'[r].attempts = run[r].attempts
      /\ workflow'[w].status = "running" /\ workflow'[w].next = workflow[w].next
      /\ starter'[p].pc = "enqueue" /\ starter'[p].workflow = starter[p].workflow
      /\ starter'[p].run = r
      /\ OnlyRun(r) /\ OnlyWorkflow(w) /\ OnlyStarter(p)
      /\ Typed

LEMMA AttachFacts ==
  ASSUME Rows, NEW p \in Starters, NEW d \in Clock, AttachWorkflowRunSession(p, d)
  PROVE  starter[p].run \in Runs /\ Attached(p, starter[p].run)
<1> DEFINE r == starter[p].run
           w == run[r].workflow
           row == [run[r] EXCEPT !.status = "running", !.claim = 0, !.ttl = 0]
<1>1. Open(r) /\ r \in Runs /\ w \in Workflows
  BY DEF AttachWorkflowRunSession, Attachable, Rows, RefsOK, Open
<1>2. /\ workflow \in [Workflows -> WorkflowRow] /\ run \in [Runs -> RunRow] /\ run[r] \in RunRow
      /\ starter \in [Starters -> StarterRow]
  BY <1>1, RowTypes DEF Rows
<1>3. row \in RunRow
  BY <1>2, UnclaimedRow DEF RunStatuses
<1>4. /\ run' = [run EXCEPT ![r] = row]
      /\ workflow' = [workflow EXCEPT ![w].status = "running"]
      /\ Move(p, "enqueue")
  BY DEF AttachWorkflowRunSession
<1>5. run' \in [Runs -> RunRow] /\ run'[r] = row /\ OnlyRun(r)
  BY <1>1, <1>2, <1>3, <1>4, RunUpdate DEF OnlyRun
<1>6. /\ row.status = "running" /\ row.workflow = w
      /\ row.slot = run[r].slot /\ row.attempts = run[r].attempts
  BY <1>2 DEF RunRow
<1>7. /\ workflow' \in [Workflows -> WorkflowRow] /\ OnlyWorkflow(w)
      /\ workflow'[w].status = "running" /\ workflow'[w].next = workflow[w].next
  BY <1>1, <1>2, <1>4, WorkflowRuns DEF OnlyWorkflow
<1>8. /\ starter' \in [Starters -> StarterRow] /\ OnlyStarter(p) /\ starter'[p].pc = "enqueue"
      /\ starter'[p].workflow = starter[p].workflow /\ starter'[p].run = r
  BY <1>2, <1>4, StarterMoves DEF OnlyStarter
<1> HIDE DEF row
<1> QED
  BY <1>1, <1>5, <1>6, <1>7, <1>8 DEF Attached, Typed, AttachWorkflowRunSession

\* An expired claim is taken away, or the run fails with its workflow.
Reaped(r) ==
  LET w == run[r].workflow
  IN  /\ w \in Workflows /\ Open(r)
      /\ run'[r].workflow = w
      /\ run'[r].slot = run[r].slot /\ run'[r].attempts = run[r].attempts
      /\ \/ run'[r].status = "failed" /\ workflow'[w].status = "failed" /\ workflow'[w].next = 0
         \/ /\ run'[r].status = run[r].status
            /\ workflow'[w].status = "running" /\ workflow'[w].next = workflow[w].next
      /\ OnlyRun(r) /\ OnlyWorkflow(w)
      /\ Typed

LEMMA ReapFacts ==
  ASSUME Rows, NEW r \in Runs, NEW d \in Clock, Reap(r, d)
  PROVE  Reaped(r)
<1> DEFINE w == run[r].workflow
           failed == [run[r] EXCEPT !.status = "failed", !.claim = 0, !.ttl = 0]
           freed == [run[r] EXCEPT !.claim = 0, !.ttl = 0]
           row == [status |-> "failed", next |-> 0]
<1>1. Open(r) /\ w \in Workflows
  BY DEF Reap, Reapable, Rows, RefsOK, Open
<1>2. /\ workflow \in [Workflows -> WorkflowRow] /\ run \in [Runs -> RunRow] /\ run[r] \in RunRow
      /\ starter \in [Starters -> StarterRow] /\ starter' = starter
  BY RowTypes DEF Rows, Reap
<1>3. failed \in RunRow /\ freed \in RunRow
  BY <1>2, UnclaimedRow DEF RunStatuses, Terminal
<1>4. /\ failed.status = "failed" /\ failed.workflow = w
      /\ failed.slot = run[r].slot /\ failed.attempts = run[r].attempts
      /\ freed.status = run[r].status /\ freed.workflow = w
      /\ freed.slot = run[r].slot /\ freed.attempts = run[r].attempts
  BY <1>2 DEF RunRow
<1>5. row \in WorkflowRow /\ row.status = "failed" /\ row.next = 0
  BY DEF WorkflowRow, Statuses
<1>6. CASE run[r].attempts >= MaxAttempts
  <2>1. run' = [run EXCEPT ![r] = failed] /\ workflow' = [workflow EXCEPT ![w] = row]
    BY <1>6 DEF Reap
  <2>2. run' \in [Runs -> RunRow] /\ run'[r] = failed /\ OnlyRun(r)
    BY <1>2, <1>3, <2>1, RunUpdate DEF OnlyRun
  <2>3. workflow' \in [Workflows -> WorkflowRow] /\ workflow'[w] = row /\ OnlyWorkflow(w)
    BY <1>1, <1>2, <1>5, <2>1, WorkflowUpdate DEF OnlyWorkflow
  <2> HIDE DEF failed, freed, row
  <2> QED
    BY <1>1, <1>2, <1>4, <1>5, <2>2, <2>3 DEF Reaped, Typed
<1>7. CASE ~(run[r].attempts >= MaxAttempts)
  <2>1. run' = [run EXCEPT ![r] = freed] /\ workflow' = [workflow EXCEPT ![w].status = "running"]
    BY <1>7 DEF Reap
  <2>2. run' \in [Runs -> RunRow] /\ run'[r] = freed /\ OnlyRun(r)
    BY <1>2, <1>3, <2>1, RunUpdate DEF OnlyRun
  <2>3. /\ workflow' \in [Workflows -> WorkflowRow] /\ OnlyWorkflow(w)
        /\ workflow'[w].status = "running" /\ workflow'[w].next = workflow[w].next
    BY <1>1, <1>2, <2>1, WorkflowRuns DEF OnlyWorkflow
  <2> HIDE DEF failed, freed, row
  <2> QED
    BY <1>1, <1>2, <1>4, <2>2, <2>3 DEF Reaped, Typed
<1> QED
  BY <1>6, <1>7

\* The end of an open run.
Ended(r, kind, after, next) ==
  LET w == run[r].workflow
  IN  /\ w \in Workflows /\ Open(r)
      /\ run'[r].status = kind /\ run'[r].workflow = w
      /\ run'[r].slot = run[r].slot /\ run'[r].attempts = run[r].attempts
      /\ workflow'[w].status = after /\ workflow'[w].next = next
      /\ OnlyRun(r) /\ OnlyWorkflow(w)
      /\ workflow' \in [Workflows -> WorkflowRow] /\ run' \in [Runs -> RunRow]

LEMMA EndedFacts ==
  ASSUME Rows, NEW r \in Runs, NEW kind \in Terminal, NEW after \in AfterRun, NEW next \in Nat,
         Finish(r, kind, after, next)
  PROVE  Ended(r, kind, after, next) \/ UNCHANGED <<run, workflow>>
<1>1. CASE Open(r)
  <2>1. run[r] \in RunRow
    BY RowTypes DEF Rows
  <2> DEFINE row == [run[r] EXCEPT !.status = kind]
  <2>2. /\ row.status = kind /\ row.workflow = run[r].workflow
        /\ row.slot = run[r].slot /\ row.attempts = run[r].attempts
    BY <2>1 DEF RunRow
  <2>3. /\ run[r].workflow \in Workflows
        /\ workflow' \in [Workflows -> WorkflowRow] /\ run' \in [Runs -> RunRow]
        /\ workflow'[run[r].workflow].status = after /\ workflow'[run[r].workflow].next = next
        /\ run'[r] = row
        /\ OnlyRun(r) /\ OnlyWorkflow(run[r].workflow)
    BY <1>1, FinishFacts DEF OnlyRun, OnlyWorkflow
  <2> HIDE DEF row
  <2> QED
    BY <1>1, <2>2, <2>3 DEF Ended
<1>2. CASE ~Open(r)
  BY <1>2 DEF Finish
<1> QED
  BY <1>1, <1>2

\* What a starter writes when a start was refused: its next slot is to come.
LEMMA FailFacts ==
  ASSUME Rows, NEW p \in Starters, NEW d \in Clock, FailWorkflowRun(p, d)
  PROVE  /\ \/ \E after \in AfterRun, next \in Nat :
                 /\ Ended(starter[p].run, "failed", after, next)
                 /\ next # 0 => now + d < next
            \/ UNCHANGED <<run, workflow>>
         /\ starter[p].run \in Runs
         /\ starter' \in [Starters -> StarterRow] /\ starter'[p].pc = "idle" /\ OnlyStarter(p)
<1> DEFINE q == starter[p]
           next == NextAfter(q.workflow, q.after, now + d)
<1>1. q.pc = "fail" /\ Finish(q.run, "failed", q.after, next) /\ Leave(p)
  BY DEF FailWorkflowRun
<1>2. q \in StarterRow /\ starter \in [Starters -> StarterRow] /\ now \in Nat
  BY RowTypes DEF Rows
<1>3. q.after \in AfterRun /\ q.workflow \in Workflows /\ q.run \in Runs
  BY <1>1, <1>2 DEF Rows, RefsOK, StarterRow
<1>4. next \in Nat /\ (next # 0 => now + d < next)
  <2>1. now + d \in Int
    BY <1>2, ClockTyped
  <2> QED
    BY <1>3, <2>1, NextAfterFacts
<1>5. Ended(q.run, "failed", q.after, next) \/ UNCHANGED <<run, workflow>>
  <2> HIDE DEF next, q
  <2> QED
    BY <1>1, <1>3, <1>4, EndedFacts DEF Terminal
<1>6. starter' \in [Starters -> StarterRow] /\ starter'[p].pc = "idle" /\ OnlyStarter(p)
  BY <1>1, <1>2, StarterLeaves DEF OnlyStarter
<1> HIDE DEF next
<1> QED
  BY <1>3, <1>4, <1>5, <1>6

\* What a worker writes is what it prepared.
LEMMA ApplyFacts ==
  ASSUME Rows, NEW r \in Runs, NEW kind \in Terminal, ApplyEnding(r, kind)
  PROVE  /\ \/ /\ Ended(r, kind, ending[r].after, ending[r].next)
               /\ ending[r].after \in AfterRun /\ ending[r].next \in Nat
            \/ UNCHANGED <<run, workflow>>
         /\ ending[r] # NoEnding
         /\ ending' \in [Runs -> EndingRow] /\ ending'[r] = NoEnding
         /\ \A q \in Runs : q # r => ending'[q] = ending[q]
<1>1. ending[r].after \in AfterRun
  BY DEF ApplyEnding, Rows, RefsOK
<1>2. ending \in [Runs -> EndingRow] /\ ending[r].next \in Nat
  BY RowTypes DEF Rows, EndingRow
<1>3. Ended(r, kind, ending[r].after, ending[r].next) \/ UNCHANGED <<run, workflow>>
  BY <1>1, <1>2, EndedFacts DEF ApplyEnding
<1>4. NoEnding \in EndingRow
  BY DEF NoEnding, EndingRow
<1>5. ending' = [ending EXCEPT ![r] = NoEnding] /\ ending[r] # NoEnding
  BY DEF ApplyEnding
<1> QED
  BY <1>1, <1>2, <1>3, <1>4, <1>5

\* Time changes nothing of a run but the time to live of an open one's claim.
Elapsed ==
  /\ run' \in [Runs -> RunRow]
  /\ \A r \in Runs : /\ run'[r].status = run[r].status /\ run'[r].workflow = run[r].workflow
                     /\ run'[r].slot = run[r].slot /\ run'[r].attempts = run[r].attempts
                     /\ ~Open(r) => run'[r] = run[r]

LEMMA TickFacts ==
  ASSUME Rows, Tick
  PROVE  Elapsed /\ now' \in Nat /\ now' >= now
<1>1. run \in [Runs -> RunRow] /\ now \in Nat
  BY RowTypes DEF Rows
<1> DEFINE older(r) == [run[r] EXCEPT !.ttl = Elapse(run[r].ttl)]
<1>2. run' = [r \in Runs |-> IF Open(r) /\ run[r].claim # 0 THEN older(r) ELSE run[r]]
  BY DEF Tick
<1>3. ASSUME NEW r \in Runs
      PROVE  /\ older(r) \in RunRow
             /\ older(r).status = run[r].status /\ older(r).workflow = run[r].workflow
             /\ older(r).slot = run[r].slot /\ older(r).attempts = run[r].attempts
  <2>1. run[r] \in RunRow /\ run[r].ttl \in Int
    BY <1>1, RunRowFields
  <2>2. Elapse(run[r].ttl) \in Int
    BY <2>1, WorkflowConstants DEF Elapse
  <2> QED
    BY <2>1, <2>2 DEF RunRow
<1>4. Elapsed
  <2> HIDE DEF older
  <2> QED
    BY <1>1, <1>2, <1>3 DEF Elapsed
<1>5. now' \in Nat /\ now' >= now
  BY <1>1, WorkflowConstants DEF Tick
<1> QED
  BY <1>4, <1>5

-----------------------------------------------------------------------------
(* Every step is one of thirteen *)

Quietly == UNCHANGED <<prompt, ending, updates, now, resumed, rearmed, disruptions>>

\* A user asks for another status of a workflow.
AsksForStatus ==
  /\ updates' \subseteq UpdateRow
  /\ disruptions' \in Nat
  /\ UNCHANGED <<workflow, run, prompt, ending, starter, now, resumed, rearmed>>

\* The status of w is set: its next slot is to come on the host's clock, or was
\* not used yet, or w is excused.
SetsWorkflow(w) ==
  /\ workflow' \in [Workflows -> WorkflowRow] /\ OnlyWorkflow(w)
  /\ workflow'[w].status \in AfterRun
  /\ \/ \E d \in Clock : workflow'[w].next # 0 => now + d < workflow'[w].next
     \/ workflow'[w].status = "active" /\ workflow'[w].next # 0 =>
          \A r \in Runs : run[r].workflow = w => ~(run[r].slot >= workflow'[w].next)
     \/ w \in rearmed'
  /\ \/ workflow[w].status = "absent" /\ resumed' = resumed
     \/ (workflow'[w].status = "active" => OpenRunsOf(w) = {}) /\ resumed' = resumed
     \/ resumed' = resumed \cup {w}
  /\ rearmed \subseteq rearmed' /\ rearmed' \subseteq Workflows
  /\ updates' \subseteq UpdateRow
  /\ UNCHANGED <<run, prompt, ending, starter, now, disruptions>>

\* A starter begins, gives up or leaves, and may leave a prompt behind.
MovesOn(p) ==
  /\ starter' \in [Starters -> StarterRow] /\ OnlyStarter(p)
  /\ starter'[p].pc \in {"idle", "create", "fail"}
  /\ starter'[p].pc # "idle" => starter'[p].workflow \in Workflows
  /\ starter'[p].pc = "fail" =>
       starter[p].pc \in {"start", "enqueue"} /\ starter'[p].run = starter[p].run
  /\ \/ prompt' = prompt
     \/ /\ starter[p].pc = "enqueue" /\ starter[p].run \in Runs
        /\ prompt' \in [Runs -> {"absent", "open", "acked", "failed"}]
        /\ prompt'[starter[p].run] # "absent"
        /\ \A q \in Runs : q # starter[p].run => prompt'[q] = prompt[q]
  /\ disruptions' \in Nat
  /\ UNCHANGED <<workflow, run, ending, updates, now, resumed, rearmed>>

\* A starter fails its run and leaves.
FailsRun(p) ==
  /\ starter[p].run \in Runs
  /\ \/ \E after \in AfterRun, next \in Nat, d \in Clock :
          Ended(starter[p].run, "failed", after, next) /\ (next # 0 => now + d < next)
     \/ UNCHANGED <<run, workflow>>
  /\ starter' \in [Starters -> StarterRow] /\ starter'[p].pc = "idle" /\ OnlyStarter(p)
  /\ Quietly

\* A worker prepares an end, or writes one.
Prepares(r) ==
  /\ prompt[r] # "absent"
  /\ ending' \in [Runs -> EndingRow] /\ \A q \in Runs : q # r => ending'[q] = ending[q]
  /\ ending'[r].after \in AfterRun
  /\ \E d \in Clock : ending'[r].next # 0 => now + d < ending'[r].next
  /\ UNCHANGED <<workflow, run, prompt, starter, updates, now, resumed, rearmed, disruptions>>

Applies(r, kind) ==
  /\ \/ /\ Ended(r, kind, ending[r].after, ending[r].next)
        /\ ending[r].after \in AfterRun /\ ending[r].next \in Nat
     \/ UNCHANGED <<run, workflow>>
  /\ ending[r] # NoEnding
  /\ ending' \in [Runs -> EndingRow] /\ ending'[r] = NoEnding
  /\ \A q \in Runs : q # r => ending'[q] = ending[q]
  /\ UNCHANGED <<prompt, starter, updates, now, resumed, rearmed, disruptions>>

\* The queue settles the prompt of a run, or gives it to another worker.
Settles(r) ==
  /\ prompt' \in [Runs -> {"absent", "open", "acked", "failed"}]
  /\ prompt[r] # "absent" /\ prompt'[r] # "absent"
  /\ \A q \in Runs : q # r => prompt'[q] = prompt[q]
  /\ ending' \in [Runs -> EndingRow]
  /\ \A q \in Runs : ending'[q] = ending[q] \/ ending'[q] = NoEnding
  /\ disruptions' \in Nat
  /\ UNCHANGED <<workflow, run, starter, updates, now, resumed, rearmed>>

TimePasses ==
  /\ Elapsed /\ now' \in Nat /\ now' >= now
  /\ UNCHANGED <<workflow, prompt, ending, starter, updates, resumed, rearmed, disruptions>>

Effect ==
  \/ UNCHANGED vars
  \/ AsksForStatus
  \/ \E w \in Workflows : SetsWorkflow(w)
  \/ \E p \in Starters, w \in Workflows, r \in Runs : Created(p, w, r) /\ Quietly
  \/ \E p \in Starters, r \in Runs : Retried(p, r) /\ Quietly
  \/ \E p \in Starters, r \in Runs : Attached(p, r) /\ Quietly
  \/ \E p \in Starters : MovesOn(p)
  \/ \E p \in Starters : FailsRun(p)
  \/ \E r \in Runs : Reaped(r) /\ Quietly /\ starter' = starter
  \/ \E r \in Runs : Prepares(r)
  \/ \E r \in Runs, kind \in Terminal : Applies(r, kind)
  \/ \E r \in Runs : Settles(r)
  \/ TimePasses

LEMMA CreateWorkflowEffect ==
  ASSUME Rows, NEW w \in Workflows, NEW d \in Clock, CreateWorkflow(w, d)
  PROVE  SetsWorkflow(w)
<1> DEFINE row == [status |-> "active", next |-> NextSlot(w, now + d)]
<1>1. /\ workflow \in [Workflows -> WorkflowRow] /\ now \in Nat /\ now + d \in Int
      /\ updates \subseteq UpdateRow /\ rearmed \subseteq Workflows
  BY RowTypes, ClockTyped DEF Rows
<1>2. NextSlot(w, now + d) \in Nat /\ (NextSlot(w, now + d) # 0 => now + d < NextSlot(w, now + d))
  BY <1>1, NextSlotFacts
<1>3. row \in WorkflowRow /\ row.status = "active" /\ row.next = NextSlot(w, now + d)
  BY <1>2 DEF WorkflowRow, Statuses
<1>4. workflow' \in [Workflows -> WorkflowRow] /\ workflow'[w] = row /\ OnlyWorkflow(w)
  BY <1>1, <1>3, WorkflowUpdate DEF CreateWorkflow, OnlyWorkflow
<1> HIDE DEF row
<1> QED
  BY <1>1, <1>2, <1>3, <1>4 DEF SetsWorkflow, CreateWorkflow, AfterRun

LEMMA UpdateWorkflowStatusEffect ==
  ASSUME Rows, NEW w \in Workflows, NEW status \in AfterRun, NEW d \in Clock,
         UpdateWorkflowStatus(w, status, d)
  PROVE  AsksForStatus
<1> DEFINE next == NextAfter(w, status, now + d)
           u == [id |-> disruptions, workflow |-> w, status |-> status, next |-> next]
<1>1. now \in Nat /\ disruptions \in Nat /\ now + d \in Int /\ updates \subseteq UpdateRow
  BY RowTypes, ClockTyped DEF Rows
<1>2. next \in Nat
  BY <1>1, NextAfterFacts
<1>3. /\ updates' = updates \cup {u} /\ disruptions' = disruptions + 1
      /\ UNCHANGED <<workflow, run, prompt, ending, starter, now, resumed, rearmed>>
  BY DEF UpdateWorkflowStatus
<1> HIDE DEF next
<1>4. u \in UpdateRow
  BY <1>1, <1>2 DEF UpdateRow
<1> HIDE DEF u
<1> QED
  BY <1>1, <1>3, <1>4 DEF AsksForStatus

LEMMA SetWorkflowStatusEffect ==
  ASSUME Rows, NEW u \in updates, SetWorkflowStatus(u)
  PROVE  u.workflow \in Workflows /\ SetsWorkflow(u.workflow)
<1> DEFINE w == u.workflow
           row == [status |-> u.status, next |-> u.next]
<1>1. /\ workflow \in [Workflows -> WorkflowRow] /\ updates \subseteq UpdateRow
      /\ rearmed \subseteq Workflows
  BY RowTypes DEF Rows
<1>2. w \in Workflows /\ u.status \in AfterRun /\ u.next \in Nat
  BY <1>1 DEF UpdateRow
<1>3. /\ workflow' = [workflow EXCEPT ![w] = row] /\ updates' = updates \ {u}
      /\ UNCHANGED <<run, prompt, ending, starter, now, disruptions>>
  BY DEF SetWorkflowStatus
<1>4. row \in WorkflowRow /\ row.status = u.status /\ row.next = u.next
  BY <1>2 DEF WorkflowRow, Statuses, AfterRun
<1>5. \/ (u.status = "active" => OpenRunsOf(w) = {}) /\ resumed' = resumed
      \/ resumed' = resumed \cup {w}
  BY DEF SetWorkflowStatus
<1>6. \/ /\ u.status = "active" /\ u.next # 0 =>
              \A r \in Runs : run[r].workflow = w => ~(run[r].slot >= u.next)
         /\ rearmed' = rearmed
      \/ rearmed' = rearmed \cup {w}
  BY DEF SetWorkflowStatus
<1> HIDE DEF row, w
<1>7. workflow' \in [Workflows -> WorkflowRow] /\ workflow'[w] = row /\ OnlyWorkflow(w)
  BY <1>1, <1>2, <1>3, <1>4, WorkflowUpdate DEF OnlyWorkflow
<1>8. SetsWorkflow(w)
  BY <1>1, <1>2, <1>3, <1>4, <1>5, <1>6, <1>7 DEF SetsWorkflow
<1> QED
  BY <1>2, <1>8 DEF w

LEMMA RunWorkflowEffect ==
  ASSUME Rows, NEW p \in Starters, NEW w \in Workflows, RunWorkflow(p, w)
  PROVE  MovesOn(p)
<1> DEFINE after == StatusAfter(workflow[w].status)
           row == [Idle EXCEPT !.pc = "create", !.workflow = w, !.after = after]
<1>1. after \in AfterRun
  BY DEF StatusAfter, AfterRun
<1>2. starter \in [Starters -> StarterRow] /\ disruptions \in Nat
  BY RowTypes DEF Rows
<1>3. starter' = [starter EXCEPT ![p] = row]
  BY DEF RunWorkflow
<1> HIDE DEF after
<1>4. row \in StarterRow /\ row.pc = "create" /\ row.workflow = w
  BY <1>1 DEF Idle, StarterRow
<1> HIDE DEF row
<1>5. starter' \in [Starters -> StarterRow] /\ starter'[p] = row /\ OnlyStarter(p)
  BY <1>2, <1>3, <1>4, StarterUpdate DEF OnlyStarter
<1> QED
  BY <1>2, <1>4, <1>5 DEF MovesOn, RunWorkflow

\* A starter that gives up keeps its run and its workflow.
LEMMA GivesUpEffect ==
  ASSUME Rows, NEW p \in Starters, starter[p].pc \in {"start", "enqueue"}, Move(p, "fail"),
         UNCHANGED <<workflow, run, prompt, ending, updates, now, resumed, rearmed, disruptions>>
  PROVE  MovesOn(p)
<1>1. starter \in [Starters -> StarterRow] /\ disruptions \in Nat /\ starter[p].workflow \in Workflows
  BY RowTypes DEF Rows, RefsOK
<1>2. /\ starter' \in [Starters -> StarterRow] /\ OnlyStarter(p)
      /\ starter'[p].pc = "fail" /\ starter'[p].run = starter[p].run
      /\ starter'[p].workflow = starter[p].workflow
  BY <1>1, StarterMoves DEF OnlyStarter
<1> QED
  BY <1>1, <1>2 DEF MovesOn

LEMMA LeavesEffect ==
  ASSUME Rows, NEW p \in Starters, Leave(p), disruptions' \in Nat,
         UNCHANGED <<workflow, run, prompt, ending, updates, now, resumed, rearmed>>
  PROVE  MovesOn(p)
<1>1. starter \in [Starters -> StarterRow]
  BY RowTypes DEF Rows
<1>2. starter' \in [Starters -> StarterRow] /\ starter'[p].pc = "idle" /\ OnlyStarter(p)
  BY <1>1, StarterLeaves DEF OnlyStarter
<1> QED
  BY <1>2 DEF MovesOn

LEMMA EnqueuePromptEffect ==
  ASSUME Rows, NEW p \in Starters, EnqueuePrompt(p)
  PROVE  MovesOn(p)
<1> DEFINE r == starter[p].run
<1>1. /\ starter \in [Starters -> StarterRow] /\ disruptions \in Nat
      /\ prompt \in [Runs -> {"absent", "open", "acked", "failed"}]
  BY RowTypes DEF Rows
<1>2. starter[p].pc = "enqueue" /\ r \in Runs
  BY DEF EnqueuePrompt, Rows, RefsOK
<1>3. prompt' = [prompt EXCEPT ![r] = IF prompt[r] = "absent" THEN "open" ELSE prompt[r]]
  BY DEF EnqueuePrompt
<1>4. /\ prompt' \in [Runs -> {"absent", "open", "acked", "failed"}]
      /\ prompt'[r] # "absent"
      /\ \A q \in Runs : q # r => prompt'[q] = prompt[q]
  BY <1>1, <1>2, <1>3
<1>5. starter' \in [Starters -> StarterRow] /\ starter'[p].pc = "idle" /\ OnlyStarter(p)
  BY <1>1, StarterLeaves DEF EnqueuePrompt, OnlyStarter
<1> QED
  BY <1>1, <1>2, <1>4, <1>5 DEF MovesOn, EnqueuePrompt

LEMMA PrepareEndingEffect ==
  ASSUME Rows, NEW r \in Runs, NEW d \in Clock, PrepareEnding(r, d)
  PROVE  Prepares(r)
<1> DEFINE w == run[r].workflow
           after == StatusAfter(workflow[w].status)
           next == NextAfter(w, after, now + d)
           row == [after |-> after, next |-> next]
<1>1. w \in Workflows /\ prompt[r] # "absent"
  BY DEF PrepareEnding, Rows, RefsOK, Open
<1>2. ending \in [Runs -> EndingRow] /\ now \in Nat /\ now + d \in Int
  BY RowTypes, ClockTyped DEF Rows
<1>3. after \in AfterRun
  BY DEF StatusAfter, AfterRun
<1>4. next \in Nat /\ (next # 0 => now + d < next)
  <2> HIDE DEF after, w
  <2> QED
    BY <1>1, <1>2, NextAfterFacts
<1>5. ending' = [ending EXCEPT ![r] = row]
  BY DEF PrepareEnding
<1>6. UNCHANGED <<workflow, run, prompt, starter, updates, now, resumed, rearmed, disruptions>>
  BY DEF PrepareEnding
<1> HIDE DEF next, after
<1>7. row \in EndingRow /\ row.after = after /\ row.next = next
  BY <1>3, <1>4 DEF EndingRow
<1> HIDE DEF row
<1>8. /\ ending' \in [Runs -> EndingRow] /\ ending'[r] = row
      /\ \A q \in Runs : q # r => ending'[q] = ending[q]
  BY <1>2, <1>5, <1>7
<1> QED
  BY <1>1, <1>3, <1>4, <1>6, <1>7, <1>8 DEF Prepares

LEMMA SettlesEffect ==
  ASSUME Rows, NEW r \in Runs,
         AckPrompt(r) \/ \E status \in {"open", "failed"} : LoseLease(r, status)
  PROVE  Settles(r)
<1>1. /\ prompt \in [Runs -> {"absent", "open", "acked", "failed"}]
      /\ ending \in [Runs -> EndingRow] /\ disruptions \in Nat
  BY RowTypes DEF Rows
<1>2. NoEnding \in EndingRow
  BY DEF NoEnding, EndingRow
<1>3. CASE AckPrompt(r)
  BY <1>1, <1>3 DEF AckPrompt, Settles
<1>4. ASSUME NEW status \in {"open", "failed"}, LoseLease(r, status) PROVE Settles(r)
  <2>1. /\ prompt[r] = "open"
        /\ prompt' = [prompt EXCEPT ![r] = status] /\ ending' = [ending EXCEPT ![r] = NoEnding]
        /\ disruptions' \in Nat /\ UNCHANGED <<workflow, run, starter, updates, now, resumed, rearmed>>
    BY <1>1, <1>4 DEF LoseLease
  <2>2. /\ ending' \in [Runs -> EndingRow]
        /\ \A q \in Runs : ending'[q] = ending[q] \/ ending'[q] = NoEnding
    BY <1>1, <1>2, <2>1
  <2> QED
    BY <1>1, <2>1, <2>2 DEF Settles
<1> QED
  BY <1>3, <1>4

LEMMA StepEffect ==
  ASSUME Rows, [Next]_vars
  PROVE  Effect
<1> USE DEF Quietly
<1>0. disruptions \in Nat
  BY RowTypes DEF Rows
<1>1. ASSUME NEW w \in Workflows, NEW d \in Clock, CreateWorkflow(w, d) PROVE Effect
  BY <1>1, CreateWorkflowEffect DEF Effect
<1>2. ASSUME NEW w \in Workflows, NEW status \in AfterRun, NEW d \in Clock, UpdateWorkflowStatus(w, status, d)
      PROVE  Effect
  BY <1>2, UpdateWorkflowStatusEffect DEF Effect
<1>13. ASSUME NEW u \in updates, SetWorkflowStatus(u) PROVE Effect
  BY <1>13, SetWorkflowStatusEffect DEF Effect
<1>3. ASSUME NEW p \in Requests, NEW w \in Workflows, RunWorkflow(p, w) PROVE Effect
  BY <1>3, RunWorkflowEffect DEF Effect, Starters
<1>4. ASSUME NEW p \in Starters, StarterStep(p) PROVE Effect
  <2>1. ASSUME NEW r \in Runs, NEW d \in Clock, CreateWorkflowRun(p, r, d) PROVE Effect
    <3>1. Created(p, starter[p].workflow, r) /\ Quietly
      BY <2>1, CreateWorkflowRunFacts DEF CreateWorkflowRun
    <3>2. starter[p].workflow \in Workflows
      BY <3>1 DEF Created
    <3> QED
      BY <3>1, <3>2 DEF Effect
  <2>2. CASE StartRefused(p)
    <3>1. \/ Leave(p) \/ Move(p, "fail")
      BY <2>2 DEF StartRefused
    <3>2. /\ starter[p].pc = "start" /\ disruptions' \in Nat
          /\ UNCHANGED <<workflow, run, prompt, ending, updates, now, resumed, rearmed, disruptions>>
      BY <1>0, <2>2 DEF StartRefused
    <3> QED
      BY <3>1, <3>2, LeavesEffect, GivesUpEffect DEF Effect
  <2>3. ASSUME NEW d \in Clock, AttachWorkflowRunSession(p, d) PROVE Effect
    BY <2>3, AttachFacts DEF Effect, AttachWorkflowRunSession
  <2>4. CASE EnqueuePrompt(p)
    BY <2>4, EnqueuePromptEffect DEF Effect
  <2>5. CASE QueueFull(p)
    BY <2>5, GivesUpEffect DEF Effect, QueueFull
  <2>6. ASSUME NEW d \in Clock, FailWorkflowRun(p, d) PROVE Effect
    <3>1. UNCHANGED <<prompt, ending, updates, now, resumed, rearmed, disruptions>>
      BY <2>6 DEF FailWorkflowRun
    <3>2. FailsRun(p)
      BY <2>6, <3>1, FailFacts DEF FailsRun
    <3> QED
      BY <3>2 DEF Effect
  <2>7. ASSUME NEW d \in Clock, Rejected(p, d) PROVE Effect
    BY <1>0, <2>7, LeavesEffect DEF Effect, Rejected
  <2> QED
    BY <1>4, <2>1, <2>2, <2>3, <2>4, <2>5, <2>6, <2>7 DEF StarterStep
<1>5. ASSUME NEW p \in Starters, Abandon(p) PROVE Effect
  BY <1>0, <1>5, LeavesEffect DEF Effect, Abandon
<1>6. CASE ClaimRetries
  <2>1. PICK p \in Schedulers, r \in Runs, d \in Clock : ClaimRetry(p, r, d)
    BY <1>6 DEF ClaimRetries
  <2>2. p \in Starters
    BY DEF Starters
  <2>3. Retried(p, r) /\ Quietly
    BY <2>1, <2>2, ClaimRetryFacts DEF ClaimRetry
  <2> QED
    BY <2>2, <2>3 DEF Effect
<1>7. CASE ClaimsDue
  <2>1. PICK p \in Schedulers, w \in Workflows, r \in Runs, d \in Clock : ClaimDue(p, w, r, d)
    BY <1>7 DEF ClaimsDue
  <2>2. p \in Starters
    BY DEF Starters
  <2>3. Created(p, w, r) /\ Quietly
    BY <2>1, <2>2, ClaimDueFacts DEF ClaimDue
  <2> QED
    BY <2>2, <2>3 DEF Effect
<1>8. CASE Reaps
  <2>1. PICK r \in Runs, d \in Clock : Reap(r, d)
    BY <1>8 DEF Reaps
  <2>2. Reaped(r) /\ Quietly /\ starter' = starter
    BY <2>1, ReapFacts DEF Reap
  <2> QED
    BY <2>2 DEF Effect
<1>9. ASSUME NEW r \in Runs, WorkerStep(r) PROVE Effect
  <2>1. ASSUME NEW d \in Clock, PrepareEnding(r, d) PROVE Effect
    BY <2>1, PrepareEndingEffect DEF Effect
  <2>2. ASSUME NEW kind \in Terminal, ApplyEnding(r, kind) PROVE Effect
    <3>1. Applies(r, kind)
      BY <2>2, ApplyFacts DEF Applies, ApplyEnding
    <3> QED
      BY <3>1 DEF Effect
  <2>3. CASE AckPrompt(r) \/ \E status \in {"open", "failed"} : LoseLease(r, status)
    BY <2>3, SettlesEffect DEF Effect
  <2> QED
    BY <1>9, <2>1, <2>2, <2>3 DEF WorkerStep
<1>10. CASE Tick
  BY <1>10, TickFacts DEF Effect, TimePasses, Tick
<1>11. CASE UNCHANGED vars
  BY <1>11 DEF Effect
<1>12. {"active", "paused", "archived"} = AfterRun
  BY DEF AfterRun
<1> QED
  BY <1>1, <1>2, <1>3, <1>4, <1>5, <1>6, <1>7, <1>8, <1>9, <1>10, <1>11, <1>12, <1>13 DEF Next

-----------------------------------------------------------------------------
(* The layers are preserved *)

LEMMA RowsStep ==
  ASSUME Rows, Effect
  PROVE  Rows'
<1>1. /\ workflow \in [Workflows -> WorkflowRow] /\ run \in [Runs -> RunRow]
      /\ prompt \in [Runs -> {"absent", "open", "acked", "failed"}]
      /\ ending \in [Runs -> EndingRow] /\ starter \in [Starters -> StarterRow]
      /\ now \in Nat /\ now >= Skew /\ resumed \subseteq Workflows /\ disruptions \in Nat
      /\ updates \subseteq UpdateRow /\ rearmed \subseteq Workflows
  BY RowTypes DEF Rows
<1> DEFINE RowsNext ==
      /\ workflow' \in [Workflows -> WorkflowRow] /\ run' \in [Runs -> RunRow]
      /\ prompt' \in [Runs -> {"absent", "open", "acked", "failed"}]
      /\ ending' \in [Runs -> EndingRow] /\ starter' \in [Starters -> StarterRow]
      /\ now' \in Nat /\ now' >= Skew /\ resumed' \subseteq Workflows /\ disruptions' \in Nat
      /\ updates' \subseteq UpdateRow /\ rearmed' \subseteq Workflows
      /\ RefsOK'
<1>2. SUFFICES RowsNext
  <2>1. WorkflowTypeOK'
    BY DEF WorkflowTypeOK, WorkflowRow, RunRow, RunStatuses, EndingRow, StarterRow, UpdateRow
  <2> QED
    BY <2>1 DEF Rows
<1>3. RefsOK
  BY DEF Rows
<1>4. CASE UNCHANGED vars
  BY <1>1, <1>3, <1>4 DEF vars, RefsOK, NoSuchRun, NoEnding
<1>5. ASSUME NEW w \in Workflows, SetsWorkflow(w) PROVE RowsNext
  BY <1>1, <1>3, <1>5 DEF SetsWorkflow, RefsOK, NoSuchRun, NoEnding
<1>16. CASE AsksForStatus
  BY <1>1, <1>3, <1>16 DEF AsksForStatus, RefsOK, NoSuchRun, NoEnding
<1>6. ASSUME NEW p \in Starters, NEW w \in Workflows, NEW r \in Runs, Created(p, w, r), Quietly
      PROVE  RowsNext
  BY <1>1, <1>3, <1>6 DEF Created, Typed, Quietly, OnlyRun, OnlyStarter, RefsOK
<1>7. ASSUME NEW p \in Starters, NEW r \in Runs, Retried(p, r), Quietly PROVE RowsNext
  BY <1>1, <1>3, <1>7 DEF Retried, Typed, Quietly, OnlyRun, OnlyStarter, Open, RefsOK
<1>8. ASSUME NEW p \in Starters, NEW r \in Runs, Attached(p, r), Quietly PROVE RowsNext
  BY <1>1, <1>3, <1>8 DEF Attached, Typed, Quietly, OnlyRun, OnlyStarter, Open, RefsOK
<1>9. ASSUME NEW p \in Starters, MovesOn(p) PROVE RowsNext
  BY <1>1, <1>3, <1>9 DEF MovesOn, OnlyStarter, RefsOK
<1>10. ASSUME NEW p \in Starters, FailsRun(p) PROVE RowsNext
  <2>1. /\ starter' \in [Starters -> StarterRow] /\ starter'[p].pc = "idle" /\ OnlyStarter(p)
        /\ UNCHANGED <<prompt, ending, updates, now, resumed, rearmed, disruptions>>
    BY <1>10 DEF FailsRun, Quietly
  <2>2. /\ workflow' \in [Workflows -> WorkflowRow] /\ run' \in [Runs -> RunRow]
        /\ \A q \in Runs : \/ run'[q] = run[q]
                           \/ /\ run[q].status # "absent" /\ run'[q].status # "absent"
                              /\ run'[q].workflow = run[q].workflow
    BY <1>1, <1>10 DEF FailsRun, Ended, OnlyRun, Open
  <2> QED
    BY <1>1, <1>3, <2>1, <2>2 DEF OnlyStarter, RefsOK, NoEnding
<1>11. ASSUME NEW r \in Runs, Reaped(r), Quietly, starter' = starter PROVE RowsNext
  BY <1>1, <1>3, <1>11 DEF Reaped, Typed, Quietly, OnlyRun, Open, RefsOK
<1>12. ASSUME NEW r \in Runs, Prepares(r) PROVE RowsNext
  BY <1>1, <1>3, <1>12 DEF Prepares, RefsOK
<1>13. ASSUME NEW r \in Runs, NEW kind \in Terminal, Applies(r, kind) PROVE RowsNext
  BY <1>1, <1>3, <1>13 DEF Applies, Ended, OnlyRun, Open, RefsOK, Terminal
<1>14. ASSUME NEW r \in Runs, Settles(r) PROVE RowsNext
  BY <1>1, <1>3, <1>14 DEF Settles, RefsOK
<1>15. CASE TimePasses
  <2>1. now' \in Nat /\ now' >= Skew
    BY <1>1, <1>15, WorkflowConstants DEF TimePasses
  <2> QED
    BY <1>1, <1>3, <1>15, <2>1 DEF TimePasses, Elapsed, Open, RefsOK
<1> QED
  BY <1>4, <1>5, <1>6, <1>7, <1>8, <1>9, <1>10, <1>11, <1>12, <1>13, <1>14, <1>15, <1>16 DEF Effect

\* A workflow becomes active or failed only when its open run ends, and a run is
\* created only for an active or failed workflow.
LEMMA ExclusiveStep ==
  ASSUME Rows, Exclusive, Effect
  PROVE  Exclusive'
<1> USE DEF Exclusive, OpenRunHoldsWorkflow, OneOpenRun, Open
<1>1. \A r \in Runs : run[r].status = "absent" \/ run[r].workflow \in Workflows
  BY DEF Rows, RefsOK
<1>2. CASE UNCHANGED <<workflow, run, resumed>>
  BY <1>2
<1>3. ASSUME NEW w \in Workflows, SetsWorkflow(w) PROVE Exclusive'
  BY <1>1, <1>3 DEF SetsWorkflow, OnlyWorkflow, OpenRunsOf, AfterRun
<1>4. ASSUME NEW p \in Starters, NEW w \in Workflows, NEW r \in Runs, Created(p, w, r), Quietly
      PROVE  Exclusive'
  BY <1>1, <1>4 DEF Created, Quietly, OnlyRun, OnlyWorkflow
<1>5. ASSUME NEW p \in Starters, NEW r \in Runs, Retried(p, r), Quietly PROVE Exclusive'
  BY <1>1, <1>5 DEF Retried, Quietly, OnlyRun, OnlyWorkflow
<1>6. ASSUME NEW p \in Starters, NEW r \in Runs, Attached(p, r), Quietly PROVE Exclusive'
  BY <1>1, <1>6 DEF Attached, Quietly, OnlyRun, OnlyWorkflow
<1>7. ASSUME NEW r \in Runs, NEW kind \in Terminal, NEW after \in AfterRun, NEW next,
             Ended(r, kind, after, next), resumed' = resumed
      PROVE  Exclusive'
  BY <1>1, <1>7 DEF Ended, OnlyRun, OnlyWorkflow, Terminal
<1>8. ASSUME NEW r \in Runs, Reaped(r), Quietly PROVE Exclusive'
  BY <1>1, <1>8 DEF Reaped, Quietly, OnlyRun, OnlyWorkflow
<1>9. CASE TimePasses
  BY <1>1, <1>9 DEF TimePasses, Elapsed
<1>10. ASSUME NEW p \in Starters, FailsRun(p) PROVE Exclusive'
  BY <1>2, <1>7, <1>10 DEF FailsRun, Quietly, Terminal
<1>11. ASSUME NEW r \in Runs, NEW kind \in Terminal, Applies(r, kind) PROVE Exclusive'
  BY <1>2, <1>7, <1>11 DEF Applies
<1>12. ASSUME NEW p \in Starters, MovesOn(p) PROVE Exclusive'
  BY <1>2, <1>12 DEF MovesOn
<1>13. ASSUME NEW r \in Runs, Prepares(r) \/ Settles(r) PROVE Exclusive'
  BY <1>2, <1>13 DEF Prepares, Settles
<1>14. UNCHANGED vars \/ AsksForStatus => UNCHANGED <<workflow, run, resumed>>
  BY DEF vars, AsksForStatus
<1> HIDE DEF Exclusive
<1> QED
  BY <1>2, <1>3, <1>4, <1>5, <1>6, <1>8, <1>9, <1>10, <1>11, <1>12, <1>13, <1>14 DEF Effect

\* Attempts only grow, and a claim is the next attempt.
LEMMA OneClaimantStep ==
  ASSUME Rows, OneClaimant, Effect
  PROVE  OneClaimant'
<1> USE DEF OneClaimant
<1>1. /\ \A r \in Runs : run[r].attempts \in Nat
      /\ \A r \in Runs : run[r].status = "absent" => run[r].attempts = 0
      /\ \A p \in Starters : starter[p].claim \in Nat
      /\ \A p \in Starters : starter[p].pc = "start" => starter[p].run \in Runs
  <2>1. run \in [Runs -> RunRow] /\ starter \in [Starters -> StarterRow]
    BY RowTypes DEF Rows
  <2>2. \A r \in Runs : run[r] \in RunRow
    BY <2>1
  <2>3. \A p \in Starters : starter[p] \in StarterRow
    BY <2>1
  <2> QED
    BY <2>2, <2>3 DEF RunRow, StarterRow, Rows, RefsOK, NoSuchRun
<1>2. CASE UNCHANGED <<run, starter>>
  BY <1>2
<1>3. ASSUME NEW w \in Workflows, SetsWorkflow(w) PROVE OneClaimant'
  BY <1>2, <1>3 DEF SetsWorkflow
<1>4. ASSUME NEW p \in Starters, NEW w \in Workflows, NEW r \in Runs, Created(p, w, r)
      PROVE  OneClaimant'
  BY <1>1, <1>4 DEF Created, OnlyRun, OnlyStarter
<1>5. ASSUME NEW p \in Starters, NEW r \in Runs, Retried(p, r) PROVE OneClaimant'
  BY <1>1, <1>5 DEF Retried, OnlyRun, OnlyStarter
<1>6. ASSUME NEW p \in Starters, NEW r \in Runs, Attached(p, r) PROVE OneClaimant'
  BY <1>1, <1>6 DEF Attached, OnlyRun, OnlyStarter
<1>7. ASSUME NEW p \in Starters, MovesOn(p) PROVE OneClaimant'
  BY <1>1, <1>7 DEF MovesOn, OnlyStarter
<1>8. ASSUME NEW p \in Starters, FailsRun(p) PROVE OneClaimant'
  <2>1. starter'[p].pc = "idle" /\ OnlyStarter(p)
    BY <1>8 DEF FailsRun
  <2>2. \A r \in Runs : run'[r].attempts = run[r].attempts
    BY <1>8 DEF FailsRun, Ended, OnlyRun
  <2> QED
    BY <1>1, <2>1, <2>2 DEF OnlyStarter
<1>9. ASSUME NEW r \in Runs, Reaped(r), starter' = starter PROVE OneClaimant'
  BY <1>1, <1>9 DEF Reaped, OnlyRun
<1>10. ASSUME NEW r \in Runs, NEW kind \in Terminal, Applies(r, kind) PROVE OneClaimant'
  <2>1. starter' = starter /\ \A q \in Runs : run'[q].attempts = run[q].attempts
    BY <1>10 DEF Applies, Ended, OnlyRun
  <2> QED
    BY <1>1, <2>1
<1>11. ASSUME NEW r \in Runs, Prepares(r) \/ Settles(r) PROVE OneClaimant'
  BY <1>2, <1>11 DEF Prepares, Settles
<1>12. CASE TimePasses
  BY <1>1, <1>12 DEF TimePasses, Elapsed
<1>13. UNCHANGED vars \/ AsksForStatus => UNCHANGED <<run, starter>>
  BY DEF vars, AsksForStatus
<1> HIDE DEF OneClaimant
<1> QED
  BY <1>2, <1>3, <1>4, <1>5, <1>6, <1>7, <1>8, <1>9, <1>10, <1>11, <1>12, <1>13 DEF Effect

\* A run leaves "queued" for ever when it is attached.
LEMMA PromptsStep ==
  ASSUME Rows, PromptsOK, Effect
  PROVE  PromptsOK'
<1> USE DEF PromptsOK, PromptFollowsAttach, Terminal
<1>1. /\ \A r \in Runs : run[r].status \in RunStatuses
      /\ \A p \in Starters : starter[p].pc = "enqueue" => starter[p].run \in Runs
  <2>1. run \in [Runs -> RunRow]
    BY RowTypes DEF Rows
  <2>2. \A r \in Runs : run[r] \in RunRow
    BY <2>1
  <2> QED
    BY <2>2 DEF RunRow, Rows, RefsOK
<1>2. CASE UNCHANGED <<run, prompt, ending, starter>>
  BY <1>2 DEF NoEnding
<1>3. ASSUME NEW w \in Workflows, SetsWorkflow(w) PROVE PromptsOK'
  BY <1>2, <1>3 DEF SetsWorkflow
<1>4. ASSUME NEW p \in Starters, NEW w \in Workflows, NEW r \in Runs, Created(p, w, r), Quietly
      PROVE  PromptsOK'
  BY <1>1, <1>4 DEF Created, Quietly, OnlyRun, OnlyStarter, NoEnding
<1>5. ASSUME NEW p \in Starters, NEW r \in Runs, Retried(p, r), Quietly PROVE PromptsOK'
  BY <1>1, <1>5 DEF Retried, Quietly, OnlyRun, OnlyStarter, NoEnding
<1>6. ASSUME NEW p \in Starters, NEW r \in Runs, Attached(p, r), Quietly PROVE PromptsOK'
  BY <1>1, <1>6 DEF Attached, Quietly, OnlyRun, OnlyStarter, NoEnding
<1>7. ASSUME NEW p \in Starters, MovesOn(p) PROVE PromptsOK'
  BY <1>1, <1>7 DEF MovesOn, OnlyStarter, NoEnding
<1>8. ASSUME NEW p \in Starters, FailsRun(p) PROVE PromptsOK'
  <2>1. /\ starter[p].run \in Runs /\ starter'[p].pc = "idle" /\ OnlyStarter(p)
        /\ UNCHANGED <<prompt, ending>>
    BY <1>8 DEF FailsRun, Quietly
  <2>2. \A q \in Runs : run'[q].status = run[q].status \/ run'[q].status = "failed"
    BY <1>8 DEF FailsRun, Ended, OnlyRun
  <2> QED
    BY <1>1, <2>1, <2>2 DEF OnlyStarter, NoEnding
<1>9. ASSUME NEW r \in Runs, Reaped(r), Quietly, starter' = starter PROVE PromptsOK'
  BY <1>1, <1>9 DEF Reaped, Quietly, OnlyRun, NoEnding
<1>10. ASSUME NEW r \in Runs, Prepares(r) PROVE PromptsOK'
  BY <1>1, <1>10 DEF Prepares, NoEnding
<1>11. ASSUME NEW r \in Runs, NEW kind \in Terminal, Applies(r, kind) PROVE PromptsOK'
  BY <1>1, <1>11 DEF Applies, Ended, OnlyRun, NoEnding
<1>12. ASSUME NEW r \in Runs, Settles(r) PROVE PromptsOK'
  BY <1>1, <1>12 DEF Settles, NoEnding
<1>13. CASE TimePasses
  BY <1>1, <1>13 DEF TimePasses, Elapsed, NoEnding
<1>14. UNCHANGED vars \/ AsksForStatus => UNCHANGED <<run, prompt, ending, starter>>
  BY DEF vars, AsksForStatus
<1> HIDE DEF PromptsOK
<1> QED
  BY <1>2, <1>3, <1>4, <1>5, <1>6, <1>7, <1>8, <1>9, <1>10, <1>11, <1>12, <1>13, <1>14 DEF Effect

\* With synchronised clocks a next slot is computed after every slot that was
\* used has passed; what was computed earlier is written while the run that it
\* was computed for still keeps others from starting.
LEMMA SlotsStep ==
  ASSUME Rows, Exclusive, PromptsOK, SlotsOK, Skew = 0, Effect
  PROVE  SlotsOK'
<1> USE DEF Open, SameSlot, Excused
<1>1. /\ \A r \in Runs : run[r].slot \in Nat /\ run[r].status \in RunStatuses
      /\ \A w \in Workflows : workflow[w].next \in Nat
      /\ \A r \in Runs : ending[r].next \in Nat
      /\ now \in Nat
      /\ \A r \in Runs : run[r].status = "absent" \/ run[r].workflow \in Workflows
      /\ \A r \in Runs : run[r].status = "absent" => run[r].workflow = NoWorkflow /\ run[r].slot = 0
      /\ NoWorkflow \notin Workflows
  <2>1. workflow \in [Workflows -> WorkflowRow] /\ run \in [Runs -> RunRow] /\ ending \in [Runs -> EndingRow] /\ now \in Nat
    BY RowTypes DEF Rows
  <2>2. \A r \in Runs : run[r] \in RunRow
    BY <2>1
  <2>3. \A w \in Workflows : workflow[w] \in WorkflowRow
    BY <2>1
  <2>4. \A r \in Runs : ending[r] \in EndingRow
    BY <2>1
  <2> QED
    BY <2>1, <2>2, <2>3, <2>4, WorkflowConstants DEF RunRow, WorkflowRow, EndingRow, Rows, RefsOK, NoSuchRun
<1>2. \A r \in Runs : /\ Open(r) /\ run[r].workflow \notin Excused
                      => workflow[run[r].workflow].status \in {"running", "paused", "archived"}
  BY DEF Exclusive, OpenRunHoldsWorkflow
<1>3. Clock = {0}
  BY ClockTyped
<1>4. CASE UNCHANGED <<workflow, run, ending, now, resumed, rearmed>>
  BY <1>4 DEF SlotsOK
<1>5. ASSUME NEW w \in Workflows, SetsWorkflow(w) PROVE SlotsOK'
  <2>1. /\ OnlyWorkflow(w) /\ Excused \subseteq Excused' /\ UNCHANGED <<run, ending, now>>
        /\ workflow'[w].next \in Nat
    BY <1>1, <1>3, <1>5 DEF SetsWorkflow, WorkflowRow, Excused
  <2>2. \/ workflow'[w].next # 0 => now < workflow'[w].next
        \/ workflow'[w].status = "active" /\ workflow'[w].next # 0 =>
             \A r \in Runs : run[r].workflow = w => ~(run[r].slot >= workflow'[w].next)
        \/ w \in Excused'
    BY <1>1, <1>3, <1>5 DEF SetsWorkflow, Excused
  <2>3. ASSUME NEW r \in Runs, run[r].workflow = w, w \notin Excused',
               workflow'[w].status = "active", workflow'[w].next # 0
        PROVE  run[r].slot < workflow'[w].next
    BY <1>1, <2>1, <2>2, <2>3 DEF SlotsOK
  <2> QED
    BY <1>1, <2>1, <2>3 DEF SlotsOK, OnlyWorkflow
<1>6. ASSUME NEW p \in Starters, NEW w \in Workflows, NEW r \in Runs, Created(p, w, r), Quietly
      PROVE  SlotsOK'
  <2>1. /\ run'[r].slot = 0 \/ /\ workflow[w].status = "active" /\ workflow[w].next # 0
                               /\ run'[r].slot = workflow[w].next /\ workflow[w].next <= now
        /\ run[r].status = "absent" /\ run'[r].workflow = w /\ run'[r].status = "queued"
        /\ workflow[w].status \in {"active", "failed"} /\ workflow'[w].status = "running"
        /\ OnlyRun(r) /\ OnlyWorkflow(w) /\ UNCHANGED <<ending, updates, now, resumed, rearmed>>
    BY <1>1, <1>3, <1>6 DEF Created, Quietly
  <2>2. \A q \in Runs : q # r => run'[q] = run[q]
    BY <2>1 DEF OnlyRun
  <2>3. \A q \in Runs : Open(q) /\ run[q].workflow = w => w \in Excused
    BY <1>2, <2>1
  <2>4. \A q \in Runs : run'[q].slot <= now
    BY <1>1, <2>1, <2>2 DEF SlotsOK
  <2>5. \A q \in Runs : q # r /\ run[q].workflow = w /\ run'[r].slot # 0 =>
                          run[q].slot < run'[r].slot \/ w \in Excused
    BY <1>1, <2>1 DEF SlotsOK
  <2>6. \A q \in Runs :
          LET v == run'[q].workflow
          IN  /\ run'[q].status # "absent" /\ v \notin Excused
              /\ workflow'[v].status = "active" /\ workflow'[v].next # 0
              => run'[q].slot < workflow'[v].next
    BY <1>1, <2>1, <2>2 DEF SlotsOK, OnlyWorkflow
  <2>7. ending[r].next = 0
    BY <2>1 DEF PromptsOK, PromptFollowsAttach, NoEnding, Terminal
  <2>8. ASSUME NEW q \in Runs, NEW u \in Runs, Open(q)', ending[q].next # 0,
               run'[u].workflow = run'[q].workflow, run'[q].workflow \notin Excused
        PROVE  run'[u].slot < ending[q].next
    BY <1>1, <2>1, <2>2, <2>3, <2>7, <2>8 DEF SlotsOK
  <2>9. ASSUME NEW q \in Runs, NEW u \in Runs, q # u, SameSlot(q, u)'
        PROVE  run'[q].workflow \in Excused
    BY <1>1, <2>1, <2>2, <2>5, <2>9 DEF SlotsOK
  <2> QED
    BY <2>1, <2>4, <2>6, <2>8, <2>9 DEF SlotsOK
<1>7. ASSUME NEW p \in Starters, NEW r \in Runs, Retried(p, r), Quietly PROVE SlotsOK'
  BY <1>1, <1>7 DEF SlotsOK, Retried, Quietly, OnlyRun, OnlyWorkflow
<1>8. ASSUME NEW p \in Starters, NEW r \in Runs, Attached(p, r), Quietly PROVE SlotsOK'
  BY <1>1, <1>8 DEF SlotsOK, Attached, Quietly, OnlyRun, OnlyWorkflow
<1>9. ASSUME NEW p \in Starters, MovesOn(p) PROVE SlotsOK'
  BY <1>4, <1>9 DEF MovesOn
<1>10. ASSUME NEW p \in Starters, FailsRun(p) PROVE SlotsOK'
  <2>1. CASE UNCHANGED <<run, workflow>>
    BY <1>4, <1>10, <2>1 DEF FailsRun, Quietly
  <2>2. ASSUME NEW r \in Runs, NEW after \in AfterRun, NEW next \in Nat,
               Ended(r, "failed", after, next), next # 0 => now < next
        PROVE  SlotsOK'
    <3>1. UNCHANGED <<ending, updates, now, resumed, rearmed>>
      BY <1>10 DEF FailsRun, Quietly
    <3> QED
      BY <1>1, <2>2, <3>1 DEF SlotsOK, Ended, OnlyRun, OnlyWorkflow
  <2> QED
    BY <1>1, <1>3, <1>10, <2>1, <2>2 DEF FailsRun
<1>11. ASSUME NEW r \in Runs, Reaped(r), Quietly PROVE SlotsOK'
  BY <1>1, <1>11 DEF SlotsOK, Reaped, Quietly, OnlyRun, OnlyWorkflow
<1>12. ASSUME NEW r \in Runs, Prepares(r) PROVE SlotsOK'
  <2>1. /\ ending'[r].next # 0 => now < ending'[r].next
        /\ \A q \in Runs : ending'[q].next \in Nat /\ (q # r => ending'[q] = ending[q])
        /\ UNCHANGED <<workflow, run, updates, now, resumed, rearmed>>
    BY <1>1, <1>3, <1>12 DEF Prepares, EndingRow
  <2> QED
    BY <1>1, <2>1 DEF SlotsOK
<1>13. ASSUME NEW r \in Runs, NEW kind \in Terminal, Applies(r, kind) PROVE SlotsOK'
  BY <1>1, <1>13 DEF SlotsOK, Applies, Ended, OnlyRun, OnlyWorkflow, NoEnding
<1>14. ASSUME NEW r \in Runs, Settles(r) PROVE SlotsOK'
  BY <1>1, <1>14 DEF SlotsOK, Settles, NoEnding
<1>15. CASE TimePasses
  BY <1>1, <1>15 DEF SlotsOK, TimePasses, Elapsed
<1>16. UNCHANGED vars \/ AsksForStatus => UNCHANGED <<workflow, run, ending, now, resumed, rearmed>>
  BY DEF vars, AsksForStatus
<1> QED
  BY <1>4, <1>5, <1>6, <1>7, <1>8, <1>9, <1>10, <1>11, <1>12, <1>13, <1>14, <1>15, <1>16 DEF Effect

LEMMA InitIInv == Init => IInv
<1> SUFFICES ASSUME Init PROVE IInv
  OBVIOUS
<1>1. Rows
  BY InitRows
<1>2. \A r \in Runs : run[r] = NoSuchRun /\ run[r].status = "absent" /\ run[r].slot = 0
  BY DEF Init, NoSuchRun
<1>3. \A p \in Starters : starter[p].pc = "idle"
  BY DEF Init, Idle
<1>4. Exclusive
  BY <1>2 DEF Exclusive, OpenRunHoldsWorkflow, OneOpenRun, Open
<1>5. OneClaimant
  BY <1>3 DEF OneClaimant
<1>6. PromptsOK
  BY <1>2, <1>3 DEF Init, PromptsOK, PromptFollowsAttach, Terminal
<1>7. SlotsOK
  BY <1>2, WorkflowConstants DEF Init, SlotsOK, Open, SameSlot
<1> QED
  BY <1>1, <1>4, <1>5, <1>6, <1>7 DEF IInv

LEMMA IInvStep == IInv /\ [Next]_vars => IInv'
<1> SUFFICES ASSUME IInv, [Next]_vars PROVE IInv'
  OBVIOUS
<1>1. Rows /\ Exclusive /\ OneClaimant /\ PromptsOK /\ (Skew = 0 => SlotsOK)
  BY DEF IInv
<1>2. Effect
  BY <1>1, StepEffect
<1> QED
  BY <1>1, <1>2, RowsStep, ExclusiveStep, OneClaimantStep, PromptsStep, SlotsStep DEF IInv

\* The inductive invariant holds in every reachable state.
THEOREM Invariance == Spec => []IInv
  BY InitIInv, IInvStep, PTL DEF Spec

-----------------------------------------------------------------------------
(* The properties of the runs *)

\* Whatever users, schedulers, requests, the reaper and workers do, every row of
\* the two tables and every activation of startWorkflowRun keeps its shape.
THEOREM WorkflowTypesHold == Spec => []WorkflowTypeOK
<1>1. IInv => WorkflowTypeOK
  BY DEF IInv, Rows
<1> QED
  BY <1>1, Invariance, PTL

\* A workflow has at most one unfinished run, unless a user has set it to active
\* while a run was open: createWorkflowRun and claimDueWorkflowRun refuse the
\* second.
THEOREM OneOpenRunHolds == Spec => []OneOpenRun
<1>1. IInv => OneOpenRun
  BY DEF IInv, Exclusive
<1> QED
  BY <1>1, Invariance, PTL

\* An open run keeps its workflow out of active and failed, which is what every
\* starter looks at.
THEOREM OpenRunHoldsWorkflowHolds == Spec => []OpenRunHoldsWorkflow
<1>1. IInv => OpenRunHoldsWorkflow
  BY DEF IInv, Exclusive
<1> QED
  BY <1>1, Invariance, PTL

\* No two activations of startWorkflowRun hold the same claim on a run.
THEOREM OneClaimantHolds == Spec => []OneClaimant
<1>1. IInv => OneClaimant
  BY DEF IInv
<1> QED
  BY <1>1, Invariance, PTL

\* The prompt of a run is enqueued only after attachWorkflowRunSession, and only
\* a prompted run completes.
THEOREM PromptFollowsAttachHolds == Spec => []PromptFollowsAttach
<1>1. IInv => PromptFollowsAttach
  BY DEF IInv, PromptsOK
<1> QED
  BY <1>1, Invariance, PTL

\* With synchronised clocks claimDueWorkflowRun uses a scheduled instant once,
\* unless a user's status update made the workflow active while a run was open or
\* was written after the slot it had computed was used.
THEOREM SlotFiresOnceHolds == Spec => []SlotFiresOnce
<1>1. IInv => SlotFiresOnce
  BY DEF IInv, SlotsOK, SlotFiresOnce, Excused
<1> QED
  BY <1>1, Invariance, PTL

\* A run that was completed or failed never changes again: finishWorkflowRun,
\* attachWorkflowRunSession, the claims and the reaper leave it alone.
THEOREM FinishedIsFinalHolds == Spec => FinishedIsFinal
<1>1. IInv /\ [Next]_vars => [\A r \in Runs : run[r].status \in Terminal => run'[r] = run[r]]_vars
  <2> SUFFICES ASSUME IInv, [Next]_vars, NEW r \in Runs, run[r].status \in Terminal
               PROVE  run'[r] = run[r]
    OBVIOUS
  <2>1. Effect
    BY StepEffect DEF IInv
  <2>2. ~Open(r) /\ run[r].status # "absent"
    BY DEF Open, Terminal
  <2>3. CASE UNCHANGED run
    BY <2>3
  <2>4. ASSUME NEW q \in Runs, run[q].status = "absent" \/ Open(q), OnlyRun(q)
        PROVE  run'[r] = run[r]
    BY <2>2, <2>4 DEF OnlyRun
  <2>5. ASSUME NEW p \in Starters, FailsRun(p) PROVE run'[r] = run[r]
    BY <2>3, <2>4, <2>5 DEF FailsRun, Ended
  <2>6. ASSUME NEW q \in Runs, NEW kind \in Terminal, Applies(q, kind) PROVE run'[r] = run[r]
    BY <2>3, <2>4, <2>6 DEF Applies, Ended
  <2>7. CASE TimePasses
    BY <2>2, <2>7 DEF TimePasses, Elapsed
  <2>8. ASSUME NEW q \in Runs, Prepares(q) \/ Settles(q) PROVE UNCHANGED run
    BY <2>8 DEF Prepares, Settles
  <2>9. ASSUME NEW p \in Starters, MovesOn(p) PROVE UNCHANGED run
    BY <2>9 DEF MovesOn
  <2>10. ASSUME NEW w \in Workflows, SetsWorkflow(w) PROVE UNCHANGED run
    BY <2>10 DEF SetsWorkflow
  <2>11. ASSUME NEW p \in Starters, NEW w \in Workflows, NEW q \in Runs,
                Created(p, w, q)
         PROVE  run'[r] = run[r]
    BY <2>4, <2>11 DEF Created
  <2>12. ASSUME NEW p \in Starters, NEW q \in Runs, Retried(p, q) \/ Attached(p, q)
         PROVE  run'[r] = run[r]
    BY <2>4, <2>12 DEF Retried, Attached
  <2>13. ASSUME NEW q \in Runs, Reaped(q) PROVE run'[r] = run[r]
    BY <2>4, <2>13 DEF Reaped
  <2>14. UNCHANGED vars \/ AsksForStatus => UNCHANGED run
    BY DEF vars, AsksForStatus
  <2> QED
    BY <2>1, <2>3, <2>5, <2>6, <2>7, <2>8, <2>9, <2>10, <2>11, <2>12, <2>13, <2>14 DEF Effect
<1> QED
  BY <1>1, Invariance, PTL DEF Spec, FinishedIsFinal
=============================================================================

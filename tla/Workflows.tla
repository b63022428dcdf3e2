------------------------------- MODULE Workflows -------------------------------
(***************************************************************************)
(* Workflow runs of the Cloud control plane: the tables cloud_workflows    *)
(* and cloud_workflow_runs (postgres-store-domains/workflows.ts and        *)
(* workflow-definitions.ts), the processes that start runs (the scheduler  *)
(* of scheduler.ts, HTTP requests and webhooks of                          *)
(* session-workflow-operations.ts), and the worker that ends them.         *)
(*                                                                         *)
(* A starter is one activation of startWorkflowRun; its pc names the await *)
(* it stands before.  Every method of the store is one transaction and one *)
(* action.  A starter may be abandoned anywhere (a crash or an error of    *)
(* the store), and what it then leaves behind is the reaper's business.    *)
(*                                                                         *)
(* Instants are integers; a host's clock is off by at most Skew.  A claim  *)
(* keeps the ticks it has left.                                            *)
(***************************************************************************)
EXTENDS Integers, FiniteSets

CONSTANTS
  Workflows, Runs,
  Schedulers,           \* the loops that claim due workflows
  Requests,             \* HTTP requests and webhooks, as many as are served at once
  NoWorkflow, NoRun,    \* what an idle starter holds
  SlotsOf,              \* the instants a workflow is scheduled for; {} if manual
  ClaimTTL,             \* leaseTtlMs of a start claim (30 s), in ticks
  MaxAttempts,          \* maxAttempts of the reaper (3 in the code)
  Skew,                 \* largest error of a host's clock, in ticks
  MaxTime,              \* BOUND on the clock
  MaxDisruptions        \* BOUND on status updates, crashed starters and lost leases

ASSUME WorkflowConstants ==
  /\ Schedulers \cap Requests = {}
  /\ NoWorkflow \notin Workflows /\ NoRun \notin Runs
  /\ SlotsOf \in [Workflows -> SUBSET (Nat \ {0})]
  /\ ClaimTTL \in Nat \ {0} /\ MaxAttempts \in Nat \ {0}
  /\ Skew \in Nat /\ MaxTime \in Nat /\ MaxDisruptions \in Nat

VARIABLES
  workflow,   \* cloud_workflows: status and next_run_at (0 for NULL)
  run,        \* cloud_workflow_runs
  prompt,     \* the prompt command of a run's session: open while it is
              \* pending or running in SessionStore's queue
  ending,     \* what a worker is about to write at the end of a run
  starter,    \* the activations that start runs
  updates,    \* what users' status updates, numbered, are about to write
  now,        \* true time
  resumed,    \* history: workflows set to active while a run was open
  rearmed,    \* history: workflows set to active for a slot already used
  disruptions

vars == <<workflow, run, prompt, ending, starter, updates, now, resumed, rearmed, disruptions>>

-----------------------------------------------------------------------------
(* Rows *)

Starters == Schedulers \cup Requests

Clock == (-Skew) .. Skew

Terminal == {"completed", "failed"}

NoSuchRun ==
  [status |-> "absent", workflow |-> NoWorkflow, slot |-> 0, claim |-> 0, ttl |-> 0, attempts |-> 0]

\* Claim tokens are random and a claim increments attempt_count, so the count
\* names the token; 0 is NULL.
NewRun(w, slot, d) ==
  [status |-> "queued", workflow |-> w, slot |-> slot, claim |-> 1, ttl |-> ClaimTTL + d, attempts |-> 1]

\* Run ids are random, so that which of those not taken comes next makes no
\* difference.
Fresh(r) == r = CHOOSE q \in Runs : run[q].status = "absent"

NoEnding == [after |-> "none", next |-> 0]

Idle == [pc |-> "idle", workflow |-> NoWorkflow, run |-> NoRun, claim |-> 0, after |-> "active"]

Open(r) == run[r].status \in {"queued", "running"}
OpenRunsOf(w) == {r \in Runs : Open(r) /\ run[r].workflow = w}

\* Mutant of NextSlot: an instant that is due counts as coming.
NextSlotInclusive(w, t) ==
  LET coming == {s \in SlotsOf[w] : s >= t}
  IN  IF coming = {} THEN 0 ELSE CHOOSE s \in coming : \A u \in coming : s <= u

\* computeNextWorkflowRunAt: the first scheduled instant after t, or NULL
NextSlot(w, t) ==
  LET coming == {s \in SlotsOf[w] : s > t}
  IN  IF coming = {} THEN 0 ELSE CHOOSE s \in coming : \A u \in coming : s <= u

\* Mutant of StatusAfter: the status stays as it was.
StatusAfterKept(status) == status

\* nextWorkflowStatusAfterRun, of the status in the caller's copy of the row
StatusAfter(status) == IF status \in {"paused", "archived"} THEN status ELSE "active"

NextAfter(w, after, t) == IF after = "active" THEN NextSlot(w, t) ELSE 0

-----------------------------------------------------------------------------
Init ==
  /\ workflow = [w \in Workflows |-> [status |-> "absent", next |-> 0]]
  /\ run = [r \in Runs |-> NoSuchRun]
  /\ prompt = [r \in Runs |-> "absent"]
  /\ ending = [r \in Runs |-> NoEnding]
  /\ starter = [p \in Starters |-> Idle]
  /\ updates = {}
  /\ now = Skew
  /\ resumed = {} /\ rearmed = {}
  /\ disruptions = 0

-----------------------------------------------------------------------------
(* Users *)

CreateWorkflow(w, d) ==
  /\ workflow[w].status = "absent"
  /\ workflow' = [workflow EXCEPT ![w] = [status |-> "active", next |-> NextSlot(w, now + d)]]
  /\ UNCHANGED <<run, prompt, ending, starter, now, updates, resumed, rearmed, disruptions>>

\* updateWorkflowStatus of a user: the host reads its clock and computes the
\* next slot here, and the store writes it later.
UpdateWorkflowStatus(w, status, d) ==
  /\ workflow[w].status # "absent"
  /\ disruptions < MaxDisruptions
  /\ updates' = updates \cup {[id |-> disruptions, workflow |-> w, status |-> status,
                               next |-> NextAfter(w, status, now + d)]}
  /\ disruptions' = disruptions + 1
  /\ UNCHANGED <<workflow, run, prompt, ending, starter, now, resumed, rearmed>>

\* updateWorkflowStatus of the store, whatever the workflow is doing by then.
SetWorkflowStatus(u) ==
  LET w == u.workflow
      arms == u.status = "active" /\ u.next # 0
  IN  /\ updates' = updates \ {u}
      /\ workflow' = [workflow EXCEPT ![w] = [status |-> u.status, next |-> u.next]]
      /\ resumed' = IF u.status = "active" /\ OpenRunsOf(w) # {} THEN resumed \cup {w} ELSE resumed
      /\ rearmed' = IF arms /\ (\E r \in Runs : run[r].workflow = w /\ run[r].slot >= u.next)
                    THEN rearmed \cup {w} ELSE rearmed
      /\ UNCHANGED <<run, prompt, ending, starter, now, disruptions>>

-----------------------------------------------------------------------------
(* Starters *)

\* runWorkflow, or runWorkflowWebhook, which also wants the status active: the
\* row is read here and the run created later.
RunWorkflow(p, w) ==
  /\ starter[p].pc = "idle"
  /\ workflow[w].status # "absent"
  /\ starter' = [starter EXCEPT ![p] =
                   [Idle EXCEPT !.pc = "create", !.workflow = w, !.after = StatusAfter(workflow[w].status)]]
  /\ UNCHANGED <<workflow, run, prompt, ending, now, updates, resumed, rearmed, disruptions>>

\* Mutant of Runnable: a running workflow may start again.
RunnableAgain(w) == workflow[w].status \in {"active", "failed", "running"}

\* assertWorkflowRunnable
Runnable(w) == workflow[w].status \in {"active", "failed"}

CreateWorkflowRun(p, r, d) ==
  LET w == starter[p].workflow
  IN  /\ starter[p].pc = "create"
      /\ run[r].status = "absent" /\ Fresh(r)
      /\ Runnable(w)
      /\ run' = [run EXCEPT ![r] = NewRun(w, 0, d)]
      /\ workflow' = [workflow EXCEPT ![w].status = "running"]
      /\ starter' = [starter EXCEPT ![p].pc = "start", ![p].run = r, ![p].claim = 1]
      /\ UNCHANGED <<prompt, ending, now, updates, resumed, rearmed, disruptions>>

\* The scheduler works on the row it has just updated, so that its copy says
\* running, and what it writes after a refusal is active.
Claimed(p, w, r, claim) ==
  starter' = [starter EXCEPT ![p] =
                [pc |-> "start", workflow |-> w, run |-> r, claim |-> claim, after |-> "active"]]

\* Mutant of Retryable: only a run that was never attached.
RetryableQueued(r) ==
  /\ run[r].status = "queued" /\ run[r].claim = 0 /\ prompt[r] = "absent"
  /\ workflow[run[r].workflow].status = "running"

\* A run that nobody has claimed and that has not been given its prompt.
Retryable(r) ==
  /\ Open(r)
  /\ run[r].claim = 0
  /\ prompt[r] = "absent"
  /\ workflow[run[r].workflow].status = "running"

\* Mutant of ClaimRetry: the claim is renewed under the same token.
ClaimRetrySameToken(p, r, d) ==
  /\ starter[p].pc = "idle" /\ Retryable(r)
  /\ run' = [run EXCEPT ![r] = [@ EXCEPT !.claim = run[r].attempts, !.ttl = ClaimTTL + d]]
  /\ workflow' = [workflow EXCEPT ![run[r].workflow].status = "running"]
  /\ Claimed(p, run[r].workflow, r, run[r].attempts)
  /\ UNCHANGED <<prompt, ending, now, updates, resumed, rearmed, disruptions>>

\* claimDueWorkflowRun looks for these first; SKIP LOCKED may hide any row.
ClaimRetry(p, r, d) ==
  LET claim == run[r].attempts + 1
  IN  /\ starter[p].pc = "idle"
      /\ Retryable(r)
      /\ run' = [run EXCEPT ![r] = [@ EXCEPT !.claim = claim, !.attempts = claim, !.ttl = ClaimTTL + d]]
      /\ workflow' = [workflow EXCEPT ![run[r].workflow].status = "running"]
      /\ Claimed(p, run[r].workflow, r, claim)
      /\ UNCHANGED <<prompt, ending, now, updates, resumed, rearmed, disruptions>>

Due(w, d) ==
  /\ workflow[w].status = "active"
  /\ workflow[w].next # 0
  /\ workflow[w].next <= now + d

\* The claim and the creation of the run are one transaction.
ClaimDue(p, w, r, d) ==
  /\ starter[p].pc = "idle"
  /\ Due(w, d)
  /\ run[r].status = "absent" /\ Fresh(r)
  /\ run' = [run EXCEPT ![r] = NewRun(w, workflow[w].next, d)]
  /\ workflow' = [workflow EXCEPT ![w].status = "running"]
  /\ Claimed(p, w, r, 1)
  /\ UNCHANGED <<prompt, ending, now, updates, resumed, rearmed, disruptions>>

Move(p, pc) == starter' = [starter EXCEPT ![p].pc = pc]
Leave(p) == starter' = [starter EXCEPT ![p] = Idle]

\* assertWorkflowExecutionStartAllowed: 402 or 429, and the scheduler fails the
\* run, a request only throws.
StartRefused(p) ==
  /\ starter[p].pc = "start"
  /\ IF p \in Requests THEN Leave(p) ELSE Move(p, "fail")
  /\ UNCHANGED <<workflow, run, prompt, ending, now, updates, resumed, rearmed, disruptions>>

\* The session is the run's own, so a running run is attachable too; the claim
\* must be the starter's and must not have expired on its clock.
Attachable(p, d) ==
  LET r == starter[p].run
  IN  /\ Open(r)
      /\ run[r].claim = starter[p].claim
      /\ run[r].ttl > d

\* The start is allowed, the session, whose id is the run's, is created or found
\* (neither reads the run), and the run is attached to it.
AttachWorkflowRunSession(p, d) ==
  LET r == starter[p].run
  IN  /\ starter[p].pc = "start"
      /\ Attachable(p, d)
      /\ run' = [run EXCEPT ![r] = [@ EXCEPT !.status = "running", !.claim = 0, !.ttl = 0]]
      /\ workflow' = [workflow EXCEPT ![run[r].workflow].status = "running"]
      /\ Move(p, "enqueue")
      /\ UNCHANGED <<prompt, ending, now, updates, resumed, rearmed, disruptions>>

\* The command's id is made from the run's: the second of two starters gets the
\* command of the first.  Nothing is read of the run.
EnqueuePrompt(p) ==
  LET r == starter[p].run
  IN  /\ starter[p].pc = "enqueue"
      /\ prompt' = [prompt EXCEPT ![r] = IF @ = "absent" THEN "open" ELSE @]
      /\ Leave(p)
      /\ UNCHANGED <<workflow, run, ending, now, updates, resumed, rearmed, disruptions>>

QueueFull(p) ==
  /\ starter[p].pc = "enqueue"
  /\ prompt[starter[p].run] = "absent"
  /\ Move(p, "fail")
  /\ UNCHANGED <<workflow, run, prompt, ending, now, updates, resumed, rearmed, disruptions>>

\* Mutant of Finish: a finished run may be finished again.
FinishAgain(r, kind, after, next) ==
  /\ run' = [run EXCEPT ![r].status = kind]
  /\ workflow' = [workflow EXCEPT ![run[r].workflow] = [status |-> after, next |-> next]]

\* finishWorkflowRun: a finished run is returned as it is; the claim is not
\* looked at.
Finish(r, kind, after, next) ==
  IF Open(r)
  THEN /\ run' = [run EXCEPT ![r].status = kind]
       /\ workflow' = [workflow EXCEPT ![run[r].workflow] = [status |-> after, next |-> next]]
  ELSE UNCHANGED <<run, workflow>>

FailWorkflowRun(p, d) ==
  LET q == starter[p]
  IN  /\ q.pc = "fail"
      /\ Finish(q.run, "failed", q.after, NextAfter(q.workflow, q.after, now + d))
      /\ Leave(p)
      /\ UNCHANGED <<prompt, ending, now, updates, resumed, rearmed, disruptions>>

\* createWorkflowRun and attachWorkflowRunSession throw.  A run that is over
\* the quota, or for which the model has no id left, is not created either.
Rejected(p, d) ==
  /\ \/ starter[p].pc = "create" /\ ~Runnable(starter[p].workflow)
     \/ starter[p].pc = "create" /\ \A r \in Runs : run[r].status # "absent"
     \/ starter[p].pc = "start" /\ ~Attachable(p, d)
  /\ Leave(p)
  /\ UNCHANGED <<workflow, run, prompt, ending, now, updates, resumed, rearmed, disruptions>>

\* A crash, or an error of the store; a starter that has created or claimed no
\* run leaves no trace.
Abandon(p) ==
  /\ starter[p].pc \in {"start", "enqueue", "fail"}
  /\ disruptions < MaxDisruptions
  /\ disruptions' = disruptions + 1
  /\ Leave(p)
  /\ UNCHANGED <<workflow, run, prompt, ending, now, updates, resumed, rearmed>>

-----------------------------------------------------------------------------
(* The reaper of expired start claims *)

Reapable(r, d) ==
  /\ Open(r)
  /\ run[r].claim # 0
  /\ run[r].ttl <= d
  /\ prompt[r] = "absent"

\* Out of attempts, the run and its workflow fail; otherwise the claim goes and
\* the workflow is made running, which is what a retry looks for.
Reap(r, d) ==
  /\ Reapable(r, d)
  /\ IF run[r].attempts >= MaxAttempts
     THEN /\ run' = [run EXCEPT ![r] = [@ EXCEPT !.status = "failed", !.claim = 0, !.ttl = 0]]
          /\ workflow' = [workflow EXCEPT ![run[r].workflow] = [status |-> "failed", next |-> 0]]
     ELSE /\ run' = [run EXCEPT ![r] = [@ EXCEPT !.claim = 0, !.ttl = 0]]
          /\ workflow' = [workflow EXCEPT ![run[r].workflow].status = "running"]
  /\ UNCHANGED <<prompt, ending, starter, now, updates, resumed, rearmed, disruptions>>

-----------------------------------------------------------------------------
(* The worker that has the session, as SessionStore and CloudWorker model it *)

\* prepareWorkflowRunCompletion (an idle session, which may be reported after
\* the ack) or prepareWorkflowRunFailure: the row is read here and what is
\* computed from it is written later.
PrepareEnding(r, d) ==
  LET w == run[r].workflow
      after == StatusAfter(workflow[w].status)
  IN  /\ prompt[r] \in {"open", "acked"}
      /\ ending[r] = NoEnding
      /\ Open(r)
      /\ ending' = [ending EXCEPT ![r] = [after |-> after, next |-> NextAfter(w, after, now + d)]]
      /\ UNCHANGED <<workflow, run, prompt, starter, now, updates, resumed, rearmed, disruptions>>

\* appendProjectedSessionEvent with workflowTerminal, under the session's lease
ApplyEnding(r, kind) ==
  /\ ending[r] # NoEnding
  /\ Finish(r, kind, ending[r].after, ending[r].next)
  /\ ending' = [ending EXCEPT ![r] = NoEnding]
  /\ UNCHANGED <<prompt, starter, now, updates, resumed, rearmed, disruptions>>

\* The command is acked although the end of the run has not been written.  What
\* becomes of a command whose run is over concerns no workflow.
AckPrompt(r) ==
  /\ prompt[r] = "open" /\ Open(r)
  /\ prompt' = [prompt EXCEPT ![r] = "acked"]
  /\ UNCHANGED <<workflow, run, ending, starter, now, updates, resumed, rearmed, disruptions>>

\* The lease is lost: what was prepared under it is refused, and the reaper of
\* leases makes the command pending again, or failed.
LoseLease(r, status) ==
  /\ prompt[r] = "open" /\ Open(r)
  /\ status = "open" => ending[r] # NoEnding
  /\ disruptions < MaxDisruptions
  /\ disruptions' = disruptions + 1
  /\ prompt' = [prompt EXCEPT ![r] = status]
  /\ ending' = [ending EXCEPT ![r] = NoEnding]
  /\ UNCHANGED <<workflow, run, starter, now, updates, resumed, rearmed>>

-----------------------------------------------------------------------------
Elapse(t) == IF t > -Skew THEN t - 1 ELSE t

Tick ==
  /\ now' = IF now < MaxTime THEN now + 1 ELSE now
  /\ run' = [r \in Runs |-> IF Open(r) /\ run[r].claim # 0
                                THEN [run[r] EXCEPT !.ttl = Elapse(@)] ELSE run[r]]
  /\ UNCHANGED <<workflow, prompt, ending, starter, updates, resumed, rearmed, disruptions>>

StarterStep(p) ==
  \/ \E r \in Runs, d \in Clock : CreateWorkflowRun(p, r, d)
  \/ StartRefused(p)
  \/ \E d \in Clock : AttachWorkflowRunSession(p, d)
  \/ EnqueuePrompt(p)
  \/ QueueFull(p)
  \/ \E d \in Clock : FailWorkflowRun(p, d)
  \/ \E d \in Clock : Rejected(p, d)

ClaimRetries == \E p \in Schedulers, r \in Runs, d \in Clock : ClaimRetry(p, r, d)
ClaimsDue == \E p \in Schedulers, w \in Workflows, r \in Runs, d \in Clock : ClaimDue(p, w, r, d)
Reaps == \E r \in Runs, d \in Clock : Reap(r, d)

WorkerStep(r) ==
  \/ \E d \in Clock : PrepareEnding(r, d)
  \/ \E kind \in Terminal : ApplyEnding(r, kind)
  \/ AckPrompt(r)
  \/ \E status \in {"open", "failed"} : LoseLease(r, status)

Next ==
  \/ \E w \in Workflows, d \in Clock : CreateWorkflow(w, d)
  \/ \E w \in Workflows, status \in {"active", "paused", "archived"}, d \in Clock :
       UpdateWorkflowStatus(w, status, d)
  \/ \E u \in updates : SetWorkflowStatus(u)
  \/ \E p \in Requests, w \in Workflows : RunWorkflow(p, w)
  \/ \E p \in Starters : StarterStep(p) \/ Abandon(p)
  \/ ClaimRetries
  \/ ClaimsDue
  \/ Reaps
  \/ \E r \in Runs : WorkerStep(r)
  \/ Tick

Spec == Init /\ [][Next]_vars

\* Time passes; calls of the store return; the scheduler's loop reaps and
\* claims.
Fairness ==
  /\ WF_vars(Tick)
  /\ WF_vars(Reaps)
  /\ \A p \in Starters : WF_vars(StarterStep(p))
  /\ SF_vars(ClaimRetries)

FairSpec == Spec /\ Fairness

-----------------------------------------------------------------------------
(* Properties *)

Statuses == {"absent", "active", "running", "paused", "archived", "failed"}
AfterRun == {"active", "paused", "archived"}

\* Every row and every activation has the shape that the code gives it.
WorkflowTypeOK ==
  /\ workflow \in [Workflows -> [status : Statuses, next : Nat]]
  /\ run \in [Runs -> [status : {"absent", "queued", "running"} \cup Terminal,
                       workflow : Workflows \cup {NoWorkflow}, slot : Nat,
                       claim : Nat, ttl : Int, attempts : Nat]]
  /\ prompt \in [Runs -> {"absent", "open", "acked", "failed"}]
  /\ ending \in [Runs -> [after : {"none"} \cup AfterRun, next : Nat]]
  /\ starter \in [Starters -> [pc : {"idle", "create", "start", "enqueue", "fail"},
                               workflow : Workflows \cup {NoWorkflow}, run : Runs \cup {NoRun},
                               claim : Nat, after : AfterRun]]
  /\ now \in Nat /\ now >= Skew
  /\ updates \subseteq [id : Nat, workflow : Workflows, status : AfterRun, next : Nat]
  /\ resumed \subseteq Workflows /\ rearmed \subseteq Workflows
  /\ disruptions \in Nat

\* A workflow has at most one unfinished run, whoever starts, retries, reaps,
\* fails or ends runs at the same time ("Workflow is already running."), unless
\* a user sets it to active while a run is open.
OneOpenRun ==
  \A r, q \in Runs :
    /\ r # q /\ Open(r) /\ Open(q)
    /\ run[r].workflow = run[q].workflow
    => run[r].workflow \in resumed

\* While its run is open a workflow is never active or failed, so that neither
\* the scheduler nor a request starts another one.
OpenRunHoldsWorkflow ==
  \A r \in Runs :
    Open(r) /\ run[r].workflow \notin resumed =>
      workflow[run[r].workflow].status \in {"running", "paused", "archived"}

\* One scheduler wins: of the activations that are about to attach a run no two
\* hold the same claim on it, and none holds a claim that was never issued.
OneClaimant ==
  \A p \in Starters :
    starter[p].pc = "start" =>
      /\ starter[p].claim \in 1 .. run[starter[p].run].attempts
      /\ \A q \in Starters :
           /\ q # p /\ starter[q].pc = "start"
           /\ starter[q].run = starter[p].run
           => starter[q].claim # starter[p].claim

\* The prompt of a run is enqueued only after the run was attached to its
\* session, and a run completes only if it has been prompted.
PromptFollowsAttach ==
  \A r \in Runs :
    /\ prompt[r] # "absent" => run[r].status \in {"running"} \cup Terminal
    /\ run[r].status = "completed" => prompt[r] # "absent"

SameSlot(r, q) ==
  /\ run[r].workflow = run[q].workflow
  /\ run[r].slot # 0 /\ run[r].slot = run[q].slot

\* With synchronised clocks a scheduled instant is used for one run, although
\* the next instant is computed and written in different steps, by starters,
\* workers and users, and nothing compares idempotency keys.  Two updates of the
\* status are excused: one that sets the workflow to active while a run is open,
\* and one that is written after the slot it was computed for was used.
SlotFiresOnce ==
  Skew = 0 =>
    \A r, q \in Runs : r # q /\ SameSlot(r, q) => run[r].workflow \in resumed \cup rearmed

\* "clock skew can delay work but must not duplicate it": whatever the clocks
\* say, a scheduled instant prompts one run.
SkewNeverDuplicates ==
  \A r, q \in Runs :
    /\ r # q /\ SameSlot(r, q)
    /\ prompt[r] # "absent" /\ prompt[q] # "absent"
    => run[r].workflow \in resumed

\* completed and failed are final: a late starter, a stale ending and the reaper
\* leave a finished run, its claim and its attempts alone.
FinishedIsFinal ==
  [][\A r \in Runs : run[r].status \in Terminal => run'[r] = run[r]]_vars

\* A run that was created gets its prompt or ends, whichever starters crash,
\* unless a user takes the workflow out of running meanwhile.
RunsStart ==
  \A r \in Runs :
    Open(r) ~> ~Open(r) \/ prompt[r] # "absent" \/ workflow[run[r].workflow].status # "running"
=============================================================================

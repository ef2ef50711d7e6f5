------------------------------ MODULE StaffTask ------------------------------
(***************************************************************************)
(* The staff task engine of the executive board: one DynamoDB row per      *)
(* task, driven by Lambda invocations that call each other asynchronously  *)
(* (board_staff.py, board_staff_review.py, board_staff_tick.py,            *)
(* board_staff_help.py aside).                                             *)
(*                                                                         *)
(* The table offers one atomic conditional update per item                 *)
(* (claim_task_step, patch_task_if_status); every other write is a full    *)
(* put of a row read earlier.  A handler that does other I/O between its   *)
(* read and its put (an LLM call, S3, a list query) is two actions here,   *)
(* and the put writes the snapshot it read.  A get immediately followed by *)
(* the put is one action.                                                  *)
(***************************************************************************)
EXTENDS Integers, FiniteSets

CONSTANTS
  Tasks,         \* task ids
  Procs,         \* concurrent Lambda invocations
  MaxSteps,      \* maxStepsPerTask
  MaxIdle,       \* maxIdleStepsPerTask
  MaxRevisions,  \* maxRevisions
  Cap,           \* settings.staff.maxRunningTasks
  MaxAttempts,   \* bound: how often retry_task may re-queue a task
  MaxAsks,       \* bound: blocking approvals a task may raise
  Envs           \* the environments to check: each a set of EnvKinds

(***************************************************************************)
(* loss        an Event invoke is accepted and never delivered             *)
(* duplicate   an Event invoke is delivered more than once                 *)
(* invokeError Lambda.Invoke raises, whether or not the event was accepted *)
(* crash       an invocation dies between two of its writes                *)
(* error       the tool loop of a step raises                              *)
(* tick        time passes and the staff tick sweeps stuck rows            *)
(* late        a step may claim later than the 330 s of the claim cut      *)
(* overlap     two runs of the tick may sweep the same task at once        *)
(* drain       the tick drains the queue (create and retry always do)      *)
(* budget      the staff day budget or the OpenRouter credits run out      *)
(* approval    a step raises blocking approvals, the founder decides them  *)
(* review      the manager may return a deliverable                        *)
(* early       a review, or the founder's retry or verdict, may start      *)
(*             before the step that parked the task (or the founder's      *)
(*             previous call) has ended, a decision before the last one    *)
(*             has                                                         *)
(* cancel, retry, ownerReview   the founder's own calls                    *)
(***************************************************************************)
EnvKinds == {"loss", "duplicate", "invokeError", "crash", "error", "tick", "late",
             "overlap", "drain", "budget", "approval", "review",
             "early", "cancel", "retry", "ownerReview"}

ASSUME ConstantsAssumption ==
  /\ Tasks # {} /\ IsFiniteSet(Tasks)
  /\ MaxSteps \in Nat \ {0}
  /\ MaxIdle \in Nat \ {0}
  /\ MaxRevisions \in Nat
  /\ Cap \in Nat
  /\ MaxAttempts \in Nat \ {0}
  /\ MaxAsks \in Nat
  /\ Envs \subseteq SUBSET EnvKinds

VARIABLES
  env,      \* what the environment of this behaviour may do; never changes
  row,      \* row[t]: the task's item in the records table
  events,   \* Event invokes Lambda has accepted and not yet delivered
  pending,  \* pending[t]: the task's blocking approvals nobody has decided
  asks,     \* asks[t]: how many blocking approvals the task raised (bound)
  spent,    \* the staff day budget is exhausted or the credits are paused
  inv       \* inv[p]: what invocation p is doing

vars == <<env, row, events, pending, asks, spent, inv>>

-----------------------------------------------------------------------------
Statuses == {"absent", "queued", "running", "waiting_approval", "review",
             "delivered", "needs_owner", "failed", "cancelled"}

(***************************************************************************)
(* updated is the age of updatedAt: 0 fresh, 1 past the claim cut          *)
(* (staffStepMaxSeconds + 180 = 330 s), 2 past staffTaskStuckSeconds.      *)
(* claimed is stepClaimed, 0 when the attribute is absent.                 *)
(***************************************************************************)
Row == [status: Statuses, step: Nat, claimed: Nat,
        claimedAt: {"none", "fresh", "stale"}, updated: 0..2,
        idle: Nat, revisions: 0..MaxRevisions, attempt: Nat,
        stuckRetried: BOOLEAN, reviewRetried: BOOLEAN]

NewRow(status) ==
  [status |-> status, step |-> 0, claimed |-> 0, claimedAt |-> "none", updated |-> 0,
   idle |-> 0, revisions |-> 0, attempt |-> 1,
   stuckRetried |-> FALSE, reviewRetried |-> FALSE]

Events == [kind: {"step", "review"}, task: Tasks, seq: Nat, retried: BOOLEAN]

StepEvent(t, n)    == [kind |-> "step", task |-> t, seq |-> n, retried |-> FALSE]
RetriedEvent(t, n) == [kind |-> "step", task |-> t, seq |-> n, retried |-> TRUE]
ReviewEvent(t)     == [kind |-> "review", task |-> t, seq |-> 0, retried |-> FALSE]

(***************************************************************************)
(* inv[p].pc names the next thing invocation p does.                       *)
(***************************************************************************)
Pcs == {"idle", "dead", "claim", "check", "loop", "note", "finish", "finished",
        "complete", "judge", "ownerJudge", "retry", "decided", "resume", "sweep", "sweepRetry",
        "drainList", "drain", "drainUndo"}

(* A step past its claim. *)
Working == {"check", "loop", "note", "finish", "finished", "complete"}

Invocation == [pc: Pcs, task: Tasks, want: Nat, retried: BOOLEAN, asked: BOOLEAN,
               noted: BOOLEAN, snap: Row, queue: SUBSET Tasks, slots: Nat]

Idle == [pc |-> "idle", task |-> CHOOSE t \in Tasks : TRUE, want |-> 0, retried |-> FALSE,
         asked |-> FALSE, noted |-> FALSE, snap |-> NewRow("absent"),
         queue |-> {}, slots |-> 0]

Dead == [Idle EXCEPT !.pc = "dead"]

Draining == [Idle EXCEPT !.pc = "drainList"]

At(p, pc) == inv[p].pc = pc
T(p)      == inv[p].task
Snap(p)   == inv[p].snap
Now(p)    == row[T(p)]

Goto(p, pc)   == inv' = [inv EXCEPT ![p] = [@ EXCEPT !.pc = pc]]
ReadAs(p, pc) == inv' = [inv EXCEPT ![p] = [@ EXCEPT !.pc = pc, !.snap = Now(p)]]
Forget(p, pc) == inv' = [inv EXCEPT ![p] = [@ EXCEPT !.pc = pc, !.snap = NewRow("absent")]]
BackToLoop(p) == Forget(p, "loop")
LastCalls(p)  == Forget(p, "finished")
End(p)        == inv' = [inv EXCEPT ![p] = Idle]
Begin(p, pc, t) ==
  /\ At(p, "idle")
  /\ inv' = [inv EXCEPT ![p] = [Idle EXCEPT !.pc = pc, !.task = t, !.snap = row[t]]]

Put(t, r) == row' = [row EXCEPT ![t] = r]

(* invoke_async: the event is queued, or lost on the way. *)
Invoke(e) == \/ events' = events \cup {e}
             \/ "loss" \in env /\ UNCHANGED events

Max0(n) == IF n < 0 THEN 0 ELSE n

-----------------------------------------------------------------------------
(* Row updates shared by the handlers. *)

Touch(r)     == [r EXCEPT !.updated = 0]
Unclaimed(r) == [r EXCEPT !.claimedAt = "none", !.updated = 0]
Align(r)     == [Unclaimed(r) EXCEPT !.claimed = r.step]
Fail(r)      == [Touch(r) EXCEPT !.status = "failed"]

(* Mutant: the claim condition reads <= where the code has <. *)
ClaimsTwice(r, n) == r.status = "running" /\ r.step = n /\ r.claimed <= n + 1

CanPromote(r, n) == n = 0 /\ r.status = "queued" /\ r.step = 0
CanClaim(r, n)   == r.status = "running" /\ r.step = n /\ r.claimed < n + 1

ClaimTaskStep(t, n) ==
  \/ /\ CanPromote(row[t], n)
     /\ Put(t, [Touch(row[t]) EXCEPT !.status = "running"])
  \/ /\ CanClaim(row[t], n)
     /\ Put(t, [Touch(row[t]) EXCEPT !.claimed = n + 1, !.claimedAt = "fresh"])

(* Mutant: the release forgets to lower stepClaimed. *)
KeepsClaim(r, n) == Unclaimed(r)

ReleaseStepClaim(r, n) == [Unclaimed(r) EXCEPT !.claimed = Max0(n - 1)]

RequeueForBudget(t, n) ==
  IF row[t].status = "running"
    THEN Put(t, [ReleaseStepClaim(row[t], n) EXCEPT !.status = "queued"])
    ELSE UNCHANGED row

-----------------------------------------------------------------------------
(* Creating a task and draining the queue. *)

CreateTask(p, t) ==
  /\ row[t].status = "absent"
  /\ At(p, "idle")
  /\ inv' = [inv EXCEPT ![p] = Draining]
  /\ Put(t, NewRow("queued"))
  /\ UNCHANGED <<env, events, pending, asks, spent>>

TickDrain(p) ==
  /\ "drain" \in env
  /\ At(p, "idle")
  /\ inv' = [inv EXCEPT ![p] = Draining]
  /\ UNCHANGED <<env, row, events, pending, asks, spent>>

Busy == {t \in Tasks : row[t].status \in {"running", "review"}}
Queued == {t \in Tasks : row[t].status = "queued"}

DrainList(p) ==
  /\ At(p, "drainList")
  /\ IF spent \/ Queued = {} \/ Cardinality(Busy) >= Cap
       THEN End(p)
       ELSE inv' = [inv EXCEPT ![p] = [Idle EXCEPT !.pc = "drain", !.queue = Queued,
                                         !.slots = Cap - Cardinality(Busy)]]
  /\ UNCHANGED <<env, row, events, pending, asks, spent>>

(* What is left of the drain once t is handled; oldest slaAt first is any order here. *)
DrainNext(p, t, started) ==
  LET queue == inv[p].queue \ {t}
      slots == inv[p].slots - started
  IN  IF queue = {} \/ slots = 0
        THEN End(p)
        ELSE inv' = [inv EXCEPT ![p] = [@ EXCEPT !.queue = queue, !.slots = slots]]

DrainClaim(p, t) ==
  /\ At(p, "drain")
  /\ t \in inv[p].queue
  /\ IF CanPromote(row[t], 0) \/ CanClaim(row[t], 0)
       THEN /\ ClaimTaskStep(t, 0)
            /\ Invoke(StepEvent(t, 1))
            /\ DrainNext(p, t, 1)
       ELSE /\ DrainNext(p, t, 0)
            /\ UNCHANGED <<row, events>>
  /\ UNCHANGED <<env, pending, asks, spent>>

(* The invoke raised: claimed, maybe delivered all the same, then _requeue_unstarted. *)
DrainInvokeFails(p, t) ==
  /\ "invokeError" \in env
  /\ At(p, "drain")
  /\ t \in inv[p].queue
  /\ ClaimTaskStep(t, 0)
  /\ events' \in {events, events \cup {StepEvent(t, 1)}}
  /\ inv' = [inv EXCEPT ![p] = [@ EXCEPT !.pc = "drainUndo", !.task = t]]
  /\ UNCHANGED <<env, pending, asks, spent>>

RequeueUnstarted(p) ==
  /\ At(p, "drainUndo")
  /\ IF Now(p).status = "running" /\ Now(p).step = 0
       THEN Put(T(p), [Unclaimed(Now(p)) EXCEPT !.status = "queued", !.claimed = 0])
       ELSE UNCHANGED row
  /\ LET queue == inv[p].queue \ {T(p)}
     IN  IF queue = {} THEN End(p)
         ELSE inv' = [inv EXCEPT ![p] = [@ EXCEPT !.pc = "drain", !.queue = queue]]
  /\ UNCHANGED <<env, events, pending, asks, spent>>

-----------------------------------------------------------------------------
(* run_step: read and guard, claim, check the budgets, run the tool loop. *)

Consume(e) == \/ events' = events \ {e}
              \/ "duplicate" \in env /\ UNCHANGED events

StepReceived(p, e) ==
  /\ At(p, "idle")
  /\ e \in events /\ e.kind = "step"
  /\ Consume(e)
  /\ inv' = IF row[e.task].status = "running" /\ e.seq = row[e.task].step + 1
              THEN [inv EXCEPT ![p] = [Idle EXCEPT !.pc = "claim", !.task = e.task, !.want = e.seq,
                                         !.retried = e.retried, !.snap = row[e.task]]]
              ELSE inv
  /\ UNCHANGED <<env, row, pending, asks, spent>>

StepClaimed(p) ==
  /\ At(p, "claim")
  /\ ClaimTaskStep(T(p), inv[p].want - 1)
  /\ Goto(p, "check")
  /\ UNCHANGED <<env, events, pending, asks, spent>>

StepRefused(p) ==
  /\ At(p, "claim")
  /\ ~CanPromote(Now(p), inv[p].want - 1)
  /\ ~CanClaim(Now(p), inv[p].want - 1)
  /\ End(p)
  /\ UNCHANGED <<env, row, events, pending, asks, spent>>

(* The board budget or the task's own budget: _finish_incomplete puts the row read before the claim. *)
StepOverBudget(p) ==
  /\ "budget" \in env
  /\ At(p, "check")
  /\ Put(T(p), Fail(Snap(p)))
  /\ End(p)
  /\ UNCHANGED <<env, events, pending, asks, spent>>

StepParkedForBudget(p) ==
  /\ At(p, "check")
  /\ spent
  /\ RequeueForBudget(T(p), inv[p].want)
  /\ End(p)
  /\ UNCHANGED <<env, events, pending, asks, spent>>

StepStarts(p) ==
  /\ At(p, "check")
  /\ ~spent
  /\ BackToLoop(p)
  /\ UNCHANGED <<env, row, events, pending, asks, spent>>

(* op_task_note and _persist_step_progress: get, append to the scratchpad in S3, put. *)
NoteReads(p) ==
  /\ At(p, "loop") /\ ~inv[p].noted
  /\ Now(p).status = "running"
  /\ inv' = [inv EXCEPT ![p] = [@ EXCEPT !.pc = "note", !.noted = TRUE, !.snap = Now(p)]]
  /\ UNCHANGED <<env, row, events, pending, asks, spent>>

NoteWrites(p) ==
  /\ At(p, "note")
  /\ Put(T(p), Touch(Snap(p)))
  /\ BackToLoop(p)
  /\ UNCHANGED <<env, events, pending, asks, spent>>

(* A write the seat may only propose: create_approval, blocksTask.  The calls of one *)
(* completion all run, so one may come after the task_finish that ends the loop.     *)
Ask(p) ==
  /\ "approval" \in env
  /\ At(p, "loop") \/ At(p, "finished")
  /\ asks[T(p)] < MaxAsks
  /\ pending' = [pending EXCEPT ![T(p)] = @ + 1]
  /\ asks' = [asks EXCEPT ![T(p)] = @ + 1]
  /\ inv' = [inv EXCEPT ![p].asked = TRUE]
  /\ UNCHANGED <<env, row, events, spent>>

(* op_task_finish; _run_one refuses it once the step raised a blocking approval. *)
FinishReads(p) ==
  /\ At(p, "loop") /\ ~inv[p].asked
  /\ Now(p).status = "running"
  /\ ReadAs(p, "finish")
  /\ UNCHANGED <<env, row, events, pending, asks, spent>>

Finished(r, status) ==
  LET stepped == [r EXCEPT !.step = @ + 1, !.idle = 0]
  IN  [Align(stepped) EXCEPT !.status = status]

FinishSubmits(p) ==
  /\ At(p, "finish")
  /\ Put(T(p), Finished(Snap(p), "review"))
  /\ Invoke(ReviewEvent(T(p)))
  /\ LastCalls(p)
  /\ UNCHANGED <<env, pending, asks, spent>>

(* The invoke raised: task_finish did not return ok, and the loop goes on. *)
FinishInvokeFails(p) ==
  /\ "invokeError" \in env
  /\ At(p, "finish")
  /\ Put(T(p), Finished(Snap(p), "review"))
  /\ events' \in {events, events \cup {ReviewEvent(T(p))}}
  /\ BackToLoop(p)
  /\ UNCHANGED <<env, pending, asks, spent>>

FinishBlocked(p) ==
  /\ At(p, "finish")
  /\ Put(T(p), Finished(Snap(p), "needs_owner"))
  /\ LastCalls(p)
  /\ UNCHANGED <<env, events, pending, asks, spent>>

-----------------------------------------------------------------------------
(* _on_step_exception *)

LoopErrorOnMovedRow(p) ==
  /\ "error" \in env
  /\ At(p, "loop")
  /\ Now(p).status # "running"
  /\ End(p)
  /\ UNCHANGED <<env, row, events, pending, asks, spent>>

LoopCreditError(p) ==
  /\ {"error", "budget"} \subseteq env
  /\ At(p, "loop")
  /\ Now(p).status = "running"
  /\ spent' = TRUE
  /\ RequeueForBudget(T(p), inv[p].want)
  /\ End(p)
  /\ UNCHANGED <<env, events, pending, asks>>

(* Mutant: the retry is released and never invoked. *)
LoopErrorReleased(p) ==
  /\ "error" \in env
  /\ At(p, "loop") /\ ~inv[p].retried
  /\ Now(p).status = "running"
  /\ Put(T(p), ReleaseStepClaim(Now(p), inv[p].want))
  /\ End(p)
  /\ UNCHANGED <<env, events, pending, asks, spent>>

LoopErrorRetried(p) ==
  /\ "error" \in env
  /\ At(p, "loop") /\ ~inv[p].retried
  /\ Now(p).status = "running"
  /\ Put(T(p), ReleaseStepClaim(Now(p), inv[p].want))
  /\ Invoke(RetriedEvent(T(p), inv[p].want))
  /\ End(p)
  /\ UNCHANGED <<env, pending, asks, spent>>

LoopErrorFinal(p) ==
  /\ "error" \in env
  /\ At(p, "loop")
  /\ Now(p).status = "running"
  /\ Put(T(p), Fail(Now(p)))
  /\ End(p)
  /\ UNCHANGED <<env, events, pending, asks, spent>>

-----------------------------------------------------------------------------
(* _complete_step: read the row again, then write what the step amounts to. *)

Completable == {"running", "review", "needs_owner", "delivered", "waiting_approval"}

LoopEnds(p) ==
  /\ At(p, "loop") \/ At(p, "finished")
  /\ IF Now(p).status \in Completable THEN ReadAs(p, "complete") ELSE End(p)
  /\ UNCHANGED <<env, row, events, pending, asks, spent>>

(* Mutant: a step that task_finish recorded is counted again. *)
SteppedAgain(p) ==
  [Touch(Snap(p)) EXCEPT !.step = @ + 1, !.stuckRetried = FALSE]

Stepped(p) ==
  LET r == Snap(p)
  IN  [Touch(r) EXCEPT !.step = IF r.step >= inv[p].want THEN r.step ELSE r.step + 1,
                       !.stuckRetried = FALSE]

Seq(p) == IF Snap(p).step >= inv[p].want THEN inv[p].want ELSE Snap(p).step + 1

(* _park_waiting_approval re-checks only the stored status. *)
ParkWaitingApproval(p) ==
  /\ At(p, "complete") /\ inv[p].asked
  /\ IF Now(p).status \in {"running", "review"}
       THEN Put(T(p), [Align(Stepped(p)) EXCEPT !.status = "waiting_approval", !.idle = 0])
       ELSE UNCHANGED row
  /\ End(p)
  /\ UNCHANGED <<env, events, pending, asks, spent>>

(* patch_task_if_status *)
CompleteMovedRow(p) ==
  /\ At(p, "complete") /\ ~inv[p].asked
  /\ Snap(p).status # "running"
  /\ IF Now(p).status = Snap(p).status
       THEN Put(T(p), [Touch(Now(p)) EXCEPT !.step = Stepped(p).step, !.idle = 0,
                                            !.stuckRetried = FALSE])
       ELSE UNCHANGED row
  /\ End(p)
  /\ UNCHANGED <<env, events, pending, asks, spent>>

(* Mutant: the salvaged task goes to review and no review is invoked. *)
SalvageUnreviewed(t, r) ==
  /\ Put(t, [Align(r) EXCEPT !.status = IF r.revisions > 0 THEN "needs_owner" ELSE "review",
                             !.idle = 0])
  /\ UNCHANGED events

(* _salvage_to_review parks the task when lastReview is this attempt's return. *)
Salvage(t, r) ==
  IF r.revisions > 0
    THEN /\ Put(t, [Align(r) EXCEPT !.status = "needs_owner", !.idle = 0])
         /\ UNCHANGED events
    ELSE /\ Put(t, [Align(r) EXCEPT !.status = "review", !.idle = 0])
         /\ Invoke(ReviewEvent(t))

GiveUp(t, r) == Put(t, Fail(r)) /\ UNCHANGED events

Proceed(p, r) ==
  IF Seq(p) >= MaxSteps
    THEN Salvage(T(p), r) \/ GiveUp(T(p), r)
    ELSE Put(T(p), r) /\ Invoke(StepEvent(T(p), Seq(p) + 1))

CompleteProductive(p) ==
  /\ At(p, "complete") /\ ~inv[p].asked
  /\ Snap(p).status = "running"
  /\ Proceed(p, [Stepped(p) EXCEPT !.idle = 0])
  /\ End(p)
  /\ UNCHANGED <<env, pending, asks, spent>>

(* Mutant: the idle limit is off by one. *)
CompleteIdleOnceMore(p) ==
  /\ At(p, "complete") /\ ~inv[p].asked
  /\ Snap(p).status = "running"
  /\ LET r == [Stepped(p) EXCEPT !.idle = @ + 1]
     IN  \/ Salvage(T(p), r)
         \/ r.idle > MaxIdle /\ GiveUp(T(p), r)
         \/ r.idle <= MaxIdle /\ Proceed(p, r)
  /\ End(p)
  /\ UNCHANGED <<env, pending, asks, spent>>

CompleteIdle(p) ==
  /\ At(p, "complete") /\ ~inv[p].asked
  /\ Snap(p).status = "running"
  /\ LET r == [Stepped(p) EXCEPT !.idle = @ + 1]
     IN  \/ Salvage(T(p), r)
         \/ r.idle >= MaxIdle /\ GiveUp(T(p), r)
         \/ r.idle < MaxIdle /\ Proceed(p, r)
  /\ End(p)
  /\ UNCHANGED <<env, pending, asks, spent>>

-----------------------------------------------------------------------------
(* run_review, apply_review, _accept_task: read the row, ask a model, write the verdict. *)

Settled(t) ==
  \/ "early" \in env
  \/ \A p \in Procs : inv[p].pc \in Working \cup {"retry", "ownerJudge"} => T(p) # t

ReviewReceived(p, e) ==
  /\ e \in events /\ e.kind = "review"
  /\ At(p, "idle")
  /\ Settled(e.task)
  /\ Consume(e)
  /\ inv' = IF row[e.task].status = "review"
              THEN [inv EXCEPT ![p] = [Idle EXCEPT !.pc = "judge", !.task = e.task,
                                                   !.snap = row[e.task]]]
              ELSE inv
  /\ UNCHANGED <<env, row, pending, asks, spent>>

(* An unverified accept is held for the founder. *)
ReviewAccepts(p) ==
  /\ At(p, "judge")
  /\ \E status \in {"delivered", "needs_owner"} :
       Put(T(p), [Touch(Snap(p)) EXCEPT !.status = status])
  /\ End(p)
  /\ UNCHANGED <<env, events, pending, asks, spent>>

(* Mutant: the revision limit is off by one. *)
ReturnOnceMore(t, r) ==
  IF r.revisions <= MaxRevisions
    THEN /\ Put(t, [Align(r) EXCEPT !.status = "running", !.revisions = @ + 1, !.idle = 0])
         /\ Invoke(StepEvent(t, r.step + 1))
    ELSE /\ Put(t, [Touch(r) EXCEPT !.status = "needs_owner"])
         /\ UNCHANGED events

Return(t, r) ==
  IF r.revisions < MaxRevisions
    THEN /\ Put(t, [Align(r) EXCEPT !.status = "running", !.revisions = @ + 1, !.idle = 0])
         /\ Invoke(StepEvent(t, r.step + 1))
    ELSE /\ Put(t, [Touch(r) EXCEPT !.status = "needs_owner"])
         /\ UNCHANGED events

ReviewReturns(p) ==
  /\ "review" \in env
  /\ At(p, "judge")
  /\ Return(T(p), Snap(p))
  /\ End(p)
  /\ UNCHANGED <<env, pending, asks, spent>>

-----------------------------------------------------------------------------
(* The founder: owner_review (and the manager's staff_request_revision, a return), cancel, retry. *)

OwnerReviewReads(p, t) ==
  /\ "ownerReview" \in env
  /\ row[t].status # "absent"
  /\ Settled(t)
  /\ Begin(p, "ownerJudge", t)
  /\ UNCHANGED <<env, row, events, pending, asks, spent>>

OwnerAccepts(p) ==
  /\ At(p, "ownerJudge")
  /\ Put(T(p), [Touch(Snap(p)) EXCEPT !.status = "delivered"])
  /\ End(p)
  /\ UNCHANGED <<env, events, pending, asks, spent>>

OwnerReturns(p) ==
  /\ At(p, "ownerJudge")
  /\ Return(T(p), Snap(p))
  /\ End(p)
  /\ UNCHANGED <<env, pending, asks, spent>>

CancelTask(t) ==
  /\ "cancel" \in env
  /\ row[t].status \notin {"absent", "cancelled", "delivered"}
  /\ Put(t, [Touch(row[t]) EXCEPT !.status = "cancelled"])
  /\ UNCHANGED <<env, events, pending, asks, spent, inv>>

RetryReads(p, t) ==
  /\ "retry" \in env
  /\ row[t].status \in {"failed", "needs_owner"}
  /\ row[t].attempt < MaxAttempts
  /\ Settled(t)
  /\ Begin(p, "retry", t)
  /\ UNCHANGED <<env, row, events, pending, asks, spent>>

RetryWrites(p) ==
  /\ At(p, "retry")
  /\ Put(T(p), [NewRow("queued") EXCEPT !.attempt = Snap(p).attempt + 1])
  /\ inv' = [inv EXCEPT ![p] = Draining]
  /\ UNCHANGED <<env, events, pending, asks, spent>>

-----------------------------------------------------------------------------
(* decide_approval or expire_stale_approvals, then resume_after_approval. *)

Decide(p, t) ==
  /\ pending[t] > 0
  /\ "early" \in env \/ \A q \in Procs : inv[q].pc \in {"decided", "resume"} => T(q) # t
  /\ Begin(p, "decided", t)
  /\ pending' = [pending EXCEPT ![t] = @ - 1]
  /\ UNCHANGED <<env, row, events, asks, spent>>

ResumeReads(p) ==
  /\ At(p, "decided")
  /\ IF Now(p).status = "waiting_approval" THEN ReadAs(p, "resume") ELSE End(p)
  /\ UNCHANGED <<env, row, events, pending, asks, spent>>

StaysParked(p) ==
  /\ At(p, "resume")
  /\ pending[T(p)] > 0
  /\ Put(T(p), Touch(Snap(p)))
  /\ End(p)
  /\ UNCHANGED <<env, events, pending, asks, spent>>

Resumes(p) ==
  /\ At(p, "resume")
  /\ pending[T(p)] = 0
  /\ Put(T(p), [Align(Snap(p)) EXCEPT !.status = "running"])
  /\ Invoke(StepEvent(T(p), Snap(p).step + 1))
  /\ End(p)
  /\ UNCHANGED <<env, pending, asks, spent>>

-----------------------------------------------------------------------------
(* handle_tick: sweep the rows that look stuck; skipping a row is no step. *)

(* Mutant: the tick does not look at the age of the claim. *)
IsClaimed(r) == r.claimedAt # "none"

ClaimIsStale(r) == r.claimedAt = "stale"
NeverStarted(r) == r.claimedAt = "none" /\ r.step = 0 /\ r.updated >= 1

(* Mutant: the tick sweeps only what a claim or a review tells it. *)
StuckClaim(r) ==
  \/ /\ r.status = "running"
     /\ ClaimIsStale(r) \/ NeverStarted(r) \/ (r.updated = 1 /\ r.stuckRetried)
  \/ r.status = "review" /\ r.updated = 2

Stuck(r) ==
  \/ /\ r.status = "running"
     /\ ClaimIsStale(r) \/ NeverStarted(r) \/ r.updated = 2 \/ (r.updated = 1 /\ r.stuckRetried)
  \/ r.status = "review" /\ r.updated = 2

SweepLists(p, t) ==
  /\ "tick" \in env
  /\ Stuck(row[t])
  /\ "overlap" \in env \/ \A q \in Procs : inv[q].pc \in {"sweep", "sweepRetry"} => T(q) # t
  /\ Begin(p, "sweep", t)
  /\ UNCHANGED <<env, row, events, pending, asks, spent>>

SweepReleases(p) ==
  LET r == Snap(p)
  IN  /\ At(p, "sweep")
      /\ r.status = "running"
      /\ ClaimIsStale(r) \/ NeverStarted(r)
      /\ ~r.stuckRetried
      /\ Put(T(p), ReleaseStepClaim(Now(p), r.step + 1))
      /\ inv' = [inv EXCEPT ![p] = [@ EXCEPT !.pc = "sweepRetry", !.want = r.step + 1,
                                            !.snap = NewRow("absent")]]
      /\ UNCHANGED <<env, events, pending, asks, spent>>

SweepReinvokes(p) ==
  /\ At(p, "sweepRetry")
  /\ Put(T(p), [Touch(Now(p)) EXCEPT !.stuckRetried = TRUE])
  /\ Invoke(StepEvent(T(p), inv[p].want))
  /\ End(p)
  /\ UNCHANGED <<env, pending, asks, spent>>

SweepFails(p) ==
  LET r == Snap(p)
  IN  /\ At(p, "sweep")
      /\ r.status = "running"
      /\ r.stuckRetried \/ ~(ClaimIsStale(r) \/ NeverStarted(r))
      /\ Put(T(p), Fail(r))
      /\ End(p)
      /\ UNCHANGED <<env, events, pending, asks, spent>>

SweepReview(p) ==
  LET r == Snap(p)
  IN  /\ At(p, "sweep")
      /\ r.status = "review"
      /\ IF r.reviewRetried
           THEN /\ Put(T(p), [Touch(r) EXCEPT !.status = "needs_owner"])
                /\ UNCHANGED events
           ELSE /\ Put(T(p), [Touch(r) EXCEPT !.reviewRetried = TRUE])
                /\ Invoke(ReviewEvent(T(p)))
      /\ End(p)
      /\ UNCHANGED <<env, pending, asks, spent>>

-----------------------------------------------------------------------------
(***************************************************************************)
(* Time and the platform.  An invocation lives at most 300 s and an Event  *)
(* waits at most 10 minutes (EventInvokeConfig, no retries), so a row      *)
(* untouched for 330 s has no live invocation that wrote it or read an     *)
(* older version of it, and one untouched for 900 s has no live invocation *)
(* and no event at all.  stepClaimedAt is written with updatedAt, so the   *)
(* two age together (it may age first, by less than 300 s).                *)
(***************************************************************************)
ReadOnlySoFar(p, t) ==
  \/ At(p, "decided")
  \/ /\ inv[p].pc \in {"judge", "ownerJudge", "retry", "resume", "sweep"}
                       \cup (IF "late" \in env THEN {"claim"} ELSE {})
     /\ Snap(p) = row[t]

(* A drain that holds a task in its list read it queued: an older version once it is not. *)
Bystander(p, t) ==
  /\ inv[p].pc \in {"idle", "dead", "drainList", "drain"} \/ T(p) # t
  /\ t \in inv[p].queue => row[t].status = "queued"

PastClaimCut(t) ==
  /\ "tick" \in env
  /\ row[t].updated = 0
  /\ "late" \in env \/ \A e \in events : e.task # t
  /\ \A p \in Procs : Bystander(p, t) \/ ReadOnlySoFar(p, t)
  /\ Put(t, [row[t] EXCEPT !.updated = 1,
                           !.claimedAt = IF @ = "none" THEN "none" ELSE "stale"])
  /\ UNCHANGED <<env, events, pending, asks, spent, inv>>

PastStuckCut(t) ==
  /\ row[t].updated = 1
  /\ \A p \in Procs : Bystander(p, t)
  /\ Put(t, [row[t] EXCEPT !.updated = 2])
  /\ events' = {e \in events : e.task # t}
  /\ UNCHANGED <<env, pending, asks, spent, inv>>

(* The Lambda is killed, or an exception nobody catches ends it. *)
Crash(p) ==
  /\ "crash" \in env
  /\ ~At(p, "idle") /\ ~At(p, "dead")
  /\ inv' = [inv EXCEPT ![p] = Dead]
  /\ UNCHANGED <<env, row, events, pending, asks, spent>>

(* "dead" only tells a crash from an end; the invocation that follows is a new one. *)
DeadIsGone(p) ==
  /\ At(p, "dead")
  /\ End(p)
  /\ UNCHANGED <<env, row, events, pending, asks, spent>>

BudgetExhausts == /\ "budget" \in env /\ ~spent
                  /\ spent' = TRUE
                  /\ UNCHANGED <<env, row, events, pending, asks, inv>>

BudgetResets == /\ spent
                /\ spent' = FALSE
                /\ UNCHANGED <<env, row, events, pending, asks, inv>>

-----------------------------------------------------------------------------
Init ==
  /\ env \in Envs
  /\ row = [t \in Tasks |-> NewRow("absent")]
  /\ events = {}
  /\ pending = [t \in Tasks |-> 0]
  /\ asks = [t \in Tasks |-> 0]
  /\ spent = FALSE
  /\ inv = [p \in Procs |-> Idle]

Drain(p) == DrainList(p) \/ RequeueUnstarted(p)
            \/ \E t \in Tasks : DrainClaim(p, t) \/ DrainInvokeFails(p, t)

RunStep(p) == StepClaimed(p) \/ StepRefused(p) \/ StepOverBudget(p)
              \/ StepParkedForBudget(p) \/ StepStarts(p)

ToolLoop(p) == NoteReads(p) \/ NoteWrites(p) \/ Ask(p)
               \/ FinishReads(p) \/ FinishSubmits(p) \/ FinishInvokeFails(p) \/ FinishBlocked(p)

OnStepException(p) == LoopErrorOnMovedRow(p) \/ LoopCreditError(p)
                      \/ LoopErrorRetried(p) \/ LoopErrorFinal(p)

CompleteStep(p) == LoopEnds(p) \/ ParkWaitingApproval(p) \/ CompleteMovedRow(p)
                   \/ CompleteProductive(p) \/ CompleteIdle(p)

Review(p) == ReviewAccepts(p) \/ ReviewReturns(p)

Owner(p) == OwnerAccepts(p) \/ OwnerReturns(p) \/ RetryWrites(p)

Resume(p) == ResumeReads(p) \/ StaysParked(p) \/ Resumes(p)

Sweep(p) == SweepReleases(p) \/ SweepReinvokes(p) \/ SweepFails(p) \/ SweepReview(p)

(* What a running invocation does next. *)
Continue(p) == \/ Drain(p) \/ RunStep(p) \/ ToolLoop(p) \/ OnStepException(p)
               \/ CompleteStep(p) \/ Review(p) \/ Owner(p) \/ Resume(p) \/ Sweep(p)

Deliver(p, e) == StepReceived(p, e) \/ ReviewReceived(p, e)

(* What starts one from outside. *)
Start(p) == \/ TickDrain(p)
            \/ \E t \in Tasks : \/ CreateTask(p, t) \/ OwnerReviewReads(p, t)
                                \/ RetryReads(p, t) \/ Decide(p, t) \/ SweepLists(p, t)
            \/ \E e \in events : Deliver(p, e)

Environment == \/ BudgetExhausts \/ BudgetResets
               \/ \E t \in Tasks : CancelTask(t) \/ PastClaimCut(t) \/ PastStuckCut(t)
               \/ \E p \in Procs : Crash(p) \/ DeadIsGone(p)

Next == (\E p \in Procs : Continue(p) \/ Start(p)) \/ Environment

Spec == Init /\ [][Next]_vars

(***************************************************************************)
(* Lambda runs what it started, delivers what it accepted, and EventBridge *)
(* runs the tick every five minutes.  A founder need not act, but an       *)
(* approval nobody decides expires on the tick (expire_stale_approvals).   *)
(* In the end there is budget left and the invocations stop crashing.      *)
(***************************************************************************)
Fairness ==
  /\ \A p \in Procs : WF_vars(Continue(p))
  /\ \A t \in Tasks :
       /\ SF_vars(\E p \in Procs, e \in events : e.task = t /\ Deliver(p, e))
       /\ SF_vars(\E p \in Procs : SweepLists(p, t))
       /\ SF_vars(\E p \in Procs : Decide(p, t))
       /\ SF_vars(PastClaimCut(t) \/ PastStuckCut(t))
  /\ SF_vars(\E p \in Procs : TickDrain(p))
  /\ <>[] (~spent /\ \A p \in Procs : ~At(p, "dead"))

FairSpec == Spec /\ Fairness

-----------------------------------------------------------------------------
TypeOK ==
  /\ row \in [Tasks -> Row]
  /\ events \subseteq Events
  /\ pending \in [Tasks -> Nat]
  /\ asks \in [Tasks -> Nat]
  /\ spent \in BOOLEAN
  /\ inv \in [Procs -> Invocation]
-----------------------------------------------------------------------------

(***************************************************************************)
(* claim_task_step "exclusively claims the next step": two invocations are *)
(* never past the claim of the same step of a task, whatever was lost or   *)
(* crashed, and whether steps were retried or their events delivered twice *)
(* (both together, or a requeue and a redelivery, break it).               *)
(***************************************************************************)
StepExclusive ==
  \A p, q \in Procs : p # q /\ inv[p].pc \in Working /\ inv[q].pc \in Working
                        => T(p) # T(q) \/ inv[p].want # inv[q].want

(***************************************************************************)
(* _align_step_claim and _release_step_claim leave the next step free: a   *)
(* row that waits for somebody can be claimed as soon as it runs again,    *)
(* and no claim is ahead of the next step.                                 *)
(***************************************************************************)
NextStepClaimable ==
  \A t \in Tasks :
    /\ row[t].claimed <= row[t].step + 1
    /\ row[t].status \in {"queued", "waiting_approval", "review"} => row[t].claimed <= row[t].step

(***************************************************************************)
(* maxIdleStepsPerTask: a task that can still run has idle steps left, so  *)
(* no put of an old row brings an idled-out task back to work.             *)
(***************************************************************************)
IdleLeft(r) == r.status \in {"queued", "running", "waiting_approval"} => r.idle < MaxIdle

NeverRunsIdledOut == \A t \in Tasks : IdleLeft(row[t])

(***************************************************************************)
(* While no event is lost, nothing crashes, no invoke raises and the owner *)
(* gives no verdict, a running task has the event of its next step on the  *)
(* way or an invocation that will write it: the engine never waits for the *)
(* tick.  Two drains that listed the same task break it: the second finds  *)
(* the row promoted, claims step 1 in its stead and sends a second event;  *)
(* both events are refused, and the task waits for the sweep.  So no tick  *)
(* drains here, and no second task's creator does.                         *)
(***************************************************************************)
OnlyDelays == env \cap {"loss", "crash", "invokeError", "ownerReview"} = {}
OneDrain   == "drain" \notin env /\ Cardinality(Tasks) = 1

RunningIsDriven ==
  OnlyDelays /\ OneDrain => \A t \in Tasks : row[t].status = "running" =>
    \/ \E e \in events : e.kind = "step" /\ e.task = t /\ e.seq = row[t].step + 1
    \/ \E p \in Procs : T(p) = t /\ inv[p].pc \in Working \cup {"claim", "drainUndo", "sweepRetry"}

(* Likewise, a task in review has a review on the way, being judged or about to be invoked. *)
ReviewIsDriven ==
  OnlyDelays => \A t \in Tasks : row[t].status = "review" =>
    \/ \E e \in events : e.kind = "review" /\ e.task = t
    \/ \E p \in Procs : T(p) = t /\ inv[p].pc \in Working \cup {"judge"}

(***************************************************************************)
(* The tick's promise: with lost events, crashed invocations and failing   *)
(* steps, a task that was queued still comes to rest.                      *)
(***************************************************************************)
Rests == \A t \in Tasks :
  row[t].status \in {"queued", "running", "review"} /\ "tick" \in env ~>
    row[t].status \in {"waiting_approval", "delivered", "needs_owner", "failed", "cancelled"}

(***************************************************************************)
(* Although most puts write a row read earlier, every task follows its     *)
(* life cycle: no step it recorded is lost or counted twice, no verdict is *)
(* undone, and nothing but retry_task reopens a finished task.  (With no    *)
(* event delivered twice: then this is the specification of StaffLifecycle;*)
(* a duplicate of a requeued step or of a review may undo one.)            *)
(***************************************************************************)
Lifecycle == INSTANCE StaffLifecycle WITH
  status  <- [t \in Tasks |-> row[t].status],
  step    <- [t \in Tasks |-> row[t].step],
  attempt <- [t \in Tasks |-> row[t].attempt]

FollowsLifecycle ==
  Lifecycle!Init /\ [][Lifecycle!Next \/ "duplicate" \in env]_(Lifecycle!lifecycleVars)
=============================================================================

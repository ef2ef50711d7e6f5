------------------------------ MODULE CodeRunner ------------------------------
(***************************************************************************)
(* The engineering runner (board_code.py) for one GitHub issue.  Engineer  *)
(* tasks dispatch a GitHub workflow that pushes a branch and opens a pull  *)
(* request; the staff tick polls it and opens review and fix tasks; the    *)
(* architect's verdict, handled when a review is delivered, opens a        *)
(* revision or a merge task; the merge is guarded.                         *)
(*                                                                         *)
(* A branch is named after the task that dispatched it, and has a run row  *)
(* in the board table that the engineers, the poll, the delivery of a      *)
(* review and the founder read and then put whole.                         *)
(***************************************************************************)
EXTENDS Naturals, Sequences, FiniteSets

CONSTANTS
  MaxTasks,    \* bound: staff tasks
  MaxRounds,   \* codeRunMaxRounds: dispatches of a staff task
  MaxReviews,  \* codeReviewMaxRounds
  MaxFixes,    \* codeCiFixMaxRounds
  MaxJobs,     \* bound: workflow runs of a branch
  Modes        \* what else may happen, a subset of AllModes

(* crash: an invocation dies between two of its steps; error: GitHub refuses *)
(* a dispatch, or the guard a merge; giveUp: an engineer's task fails without *)
(* one; close: a person or code_close_pr closes the pull request; owner: the  *)
(* founder reopens the revisions; red, policy: CI may fail, over the tests or *)
(* over the board's policy; slow: CI may be pending for an hour; unpatched:   *)
(* the workflow may not take revisions yet.                                   *)
EnvKinds == {"crash", "error", "giveUp", "close", "owner", "red", "policy", "slow", "unpatched"}

(* jobs bounds the workflow runs of a branch. *)
AllModes == [env : SUBSET EnvKinds, jobs : 1..MaxJobs]

ASSUME CodeRunnerAssumption ==
  /\ MaxTasks \in Nat \ {0}
  /\ MaxRounds \in Nat /\ MaxReviews \in Nat /\ MaxFixes \in Nat
  /\ MaxJobs \in Nat \ {0}
  /\ Modes \subseteq AllModes

VARIABLES
  mode,    \* the environment of this behaviour; never changes
  pr,      \* GitHub: pr[b], the pull request of branch b
  jobs,    \* GitHub: jobs[b], the agent workflow runs of branch b, oldest first
  merges,  \* GitHub: merge workflows dispatched and not yet run
  cooled,  \* cooled[b]: how many dispatches are older than the cooldown
  run,     \* run[b]: the cached row code:run:{b}
  task,    \* task[t]: the staff task and where its invocation stands
  poll,    \* the staff tick: the run it polls
  patched  \* the workflow on staging takes the inputs a revision needs

vars == <<mode, pr, jobs, merges, cooled, run, task, poll, patched>>

-----------------------------------------------------------------------------
(* Staff task ids, taken in order; a branch is named after the task that opened it. *)
Tasks == 1..MaxTasks
None  == 0

CI      == {"pending", "green", "red", "policy"}
JobEnd  == {"ok", "failed"}
Reviews == {"review", "ciFailReview", "pendingReview"}
Kinds   == {"implement", "revise", "ciFix", "merge"} \cup Reviews

NoPr == [state |-> "none", head |-> 0, ci |-> "pending"]

(* at: which dispatch dispatchedAt is of; by: lastStaffTaskId; head, ci and *)
(* gone: what the last poll saw; seen: prSeenAt is over the grace of 60 min. *)
NoRun == [there |-> FALSE, at |-> 0, by |-> None, rounds |-> 0, ended |-> "no", pr |-> FALSE,
          gone |-> FALSE, head |-> 0, ci |-> "pending", seen |-> FALSE,
          reviews |-> 0, fixes |-> 0]

(* head: eventRef.headSha. *)
NoTask == [kind |-> "implement", status |-> "none", pc |-> "idle", branch |-> None, head |-> 0,
           verdict |-> "none", sent |-> FALSE, prior |-> NoRun]

Run == [there : BOOLEAN, at : 0..MaxJobs, by : Tasks \cup {None}, rounds : Nat,
        ended : {"no", "ok", "failed"}, pr : BOOLEAN, gone : BOOLEAN, head : 0..MaxJobs, ci : CI,
        seen : BOOLEAN, reviews : Nat, fixes : Nat]

Task == [kind : Kinds, status : {"none", "open", "delivered", "failed"},
         pc : {"idle", "checked", "sent", "read", "stamp", "follow", "guarded"},
         branch : Tasks \cup {None}, head : 0..MaxJobs,
         verdict : {"none", "accept", "changes"}, sent : BOOLEAN, prior : Run]

NotPolling == [pc |-> "idle", branch |-> None, state |-> NoRun]

Init ==
  /\ mode \in Modes
  /\ pr = [b \in Tasks |-> NoPr]
  /\ jobs = [b \in Tasks |-> <<>>]
  /\ merges = {}
  /\ cooled = [b \in Tasks |-> 0]
  /\ run = [b \in Tasks |-> NoRun]
  /\ task = [t \in Tasks |-> NoTask]
  /\ poll = NotPolling
  /\ patched \in {TRUE, "unpatched" \notin mode.env}

-----------------------------------------------------------------------------
(* create_task takes a fresh id. *)
Opened(t, kind, b, head) ==
  [NoTask EXCEPT !.kind = kind, !.status = "open", !.branch = b, !.head = head]
Free(t) == task[t].status = "none" /\ \A u \in 1..(t - 1) : task[u].status # "none"
Open(t) == task[t].status = "open"
Create(t, kind, b, head) ==
  /\ Free(t)
  /\ task' = [task EXCEPT ![t] = Opened(t, kind, b, head)]

At(t, pc) == Open(t) /\ task[t].pc = pc
Goes(t, pc) == task' = [task EXCEPT ![t].pc = pc]
Branch(t) == IF task[t].kind = "implement" THEN t ELSE task[t].branch

(* list_open_board_prs and _run_in_flight. *)
OpenPrs == {b \in Tasks : pr[b].state = "open"}
InFlight(row) == row.there /\ ~row.pr /\ row.ended = "no"

(* issue_has_open_board_pr: every branch here is for the one issue. *)
IssueTaken(t) == OpenPrs # {} \/ \E b \in Tasks \ {t} : InFlight(run[b])

-----------------------------------------------------------------------------
(* The engineers: op_run_task. *)

(* A task counts its own dispatches; a task that revises another's branch *)
(* starts from none.                                                      *)
RoundsOf(t, row) == IF task[t].kind = "implement" \/ row.by = t THEN row.rounds ELSE 0

Cooling(t, row) ==
  /\ row.at > 0
  /\ InFlight(row) \/ RoundsOf(t, row) > 0
  /\ row.at > cooled[Branch(t)]

MayRun(t) ==
  LET row == run[Branch(t)]
  IN /\ IF task[t].kind = "implement" THEN ~IssueTaken(t) ELSE patched
     /\ RoundsOf(t, row) < MaxRounds
     /\ ~Cooling(t, row)

RunTaskChecks(t) ==
  /\ At(t, "idle")
  /\ task[t].kind \in {"implement", "revise", "ciFix"}
  /\ MayRun(t)
  /\ Len(jobs[Branch(t)]) < mode.jobs
  /\ task' = [task EXCEPT ![t].pc = "checked", ![t].prior = run[Branch(t)]]
  /\ UNCHANGED <<mode, pr, jobs, merges, cooled, run, poll, patched>>

(* dispatch_workflow: GitHub starts a run. *)
RunTaskDispatches(t) ==
  /\ At(t, "checked")
  /\ Len(jobs[Branch(t)]) < mode.jobs
  /\ jobs' = [jobs EXCEPT ![Branch(t)] = Append(@, "running")]
  /\ Goes(t, "sent")
  /\ UNCHANGED <<mode, pr, merges, cooled, run, poll, patched>>

(* GitHub refuses the dispatch; the tool call ends in an error. *)
RunTaskRefused(t) ==
  /\ "error" \in mode.env
  /\ At(t, "checked")
  /\ Goes(t, "idle")
  /\ UNCHANGED <<mode, pr, jobs, merges, cooled, run, poll, patched>>

(* The row read before the dispatch is put, with this run's counters. *)
RunTaskPuts(t) ==
  LET row == task[t].prior
  IN /\ At(t, "sent")
     /\ run' = [run EXCEPT ![Branch(t)] =
                  [row EXCEPT !.there = TRUE, !.at = Len(jobs[Branch(t)]), !.by = t,
                              !.rounds = RoundsOf(t, row) + 1, !.ended = "no",
                              !.fixes = IF task[t].kind = "ciFix" THEN @ + 1 ELSE @]]
     /\ task' = [task EXCEPT ![t].pc = "idle", ![t].prior = NoRun, ![t].sent = TRUE]
     /\ UNCHANGED <<mode, pr, jobs, merges, cooled, poll, patched>>

(* The engineer finishes: delivered once it dispatched, else it fails. *)
EngineerEnds(t) ==
  /\ At(t, "idle")
  /\ task[t].sent \/ "giveUp" \in mode.env
  /\ task[t].kind \in {"implement", "revise", "ciFix"}
  /\ task' = [task EXCEPT ![t].status = IF task[t].sent THEN "delivered" ELSE "failed"]
  /\ UNCHANGED <<mode, pr, jobs, merges, cooled, run, poll, patched>>

-----------------------------------------------------------------------------
(* The architect, and on_review_delivered. *)

(* code_review_pr. *)
ReviewReads(t) ==
  /\ At(t, "idle") /\ task[t].kind \in Reviews
  /\ task' = [task EXCEPT ![t].pc = "read"]
  /\ UNCHANGED <<mode, pr, jobs, merges, cooled, run, poll, patched>>

(* The review is accepted and delivered; the run row is read. *)
ReviewDelivered(t, verdict) ==
  /\ At(t, "read")
  /\ task' = [task EXCEPT ![t].status = "delivered", ![t].pc = "stamp", ![t].verdict = verdict,
                          ![t].prior = run[task[t].branch]]
  /\ UNCHANGED <<mode, pr, jobs, merges, cooled, run, poll, patched>>

(* review_bundle: the head the pull request has by now is written into the task. *)
ReviewStamps(t) ==
  /\ task[t].pc = "stamp"
  /\ task' = [task EXCEPT ![t].pc = "follow", ![t].head = pr[task[t].branch].head]
  /\ UNCHANGED <<mode, pr, jobs, merges, cooled, run, poll, patched>>

FollowDone(t, u, kind) ==
  /\ Free(u)
  /\ task' = [task EXCEPT ![u] = Opened(u, kind, task[t].branch, 0),
                          ![t].pc = "idle", ![t].prior = NoRun]

(* Changes: another round, counted in the row read before. *)
FollowRevise(t, u) ==
  /\ task[t].pc = "follow" /\ task[t].verdict = "changes"
  /\ task[t].prior.reviews + 1 < MaxReviews
  /\ FollowDone(t, u, "revise")
  /\ run' = [run EXCEPT ![task[t].branch] = [task[t].prior EXCEPT !.reviews = @ + 1]]
  /\ UNCHANGED <<mode, pr, jobs, merges, cooled, poll, patched>>

FollowMerge(t, u) ==
  /\ task[t].pc = "follow" /\ task[t].verdict = "accept"
  /\ FollowDone(t, u, "merge")
  /\ UNCHANGED <<mode, pr, jobs, merges, cooled, run, poll, patched>>

(* Enough rounds, notes that only say CI is pending, or create_task refuses. *)
FollowNothing(t) ==
  /\ task[t].pc = "follow"
  /\ task' = [task EXCEPT ![t].pc = "idle", ![t].prior = NoRun]
  /\ UNCHANGED <<mode, pr, jobs, merges, cooled, run, poll, patched>>

-----------------------------------------------------------------------------
(* The merge: merge_guard, then the workflow that merges. *)

ArchitectAccepted(b) ==
  \E t \in Tasks : /\ task[t].kind = "review" /\ task[t].branch = b
                   /\ task[t].status = "delivered" /\ task[t].verdict = "accept"
                   /\ task[t].head = pr[b].head

(* Mutant: the guard leaves the architect out. *)
MergeGuardCiOnly(b) == pr[b].state = "open" /\ pr[b].ci = "green"

MergeGuard(b) == pr[b].state = "open" /\ pr[b].ci = "green" /\ ArchitectAccepted(b)

MergeChecks(t) ==
  /\ At(t, "idle") /\ task[t].kind = "merge"
  /\ MergeGuard(task[t].branch)
  /\ Goes(t, "guarded")
  /\ UNCHANGED <<mode, pr, jobs, merges, cooled, run, poll, patched>>

MergeDispatches(t) ==
  /\ At(t, "guarded")
  /\ merges' = merges \cup {task[t].branch}
  /\ task' = [task EXCEPT ![t].status = "delivered", ![t].pc = "idle"]
  /\ UNCHANGED <<mode, pr, jobs, cooled, run, poll, patched>>

(* The guard refuses, or nobody approves: the merge task ends without. *)
MergeEnds(t) ==
  /\ "error" \in mode.env
  /\ At(t, "idle") /\ task[t].kind = "merge"
  /\ task' = [task EXCEPT ![t].status = "failed"]
  /\ UNCHANGED <<mode, pr, jobs, merges, cooled, run, poll, patched>>

-----------------------------------------------------------------------------
(* The staff tick: poll_runs and maybe_assign_ready_issues. *)

(* Mutant: CI is asked for once per head. *)
PolledOnce(b) ==
  LET last == jobs[b][Len(jobs[b])]
      row  == [run[b] EXCEPT !.ended = IF jobs[b] # <<>> /\ last # "running" THEN last ELSE @,
                             !.pr = @ \/ pr[b].state # "none"]
  IN IF pr[b].state = "none" \/ run[b].head = pr[b].head THEN row
     ELSE [row EXCEPT !.gone = pr[b].state # "open", !.head = pr[b].head, !.ci = pr[b].ci,
                      !.seen = @ /\ run[b].head = pr[b].head]

(* op_get_run: the stored row brought up to date with what GitHub says. *)
Polled(b) ==
  LET last == jobs[b][Len(jobs[b])]
      row  == [run[b] EXCEPT !.ended = IF jobs[b] # <<>> /\ last # "running" THEN last ELSE @,
                             !.pr = @ \/ pr[b].state # "none"]
  IN IF pr[b].state = "none" THEN row
     ELSE [row EXCEPT !.gone = pr[b].state # "open", !.head = pr[b].head, !.ci = pr[b].ci,
                      !.seen = @ /\ run[b].head = pr[b].head]

(* A merged pull request has left the index. *)
PollReads(b) ==
  /\ poll.pc = "idle"
  /\ run[b].there
  /\ ~(run[b].gone /\ pr[b].state = "merged")
  /\ poll' = [pc |-> "read", branch |-> b, state |-> Polled(b)]
  /\ UNCHANGED <<mode, pr, jobs, merges, cooled, run, task, patched>>

PollPuts ==
  /\ poll.pc = "read"
  /\ run' = [run EXCEPT ![poll.branch] = poll.state]
  /\ poll' = [poll EXCEPT !.pc = "decide"]
  /\ UNCHANGED <<mode, pr, jobs, merges, cooled, task, patched>>

(* _find_task: a task of this kind for this pull request that is not failed. *)
Found(kind, b) ==
  \E t \in Tasks : task[t].kind = kind /\ task[t].branch = b
                   /\ task[t].status \in {"open", "delivered"}

(* A ci-fix task for this head, whatever became of it; and _ci_fail_covers_sha. *)
FixFound(b, head) ==
  \E t \in Tasks : task[t].kind = "ciFix" /\ task[t].branch = b /\ task[t].head = head
CiFailCovers(b, head) ==
  \E t \in Tasks : /\ task[t].kind = "ciFailReview" /\ task[t].branch = b
                   /\ task[t].status \in {"open", "delivered"} /\ task[t].head = head

(* _ci_fix_skip_reason has nothing to say. *)
MayFix(state) == state.ci = "red" /\ state.fixes < MaxFixes /\ patched

(* Mutant: a fix does not ask whether the architect has the head already. *)
PollFixUncovered(t) ==
  LET b == poll.branch
      state == poll.state
  IN /\ poll.pc = "decide"
     /\ state.pr /\ ~state.gone /\ MayFix(state)
     /\ ~FixFound(b, state.head)
     /\ Create(t, "ciFix", b, state.head)
     /\ poll' = NotPolling
     /\ UNCHANGED <<mode, pr, jobs, merges, cooled, run, patched>>

(* A red head first goes back to an engineer (_maybe_ci_fix). *)
PollFix(t) ==
  LET b == poll.branch
      state == poll.state
  IN /\ poll.pc = "decide"
     /\ state.pr /\ ~state.gone /\ MayFix(state)
     /\ ~FixFound(b, state.head) /\ ~CiFailCovers(b, state.head)
     /\ Create(t, "ciFix", b, state.head)
     /\ poll' = NotPolling
     /\ UNCHANGED <<mode, pr, jobs, merges, cooled, run, patched>>

(* The review the state calls for, if any. *)
Wanted(b, state) ==
  CASE state.ci = "green" -> {"review"}
    [] state.ci = "pending" /\ state.seen -> {"pendingReview"}
    [] state.ci \in {"red", "policy"} /\ ~MayFix(state)
       /\ ~FixFound(b, state.head) /\ ~CiFailCovers(b, state.head) -> {"ciFailReview"}
    [] OTHER -> {}

PollReview(t) ==
  LET b == poll.branch
      state == poll.state
  IN /\ poll.pc = "decide"
     /\ state.pr /\ ~state.gone
     /\ \E kind \in Wanted(b, state) :
          /\ ~Found(kind, b)
          /\ Create(t, kind, b, state.head)
     /\ poll' = NotPolling
     /\ UNCHANGED <<mode, pr, jobs, merges, cooled, run, patched>>

(* Nothing to open for this pull request. *)
PollNothing ==
  LET b == poll.branch
      state == poll.state
  IN /\ poll.pc = "decide"
     /\ \/ ~state.pr \/ state.gone
        \/ /\ ~MayFix(state) \/ FixFound(b, state.head) \/ CiFailCovers(b, state.head)
           /\ \A kind \in Wanted(b, state) : Found(kind, b)
     /\ poll' = NotPolling
     /\ UNCHANGED <<mode, pr, jobs, merges, cooled, run, task, patched>>

(* The ready issue goes to an engineer. *)
AssignIssue(t) ==
  /\ poll.pc = "idle"
  /\ ~IssueTaken(None)
  /\ ~\E u \in Tasks : task[u].kind = "implement" /\ task[u].status \in {"open", "delivered"}
  /\ Create(t, "implement", None, 0)
  /\ UNCHANGED <<mode, pr, jobs, merges, cooled, run, poll, patched>>

-----------------------------------------------------------------------------
(* The founder. *)

(* owner_revision_ref: the review rounds start again. *)
OwnerReopens(t, b) ==
  /\ "owner" \in mode.env
  /\ run[b].there /\ run[b].pr
  /\ Create(t, "revise", b, 0)
  /\ run' = [run EXCEPT ![b].reviews = 0]
  /\ UNCHANGED <<mode, pr, jobs, merges, cooled, poll, patched>>

ClosePr(b) ==
  /\ "close" \in mode.env
  /\ pr[b].state = "open"
  /\ pr' = [pr EXCEPT ![b].state = "closed"]
  /\ UNCHANGED <<mode, jobs, merges, cooled, run, task, poll, patched>>

-----------------------------------------------------------------------------
(* GitHub, and the clock. *)

(* A run that ends well opens the pull request or moves its head. *)
JobEnds(b, i, end) ==
  /\ i \in DOMAIN jobs[b] /\ jobs[b][i] = "running"
  /\ jobs' = [jobs EXCEPT ![b][i] = end]
  /\ pr' = IF end = "failed" \/ pr[b].state \in {"closed", "merged"} THEN pr
           ELSE [pr EXCEPT ![b] = [state |-> "open", head |-> @.head + 1, ci |-> "pending"]]
  /\ UNCHANGED <<mode, merges, cooled, run, task, poll, patched>>

CiEnds(b, ci) ==
  /\ pr[b].state = "open" /\ pr[b].ci = "pending"
  /\ ci \in mode.env \cup {"green"}
  /\ pr' = [pr EXCEPT ![b].ci = ci]
  /\ UNCHANGED <<mode, jobs, merges, cooled, run, task, poll, patched>>

(* board-merge-staging.yml looks at CI again and merges the head it finds. *)
MergeRuns(b) ==
  /\ b \in merges
  /\ merges' = merges \ {b}
  /\ pr' = IF pr[b].state = "open" /\ pr[b].ci = "green" THEN [pr EXCEPT ![b].state = "merged"] ELSE pr
  /\ UNCHANGED <<mode, jobs, cooled, run, task, poll, patched>>

(* The owner applies the patch of Appendix A to the workflow. *)
RunnerPatched ==
  /\ ~patched
  /\ patched' = TRUE
  /\ UNCHANGED <<mode, pr, jobs, merges, cooled, run, task, poll>>

(* 900 s after a dispatch. *)
CoolDown(b) ==
  /\ cooled[b] < Len(jobs[b])
  /\ \A t \in Tasks : task[t].pc = "sent" => Branch(t) # b
  /\ cooled' = [cooled EXCEPT ![b] = @ + 1]
  /\ UNCHANGED <<mode, pr, jobs, merges, run, task, poll, patched>>

(* 60 minutes after the pull request, or its head, was seen first. *)
GraceOver(b) ==
  /\ "slow" \in mode.env
  /\ run[b].pr /\ ~run[b].seen
  /\ run' = [run EXCEPT ![b].seen = TRUE]
  /\ UNCHANGED <<mode, pr, jobs, merges, cooled, task, poll, patched>>

(* An invocation dies after one of its writes: the dispatch is never recorded, the *)
(* head of a review not written, its follow-up not opened, the poll not acted on.  *)
(* Dying earlier is the same as being refused, and is tried again.                 *)
EngineerOrReviewDies(t) ==
  /\ "crash" \in mode.env
  /\ task[t].pc \in {"sent", "stamp", "follow"}
  /\ task' = [task EXCEPT ![t].pc = "idle", ![t].prior = NoRun]
  /\ UNCHANGED <<mode, pr, jobs, merges, cooled, run, poll, patched>>

PollDies ==
  /\ "crash" \in mode.env
  /\ poll.pc = "decide"
  /\ poll' = NotPolling
  /\ UNCHANGED <<mode, pr, jobs, merges, cooled, run, task, patched>>

EngineerStep(t) == RunTaskChecks(t) \/ RunTaskDispatches(t) \/ RunTaskPuts(t)
ReviewStep(t) ==
  \/ ReviewReads(t) \/ ReviewStamps(t)
  \/ \E verdict \in {"accept", "changes"} : ReviewDelivered(t, verdict)
  \/ \E u \in Tasks : FollowRevise(t, u) \/ FollowMerge(t, u)
MergeStep(t) == MergeChecks(t) \/ MergeDispatches(t)
PollDecides == PollNothing \/ \E t \in Tasks : PollFix(t) \/ PollReview(t)

Next ==
  \/ \E t \in Tasks :
       \/ EngineerStep(t) \/ RunTaskRefused(t) \/ EngineerEnds(t)
       \/ ReviewStep(t) \/ FollowNothing(t)
       \/ MergeStep(t) \/ MergeEnds(t)
       \/ EngineerOrReviewDies(t)
       \/ AssignIssue(t) \/ \E b \in Tasks : OwnerReopens(t, b)
  \/ PollPuts \/ PollDecides
  \/ PollDies \/ RunnerPatched
  \/ \E b \in Tasks :
       \/ PollReads(b) \/ ClosePr(b) \/ MergeRuns(b) \/ CoolDown(b) \/ GraceOver(b)
       \/ \E i \in DOMAIN jobs[b], end \in JobEnd : JobEnds(b, i, end)
       \/ \E ci \in {"green", "red", "policy"} : CiEnds(b, ci)

(* The tick comes back every five minutes, gets to every run of its index, and *)
(* does not die at the same place every time.                                  *)
Fairness == WF_vars(PollPuts) /\ SF_vars(PollDecides) /\ \A b \in Tasks : SF_vars(PollReads(b))

Spec == Init /\ [][Next]_vars /\ Fairness

-----------------------------------------------------------------------------
(* Nothing is merged for the board before an architect accepted that pull request *)
(* in a review of a green run: not on an accept of its red or pending state, nor   *)
(* after a verdict that asked for changes.                                         *)
MergedWasAccepted ==
  \A b \in Tasks : pr[b].state = "merged" =>
    \E t \in Tasks : task[t].kind = "review" /\ task[t].branch = b /\ task[t].verdict = "accept"

(* "Architect pr:{n}:ci-fail and engineer ci-fix must not share a SHA"           *)
(* (board_code.py:2148): while the architect has a failing head under review, no *)
(* engineer is sent to fix it, also when the workflow is patched in between.     *)
FixOrReview ==
  \A t, u \in Tasks :
    /\ task[t].kind = "ciFix" /\ task[u].kind = "ciFailReview" /\ task[u].status = "open"
    /\ task[t].branch = task[u].branch
    => task[t].head # task[u].head

(* A recorded run whose pull request turns green gets its review, whatever else the *)
(* tick opens for it first and wherever it dies (unless the bound on tasks is met). *)
GreenIsReviewed ==
  \A b \in Tasks :
    run[b].there /\ pr[b].state = "open" /\ pr[b].ci = "green" ~>
      \/ \E t \in Tasks : task[t].kind = "review" /\ task[t].branch = b
      \/ pr[b].state # "open" \/ pr[b].ci # "green"
      \/ \A t \in Tasks : task[t].status # "none"
=============================================================================

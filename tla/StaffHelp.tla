------------------------------ MODULE StaffHelp ------------------------------
(***************************************************************************)
(* A staff task that asks a colleague for help (board_staff_help.py and    *)
(* its hooks in board_staff.py and board_staff_review.py): the parent is   *)
(* parked, the colleague's task is its child, and whoever ends the child   *)
(* makes the parent run again.  A manager who may only propose puts the    *)
(* request to the founder first; a wait of 24 hours is ended by the tick.  *)
(*                                                                         *)
(* The parent's own steps are StaffTask's, reduced here to claim, tool     *)
(* loop and completion; a child is reduced to where its life cycle stands. *)
(* Rows are put as a whole, from a copy read before some I/O.              *)
(***************************************************************************)
EXTENDS Naturals, FiniteSets

CONSTANTS
  Children,    \* task ids for children; bound: no more requests than that
  NoChild,     \* none of them
  Procs,       \* concurrent Lambda invocations
  MaxSteps,    \* maxStepsPerTask
  MaxHelp,     \* maxHelpRequestsPerTask
  MaxRetries,  \* bound: how often the founder retries the parent
  Envs         \* the environments to check: each a set of EnvKinds

(***************************************************************************)
(* loss     an Event invoke is not delivered, or was not sent by an        *)
(*          invocation that died after its put                             *)
(* crash    an invocation dies between two of its writes                   *)
(* propose  the manager's staff level is propose, the founder decides      *)
(* cancel, retry   the founder's calls                                     *)
(* again    the founder cancels or retries a child that has already failed *)
(* early    a child ends, or the founder decides or cancels, before the    *)
(*          step that asked has ended                                      *)
(* overlap  two invocations that may end the same wait run at once, or a   *)
(*          step asks while one of the last wait still runs                *)
(***************************************************************************)
EnvKinds == {"loss", "crash", "propose", "cancel", "retry", "again", "early",
             "overlap"}

ASSUME HelpAssumption ==
  /\ NoChild \notin Children
  /\ IsFiniteSet(Children)
  /\ {MaxSteps, MaxHelp, MaxRetries} \subseteq Nat
  /\ Envs \subseteq SUBSET EnvKinds

VARIABLES
  env,       \* what may happen in this behaviour; never changes
  parent,    \* the parent's row
  child,     \* child[c]: the status of a child's row
  proposal,  \* the approval of op task_request_help
  told,      \* the children whose memo is in the parent's scratchpad
  events,    \* the steps of the parent that Event invokes on the way name
  proc,      \* proc[p]: what invocation p does next and holds
  retries    \* how often the parent was retried

vars == <<env, parent, child, proposal, told, events, proc, retries>>

-----------------------------------------------------------------------------
Open     == {"open", "review", "needs_owner"}
Held     == {"review", "needs_owner"}  \* OWNER_HELD_CHILD_STATUSES
Waits    == {"waiting_subtask", "waiting_approval"}
Statuses == {"running", "done", "failed", "cancelled"} \cup Waits

(* open stands for queued, running and waiting_approval of a child; done for   *)
(* the parent's review and everything after it.  waited: parkedAt is older     *)
(* than waitingExpiryHours; swept is stuckRetried.                             *)
Row == [status : Statuses, step : Nat, claimed : Nat, asked : Nat, help : SUBSET Children,
        waited : BOOLEAN, swept : BOOLEAN]

NewRow == [status |-> "running", step |-> 0, claimed |-> 0, asked |-> 0, help |-> {},
           waited |-> FALSE, swept |-> FALSE]

(* A step of the parent past its claim; what may end a wait or write the      *)
(* parent's row meanwhile.                                                     *)
Working == {"loop", "create", "park", "complete"}
Ending  == {"tell", "resume", "tellHeld", "note", "expire", "cancelKids", "retryKids",
            "reject", "giveUp", "run", "declined"}

Invocation == [pc : {"idle", "dead"} \cup Working \cup Ending, want : Nat, snap : Row,
               child : Children \cup {NoChild}, good : BOOLEAN, proposes : BOOLEAN,
               owner : BOOLEAN]

Idle == [pc |-> "idle", want |-> 0, snap |-> NewRow, child |-> NoChild, good |-> FALSE,
         proposes |-> FALSE, owner |-> FALSE]

At(p, pc)   == proc[p].pc = pc
Snap(p)     == proc[p].snap
Is(p, rec)  == proc' = [proc EXCEPT ![p] = rec]
Goto(p, pc) == Is(p, [proc[p] EXCEPT !.pc = pc])
Reads(p, pc) == Is(p, [proc[p] EXCEPT !.pc = pc, !.snap = parent])
Begins(p, pc) == At(p, "idle") /\ Is(p, [Idle EXCEPT !.pc = pc, !.snap = parent])
End(p)      == Is(p, Idle)

Settled == "early" \in env \/ \A q \in Procs : proc[q].pc \notin Working
Alone   == "overlap" \in env \/ \A q \in Procs : proc[q].pc \notin Ending /\ ~proc[q].owner

Fresh == {c \in Children : child[c] = "absent"}

OpenKids(r) == {c \in r.help : child[c] \in Open}

(* invoke_async of the parent's next step. *)
Invoke(n) == \/ events' = events \cup {n}
             \/ "loss" \in env /\ UNCHANGED events

(* _clear_parked and _align_step_claim of a row that runs again. *)
Resumed(r) == [r EXCEPT !.status = "running", !.waited = FALSE, !.claimed = r.step]

Init ==
  /\ env \in Envs
  /\ parent = NewRow
  /\ child = [c \in Children |-> "absent"]
  /\ proposal = "none"
  /\ told = {}
  /\ events = {1}
  /\ proc = [p \in Procs |-> Idle]
  /\ retries = 0

-----------------------------------------------------------------------------
(* run_step of the parent, its tools and its end. *)

StepClaims(p, n) ==
  /\ At(p, "idle")
  /\ n \in events
  /\ events' = events \ {n}
  /\ IF parent.status = "running" /\ n = parent.step + 1 /\ parent.claimed < n
       THEN /\ parent' = [parent EXCEPT !.claimed = n]
            /\ Is(p, [Idle EXCEPT !.pc = "loop", !.want = n])
       ELSE UNCHANGED <<parent, proc>>
  /\ UNCHANGED <<env, child, proposal, told, retries>>

(* prepare_help_request; only the founder's approval is executed for a parent *)
(* that waits for it.                                                         *)
MayAsk(statuses) ==
  /\ parent.status \in statuses
  /\ parent.asked < MaxHelp
  /\ OpenKids(parent) = {}

HelpReads(p) ==
  /\ At(p, "loop")
  /\ "propose" \notin env
  /\ Alone
  /\ MayAsk({"running"}) /\ Fresh # {}
  /\ Reads(p, "create")
  /\ UNCHANGED <<env, parent, child, proposal, told, events, retries>>

HelpProposed(p) ==
  /\ At(p, "loop")
  /\ "propose" \in env
  /\ MayAsk({"running"}) /\ Fresh # {}
  /\ proposal # "pending"
  /\ proposal' = "pending"
  /\ Is(p, [proc[p] EXCEPT !.proposes = TRUE])
  /\ UNCHANGED <<env, parent, child, told, events, retries>>

(* op_task_request_help: create_task, then _park_waiting_subtask. *)
HelpCreates(p) ==
  /\ At(p, "create")
  /\ Fresh # {}
  /\ LET c == CHOOSE c \in Fresh : TRUE
     IN  /\ child' = [child EXCEPT ![c] = "open"]
         /\ Is(p, [proc[p] EXCEPT !.pc = "park", !.child = c])
  /\ UNCHANGED <<env, parent, proposal, told, events, retries>>

HelpParks(p) ==
  /\ At(p, "park")
  /\ parent' = IF parent.status \in {"running", "waiting_approval"}
                 THEN [Snap(p) EXCEPT !.status = "waiting_subtask", !.asked = @ + 1,
                                      !.help = @ \cup {proc[p].child}, !.waited = FALSE,
                                      !.claimed = Snap(p).step]
                 ELSE parent
  /\ IF proc[p].owner THEN End(p) ELSE Goto(p, "loop")
  /\ UNCHANGED <<env, child, proposal, told, events, retries>>

(* _complete_step *)
LoopEnds(p) ==
  /\ At(p, "loop")
  /\ IF parent.status \in {"running", "done"} \cup Waits THEN Reads(p, "complete") ELSE End(p)
  /\ UNCHANGED <<env, parent, child, proposal, told, events, retries>>

Stepped(p) ==
  [Snap(p) EXCEPT !.step = IF @ >= proc[p].want THEN @ ELSE @ + 1, !.swept = FALSE]

(* _park_waiting_approval *)
CompleteParks(p) ==
  /\ At(p, "complete") /\ proc[p].proposes
  /\ parent' = IF parent.status \in {"running", "done"}
                 THEN [Stepped(p) EXCEPT !.status = "waiting_approval", !.waited = FALSE,
                                         !.claimed = Stepped(p).step]
                 ELSE parent
  /\ End(p)
  /\ UNCHANGED <<env, child, proposal, told, events, retries>>

(* patch_task_if_status *)
CompletePatches(p) ==
  /\ At(p, "complete") /\ ~proc[p].proposes
  /\ Snap(p).status # "running"
  /\ parent' = IF parent.status = Snap(p).status
                 THEN [parent EXCEPT !.step = Stepped(p).step, !.swept = FALSE]
                 ELSE parent
  /\ End(p)
  /\ UNCHANGED <<env, child, proposal, told, events, retries>>

CompleteRuns(p) ==
  /\ At(p, "complete") /\ ~proc[p].proposes
  /\ Snap(p).status = "running"
  /\ \/ /\ \E status \in {"done", "failed"} : parent' = [Stepped(p) EXCEPT !.status = status]
        /\ UNCHANGED events
     \/ /\ Stepped(p).step < MaxSteps
        /\ parent' = Stepped(p)
        /\ Invoke(Stepped(p).step + 1)
  /\ End(p)
  /\ UNCHANGED <<env, child, proposal, told, retries>>

-----------------------------------------------------------------------------
(* The child: its manager or the founder returns or accepts what it           *)
(* submitted, it is held for the founder, fails or is cancelled.  Whoever     *)
(* ends it tells the parent.                                                  *)

ChildSubmits(c) ==
  /\ child[c] = "open"
  /\ child' = [child EXCEPT ![c] = "review"]
  /\ UNCHANGED <<env, parent, proposal, told, events, proc, retries>>

ChildReturned(c) ==
  /\ child[c] \in Held
  /\ child' = [child EXCEPT ![c] = "open"]
  /\ UNCHANGED <<env, parent, proposal, told, events, proc, retries>>

(* retry_task of a child: its parent is not looked at. *)
ChildRetried(c) ==
  /\ "retry" \in env /\ Alone
  /\ child[c] = "needs_owner" \/ ("again" \in env /\ child[c] = "failed")
  /\ child' = [child EXCEPT ![c] = "open"]
  /\ UNCHANGED <<env, parent, proposal, told, events, proc, retries>>

ChildMayEnd(c, status) ==
  \/ status = "delivered" /\ child[c] \in Held
  \/ status = "failed" /\ child[c] = "open"
  \/ status = "cancelled" /\ "cancel" \in env /\ child[c] \in Open
  \/ status = "cancelled" /\ {"cancel", "again"} \subseteq env /\ child[c] = "failed"

ChildEnds(p, c, status) ==
  /\ At(p, "idle")
  /\ Settled /\ Alone
  /\ ChildMayEnd(c, status)
  /\ child' = [child EXCEPT ![c] = status]
  /\ Is(p, [Idle EXCEPT !.pc = "tell", !.child = c, !.good = (status = "delivered")])
  /\ UNCHANGED <<env, parent, proposal, told, events, retries>>

ChildIsHeld(p, c) ==
  /\ At(p, "idle")
  /\ Settled /\ Alone
  /\ child[c] \in {"open", "review"}
  /\ child' = [child EXCEPT ![c] = "needs_owner"]
  /\ Is(p, [Idle EXCEPT !.pc = "tellHeld", !.child = c])
  /\ UNCHANGED <<env, parent, proposal, told, events, retries>>

(* Mutant: the parent is resumed whatever it is doing. *)
TellsAnybody(p) ==
  /\ At(p, "tell")
  /\ IF parent.status # "cancelled" THEN Reads(p, "resume") ELSE End(p)
  /\ UNCHANGED <<env, parent, child, proposal, told, events, retries>>

(* _resume_parent_after_help: read, write the memo into the scratchpad, put, invoke. *)
TellReads(p) ==
  /\ At(p, "tell")
  /\ IF parent.status = "waiting_subtask" THEN Reads(p, "resume") ELSE End(p)
  /\ UNCHANGED <<env, parent, child, proposal, told, events, retries>>

ResumePuts(p) ==
  /\ At(p, "resume")
  /\ told' = IF proc[p].good THEN told \cup {proc[p].child} ELSE told
  /\ parent' = Resumed(Snap(p))
  /\ Invoke(Snap(p).step + 1)
  /\ End(p)
  /\ UNCHANGED <<env, child, proposal, retries>>

(* _note_parent_child_waiting leaves the clock of the wait as it is. *)
HeldReads(p) ==
  /\ At(p, "tellHeld")
  /\ IF parent.status = "waiting_subtask" THEN Reads(p, "note") ELSE End(p)
  /\ UNCHANGED <<env, parent, child, proposal, told, events, retries>>

NotePuts(p) ==
  /\ At(p, "note")
  /\ parent' = Snap(p)
  /\ End(p)
  /\ UNCHANGED <<env, child, proposal, told, events, retries>>

-----------------------------------------------------------------------------
(* decide_approval of the proposal: it is claimed, then run as the founder's *)
(* or declined; resume_after_approval counts what came to nothing.           *)

Decide(p, pc) ==
  /\ proposal = "pending"
  /\ Settled /\ Alone
  /\ proposal' = "decided"
  /\ Begins(p, pc)
  /\ UNCHANGED <<env, parent, child, told, events, retries>>

HelpRuns(p) ==
  /\ At(p, "run")
  /\ IF MayAsk({"running", "waiting_approval"})
       THEN Is(p, [proc[p] EXCEPT !.pc = "create", !.snap = parent, !.owner = TRUE])
       ELSE Goto(p, "declined")
  /\ UNCHANGED <<env, parent, child, proposal, told, events, retries>>

DeclinedReads(p) ==
  /\ At(p, "declined")
  /\ IF parent.status = "waiting_approval" THEN Reads(p, "giveUp") ELSE End(p)
  /\ UNCHANGED <<env, parent, child, proposal, told, events, retries>>

GivesUp(p) ==
  /\ At(p, "giveUp")
  /\ parent' = [Resumed(Snap(p)) EXCEPT !.asked = @ + 1]
  /\ Invoke(Snap(p).step + 1)
  /\ End(p)
  /\ UNCHANGED <<env, child, proposal, told, retries>>

-----------------------------------------------------------------------------
(* expire_waiting_help, and the founder's cancel_task and retry_task: all of *)
(* them cancel the children that are open, one after the other.              *)

(* Mutant: a child that ended without telling its parent counts as held. *)
IsHeldOrEnded(r) == \E c \in r.help : child[c] \in Held \cup {"delivered"}

IsHeld(r) == \E c \in r.help : child[c] \in Held

ExpireLists(p) ==
  /\ parent.status = "waiting_subtask" /\ parent.waited
  /\ ~IsHeld(parent)
  /\ Alone
  /\ Begins(p, "expire")
  /\ UNCHANGED <<env, parent, child, proposal, told, events, retries>>

(* Mutant: the wait ends and the child goes on. *)
ExpireTellsAnyway(p) ==
  /\ At(p, "expire")
  /\ Goto(p, "tell")
  /\ UNCHANGED <<env, parent, child, proposal, told, events, retries>>

ExpireTells(p) ==
  /\ At(p, "expire")
  /\ OpenKids(Snap(p)) = {}
  /\ Goto(p, "tell")
  /\ UNCHANGED <<env, parent, child, proposal, told, events, retries>>

ExpireProposal(p) ==
  /\ parent.status = "waiting_approval" /\ parent.waited
  /\ proposal = "pending"
  /\ Alone
  /\ Begins(p, "reject")
  /\ UNCHANGED <<env, parent, child, proposal, told, events, retries>>

(* Whoever has claimed the approval meanwhile, the listed row is put. *)
RejectsOverdue(p) ==
  /\ At(p, "reject")
  /\ proposal' = "decided"
  /\ Goto(p, "giveUp")
  /\ UNCHANGED <<env, parent, child, told, events, retries>>

CancelsKid(p, c) ==
  /\ proc[p].pc \in {"expire", "cancelKids", "retryKids"}
  /\ c \in OpenKids(Snap(p))
  /\ child' = [child EXCEPT ![c] = "cancelled"]
  /\ UNCHANGED <<env, parent, proposal, told, events, proc, retries>>

CancelParent(p) ==
  /\ "cancel" \in env
  /\ parent.status \notin {"done", "cancelled"}
  /\ Alone
  /\ "early" \in env \/ \A q \in Procs : proc[q].pc \notin {"create", "park"}
  /\ Begins(p, "cancelKids")
  /\ parent' = [parent EXCEPT !.status = "cancelled"]
  /\ UNCHANGED <<env, child, proposal, told, events, retries>>

(* Mutant: the children are not cancelled with their parent. *)
KidsLeftAlone(p) ==
  /\ At(p, "cancelKids")
  /\ End(p)
  /\ UNCHANGED <<env, parent, child, proposal, told, events, retries>>

KidsCancelled(p) ==
  /\ At(p, "cancelKids")
  /\ OpenKids(Snap(p)) = {}
  /\ End(p)
  /\ UNCHANGED <<env, parent, child, proposal, told, events, retries>>

RetryReads(p) ==
  /\ "retry" \in env
  /\ parent.status = "failed" /\ retries < MaxRetries
  /\ Settled /\ Alone
  /\ Begins(p, "retryKids")
  /\ UNCHANGED <<env, parent, child, proposal, told, events, retries>>

(* The task is queued, and promoted as soon as there is room. *)
RetryPuts(p) ==
  /\ At(p, "retryKids")
  /\ OpenKids(Snap(p)) = {}
  /\ parent' = [NewRow EXCEPT !.help = Snap(p).help]
  /\ Invoke(1)
  /\ retries' = retries + 1
  /\ End(p)
  /\ UNCHANGED <<env, child, proposal, told>>

-----------------------------------------------------------------------------
(***************************************************************************)
(* The platform.  An invocation lives 300 s and an event waits 600 s: a    *)
(* row that waited 24 hours has no copy older than its parking, and a      *)
(* running row that the tick finds stuck has neither event nor invocation. *)
(***************************************************************************)
WaitAges ==
  /\ parent.status \in Waits /\ ~parent.waited
  /\ \A p \in Procs : \/ proc[p].pc \in {"idle", "dead"}
                      \/ proc[p].pc \in {"resume", "note", "giveUp"} /\ Snap(p) = parent
  /\ parent' = [parent EXCEPT !.waited = TRUE]
  /\ proc' = [p \in Procs |-> IF proc[p].pc \in {"idle", "dead"} THEN proc[p]
                              ELSE [proc[p] EXCEPT !.snap = parent']]
  /\ UNCHANGED <<env, child, proposal, told, events, retries>>

Stuck ==
  /\ parent.status = "running" /\ events = {}
  /\ \A p \in Procs : proc[p].pc \notin (Working \cup Ending) \ {"tell", "tellHeld", "declined"}

(* A claim that is stale is released and invoked once more. *)
SweepRetries ==
  /\ Stuck
  /\ ~parent.swept
  /\ parent.claimed > parent.step \/ parent.step = 0
  /\ parent' = [parent EXCEPT !.claimed = parent.step, !.swept = TRUE]
  /\ Invoke(parent.step + 1)
  /\ UNCHANGED <<env, child, proposal, told, proc, retries>>

SweepFails ==
  /\ Stuck
  /\ parent.swept \/ (parent.claimed <= parent.step /\ parent.step > 0)
  /\ parent' = [parent EXCEPT !.status = "failed"]
  /\ UNCHANGED <<env, child, proposal, told, events, proc, retries>>

Crash(p) ==
  /\ "crash" \in env
  /\ ~At(p, "idle") /\ ~At(p, "dead")
  /\ Is(p, [Idle EXCEPT !.pc = "dead"])
  /\ UNCHANGED <<env, parent, child, proposal, told, events, retries>>

DeadIsGone(p) ==
  /\ At(p, "dead")
  /\ End(p)
  /\ UNCHANGED <<env, parent, child, proposal, told, events, retries>>

-----------------------------------------------------------------------------
RunStep(p) == \/ HelpReads(p) \/ HelpProposed(p) \/ HelpCreates(p) \/ HelpParks(p) \/ LoopEnds(p)
              \/ CompleteParks(p) \/ CompletePatches(p) \/ CompleteRuns(p)

EndsWait(p) == \/ TellReads(p) \/ ResumePuts(p) \/ HeldReads(p) \/ NotePuts(p)
               \/ HelpRuns(p) \/ DeclinedReads(p) \/ GivesUp(p)
               \/ ExpireTells(p) \/ RejectsOverdue(p) \/ KidsCancelled(p) \/ RetryPuts(p)
               \/ \E c \in Children : CancelsKid(p, c)

Deliver(p) == \E n \in events : StepClaims(p, n)
Judge(p)   == \E c \in Children : ChildEnds(p, c, "delivered") \/ ChildIsHeld(p, c)
Tick(p)    == ExpireLists(p) \/ ExpireProposal(p)

Founder(p) == \/ \E pc \in {"run", "declined"} : Decide(p, pc)
              \/ CancelParent(p) \/ RetryReads(p)
              \/ \E c \in Children : ChildEnds(p, c, "cancelled")

Next ==
  \/ \E p \in Procs : \/ RunStep(p) \/ EndsWait(p) \/ Deliver(p) \/ Judge(p) \/ Tick(p) \/ Founder(p)
                      \/ Crash(p) \/ DeadIsGone(p)
                      \/ \E c \in Children : ChildEnds(p, c, "failed")
  \/ \E c \in Children : ChildSubmits(c) \/ ChildReturned(c) \/ ChildRetried(c)
  \/ WaitAges \/ SweepRetries \/ SweepFails

Spec == Init /\ [][Next]_vars

(***************************************************************************)
(* What was started goes on, events are delivered, a wait grows old and    *)
(* the tick comes back to it; in the end invocations stop dying.  Neither  *)
(* the founder nor the child owes an end.                                  *)
(***************************************************************************)
Fairness ==
  /\ \A p \in Procs : WF_vars(RunStep(p)) /\ WF_vars(EndsWait(p)) /\ WF_vars(DeadIsGone(p))
  /\ SF_vars(\E p \in Procs : Deliver(p))
  /\ SF_vars(\E p \in Procs : Tick(p))
  /\ SF_vars(WaitAges)
  /\ <>[] \A p \in Procs : ~At(p, "dead")

FairSpec == Spec /\ Fairness

-----------------------------------------------------------------------------
Orderly(kinds) == env \cap kinds = {}

(***************************************************************************)
(* A parent is resumed once: whoever ends its child, cancels what has      *)
(* already failed, or finds the wait too old, at most one invocation       *)
(* works on the parent.                                                    *)
(***************************************************************************)
ParentStepExclusive ==
  Orderly({"early", "overlap"}) =>
    \A p, q \in Procs : proc[p].pc \in Working /\ proc[q].pc \in Working
                        /\ ~proc[p].owner /\ ~proc[q].owner => p = q

(***************************************************************************)
(* "An accepted child writes its memo into the parent scratchpad": a       *)
(* parent that goes on after its child was delivered has read it, although *)
(* expiry, cancellation and the founder's late acceptance end waits too.   *)
(* (A child retried after its parent gave up on it is not heard.)          *)
(***************************************************************************)
AnswerIsHeard ==
  Orderly({"crash", "again", "early", "overlap"}) =>
    \A c \in parent.help :
      child[c] = "delivered" /\ parent.status \in {"running", "done"} => c \in told

(***************************************************************************)
(* Nobody works for a parent that does not wait for it: an open child is   *)
(* the one its parent waits for, or about to be, or being cancelled.       *)
(* A founder's second word on a failed child breaks it: neither the resume *)
(* nor the retry asks which child the parent waits for.                    *)
(***************************************************************************)
NobodyHelpsInVain ==
  Orderly({"crash", "again", "early", "overlap"}) =>
    \A c \in Children : child[c] \in Open =>
      \/ parent.status = "waiting_subtask" /\ c \in parent.help
      \/ \E p \in Procs : \/ At(p, "park") /\ proc[p].child = c
                          \/ proc[p].pc \in {"cancelKids", "retryKids"} /\ c \in Snap(p).help

(***************************************************************************)
(* A wait for a colleague ends, whatever was lost, crashed or decided at   *)
(* once, unless the child is with its manager or the founder; and so does  *)
(* a wait for the founder's word on a proposal that nobody was deciding    *)
(* when he died.                                                           *)
(***************************************************************************)
WaitsForColleague == parent.status = "waiting_subtask"
AnswerIsJudged    == \E c \in parent.help : child[c] \in Held
WaitsForFounder   == parent.status = "waiting_approval" /\ Orderly({"crash", "early"})

WaitEnds ==
  /\ WaitsForColleague ~> ~WaitsForColleague \/ AnswerIsJudged
  /\ WaitsForFounder ~> ~WaitsForFounder
=============================================================================

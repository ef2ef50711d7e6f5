----------------------------- MODULE BoardWrites -----------------------------
(***************************************************************************)
(* What becomes of a write the model asks for and may not do at once: it   *)
(* is put off as a hold, which runs unless the founder vetoes it           *)
(* (board_holds.py), or put to the founder as an approval, which runs only *)
(* if the founder says yes (board_tools.py).                               *)
(*                                                                         *)
(* Both are rows of one DynamoDB table.  claim_hold and                    *)
(* claim_approval_decision are conditional updates; every other write is a *)
(* full put, and each call of the table is a step of its own here (the put *)
(* that ends an approval and the hand-over to the task that waits for it   *)
(* are one).  Ticks, tool loops and requests of the founder are Lambda     *)
(* invocations that run beside each other and may die between two steps.   *)
(***************************************************************************)
EXTENDS Naturals, FiniteSets

CONSTANTS
  Holds,       \* ids of holds
  Approvals,   \* ids of approvals
  Procs,       \* Lambda invocations that may run at once
  MaxPending,  \* maxPendingApprovals
  None,        \* no hold and no approval
  Env          \* what the environment may do besides

ASSUME WritesAssumption ==
  /\ Holds \cap Approvals = {}
  /\ None \notin Holds \cup Approvals
  /\ MaxPending \in Nat
  (* "staleRefresh": create_approval puts a row it listed after somebody decided it. *)
  /\ Env \subseteq {"crash", "switch", "staleRefresh"}

VARIABLES
  hold,      \* hold[h]: its row, and how its executeAt compares with the clock
  approval,  \* approval[a]: its row, and whether its autoRejectAt has passed
  runs,      \* runs[w]: how often the operation of w was run
  resumes,   \* resumes[a]: how often a decision of a was handed to resume_after_approval
  staffOn,   \* board_staff.enabled(settings)
  inv        \* inv[p]: what invocation p does next, and to which row

vars == <<hold, approval, runs, resumes, staffOn, inv>>

Writes == Holds \cup Approvals

HoldStatuses ==
  {"absent", "scheduled", "executing", "executed", "failed", "expired", "vetoed"}
ApprovalStatuses ==
  {"absent", "pending", "approved", "rejected", "executed", "failed"}

HoldRow == [status : HoldStatuses, due : {"early", "due", "late"}]
ApprovalRow == [status : ApprovalStatuses, due : BOOLEAN]

(* Where an invocation may be: about no row, about a hold, about an approval. *)
FreePcs == {"idle", "dead", "expireOn", "expireOff", "executeHolds", "expireApprovals",
            "propose"}
HoldPcs == {"holdExpiredOn", "holdExpiredOff", "holdClaimed", "holdRan", "veto"}
ApprovalPcs == {"approvalExpired", "closing", "decide", "rejected", "approved", "approvalRan"}

Invocation == [pc : FreePcs, w : {None}, listed : SUBSET Approvals]
              \cup [pc : HoldPcs, w : Holds, listed : {{}}]
              \cup [pc : ApprovalPcs, w : Approvals, listed : {{}}]

TypeOK ==
  /\ hold \in [Holds -> HoldRow]
  /\ approval \in [Approvals -> ApprovalRow]
  /\ runs \in [Writes -> Nat]
  /\ resumes \in [Approvals -> Nat]
  /\ staffOn \in BOOLEAN
  /\ inv \in [Procs -> Invocation]

-----------------------------------------------------------------------------
At(p, pc) == inv[p].pc = pc
Goto(p, pc, w) == inv' = [inv EXCEPT ![p] = [pc |-> pc, w |-> w, listed |-> {}]]
End(p) == Goto(p, "idle", None)

PutHold(h, status) == hold' = [hold EXCEPT ![h] = [@ EXCEPT !.status = status]]
PutApproval(a, status) == approval' = [approval EXCEPT ![a] = [@ EXCEPT !.status = status]]

(* Mutant: a hold that was left executing may be claimed again. *)
ClaimStrandedHold(h, status) ==
  /\ hold[h].status \in {"scheduled", "executing"}
  /\ PutHold(h, status)

ClaimHold(h, status) ==
  /\ hold[h].status = "scheduled"
  /\ PutHold(h, status)

(* Mutant: the decision is written without the condition on the status. *)
DecideBlindly(a, status) ==
  /\ approval[a].status # "absent"
  /\ PutApproval(a, status)

ClaimApprovalDecision(a, status) ==
  /\ approval[a].status = "pending"
  /\ PutApproval(a, status)

Run(w) == runs' = [runs EXCEPT ![w] = @ + 1]
ResumeWaitingStaff(a) == resumes' = [resumes EXCEPT ![a] = @ + 1]

-----------------------------------------------------------------------------
(* Holds: execute_call puts a write off, the founder or the catalogue takes it back. *)

MaybeHold(h) ==
  /\ staffOn
  /\ hold[h].status = "absent"
  /\ PutHold(h, "scheduled")
  /\ UNCHANGED <<approval, runs, resumes, staffOn, inv>>

VetoReads(p, h) ==
  /\ At(p, "idle")
  /\ hold[h].status = "scheduled"
  /\ Goto(p, "veto", h)
  /\ UNCHANGED <<hold, approval, runs, resumes, staffOn>>

VetoWrites(p) ==
  /\ At(p, "veto")
  /\ PutHold(inv[p].w, "vetoed")
  /\ End(p)
  /\ UNCHANGED <<approval, runs, resumes, staffOn>>

(* _drop_open_hold; its put after the claim writes "vetoed" once more. *)
CatalogDropsHold(h) ==
  /\ ClaimHold(h, "vetoed")
  /\ UNCHANGED <<approval, runs, resumes, staffOn, inv>>

-----------------------------------------------------------------------------
(* The tick: expire_stale, then (staff still on) execute_due, then expire_stale_approvals. *)

TickStarts(p) ==
  /\ At(p, "idle")
  /\ Goto(p, IF staffOn THEN "expireOn" ELSE "expireOff", None)
  /\ UNCHANGED <<hold, approval, runs, resumes, staffOn>>

(* Mutant: the expiry takes a hold whose operation is about to run. *)
ExpireAnyHold(p, h) ==
  /\ \/ At(p, "expireOn") /\ hold[h].due = "late" /\ Goto(p, "holdExpiredOn", h)
     \/ At(p, "expireOff") /\ Goto(p, "holdExpiredOff", h)
  /\ ClaimStrandedHold(h, "expired")
  /\ UNCHANGED <<approval, runs, resumes, staffOn>>

ExpireHold(p, h) ==
  /\ \/ At(p, "expireOn") /\ hold[h].due = "late" /\ Goto(p, "holdExpiredOn", h)
     \/ At(p, "expireOff") /\ Goto(p, "holdExpiredOff", h)
  /\ ClaimHold(h, "expired")
  /\ UNCHANGED <<approval, runs, resumes, staffOn>>

(* The row is read again and put back whole. *)
ExpiredHoldWrites(p) ==
  /\ inv[p].pc \in {"holdExpiredOn", "holdExpiredOff"}
  /\ PutHold(inv[p].w, "expired")
  /\ Goto(p, IF At(p, "holdExpiredOn") THEN "expireOn" ELSE "expireOff", None)
  /\ UNCHANGED <<approval, runs, resumes, staffOn>>

TickGoesOn(p) ==
  /\ inv[p].pc \in {"expireOn", "expireOff"}
  /\ IF At(p, "expireOn") /\ staffOn THEN Goto(p, "executeHolds", None) ELSE End(p)
  /\ UNCHANGED <<hold, approval, runs, resumes, staffOn>>

ExecuteDue(p, h) ==
  /\ At(p, "executeHolds")
  /\ hold[h].due # "early"
  /\ ClaimHold(h, "executing")
  /\ Goto(p, "holdClaimed", h)
  /\ UNCHANGED <<approval, runs, resumes, staffOn>>

(* The operation is gone, the thread changed, the PR is merged, or execute_call refuses. *)
HoldRefused(p) ==
  /\ At(p, "holdClaimed")
  /\ PutHold(inv[p].w, "failed")
  /\ Goto(p, "executeHolds", None)
  /\ UNCHANGED <<approval, runs, resumes, staffOn>>

HoldRuns(p) ==
  /\ At(p, "holdClaimed")
  /\ Run(inv[p].w)
  /\ Goto(p, "holdRan", inv[p].w)
  /\ UNCHANGED <<hold, approval, resumes, staffOn>>

(* Mutant: the status of the call is stored as the status of the hold. *)
FinishHoldAsCall(p) ==
  /\ At(p, "holdRan")
  /\ \E status \in {"ok", "error"} : PutHold(inv[p].w, status)
  /\ Goto(p, "executeHolds", None)
  /\ UNCHANGED <<approval, runs, resumes, staffOn>>

(* An operation may fail after it took effect. *)
FinishHold(p) ==
  /\ At(p, "holdRan")
  /\ \E status \in {"executed", "failed"} : PutHold(inv[p].w, status)
  /\ Goto(p, "executeHolds", None)
  /\ UNCHANGED <<approval, runs, resumes, staffOn>>

(* Mutant: the tick is over when the holds are. *)
TickStopsAfterHolds(p) ==
  /\ At(p, "executeHolds")
  /\ End(p)
  /\ UNCHANGED <<hold, approval, runs, resumes, staffOn>>

TickReachesApprovals(p) ==
  /\ At(p, "executeHolds")
  /\ Goto(p, "expireApprovals", None)
  /\ UNCHANGED <<hold, approval, runs, resumes, staffOn>>

ExpireApproval(p, a) ==
  /\ At(p, "expireApprovals")
  /\ approval[a].due
  /\ ClaimApprovalDecision(a, "rejected")
  /\ Goto(p, "approvalExpired", a)
  /\ UNCHANGED <<hold, runs, resumes, staffOn>>

TickEnds(p) ==
  /\ At(p, "expireApprovals")
  /\ End(p)
  /\ UNCHANGED <<hold, approval, runs, resumes, staffOn>>

-----------------------------------------------------------------------------
(* Approvals: create_approval lists the pending ones before it writes. *)

ProposeLists(p) ==
  /\ At(p, "idle")
  /\ inv' = [inv EXCEPT ![p] = [pc |-> "propose", w |-> None,
                                listed |-> {a \in Approvals : approval[a].status = "pending"}]]
  /\ UNCHANGED <<hold, approval, runs, resumes, staffOn>>

(* Nothing is written: a listed approval is the same proposal, or there are too many of them
   (or Approvals, a bound of the model, has no id left). *)
ProposeWritesNothing(p) ==
  /\ At(p, "propose")
  /\ \/ inv[p].listed # {}
     \/ MaxPending = 0
     \/ \A a \in Approvals : approval[a].status # "absent"
  /\ End(p)
  /\ UNCHANGED <<hold, approval, runs, resumes, staffOn>>

(* A listed approval proposes nearly the same: the row as listed is put with the new brief. *)
RefreshPendingApproval(p, a) ==
  /\ At(p, "propose")
  /\ a \in inv[p].listed
  /\ "staleRefresh" \in Env \/ approval[a].status = "pending"
  /\ PutApproval(a, "pending")
  /\ End(p)
  /\ UNCHANGED <<hold, runs, resumes, staffOn>>

CreateApproval(p, a) ==
  /\ At(p, "propose")
  /\ Cardinality(inv[p].listed) < MaxPending
  /\ approval[a].status = "absent"
  /\ PutApproval(a, "pending")
  /\ End(p)
  /\ UNCHANGED <<hold, runs, resumes, staffOn>>

-----------------------------------------------------------------------------
(* decide_approval: the founder says yes or no. *)

DecideReads(p, a) ==
  /\ At(p, "idle")
  /\ approval[a].status = "pending"
  /\ Goto(p, "decide", a)
  /\ UNCHANGED <<hold, approval, runs, resumes, staffOn>>

DecideClaims(p) ==
  /\ At(p, "decide")
  /\ \E status \in {"approved", "rejected"} :
       /\ ClaimApprovalDecision(inv[p].w, status)
       /\ Goto(p, status, inv[p].w)
  /\ UNCHANGED <<hold, runs, resumes, staffOn>>

(* Refused by a check before the claim, or "decided by someone else a moment ago". *)
DecideRefused(p) ==
  /\ At(p, "decide")
  /\ End(p)
  /\ UNCHANGED <<hold, approval, runs, resumes, staffOn>>

RejectWrites(p) ==
  /\ At(p, "rejected")
  /\ PutApproval(inv[p].w, "rejected")
  /\ ResumeWaitingStaff(inv[p].w)
  /\ End(p)
  /\ UNCHANGED <<hold, runs, staffOn>>

(* The operation is gone or execute_call raised: the waiting task is not told. *)
ApprovalCrashes(p) ==
  /\ inv[p].pc \in {"approved", "approvalRan"}
  /\ PutApproval(inv[p].w, "failed")
  /\ End(p)
  /\ UNCHANGED <<hold, runs, resumes, staffOn>>

ApprovalRuns(p) ==
  /\ At(p, "approved")
  /\ Run(inv[p].w)
  /\ Goto(p, "approvalRan", inv[p].w)
  /\ UNCHANGED <<hold, approval, resumes, staffOn>>

(* execute_call refused the operation before it ran. *)
ApprovalRefused(p) ==
  /\ At(p, "approved")
  /\ PutApproval(inv[p].w, "failed")
  /\ ResumeWaitingStaff(inv[p].w)
  /\ End(p)
  /\ UNCHANGED <<hold, runs, staffOn>>

ApprovalFinishes(p) ==
  /\ At(p, "approvalRan")
  /\ \E status \in {"executed", "failed"} : PutApproval(inv[p].w, status)
  /\ ResumeWaitingStaff(inv[p].w)
  /\ End(p)
  /\ UNCHANGED <<hold, runs, staffOn>>

(* A closed pull request takes the pending proposals to merge it with it. *)
CloseRejects(p, a) ==
  /\ At(p, "idle")
  /\ ClaimApprovalDecision(a, "rejected")
  /\ Goto(p, "closing", a)
  /\ UNCHANGED <<hold, runs, resumes, staffOn>>

(* The tick and the closed pull request put the row they listed, rejected. *)
WithdrawnWrites(p) ==
  /\ inv[p].pc \in {"approvalExpired", "closing"}
  /\ PutApproval(inv[p].w, "rejected")
  /\ ResumeWaitingStaff(inv[p].w)
  /\ Goto(p, IF At(p, "closing") THEN "idle" ELSE "expireApprovals", None)
  /\ UNCHANGED <<hold, runs, staffOn>>

-----------------------------------------------------------------------------
(* The clock, the founder's switch and the platform. *)

Later(due) == IF due = "early" THEN "due" ELSE "late"

HoldAges(h) ==
  /\ hold[h].status = "scheduled"
  /\ hold[h].due # "late"
  /\ hold' = [hold EXCEPT ![h] = [@ EXCEPT !.due = Later(hold[h].due)]]
  /\ UNCHANGED <<approval, runs, resumes, staffOn, inv>>

ApprovalAges(a) ==
  /\ approval[a].status = "pending"
  /\ ~approval[a].due
  /\ approval' = [approval EXCEPT ![a] = [@ EXCEPT !.due = TRUE]]
  /\ UNCHANGED <<hold, runs, resumes, staffOn, inv>>

SwitchStaff ==
  /\ "switch" \in Env
  /\ staffOn' = ~staffOn
  /\ UNCHANGED <<hold, approval, runs, resumes, inv>>

Crash(p) ==
  /\ "crash" \in Env
  /\ ~At(p, "idle") /\ ~At(p, "dead")
  /\ Goto(p, "dead", None)
  /\ UNCHANGED <<hold, approval, runs, resumes, staffOn>>

(* "dead" only tells a crash from an end; the invocation that follows is a new one. *)
DeadIsGone(p) ==
  /\ At(p, "dead")
  /\ End(p)
  /\ UNCHANGED <<hold, approval, runs, resumes, staffOn>>

-----------------------------------------------------------------------------
Init ==
  /\ hold = [h \in Holds |-> [status |-> "absent", due |-> "early"]]
  /\ approval = [a \in Approvals |-> [status |-> "absent", due |-> FALSE]]
  /\ runs = [w \in Writes |-> 0]
  /\ resumes = [a \in Approvals |-> 0]
  /\ staffOn = TRUE
  /\ inv = [p \in Procs |-> [pc |-> "idle", w |-> None, listed |-> {}]]

HandleTick(p) ==
  \/ ExpiredHoldWrites(p) \/ TickGoesOn(p)
  \/ HoldRefused(p) \/ HoldRuns(p) \/ FinishHold(p)
  \/ TickReachesApprovals(p) \/ TickEnds(p)
  \/ \E h \in Holds : ExpireHold(p, h) \/ ExecuteDue(p, h)
  \/ \E a \in Approvals : ExpireApproval(p, a)

Propose(p) == ProposeWritesNothing(p)
              \/ \E a \in Approvals : RefreshPendingApproval(p, a) \/ CreateApproval(p, a)

DecideApproval(p) == DecideClaims(p) \/ DecideRefused(p) \/ RejectWrites(p)
                     \/ ApprovalRefused(p) \/ ApprovalRuns(p)
                     \/ ApprovalFinishes(p) \/ ApprovalCrashes(p)

(* What a running invocation does next. *)
Continue(p) == HandleTick(p) \/ Propose(p) \/ DecideApproval(p) \/ VetoWrites(p) \/ WithdrawnWrites(p)

(* What starts one. *)
Start(p) == \/ TickStarts(p) \/ ProposeLists(p)
            \/ \E h \in Holds : VetoReads(p, h)
            \/ \E a \in Approvals : DecideReads(p, a) \/ CloseRejects(p, a)

Environment == \/ SwitchStaff
               \/ \E h \in Holds : MaybeHold(h) \/ CatalogDropsHold(h) \/ HoldAges(h)
               \/ \E a \in Approvals : ApprovalAges(a)
               \/ \E p \in Procs : Crash(p) \/ DeadIsGone(p)

Next == (\E p \in Procs : Continue(p) \/ Start(p)) \/ Environment

Spec == Init /\ [][Next]_vars

(***************************************************************************)
(* Lambda goes on with what it started, EventBridge starts a tick every 5  *)
(* minutes and a tick works through the rows it listed.  In the end the    *)
(* invocations stop crashing and the staff is left on (a tick that finds   *)
(* the staff off expires no approval).                                     *)
(***************************************************************************)
Fairness ==
  /\ \A p \in Procs : WF_vars(Continue(p))
  /\ SF_vars(\E p \in Procs : TickStarts(p))
  /\ \A h \in Holds :
       /\ WF_vars(HoldAges(h))
       /\ SF_vars(\E p \in Procs : ExpireHold(p, h) \/ ExecuteDue(p, h))
  /\ \A a \in Approvals :
       /\ WF_vars(ApprovalAges(a))
       /\ SF_vars(\E p \in Procs : ExpireApproval(p, a))
  /\ SF_vars(\E p \in Procs : TickReachesApprovals(p))
  /\ <>[] (staffOn /\ \A p \in Procs : ~At(p, "dead"))

FairSpec == Spec /\ Fairness

-----------------------------------------------------------------------------
(***************************************************************************)
(* claim_hold and claim_approval_decision: whatever ticks, requests and    *)
(* crashes overlap, the operation of a write runs at most once.            *)
(***************************************************************************)
RunsOnce == \A w \in Writes : runs[w] <= 1

(***************************************************************************)
(* A staff task parked on an approval is resumed at most once by it, be it *)
(* decided, expired and withdrawn at the same time: each resume starts a   *)
(* step of the task.                                                       *)
(***************************************************************************)
ResumesOnce == \A a \in Approvals : resumes[a] <= 1

(***************************************************************************)
(* The row tells what happened, although most writes of it are puts: one   *)
(* recorded executed ran, one expired, rejected or waiting did not.        *)
(***************************************************************************)
Row(w) == IF w \in Holds THEN hold[w] ELSE approval[w]

RowTellsOutcome ==
  \A w \in Writes :
    /\ Row(w).status = "executed" => runs[w] = 1
    /\ Row(w).status \in {"absent", "scheduled", "pending", "expired", "rejected"} => runs[w] = 0

(***************************************************************************)
(* No write waits for ever: a scheduled hold is executed, vetoed or        *)
(* expired and a pending approval decided or rejected, whoever crashes.    *)
(***************************************************************************)
Settles == \A w \in Writes :
  Row(w).status \in {"scheduled", "pending"} ~> Row(w).status \notin {"scheduled", "pending"}

=============================================================================

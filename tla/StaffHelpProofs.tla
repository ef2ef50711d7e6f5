--------------------------- MODULE StaffHelpProofs ---------------------------
(***************************************************************************)
(* A parent is worked on by one invocation at a time, hears the answer of  *)
(* its colleague, and nobody works for a parent that does not wait, for    *)
(* any number of children, invocations, steps, requests and retries.       *)
(***************************************************************************)
EXTENDS StaffHelp, TLAPS

-----------------------------------------------------------------------------
(* The inductive invariants.                                               *)

ChildStatuses == Open \cup {"absent", "delivered", "failed", "cancelled"}

Shapes ==
  /\ env \in SUBSET EnvKinds
  /\ parent \in Row
  /\ child \in [Children -> ChildStatuses]
  /\ proc \in [Procs -> Invocation]
  /\ \A p \in Procs : /\ proc[p].owner => proc[p].pc \in {"create", "park"}
                      /\ At(p, "park") => proc[p].child \in Children

(* A step of the parent, and what the tick, the founder or the child's end   *)
(* started; the run of an approved request counts with the latter.           *)
Steps(p)  == proc[p].pc \in Working /\ ~proc[p].owner
Ends(p)   == proc[p].pc \in Ending
Others(p) == Ends(p) \/ proc[p].owner

Stopped == \A p \in Procs : ~Steps(p)
NoneOpen == \A c \in Children : child[c] \notin Open

(* What one invocation alone may do keeps away the claim of the next step,   *)
(* and a step keeps away what could make its parent run again.               *)
OneAtATime ==
  /\ \A p, q \in Procs : Steps(p) /\ Steps(q) => p = q
  /\ \A p, q \in Procs : Others(p) /\ Others(q) => p = q

StepsAlone ==
  /\ parent.status = "running" /\ ~Stopped => parent.claimed > parent.step
  /\ parent.waited => Stopped /\ parent.status # "running"
  /\ \A p \in Procs : Steps(p) /\ proc[p].pc # "loop" => ~Snap(p).waited
  /\ \A p \in Procs : Steps(p) /\ proc[p].pc \in {"create", "park"} =>
       parent.status = "running" /\ \A q \in Procs : ~Others(q)

EndsAlone ==
  /\ (\E p \in Procs : Ends(p)) /\ ~Stopped => parent.status \notin Waits
  /\ \A p \in Procs :
       /\ proc[p].pc \in {"expire", "resume", "note"} => parent.status = "waiting_subtask"
       /\ proc[p].pc = "note" => Snap(p).status = "waiting_subtask"
       /\ proc[p].pc \in {"reject", "giveUp"} => parent.status = "waiting_approval"
       /\ proc[p].pc = "retryKids" => parent.status = "failed" /\ Stopped

(* The invariant where a step has ended before its child or the founder      *)
(* does anything, and two ends of one wait do not overlap.                   *)
AInv == OneAtATime /\ StepsAlone /\ EndsAlone

(* Where besides no invocation dies, whoever ends a wait has no step beside  *)
(* it, and has the parent's row.                                             *)
Undisturbed(p) ==
  /\ Ends(p) /\ proc[p].pc # "cancelKids" => Stopped
  /\ proc[p].owner => Stopped /\ parent.status = "waiting_approval"
  /\ proc[p].pc \in {"run", "declined"} => parent.status \in {"waiting_approval", "cancelled"}
  /\ proc[p].pc \in {"tell", "tellHeld"} => parent.status = "waiting_subtask"
  /\ proc[p].pc \in {"expire", "note"} => Snap(p).help = parent.help
  /\ proc[p].owner \/ proc[p].pc \in {"run", "declined", "giveUp"} => proposal # "pending"
  /\ Steps(p) /\ proc[p].pc \in {"create", "park"} => "propose" \notin env
  /\ proc[p].proposes => "propose" \in env /\ Steps(p)

(* A proposal that is pending is that of the step that runs, or the founder  *)
(* is waited for.                                                            *)
PendingFits ==
  proposal = "pending" =>
    \/ parent.status \in {"running", "cancelled"} /\ \E p \in Procs : Steps(p) /\ proc[p].proposes
    \/ parent.status \in {"waiting_approval", "cancelled"} /\ Stopped

(* The open child is the one its parent waits for.                           *)
WaitedFor(c) ==
  \/ parent.status = "waiting_subtask" /\ c \in parent.help
  \/ \E p \in Procs : \/ At(p, "park") /\ proc[p].child = c
                      \/ proc[p].pc \in {"cancelKids", "retryKids"} /\ c \in Snap(p).help

HelpFits(p) ==
  /\ proc[p].pc \in {"create", "tell", "resume"} => NoneOpen
  /\ At(p, "complete") /\ Snap(p).status = "running" => NoneOpen
  /\ At(p, "park") => \A c \in Children : child[c] \in Open => c = proc[p].child
  /\ At(p, "cancelKids") => parent.status = "cancelled" \/ NoneOpen

HelpIsWaitedFor ==
  /\ \A c, d \in Children : child[c] \in Open /\ child[d] \in Open => c = d
  /\ \A c \in Children : child[c] \in Open => WaitedFor(c)
  /\ \A p \in Procs : HelpFits(p)

Answered ==
  \A c \in Children : child[c] = "delivered" =>
    \/ c \in told
    \/ \E p \in Procs : proc[p].pc \in {"tell", "resume"} /\ proc[p].good /\ proc[p].child = c

BInv == (\A p \in Procs : Undisturbed(p)) /\ PendingFits /\ HelpIsWaitedFor /\ Answered

A == Orderly({"early", "overlap"})
B == Orderly({"crash", "again", "early", "overlap"})

IInv == Shapes /\ (A => AInv) /\ (B => BInv)

-----------------------------------------------------------------------------
(* What the state is made of.                                              *)

LEMMA RecordsAreTyped ==
  /\ NewRow \in Row /\ NewRow.status = "running"
  /\ NewRow.step = 0 /\ NewRow.claimed = 0 /\ ~NewRow.waited
  /\ Idle \in Invocation /\ Idle.pc = "idle" /\ ~Idle.owner /\ ~Idle.proposes /\ ~Idle.good
<1>1. NewRow \in Row
  BY DEF NewRow, Row, Statuses, Waits
<1> QED
  BY <1>1 DEF NewRow, Idle, Invocation, Working, Ending

(* What a step makes of one invocation.                                      *)
Moves(p) ==
  /\ proc' \in [Procs -> Invocation]
  /\ \A q \in Procs \ {p} : proc'[q] = proc[q]

Keeps(p) ==
  /\ proc'[p].child = proc[p].child /\ proc'[p].good = proc[p].good
  /\ proc'[p].proposes = proc[p].proposes /\ proc'[p].owner = proc[p].owner

LEMMA OneInvocation ==
  ASSUME Shapes, NEW p \in Procs, NEW rec \in Invocation, Is(p, rec)
  PROVE  Moves(p) /\ proc'[p] = rec
BY DEF Shapes, Is, Moves

LEMMA Went ==
  ASSUME Shapes, NEW p \in Procs, NEW pc \in {"idle", "dead"} \cup Working \cup Ending,
         Goto(p, pc)
  PROVE  Moves(p) /\ proc'[p].pc = pc /\ Snap(p)' = Snap(p) /\ Keeps(p)
<1> DEFINE rec == [proc[p] EXCEPT !.pc = pc]
<1>1. rec \in Invocation /\ Is(p, rec)
  BY DEF Shapes, Goto, Invocation
<1>2. Moves(p) /\ proc'[p] = rec
  BY <1>1, OneInvocation
<1> QED
  BY <1>2 DEF Snap, Keeps, Shapes, Invocation

LEMMA ReadTheRow ==
  ASSUME Shapes, NEW p \in Procs, NEW pc \in Working \cup Ending, Reads(p, pc)
  PROVE  Moves(p) /\ proc'[p].pc = pc /\ Snap(p)' = parent /\ Keeps(p)
<1> DEFINE rec == [proc[p] EXCEPT !.pc = pc, !.snap = parent]
<1>1. rec \in Invocation /\ Is(p, rec)
  BY DEF Shapes, Reads, Invocation
<1>2. Moves(p) /\ proc'[p] = rec
  BY <1>1, OneInvocation
<1> QED
  BY <1>2 DEF Snap, Keeps, Shapes, Invocation

LEMMA Began ==
  ASSUME Shapes, NEW p \in Procs, NEW pc \in Working \cup Ending, Begins(p, pc)
  PROVE  /\ Moves(p) /\ At(p, "idle") /\ proc'[p].pc = pc /\ Snap(p)' = parent
         /\ ~proc'[p].proposes /\ ~proc'[p].owner
<1> DEFINE rec == [Idle EXCEPT !.pc = pc, !.snap = parent]
<1>1. rec \in Invocation /\ Is(p, rec) /\ ~rec.proposes /\ ~rec.owner
  BY RecordsAreTyped DEF Shapes, Begins, Invocation
<1>2. Moves(p) /\ proc'[p] = rec
  BY <1>1, OneInvocation
<1> QED
  BY <1>1, <1>2, RecordsAreTyped DEF Snap, Begins, Invocation

LEMMA Ended ==
  ASSUME Shapes, NEW p \in Procs, End(p)
  PROVE  Moves(p) /\ proc'[p] = Idle /\ proc'[p].pc = "idle" /\ ~proc'[p].owner /\ ~proc'[p].proposes
BY OneInvocation, RecordsAreTyped DEF End

(* The rows that are put.                                                    *)
LEMMA PutsAreRows ==
  ASSUME Shapes, NEW p \in Procs
  PROVE  /\ Snap(p) \in Row
         /\ Stepped(p) \in Row /\ Stepped(p).waited = Snap(p).waited
         /\ Stepped(p).status = Snap(p).status /\ Stepped(p).help = Snap(p).help
         /\ Resumed(Snap(p)) \in Row /\ Resumed(Snap(p)).status = "running"
         /\ ~Resumed(Snap(p)).waited /\ Resumed(Snap(p)).help = Snap(p).help
         /\ proc[p].child \in Children \cup {NoChild}
<1>1. Snap(p) \in Row /\ proc[p].child \in Children \cup {NoChild}
  BY DEF Shapes, Invocation, Snap
<1>2. LET n == IF Snap(p).step >= proc[p].want THEN Snap(p).step ELSE Snap(p).step + 1
      IN n \in Nat
  BY <1>1 DEF Row
<1> QED
  BY <1>1, <1>2 DEF Stepped, Resumed, Row, Statuses

-----------------------------------------------------------------------------
(* Every step keeps the shapes.                                            *)

LEMMA PutKeepsShapes ==
  ASSUME Shapes, env' = env, parent' \in Row, child' \in [Children -> ChildStatuses],
         NEW p \in Procs, Moves(p),
         proc'[p].owner => proc'[p].pc \in {"create", "park"},
         proc'[p].pc = "park" => proc'[p].child \in Children
  PROVE  Shapes'
<1>1. ASSUME NEW q \in Procs
      PROVE  /\ proc'[q].owner => proc'[q].pc \in {"create", "park"}
             /\ proc'[q].pc = "park" => proc'[q].child \in Children
  BY <1>1 DEF Shapes, Moves, At
<1> QED
  BY <1>1 DEF Shapes, Moves, At

LEMMA FreshIsChild ==
  ASSUME Fresh # {}
  PROVE  (CHOOSE c \in Fresh : TRUE) \in Children /\ child[CHOOSE c \in Fresh : TRUE] = "absent"
BY DEF Fresh

LEMMA StepIsTyped ==
  ASSUME Shapes, NEW p \in Procs, RunStep(p)
  PROVE  Shapes'
<1>s. env' = env /\ parent \in Row /\ child \in [Children -> ChildStatuses] /\ proc[p] \in Invocation
  BY DEF Shapes, RunStep, HelpReads, HelpProposed, HelpCreates, HelpParks, LoopEnds,
         CompleteParks, CompletePatches, CompleteRuns
<1>o. (At(p, "loop") \/ At(p, "complete") => ~proc[p].owner) /\ {"create", "complete", "loop"} \subseteq Working
  BY DEF Shapes, At, Working
<1>1. CASE HelpReads(p)
  BY <1>1, <1>s, <1>o, ReadTheRow, PutKeepsShapes DEF HelpReads, Keeps
<1>2. CASE HelpProposed(p)
  <2> DEFINE rec == [proc[p] EXCEPT !.proposes = TRUE]
  <2>1. rec \in Invocation /\ Is(p, rec) /\ rec.owner = proc[p].owner /\ rec.pc = "loop"
    BY <1>2, <1>s DEF HelpProposed, Invocation, At
  <2>2. Moves(p) /\ proc'[p] = rec
    BY <2>1, OneInvocation
  <2> QED
    BY <2>1, <2>2, <1>2, <1>s, <1>o, PutKeepsShapes DEF HelpProposed
<1>3. CASE HelpCreates(p)
  <2> DEFINE c == CHOOSE c \in Fresh : TRUE
  <2> DEFINE rec == [proc[p] EXCEPT !.pc = "park", !.child = c]
  <2>1. c \in Children
    BY <1>3, FreshIsChild DEF HelpCreates
  <2>2. child' = [child EXCEPT ![c] = "open"] /\ Is(p, rec)
    BY <1>3 DEF HelpCreates
  <2> HIDE DEF c
  <2>3. rec \in Invocation /\ rec.pc = "park" /\ rec.child = c
    BY <2>1, <2>2, <1>s DEF Invocation, Working
  <2>4. child' \in [Children -> ChildStatuses]
    BY <2>1, <2>2, <1>s DEF ChildStatuses, Open
  <2>5. Moves(p) /\ proc'[p] = rec
    BY <2>2, <2>3, OneInvocation
  <2> HIDE DEF rec
  <2> QED
    BY <2>1, <2>3, <2>4, <2>5, <1>3, <1>s, PutKeepsShapes DEF HelpCreates
<1>4. CASE HelpParks(p)
  <2>1. parent' \in Row
    <3> DEFINE row == [Snap(p) EXCEPT !.status = "waiting_subtask", !.asked = @ + 1,
                                     !.help = @ \cup {proc[p].child}, !.waited = FALSE,
                                     !.claimed = Snap(p).step]
    <3>1. Snap(p) \in Row /\ proc[p].child \in Children
      BY <1>4, PutsAreRows DEF Shapes, HelpParks
    <3>2. Snap(p).asked + 1 \in Nat /\ Snap(p).help \cup {proc[p].child} \in SUBSET Children
      BY <3>1 DEF Row
    <3>3. row \in Row
      BY <3>1, <3>2 DEF Row, Statuses, Waits
    <3> QED
      BY <3>3, <1>4, <1>s DEF HelpParks
  <2>2. CASE End(p)
    BY <2>1, <2>2, <1>4, <1>s, Ended, PutKeepsShapes DEF HelpParks
  <2>3. CASE Goto(p, "loop") /\ ~proc[p].owner
    BY <2>1, <2>3, <1>4, <1>s, <1>o, Went, PutKeepsShapes DEF HelpParks, Keeps
  <2> QED
    BY <2>2, <2>3, <1>4 DEF HelpParks
<1>5. CASE LoopEnds(p)
  <2>1. CASE Reads(p, "complete")
    BY <2>1, <1>5, <1>s, <1>o, ReadTheRow, PutKeepsShapes DEF LoopEnds, Keeps
  <2>2. CASE End(p)
    BY <2>2, <1>5, <1>s, Ended, PutKeepsShapes DEF LoopEnds
  <2> QED
    BY <2>1, <2>2, <1>5 DEF LoopEnds
<1>6. ASSUME CompleteParks(p) \/ CompletePatches(p) \/ CompleteRuns(p)
      PROVE  Shapes'
  <2>1. /\ [Stepped(p) EXCEPT !.status = "waiting_approval", !.waited = FALSE,
                              !.claimed = Stepped(p).step] \in Row
        /\ [parent EXCEPT !.step = Stepped(p).step, !.swept = FALSE] \in Row
        /\ \A status \in {"done", "failed"} : [Stepped(p) EXCEPT !.status = status] \in Row
        /\ Stepped(p) \in Row
    BY PutsAreRows, <1>s DEF Row, Statuses, Waits
  <2>2. parent' \in Row /\ End(p) /\ child' = child
    BY <2>1, <1>s, <1>6 DEF CompleteParks, CompletePatches, CompleteRuns
  <2> QED
    BY <2>2, <1>s, Ended, PutKeepsShapes
<1> QED
  BY <1>1, <1>2, <1>3, <1>4, <1>5, <1>6 DEF RunStep

LEMMA EndIsTyped ==
  ASSUME Shapes, NEW p \in Procs, EndsWait(p)
  PROVE  Shapes'
<1>s. env' = env /\ parent \in Row /\ child \in [Children -> ChildStatuses] /\ proc[p] \in Invocation
  BY DEF Shapes, EndsWait, TellReads, ResumePuts, HeldReads, NotePuts, HelpRuns, DeclinedReads,
         GivesUp, ExpireTells, RejectsOverdue, KidsCancelled, RetryPuts, CancelsKid
<1>o. /\ \A pc \in Ending : At(p, pc) => ~proc[p].owner
      /\ {"resume", "note", "giveUp", "tell", "declined"} \subseteq Ending
      /\ {"create", "park"} \cap Ending = {}
  BY DEF Shapes, At, Ending
<1>1. ASSUME End(p), parent' \in Row, child' = child
      PROVE  Shapes'
  BY <1>1, <1>s, Ended, PutKeepsShapes
<1>2. ASSUME NEW pc \in Ending, Reads(p, pc) \/ Goto(p, pc), parent' = parent, child' = child,
             ~proc[p].owner
      PROVE  Shapes'
  BY <1>2, <1>s, <1>o, Went, ReadTheRow, PutKeepsShapes DEF Keeps
<1>3. CASE \/ TellReads(p) \/ HeldReads(p) \/ DeclinedReads(p) \/ ExpireTells(p)
           \/ RejectsOverdue(p) \/ KidsCancelled(p)
  <2>1. parent' = parent /\ child' = child /\ ~proc[p].owner
    BY <1>3, <1>o DEF TellReads, HeldReads, DeclinedReads, ExpireTells, RejectsOverdue,
                      KidsCancelled, Shapes, At
  <2>2. \/ End(p)
        \/ \E pc \in Ending : Reads(p, pc) \/ Goto(p, pc)
    BY <1>3, <1>o DEF TellReads, HeldReads, DeclinedReads, ExpireTells, RejectsOverdue, KidsCancelled
  <2> QED
    BY <2>1, <2>2, <1>1, <1>2, <1>s
<1>4. CASE ResumePuts(p) \/ NotePuts(p) \/ GivesUp(p) \/ RetryPuts(p)
  <2>1. /\ [Resumed(Snap(p)) EXCEPT !.asked = @ + 1] \in Row
        /\ [NewRow EXCEPT !.help = Snap(p).help] \in Row
    BY PutsAreRows, RecordsAreTyped DEF Row
  <2>2. parent' \in Row /\ End(p) /\ child' = child
    BY <1>4, <2>1, PutsAreRows DEF ResumePuts, NotePuts, GivesUp, RetryPuts
  <2> QED
    BY <2>2, <1>1
<1>5. CASE HelpRuns(p)
  <2> DEFINE rec == [proc[p] EXCEPT !.pc = "create", !.snap = parent, !.owner = TRUE]
  <2>1. CASE Is(p, rec)
    <3>1. rec \in Invocation /\ rec.pc = "create"
      BY <1>s DEF Invocation, Working
    <3>2. Moves(p) /\ proc'[p] = rec
      BY <2>1, <3>1, OneInvocation
    <3> QED
      BY <3>1, <3>2, <1>s, <1>5, PutKeepsShapes DEF HelpRuns
  <2>2. CASE Goto(p, "declined")
    BY <2>2, <1>2, <1>5, <1>o DEF HelpRuns, Shapes, At
  <2> QED
    BY <2>1, <2>2, <1>5 DEF HelpRuns
<1>6. CASE \E c \in Children : CancelsKid(p, c)
  BY <1>6, <1>s DEF CancelsKid, Shapes, ChildStatuses, At
<1> QED
  BY <1>3, <1>4, <1>5, <1>6 DEF EndsWait

Starts(p) == \/ Deliver(p) \/ Judge(p) \/ Tick(p) \/ Founder(p)
             \/ \E c \in Children : ChildEnds(p, c, "failed")

LEMMA StartIsTyped ==
  ASSUME Shapes, NEW p \in Procs, Starts(p)
  PROVE  Shapes'
<1>s. env' = env /\ parent \in Row /\ child \in [Children -> ChildStatuses] /\ proc[p] \in Invocation
  BY DEF Shapes, Starts, Deliver, Judge, Tick, Founder, StepClaims, ChildEnds, ChildIsHeld,
         ExpireLists, ExpireProposal, Decide, CancelParent, RetryReads
<1>o. /\ {"expire", "reject", "run", "declined", "cancelKids", "retryKids"} \subseteq Ending
      /\ {"create", "park"} \cap Ending = {}
  BY DEF Ending
<1>1. ASSUME NEW pc \in Ending, Begins(p, pc), parent' \in Row, child' = child
      PROVE  Shapes'
  BY <1>1, <1>s, <1>o, Began, PutKeepsShapes
<1>2. CASE Deliver(p)
  <2>1. PICK n \in events : StepClaims(p, n)
    BY <1>2 DEF Deliver
  <2> DEFINE rec == [Idle EXCEPT !.pc = "loop", !.want = n]
  <2>2. CASE parent.status = "running" /\ n = parent.step + 1 /\ parent.claimed < n
    <3>1. n \in Nat /\ parent' = [parent EXCEPT !.claimed = n] /\ Is(p, rec) /\ child' = child
      BY <2>1, <2>2, <1>s DEF StepClaims, Row
    <3>2. rec \in Invocation /\ rec.pc = "loop" /\ ~rec.owner
      BY <3>1, RecordsAreTyped DEF Invocation, Working
    <3>3. parent' \in Row
      BY <3>1, <1>s DEF Row
    <3>4. Moves(p) /\ proc'[p] = rec
      BY <3>1, <3>2, OneInvocation
    <3> HIDE DEF rec
    <3> QED
      BY <3>1, <3>2, <3>3, <3>4, <1>s, PutKeepsShapes
  <2>3. CASE ~(parent.status = "running" /\ n = parent.step + 1 /\ parent.claimed < n)
    BY <2>1, <2>3, <1>s DEF StepClaims, Shapes, At
  <2> QED
    BY <2>2, <2>3
<1>3. CASE \E c \in Children : \/ \E status \in {"delivered", "cancelled", "failed"} : ChildEnds(p, c, status)
                               \/ ChildIsHeld(p, c)
  <2>1. PICK c \in Children : \/ \E status \in {"delivered", "cancelled", "failed"} : ChildEnds(p, c, status)
                              \/ ChildIsHeld(p, c)
    BY <1>3
  <2>2. CASE ChildIsHeld(p, c)
    <3> DEFINE rec == [Idle EXCEPT !.pc = "tellHeld", !.child = c]
    <3>1. rec \in Invocation /\ rec.pc = "tellHeld" /\ ~rec.owner /\ Is(p, rec)
      BY <2>2, RecordsAreTyped DEF ChildIsHeld, Invocation, Ending
    <3>2. Moves(p) /\ proc'[p] = rec
      BY <3>1, OneInvocation
    <3>3. child' \in [Children -> ChildStatuses] /\ parent' \in Row
      BY <2>2, <1>s DEF ChildIsHeld, ChildStatuses, Open
    <3> QED
      BY <3>1, <3>2, <3>3, <1>s, PutKeepsShapes
  <2>3. ASSUME NEW status \in {"delivered", "cancelled", "failed"}, ChildEnds(p, c, status)
        PROVE  Shapes'
    <3> DEFINE rec == [Idle EXCEPT !.pc = "tell", !.child = c, !.good = (status = "delivered")]
    <3>1. rec \in Invocation /\ rec.pc = "tell" /\ ~rec.owner /\ Is(p, rec)
      BY <2>3, RecordsAreTyped DEF ChildEnds, Invocation, Ending
    <3>2. Moves(p) /\ proc'[p] = rec
      BY <3>1, OneInvocation
    <3>3. child' \in [Children -> ChildStatuses] /\ parent' \in Row
      BY <2>3, <1>s DEF ChildEnds, ChildStatuses, Open
    <3> QED
      BY <3>1, <3>2, <3>3, <1>s, PutKeepsShapes
  <2> QED
    BY <2>1, <2>2, <2>3
<1>4. CASE \/ Tick(p) \/ CancelParent(p) \/ RetryReads(p) \/ \E pc \in {"run", "declined"} : Decide(p, pc)
  <2>1. [parent EXCEPT !.status = "cancelled"] \in Row
    BY <1>s DEF Row, Statuses
  <2>2. parent' \in Row /\ child' = child /\ \E pc \in Ending : Begins(p, pc)
    BY <1>4, <2>1, <1>s, <1>o DEF Tick, ExpireLists, ExpireProposal, CancelParent, RetryReads, Decide
  <2> QED
    BY <2>2, <1>1
<1> QED
  BY <1>2, <1>3, <1>4 DEF Starts, Judge, Founder

Platform == \/ \E c \in Children : ChildSubmits(c) \/ ChildReturned(c) \/ ChildRetried(c)
            \/ WaitAges \/ SweepRetries \/ SweepFails

(* What WaitAges leaves of an invocation.                                    *)
LEMMA Aged ==
  ASSUME Shapes, WaitAges
  PROVE  /\ parent' \in Row /\ parent'.status = parent.status /\ parent'.help = parent.help
         /\ parent'.waited
         /\ proc' \in [Procs -> Invocation]
         /\ \A p \in Procs :
              \/ proc[p].pc \in {"idle", "dead"} /\ proc'[p] = proc[p]
              \/ /\ proc[p].pc \in {"resume", "note", "giveUp"} /\ proc'[p].pc = proc[p].pc
                 /\ Snap(p) = parent /\ Snap(p)' = parent' /\ Keeps(p)
<1>1. parent' = [parent EXCEPT !.waited = TRUE] /\ parent \in Row
  BY DEF WaitAges, Shapes
<1>2. parent' \in Row /\ parent'.status = parent.status /\ parent'.help = parent.help /\ parent'.waited
  BY <1>1 DEF Row
<1>3. ASSUME NEW p \in Procs
      PROVE  /\ proc'[p] \in Invocation
             /\ \/ proc[p].pc \in {"idle", "dead"} /\ proc'[p] = proc[p]
                \/ /\ proc[p].pc \in {"resume", "note", "giveUp"} /\ proc'[p].pc = proc[p].pc
                   /\ Snap(p) = parent /\ Snap(p)' = parent' /\ Keeps(p)
  <2>1. CASE proc[p].pc \in {"idle", "dead"}
    BY <2>1, <1>3 DEF WaitAges, Shapes
  <2>2. CASE proc[p].pc \notin {"idle", "dead"}
    <3>1. proc'[p] = [proc[p] EXCEPT !.snap = parent'] /\ proc[p] \in Invocation
      BY <2>2, <1>3 DEF WaitAges, Shapes
    <3>2. proc[p].pc \in {"resume", "note", "giveUp"} /\ Snap(p) = parent
      BY <2>2, <1>3 DEF WaitAges
    <3> QED
      BY <3>1, <3>2, <1>2 DEF Invocation, Snap, Keeps
  <2> QED
    BY <2>1, <2>2
<1>4. DOMAIN proc' = Procs /\ proc' = [q \in DOMAIN proc' |-> proc'[q]]
  BY DEF WaitAges
<1> QED
  BY <1>2, <1>3, <1>4

LEMMA PlatformIsTyped ==
  ASSUME Shapes, Platform
  PROVE  Shapes'
<1>1. CASE \E c \in Children : ChildSubmits(c) \/ ChildReturned(c) \/ ChildRetried(c)
  BY <1>1 DEF ChildSubmits, ChildReturned, ChildRetried, Shapes, ChildStatuses, Open, At
<1>2. CASE WaitAges
  <2>1. env' = env /\ child' = child
    BY <1>2 DEF WaitAges
  <2>2. ASSUME NEW p \in Procs
        PROVE  /\ proc'[p].owner => proc'[p].pc \in {"create", "park"}
               /\ proc'[p].pc = "park" => proc'[p].child \in Children
    BY <2>2, <1>2, Aged DEF Shapes, Keeps, At
  <2> QED
    BY <2>1, <2>2, <1>2, Aged DEF Shapes, At
<1>3. CASE SweepRetries \/ SweepFails
  <2>1. /\ [parent EXCEPT !.claimed = parent.step, !.swept = TRUE] \in Row
        /\ [parent EXCEPT !.status = "failed"] \in Row
    BY DEF Shapes, Row, Statuses
  <2> QED
    BY <1>3, <2>1 DEF SweepRetries, SweepFails, Shapes, At
<1> QED
  BY <1>1, <1>2, <1>3 DEF Platform

LEMMA DeathIsTyped ==
  ASSUME Shapes, NEW p \in Procs, Crash(p) \/ DeadIsGone(p)
  PROVE  Shapes' /\ Moves(p) /\ proc'[p].pc \in {"idle", "dead"} /\ ~proc'[p].owner /\ ~proc'[p].proposes
<1>1. [Idle EXCEPT !.pc = "dead"] \in Invocation
  BY RecordsAreTyped DEF Invocation
<1>2. CASE Crash(p)
  <2>1. Moves(p) /\ proc'[p] = [Idle EXCEPT !.pc = "dead"]
    BY <1>1, <1>2, OneInvocation DEF Crash
  <2> QED
    BY <2>1, <1>2, RecordsAreTyped, PutKeepsShapes DEF Crash, Shapes, Invocation
<1>3. CASE DeadIsGone(p)
  BY <1>3, Ended, PutKeepsShapes DEF DeadIsGone, Shapes
<1> QED
  BY <1>2, <1>3

-----------------------------------------------------------------------------
(* One invocation at a time.                                               *)

LEMMA TheOthersStay ==
  ASSUME NEW p \in Procs, Moves(p)
  PROVE  \A q \in Procs \ {p} : /\ Steps(q)' = Steps(q) /\ Ends(q)' = Ends(q) /\ Others(q)' = Others(q)
                                /\ Snap(q)' = Snap(q) /\ proc'[q] = proc[q]
BY DEF Moves, Steps, Ends, Others, Snap

LEMMA OneAtATimeKept ==
  ASSUME OneAtATime, NEW p \in Procs, Moves(p),
         Steps(p)' => Steps(p) \/ Stopped,
         Others(p)' => Others(p) \/ \A q \in Procs : ~Others(q)
  PROVE  OneAtATime'
<1>1. \A q \in Procs : q # p => (Steps(q)' <=> Steps(q)) /\ (Others(q)' <=> Others(q))
  BY DEF Moves, Steps, Ends, Others
<1>2. ASSUME NEW q \in Procs, NEW r \in Procs, Steps(q)', Steps(r)'
      PROVE  q = r
  BY <1>1, <1>2 DEF OneAtATime, Stopped
<1>3. ASSUME NEW q \in Procs, NEW r \in Procs, Others(q)', Others(r)'
      PROVE  q = r
  BY <1>1, <1>3 DEF OneAtATime
<1> QED
  BY <1>2, <1>3 DEF OneAtATime

(* What the two conditions say where they are in force.                      *)
LEMMA Guards ==
  /\ A /\ Alone => \A q \in Procs : ~Others(q)
  /\ A /\ Settled => Stopped
BY DEF A, Orderly, Alone, Settled, Stopped, Steps, Others, Ends

(* A step that ends, or goes on without a word to the parent.                *)
LEMMA StepLetsGo ==
  ASSUME Shapes, AInv, NEW p \in Procs, Moves(p), ~Steps(p)', ~Others(p)', Steps(p),
         parent'.waited => parent'.status = parent.status /\ parent.waited,
         parent'.status = parent.status \/ \A q \in Procs : Ends(q) =>
           proc[q].pc \notin {"expire", "resume", "note", "reject", "giveUp", "retryKids"}
  PROVE  AInv'
<1>1. Stopped'
  BY DEF AInv, OneAtATime, Stopped, Moves, Steps
<1>2. OneAtATime'
  BY OneAtATimeKept DEF AInv
<1>3. StepsAlone'
  BY <1>1 DEF AInv, StepsAlone, Stopped
<1>4. EndsAlone'
  <2>1. ASSUME NEW q \in Procs, proc'[q].pc \in {"expire", "resume", "note", "reject", "giveUp", "retryKids"}
        PROVE  proc'[q] = proc[q] /\ Snap(q)' = Snap(q) /\ parent'.status = parent.status
    BY <2>1, TheOthersStay DEF Others, Ends, Ending
  <2> QED
    BY <2>1, <1>1 DEF AInv, EndsAlone, Stopped
<1> QED
  BY <1>2, <1>3, <1>4 DEF AInv

(* A step that goes on reading or asking.                                    *)
LEMMA StepGoesOn ==
  ASSUME Shapes, A, AInv, NEW p \in Procs,
         HelpReads(p) \/ HelpProposed(p) \/ HelpCreates(p) \/ LoopEnds(p)
  PROVE  AInv'
<1>e. parent' = parent
  BY DEF HelpReads, HelpProposed, HelpCreates, LoopEnds
<1>1. CASE HelpReads(p)
  <2>1. /\ Steps(p) /\ parent.status = "running" /\ ~parent.waited
        /\ \A q \in Procs : ~Others(q)
    BY <1>1, Guards DEF HelpReads, Shapes, MayAsk, At, Steps, Working, AInv, StepsAlone, Stopped
  <2>2. Moves(p) /\ proc'[p].pc = "create" /\ Snap(p)' = parent /\ ~proc'[p].owner
    BY <1>1, ReadTheRow DEF HelpReads, Working, Keeps, Shapes, At
  <2>3. Steps(p)' /\ ~Others(p)'
    BY <2>2 DEF Steps, Others, Ends, Working, Ending
  <2>4. OneAtATime'
    BY <2>1, <2>2, <2>3, OneAtATimeKept DEF AInv
  <2>5. StepsAlone'
    BY <1>e, <2>1, <2>2, <2>3, TheOthersStay DEF AInv, StepsAlone, Stopped
  <2>6. EndsAlone'
    BY <1>e, <2>1, <2>2, <2>3, TheOthersStay DEF AInv, EndsAlone, Stopped, Others
  <2> QED
    BY <2>4, <2>5, <2>6 DEF AInv
<1>2. ASSUME HelpProposed(p) \/ HelpCreates(p)
      PROVE  AInv'
  <2>1. /\ Moves(p) /\ Snap(p)' = Snap(p) /\ proc'[p].owner = proc[p].owner
        /\ \/ proc[p].pc = "loop" /\ proc'[p].pc = "loop"
           \/ proc[p].pc = "create" /\ proc'[p].pc = "park"
    <3>1. CASE HelpProposed(p)
      <4> DEFINE rec == [proc[p] EXCEPT !.proposes = TRUE]
      <4>1. /\ rec \in Invocation /\ Is(p, rec) /\ rec.pc = "loop" /\ rec.snap = Snap(p)
            /\ rec.owner = proc[p].owner /\ proc[p].pc = "loop"
        BY <3>1 DEF HelpProposed, Shapes, Invocation, Snap, At
      <4>2. Moves(p) /\ proc'[p] = rec
        BY <4>1, OneInvocation
      <4> HIDE DEF rec
      <4> QED
        BY <4>1, <4>2 DEF Snap
    <3>2. CASE HelpCreates(p)
      <4> DEFINE c == CHOOSE c \in Fresh : TRUE
      <4> DEFINE rec == [proc[p] EXCEPT !.pc = "park", !.child = c]
      <4>1. c \in Children /\ Is(p, rec) /\ proc[p].pc = "create"
        BY <3>2, FreshIsChild DEF HelpCreates, At
      <4> HIDE DEF c
      <4>2. rec \in Invocation /\ rec.pc = "park" /\ rec.snap = Snap(p) /\ rec.owner = proc[p].owner
        BY <4>1 DEF Shapes, Invocation, Snap, Working
      <4>3. Moves(p) /\ proc'[p] = rec
        BY <4>1, <4>2, OneInvocation
      <4> HIDE DEF rec
      <4> QED
        BY <4>1, <4>2, <4>3 DEF Snap
    <3> QED
      BY <1>2, <3>1, <3>2
  <2>2. /\ Steps(p)' <=> Steps(p)
        /\ Others(p)' <=> Others(p)
        /\ ~Ends(p) /\ ~Ends(p)'
    BY <2>1 DEF Steps, Others, Ends, Working, Ending
  <2>3. OneAtATime'
    BY <2>1, <2>2, OneAtATimeKept DEF AInv
  <2>4. StepsAlone'
    BY <1>e, <2>1, <2>2, TheOthersStay DEF AInv, StepsAlone, Stopped
  <2>5. EndsAlone'
    BY <1>e, <2>1, <2>2, TheOthersStay DEF AInv, EndsAlone, Stopped
  <2> QED
    BY <2>3, <2>4, <2>5 DEF AInv
<1>3. CASE LoopEnds(p)
  <2>1. Steps(p)
    BY <1>3 DEF LoopEnds, Shapes, At, Steps, Working
  <2>2. CASE Reads(p, "complete")
    <3>1. Moves(p) /\ proc'[p].pc = "complete" /\ Snap(p)' = parent /\ ~proc'[p].owner
      BY <1>3, <2>2, ReadTheRow DEF LoopEnds, Working, Keeps, Shapes, At
    <3>2. Steps(p)' /\ ~Others(p)' /\ ~Ends(p)'
      BY <3>1 DEF Steps, Others, Ends, Working, Ending
    <3>3. OneAtATime'
      BY <2>1, <3>1, <3>2, OneAtATimeKept DEF AInv
    <3>4. StepsAlone'
      BY <1>e, <2>1, <3>1, <3>2, TheOthersStay DEF AInv, StepsAlone, Stopped
    <3>5. EndsAlone'
      BY <1>e, <2>1, <3>1, <3>2, TheOthersStay DEF AInv, EndsAlone, Stopped, Ends, Ending
    <3> QED
      BY <3>3, <3>4, <3>5 DEF AInv
  <2>3. CASE End(p)
    <3>1. Moves(p) /\ ~Steps(p)' /\ ~Others(p)'
      BY <2>3, Ended DEF Steps, Others, Ends, Working, Ending
    <3> QED
      BY <1>e, <2>1, <3>1, StepLetsGo
  <2> QED
    BY <1>3, <2>2, <2>3 DEF LoopEnds
<1> QED
  BY <1>1, <1>2, <1>3

LEMMA StepPuts ==
  ASSUME Shapes, A, AInv, NEW p \in Procs,
         HelpParks(p) \/ CompleteParks(p) \/ CompletePatches(p) \/ CompleteRuns(p)
  PROVE  AInv'
<1>1. ASSUME Steps(p), CompleteParks(p) \/ CompletePatches(p) \/ CompleteRuns(p)
      PROVE  AInv'
  <2>1. Moves(p) /\ ~Steps(p)' /\ ~Others(p)'
    BY <1>1, Ended DEF CompleteParks, CompletePatches, CompleteRuns, Steps, Others, Ends, Working, Ending
  <2>2. ~Snap(p).waited /\ ~parent.waited /\ Snap(p) \in Row /\ parent \in Row /\ Stepped(p) \in Row
        /\ ~Stepped(p).waited
    BY <1>1, PutsAreRows DEF AInv, StepsAlone, Stopped, CompleteParks, CompletePatches, CompleteRuns, At, Shapes
  <2>3. CASE CompleteParks(p)
    <3>1. parent' = parent \/ (~parent'.waited /\ parent.status \in {"running", "done"})
      BY <2>2, <2>3 DEF CompleteParks, Row
    <3>2. ASSUME NEW q \in Procs, parent.status \in {"running", "done"}, Ends(q)
          PROVE  proc[q].pc \notin {"expire", "resume", "note", "reject", "giveUp", "retryKids"}
      BY <3>2 DEF AInv, EndsAlone
    <3> QED
      BY <1>1, <2>1, <2>2, <3>1, <3>2, StepLetsGo
  <2>4. CASE CompletePatches(p)
    <3>1. parent'.status = parent.status /\ parent'.waited = parent.waited
      BY <2>2, <2>4 DEF CompletePatches, Row
    <3> QED
      BY <1>1, <2>1, <2>2, <3>1, StepLetsGo
  <2>5. CASE CompleteRuns(p)
    <3>1. ~parent'.waited
      BY <2>2, <2>5 DEF CompleteRuns, Row
    <3>2. ASSUME NEW q \in Procs, Ends(q)
          PROVE  proc[q].pc \notin {"expire", "resume", "note", "reject", "giveUp", "retryKids"}
      BY <1>1, <3>2 DEF AInv, EndsAlone, Stopped, Waits
    <3> QED
      BY <1>1, <2>1, <3>1, <3>2, StepLetsGo
  <2> QED
    BY <1>1, <2>3, <2>4, <2>5
<1>2. CASE HelpParks(p)
  <2>1. /\ parent' = parent \/ (parent'.status = "waiting_subtask" /\ ~parent'.waited)
        /\ proc[p].owner \/ (parent'.status = "waiting_subtask" /\ ~parent'.waited)
        /\ proc[p].pc = "park"
    <3>1. parent \in Row /\ Snap(p) \in Row
      BY PutsAreRows DEF Shapes
    <3>2. ~proc[p].owner => parent.status = "running"
      BY <1>2 DEF HelpParks, At, AInv, StepsAlone, Steps, Working
    <3> QED
      BY <3>1, <3>2, <1>2 DEF HelpParks, At, Row
  <2>2. \A q \in Procs : ~Ends(q)
    BY <2>1 DEF AInv, OneAtATime, StepsAlone, Others, Steps, Ends, Working, Ending
  <2>3. CASE proc[p].owner
    <3>1. Moves(p) /\ ~Steps(p)' /\ ~Others(p)' /\ ~Ends(p)'
      BY <1>2, <2>3, Ended DEF HelpParks, Steps, Others, Ends, Working, Ending
    <3>2. \A q \in Procs : Steps(q) => proc[q].pc \notin {"create", "park"}
      BY <2>3 DEF AInv, StepsAlone, Others
    <3>3. OneAtATime'
      BY <3>1, OneAtATimeKept DEF AInv
    <3>4. StepsAlone'
      BY <2>1, <3>1, <3>2, TheOthersStay DEF AInv, StepsAlone, Stopped
    <3>5. EndsAlone'
      BY <2>2, <3>1, TheOthersStay DEF AInv, EndsAlone, Stopped, Ends, Ending
    <3> QED
      BY <3>3, <3>4, <3>5 DEF AInv
  <2>4. CASE ~proc[p].owner
    <3>1. /\ Moves(p) /\ Steps(p) /\ Steps(p)' /\ ~Others(p)' /\ ~Ends(p)'
          /\ proc'[p].pc = "loop"
      BY <1>2, <2>1, <2>4, Went DEF HelpParks, Steps, Others, Ends, Working, Ending, Keeps
    <3>2. \A q \in Procs : Steps(q) => q = p
      BY <3>1 DEF AInv, OneAtATime
    <3>3. OneAtATime'
      BY <3>1, OneAtATimeKept DEF AInv
    <3>4. StepsAlone'
      BY <2>1, <2>4, <3>1, <3>2, TheOthersStay DEF AInv, StepsAlone, Stopped
    <3>5. EndsAlone'
      BY <2>2, <3>1, TheOthersStay DEF AInv, EndsAlone, Stopped, Ends, Ending
    <3> QED
      BY <3>3, <3>4, <3>5 DEF AInv
  <2> QED
    BY <2>3, <2>4
<1> QED
  BY <1>1, <1>2 DEF CompleteParks, CompletePatches, CompleteRuns, Shapes, At, Steps, Working

(* What the end of a wait requires of the parent at each of its steps.       *)
EndFits(p) ==
  /\ ~Stopped => parent.status \notin Waits
  /\ proc[p].pc \in {"expire", "resume", "note"} => parent.status = "waiting_subtask"
  /\ proc[p].pc = "note" => Snap(p).status = "waiting_subtask"
  /\ proc[p].pc \in {"reject", "giveUp"} => parent.status = "waiting_approval"
  /\ proc[p].pc = "retryKids" => parent.status = "failed" /\ Stopped

LEMMA EndsFit ==
  ASSUME AInv
  PROVE  \A p \in Procs : Ends(p) => EndFits(p)
BY DEF AInv, EndsAlone, EndFits, Ends

(* One invocation begins, goes on with or lets go of the end of a wait; the  *)
(* parent's row is put where no step of it runs, or cancelled.               *)
LEMMA EndTakes ==
  ASSUME Shapes, AInv, NEW p \in Procs, Moves(p), ~Steps(p), ~Steps(p)',
         Others(p) \/ \A q \in Procs : ~Others(q),
         Ends(p)' => EndFits(p)',
         \/ parent' = parent
         \/ Stopped /\ (parent'.waited => parent'.status # "running")
         \/ /\ parent'.status = "cancelled" /\ parent'.waited = parent.waited
            /\ \A q \in Procs : proc[q].pc \notin {"create", "park"},
         Others(p)' => \A q \in Procs : Steps(q) => proc[q].pc \notin {"create", "park"}
  PROVE  AInv'
<1>1. \A q \in Procs : /\ Others(q)' => q = p
                       /\ Steps(q)' => q # p /\ Steps(q) /\ proc'[q] = proc[q] /\ Snap(q)' = Snap(q)
                       /\ Steps(q) => Steps(q)'
  BY TheOthersStay DEF AInv, OneAtATime
<1>2. OneAtATime'
  BY <1>1, OneAtATimeKept DEF AInv
<1>3. Stopped' <=> Stopped
  BY <1>1 DEF Stopped
<1>4. StepsAlone'
  <2>1. parent'.status = "running" /\ ~Stopped' => parent'.claimed > parent'.step
    BY <1>3 DEF AInv, StepsAlone
  <2>2. parent'.waited => Stopped' /\ parent'.status # "running"
    BY <1>3 DEF AInv, StepsAlone
  <2>3. ASSUME NEW q \in Procs, Steps(q)'
        PROVE  /\ proc'[q].pc # "loop" => ~Snap(q)'.waited
               /\ proc'[q].pc \in {"create", "park"} =>
                    parent'.status = "running" /\ \A r \in Procs : ~Others(r)'
    BY <1>1, <2>3 DEF AInv, StepsAlone, Stopped
  <2> QED
    BY <2>1, <2>2, <2>3 DEF StepsAlone
<1>5. EndsAlone'
  <2>1. \A q \in Procs : Ends(q)' => q = p
    BY <1>1 DEF Others
  <2>2. \A q \in Procs : proc'[q].pc \in {"expire", "resume", "note", "reject", "giveUp", "retryKids"} => Ends(q)'
    BY DEF Ends, Ending
  <2> QED
    BY <2>1, <2>2 DEF EndsAlone, EndFits
<1> QED
  BY <1>2, <1>4, <1>5 DEF AInv

LEMMA EndPuts ==
  ASSUME Shapes, A, AInv, NEW p \in Procs,
         ResumePuts(p) \/ NotePuts(p) \/ GivesUp(p) \/ RetryPuts(p)
  PROVE  AInv' /\ Stopped
<1>1. /\ Ends(p) /\ Others(p) /\ ~Steps(p) /\ End(p)
      /\ At(p, "resume") \/ At(p, "note") \/ At(p, "giveUp") \/ At(p, "retryKids")
  BY DEF ResumePuts, NotePuts, GivesUp, RetryPuts, Ends, Others, Steps, Working, Ending, At
<1>2. Stopped
  BY <1>1, EndsFit DEF EndFits, At, Waits
<1>3. parent'.waited => parent'.status # "running"
  <2>1. /\ Resumed(Snap(p)) \in Row /\ ~Resumed(Snap(p)).waited
        /\ NewRow \in Row /\ ~NewRow.waited
    BY PutsAreRows, RecordsAreTyped
  <2>2. At(p, "note") => Snap(p).status = "waiting_subtask"
    BY <1>1, EndsFit DEF EndFits, At
  <2> QED
    BY <2>1, <2>2 DEF ResumePuts, NotePuts, GivesUp, RetryPuts, Row
<1>4. Moves(p) /\ ~Steps(p)' /\ ~Others(p)' /\ ~Ends(p)'
  BY <1>1, Ended DEF Steps, Others, Ends, Working, Ending
<1> QED
  BY <1>1, <1>2, <1>3, <1>4, EndTakes

LEMMA EndGoesOn ==
  ASSUME Shapes, A, AInv, NEW p \in Procs,
         \/ TellReads(p) \/ HeldReads(p) \/ HelpRuns(p) \/ DeclinedReads(p)
         \/ ExpireTells(p) \/ RejectsOverdue(p) \/ KidsCancelled(p)
  PROVE  AInv'
<1>1. Ends(p) /\ Others(p) /\ ~Steps(p) /\ parent' = parent
  BY DEF TellReads, HeldReads, HelpRuns, DeclinedReads, ExpireTells, RejectsOverdue, KidsCancelled,
         Ends, Others, Steps, Working, Ending, At
<1>2. /\ ~Stopped => parent.status \notin Waits
      /\ At(p, "reject") => parent.status = "waiting_approval"
      /\ \A q \in Procs : Steps(q) => proc[q].pc \notin {"create", "park"}
  BY <1>1, EndsFit DEF EndFits, At, AInv, StepsAlone
<1>3. CASE End(p)
  <2>1. Moves(p) /\ ~Steps(p)' /\ ~Others(p)' /\ ~Ends(p)'
    BY <1>3, Ended DEF Steps, Others, Ends, Working, Ending
  <2> QED
    BY <1>1, <2>1, EndTakes
<1>4. ASSUME Moves(p), ~Steps(p)', Stopped' => Stopped,
             \/ proc'[p].pc \in {"declined", "tell", "create"}
             \/ proc'[p].pc = "resume" /\ parent.status = "waiting_subtask"
             \/ proc'[p].pc = "note" /\ parent.status = "waiting_subtask" /\ Snap(p)' = parent
             \/ proc'[p].pc = "giveUp" /\ parent.status = "waiting_approval"
      PROVE  AInv'
  <2>1. Stopped => Stopped'
    BY <1>4 DEF Stopped, Moves, Steps
  <2>2. EndFits(p)'
    BY <1>1, <1>2, <1>4, <2>1 DEF EndFits
  <2> QED
    BY <1>1, <1>2, <1>4, <2>2, EndTakes
<1>5. ASSUME Moves(p), ~Steps(p)'
      PROVE  Stopped' => Stopped
  BY <1>1, <1>5, TheOthersStay DEF Stopped
<1>6. CASE TellReads(p) \/ HeldReads(p) \/ DeclinedReads(p)
  <2>1. CASE TellReads(p) /\ parent.status = "waiting_subtask"
    <3>1. Moves(p) /\ proc'[p].pc = "resume"
      BY <2>1, ReadTheRow DEF TellReads, Ending
    <3>2. ~Steps(p)'
      BY <3>1 DEF Steps, Working
    <3> QED
      BY <2>1, <3>1, <3>2, <1>4, <1>5
  <2>2. CASE HeldReads(p) /\ parent.status = "waiting_subtask"
    <3>1. Moves(p) /\ proc'[p].pc = "note" /\ Snap(p)' = parent
      BY <2>2, ReadTheRow DEF HeldReads, Ending
    <3>2. ~Steps(p)'
      BY <3>1 DEF Steps, Working
    <3> QED
      BY <2>2, <3>1, <3>2, <1>4, <1>5
  <2>3. CASE DeclinedReads(p) /\ parent.status = "waiting_approval"
    <3>1. Moves(p) /\ proc'[p].pc = "giveUp"
      BY <2>3, ReadTheRow DEF DeclinedReads, Ending
    <3>2. ~Steps(p)'
      BY <3>1 DEF Steps, Working
    <3> QED
      BY <2>3, <3>1, <3>2, <1>4, <1>5
  <2> QED
    BY <2>1, <2>2, <2>3, <1>6, <1>3 DEF TellReads, HeldReads, DeclinedReads
<1>7. CASE HelpRuns(p)
  <2> DEFINE rec == [proc[p] EXCEPT !.pc = "create", !.snap = parent, !.owner = TRUE]
  <2>1. CASE Is(p, rec)
    <3>1. rec \in Invocation /\ rec.pc = "create" /\ rec.owner
      BY DEF Shapes, Invocation, Working
    <3>2. Moves(p) /\ proc'[p] = rec
      BY <2>1, <3>1, OneInvocation
    <3> HIDE DEF rec
    <3>3. ~Steps(p)' /\ proc'[p].pc = "create"
      BY <3>1, <3>2 DEF Steps
    <3> QED
      BY <3>2, <3>3, <1>4, <1>5
  <2>2. CASE Goto(p, "declined")
    <3>1. Moves(p) /\ proc'[p].pc = "declined"
      BY <2>2, Went DEF Ending
    <3>2. ~Steps(p)'
      BY <3>1 DEF Steps, Working
    <3> QED
      BY <3>1, <3>2, <1>4, <1>5
  <2> QED
    BY <2>1, <2>2, <1>7 DEF HelpRuns
<1>8. CASE ExpireTells(p)
  <2>1. Moves(p) /\ proc'[p].pc = "tell"
    BY <1>8, Went DEF ExpireTells, Ending
  <2>2. ~Steps(p)'
    BY <2>1 DEF Steps, Working
  <2> QED
    BY <2>1, <2>2, <1>4, <1>5
<1>9. CASE RejectsOverdue(p)
  <2>1. Moves(p) /\ proc'[p].pc = "giveUp"
    BY <1>9, Went DEF RejectsOverdue, Ending
  <2>2. ~Steps(p)' /\ parent.status = "waiting_approval"
    BY <1>2, <1>9, <2>1 DEF Steps, Working, RejectsOverdue
  <2> QED
    BY <2>1, <2>2, <1>4, <1>5
<1> QED
  BY <1>3, <1>6, <1>7, <1>8, <1>9 DEF KidsCancelled

(* An event's step, and what begins an end of the wait.                      *)
LEMMA StepBegins ==
  ASSUME Shapes, A, AInv, NEW p \in Procs, Deliver(p)
  PROVE  AInv'
<1>1. PICK n \in events : StepClaims(p, n)
  BY DEF Deliver
<1> DEFINE rec == [Idle EXCEPT !.pc = "loop", !.want = n]
<1>2. CASE parent.status = "running" /\ n = parent.step + 1 /\ parent.claimed < n
  <2>1. parent \in Row /\ parent.step \in Nat /\ parent.claimed \in Nat
    BY DEF Shapes, Row
  <2>2. /\ n \in Nat /\ parent' = [parent EXCEPT !.claimed = n] /\ Is(p, rec)
        /\ n > parent.step /\ ~(parent.claimed > parent.step)
    BY <1>1, <1>2, <2>1 DEF StepClaims
  <2>3. /\ parent'.status = "running" /\ parent'.claimed > parent'.step /\ parent'.waited = parent.waited
    BY <1>2, <2>1, <2>2 DEF Row
  <2>4. rec \in Invocation /\ rec.pc = "loop" /\ ~rec.owner
    BY <2>2, RecordsAreTyped DEF Invocation, Working
  <2>5. Moves(p) /\ proc'[p] = rec
    BY <2>2, <2>4, OneInvocation
  <2> HIDE DEF rec
  <2>6. Stopped /\ ~parent.waited
    BY <1>2, <2>2 DEF AInv, StepsAlone
  <2>7. Steps(p)' /\ ~Others(p)' /\ proc'[p].pc = "loop"
    BY <2>4, <2>5 DEF Steps, Others, Ends, Working, Ending
  <2>8. OneAtATime'
    BY <2>5, <2>6, <2>7, OneAtATimeKept DEF AInv
  <2>9. \A q \in Procs : q # p => ~Steps(q)'
    BY <2>5, <2>6, TheOthersStay DEF Stopped
  <2>10. StepsAlone'
    BY <2>3, <2>6, <2>7, <2>9 DEF StepsAlone
  <2>11. ASSUME NEW q \in Procs
         PROVE  proc'[q].pc \notin {"expire", "resume", "note", "reject", "giveUp", "retryKids"}
    <3>1. CASE q = p
      BY <3>1, <2>7
    <3>2. CASE q # p
      BY <3>2, <2>5, <1>2, <2>11 DEF AInv, EndsAlone, Moves
    <3> QED
      BY <3>1, <3>2
  <2>12. EndsAlone'
    BY <2>3, <2>11 DEF EndsAlone, Waits
  <2> QED
    BY <2>8, <2>10, <2>12 DEF AInv
<1>3. CASE ~(parent.status = "running" /\ n = parent.step + 1 /\ parent.claimed < n)
  BY <1>1, <1>3 DEF StepClaims, AInv, OneAtATime, StepsAlone, EndsAlone, Stopped, Steps, Others, Ends, Snap
<1> QED
  BY <1>2, <1>3

LEMMA EndBegins ==
  ASSUME Shapes, A, AInv, NEW p \in Procs,
         \/ Judge(p) \/ Tick(p) \/ Founder(p)
         \/ \E c \in Children : ChildEnds(p, c, "failed")
  PROVE  AInv'
<1>o. /\ At(p, "idle") => ~Steps(p)
      /\ {"expire", "reject", "run", "declined", "cancelKids", "retryKids", "tell", "tellHeld"} \subseteq Ending
      /\ \A pc \in Ending : pc \notin Working
  BY DEF At, Steps, Working, Ending
<1>k. parent.waited => Stopped
  BY DEF AInv, StepsAlone
<1>1. ASSUME NEW pc \in Ending, At(p, "idle"), Moves(p), proc'[p].pc = pc, Alone,
             parent' = parent, Stopped,
             pc # "note" /\ pc # "resume" /\ pc # "giveUp",
             pc = "expire" => parent.status = "waiting_subtask",
             pc = "reject" => parent.status = "waiting_approval",
             pc = "retryKids" => parent.status = "failed"
      PROVE  AInv'
  <2>1. ~Steps(p) /\ ~Steps(p)'
    BY <1>1, <1>o DEF Steps
  <2>2. Stopped' /\ \A q \in Procs : ~Others(q)
    BY <1>1, <2>1, TheOthersStay, Guards DEF Stopped
  <2>3. EndFits(p)'
    BY <1>1, <2>2 DEF EndFits
  <2> QED
    BY <1>1, <2>1, <2>2, <2>3, EndTakes DEF Stopped
<1>2. ASSUME NEW c \in Children, NEW status \in {"delivered", "cancelled", "failed"}, ChildEnds(p, c, status)
      PROVE  AInv'
  <2> DEFINE rec == [Idle EXCEPT !.pc = "tell", !.child = c, !.good = (status = "delivered")]
  <2>1. rec \in Invocation /\ rec.pc = "tell" /\ Is(p, rec)
    BY <1>2, RecordsAreTyped DEF ChildEnds, Invocation, Ending
  <2>2. Moves(p) /\ proc'[p] = rec
    BY <2>1, OneInvocation
  <2> HIDE DEF rec
  <2>3. Stopped /\ Alone /\ parent' = parent /\ At(p, "idle") /\ proc'[p].pc = "tell"
    BY <1>2, <2>1, <2>2, Guards DEF ChildEnds
  <2> QED
    BY <2>2, <2>3, <1>1, <1>o
<1>3. ASSUME NEW c \in Children, ChildIsHeld(p, c)
      PROVE  AInv'
  <2> DEFINE rec == [Idle EXCEPT !.pc = "tellHeld", !.child = c]
  <2>1. rec \in Invocation /\ rec.pc = "tellHeld" /\ Is(p, rec)
    BY <1>3, RecordsAreTyped DEF ChildIsHeld, Invocation, Ending
  <2>2. Moves(p) /\ proc'[p] = rec
    BY <2>1, OneInvocation
  <2> HIDE DEF rec
  <2>3. Stopped /\ Alone /\ parent' = parent /\ At(p, "idle") /\ proc'[p].pc = "tellHeld"
    BY <1>3, <2>1, <2>2, Guards DEF ChildIsHeld
  <2> QED
    BY <2>2, <2>3, <1>1, <1>o
<1>4. ASSUME \/ Tick(p) \/ RetryReads(p) \/ \E pc \in {"run", "declined"} : Decide(p, pc)
      PROVE  AInv'
  <2>1. PICK pc \in {"expire", "reject", "run", "declined", "retryKids"} :
          /\ Begins(p, pc) /\ Alone /\ parent' = parent /\ Stopped
          /\ pc = "expire" => parent.status = "waiting_subtask"
          /\ pc = "reject" => parent.status = "waiting_approval"
          /\ pc = "retryKids" => parent.status = "failed"
    BY <1>4, <1>k, Guards DEF Tick, ExpireLists, ExpireProposal, RetryReads, Decide
  <2>2. Moves(p) /\ At(p, "idle") /\ proc'[p].pc = pc /\ pc \in Ending
    BY <2>1, <1>o, Began
  <2> QED
    BY <2>1, <2>2, <1>1
<1>5. CASE CancelParent(p)
  <2>1. /\ parent'.status = "cancelled" /\ parent'.waited = parent.waited /\ Alone
        /\ \A q \in Procs : proc[q].pc \notin {"create", "park"}
    BY <1>5 DEF CancelParent, A, Orderly, Shapes, Row
  <2>2. Moves(p) /\ At(p, "idle") /\ proc'[p].pc = "cancelKids"
    BY <1>5, <1>o, Began DEF CancelParent
  <2>3. ~Steps(p) /\ ~Steps(p)' /\ \A q \in Procs : ~Others(q)
    BY <2>1, <2>2, <1>o, Guards DEF Steps
  <2>4. EndFits(p)'
    BY <2>1, <2>2 DEF EndFits, Waits
  <2> QED
    BY <2>1, <2>2, <2>3, <2>4, EndTakes
<1> QED
  BY <1>2, <1>3, <1>4, <1>5 DEF Judge, Founder

LEMMA PlatformKeeps ==
  ASSUME Shapes, A, AInv, Platform
  PROVE  AInv'
<1>1. CASE \E c \in Children : ChildSubmits(c) \/ ChildReturned(c) \/ ChildRetried(c)
  BY <1>1 DEF ChildSubmits, ChildReturned, ChildRetried, AInv, OneAtATime, StepsAlone, EndsAlone,
              Stopped, Steps, Others, Ends, Snap
<1>2. CASE WaitAges
  <2>1. \A q \in Procs : /\ proc'[q].pc = proc[q].pc /\ proc'[q].owner = proc[q].owner
                         /\ proc[q].pc \notin Working
                         /\ proc[q].pc = "note" => Snap(q)' = parent'
    BY <1>2, Aged DEF Keeps, Working
  <2>2. parent'.status = parent.status /\ parent.status \in Waits
    BY <1>2, Aged DEF WaitAges
  <2>3. \A q \in Procs : ~Steps(q)' /\ (Others(q)' <=> Others(q))
    BY <2>1 DEF Steps, Others, Ends
  <2>4. OneAtATime' /\ StepsAlone'
    BY <2>2, <2>3 DEF AInv, OneAtATime, StepsAlone, Stopped, Waits
  <2>5. EndsAlone'
    BY <2>1, <2>2, <2>3 DEF AInv, EndsAlone, Stopped, Steps
  <2> QED
    BY <2>4, <2>5 DEF AInv
<1>3. CASE SweepRetries \/ SweepFails
  <2>1. /\ parent.status = "running" /\ proc' = proc /\ Stopped /\ ~parent.waited
    <3>1. parent.status = "running" /\ proc' = proc /\ Stopped
      BY <1>3 DEF SweepRetries, SweepFails, Stuck, Stopped, Steps, Working, Ending
    <3> QED
      BY <3>1 DEF AInv, StepsAlone
  <2>2. parent'.status \in {"running", "failed"} /\ ~parent'.waited
    BY <1>3, <2>1 DEF SweepRetries, SweepFails, Shapes, Row
  <2>3. Stopped' /\ \A q \in Procs : Snap(q)' = Snap(q)
    BY <2>1 DEF Stopped, Steps, Snap
  <2>4. OneAtATime' /\ StepsAlone'
    BY <2>1, <2>2, <2>3 DEF AInv, OneAtATime, StepsAlone, Stopped, Steps, Others, Ends
  <2>5. EndsAlone'
    BY <2>1, <2>2, <2>3 DEF AInv, EndsAlone, Ends
  <2> QED
    BY <2>4, <2>5 DEF AInv
<1> QED
  BY <1>1, <1>2, <1>3 DEF Platform

LEMMA DeathKeeps ==
  ASSUME Shapes, A, AInv, NEW p \in Procs, Crash(p) \/ DeadIsGone(p)
  PROVE  AInv'
<1>1. parent' = parent /\ Moves(p) /\ ~Steps(p)' /\ ~Others(p)'
  BY DeathIsTyped DEF Crash, DeadIsGone, Steps, Others, Ends, Working, Ending
<1>2. OneAtATime'
  BY <1>1, OneAtATimeKept DEF AInv
<1>3. \A q \in Procs : /\ Steps(q)' => q # p /\ Steps(q)
                       /\ Others(q)' => q # p /\ Others(q)
                       /\ Ends(q)' => q # p /\ Ends(q)
  BY <1>1, TheOthersStay DEF Others
<1>4. StepsAlone'
  BY <1>1, <1>3, TheOthersStay DEF AInv, StepsAlone, Stopped
<1>5. \A q \in Procs : proc'[q].pc \in {"expire", "resume", "note", "reject", "giveUp", "retryKids"} => Ends(q)'
  BY DEF Ends, Ending
<1>6. EndsAlone'
  BY <1>1, <1>3, <1>5, TheOthersStay DEF AInv, EndsAlone, Stopped
<1> QED
  BY <1>2, <1>4, <1>6 DEF AInv

-----------------------------------------------------------------------------
(* Help is waited for, and its answer heard.                               *)

LEMMA Kinds ==
  B => A /\ "crash" \notin env /\ "again" \notin env
BY DEF A, B, Orderly

(* Somebody whose shape the parent's row has no say in.                      *)
Bystander(q) == ~proc[q].owner /\ proc[q].pc \notin Ending \ {"cancelKids"}

LEMMA BesideAStep ==
  ASSUME Shapes, AInv, \A q \in Procs : Undisturbed(q), NEW p \in Procs, Steps(p)
  PROVE  \A q \in Procs \ {p} : ~Steps(q) /\ Bystander(q)
BY DEF AInv, OneAtATime, Undisturbed, Stopped, Bystander, Ends

LEMMA BesideAnEnd ==
  ASSUME Shapes, AInv, NEW p \in Procs, Others(p) \/ \A q \in Procs : ~Others(q)
  PROVE  \A q \in Procs \ {p} : ~Others(q) /\ Bystander(q)
BY DEF AInv, OneAtATime, Others, Bystander, Ends

LEMMA UndisturbedKept ==
  ASSUME \A q \in Procs : Undisturbed(q), NEW p \in Procs, Moves(p), env' = env,
         \A q \in Procs \ {p} : Bystander(q), Undisturbed(p)'
  PROVE  \A q \in Procs : Undisturbed(q)'
<1>1. ASSUME NEW q \in Procs \ {p}
      PROVE  Undisturbed(q)'
  <2>1. proc'[q] = proc[q] /\ (Steps(q)' <=> Steps(q)) /\ Ends(q)' = Ends(q) /\ Bystander(q) /\ Undisturbed(q)
    BY TheOthersStay
  <2>2. {"run", "declined", "tell", "tellHeld", "expire", "note", "giveUp"} \subseteq Ending \ {"cancelKids"}
    BY DEF Ending
  <2>3. Ends(q) => proc[q].pc = "cancelKids"
    BY <2>1 DEF Bystander, Ends
  <2> QED
    BY <2>1, <2>2, <2>3 DEF Undisturbed, Bystander
<1> QED
  BY <1>1

(* Whom a step of the parent, or an end of its wait, finds beside it.        *)
LEMMA PendingKept ==
  ASSUME PendingFits, NEW p \in Procs, Moves(p), proposal' = proposal, parent'.status = parent.status,
         Steps(p)' <=> Steps(p), proc'[p].proposes = proc[p].proposes
  PROVE  PendingFits'
<1>1. \A q \in Procs : (Steps(q)' <=> Steps(q)) /\ proc'[q].proposes = proc[q].proposes
  BY TheOthersStay
<1> QED
  BY <1>1 DEF PendingFits, Stopped

LEMMA NobodyOpen ==
  ASSUME NoneOpen'
  PROVE  HelpIsWaitedFor'
BY DEF NoneOpen, HelpIsWaitedFor, HelpFits

LEMMA HelpKept ==
  ASSUME HelpIsWaitedFor, NEW p \in Procs, Moves(p), HelpFits(p)',
         \A c \in Children : child'[c] \in Open => child[c] \in Open /\ WaitedFor(c)',
         parent.status = "cancelled" => parent'.status = "cancelled" \/ NoneOpen
  PROVE  HelpIsWaitedFor'
<1>1. NoneOpen => NoneOpen'
  BY DEF NoneOpen
<1>2. ASSUME NEW q \in Procs \ {p}
      PROVE  HelpFits(q)'
  <2>1. proc'[q] = proc[q] /\ Snap(q)' = Snap(q) /\ HelpFits(q)
    BY TheOthersStay DEF HelpIsWaitedFor
  <2> QED
    BY <1>1, <2>1 DEF HelpFits, At
<1>3. \A q \in Procs : HelpFits(q)'
  BY <1>2
<1>4. \A c, d \in Children : child'[c] \in Open /\ child'[d] \in Open => c = d
  BY DEF HelpIsWaitedFor
<1> QED
  BY <1>3, <1>4 DEF HelpIsWaitedFor

LEMMA WaitedForKept ==
  ASSUME NEW c \in Children, WaitedFor(c), NEW p \in Procs, Moves(p),
         parent'.status = parent.status, parent'.help = parent.help,
         proc[p].pc \notin {"park", "cancelKids", "retryKids"}
  PROVE  WaitedFor(c)'
BY TheOthersStay DEF WaitedFor, At

(* Where the parent neither waits for a colleague nor is one being asked for *)
(* or cancelled.                                                             *)
LEMMA NobodyIsOpen ==
  ASSUME HelpIsWaitedFor, parent.status # "waiting_subtask",
         \A p \in Procs : proc[p].pc \notin {"park", "retryKids"} \/ (At(p, "retryKids") /\ OpenKids(Snap(p)) = {}),
         \A p \in Procs : At(p, "cancelKids") => parent.status # "cancelled"
  PROVE  NoneOpen
<1>1. ASSUME NEW c \in Children, child[c] \in Open
      PROVE  NoneOpen
  <2>1. WaitedFor(c)
    BY <1>1 DEF HelpIsWaitedFor
  <2>2. PICK p \in Procs : \/ At(p, "park") /\ proc[p].child = c
                           \/ proc[p].pc \in {"cancelKids", "retryKids"} /\ c \in Snap(p).help
    BY <2>1 DEF WaitedFor
  <2>3. CASE At(p, "cancelKids")
    BY <2>3 DEF HelpIsWaitedFor, HelpFits
  <2>4. CASE At(p, "retryKids")
    BY <2>2, <2>4, <1>1 DEF OpenKids, At
  <2> QED
    BY <2>2, <2>3, <2>4 DEF At
<1> QED
  BY <1>1 DEF NoneOpen

LEMMA AnsweredKept ==
  ASSUME Answered, NEW p \in Procs, Moves(p), told \subseteq told',
         \A c \in Children : child'[c] = "delivered" => child[c] = "delivered",
         proc[p].pc \in {"tell", "resume"} /\ proc[p].good =>
           \/ proc[p].child \in told'
           \/ proc'[p].pc \in {"tell", "resume"} /\ proc'[p].good /\ proc'[p].child = proc[p].child
  PROVE  Answered'
<1>1. ASSUME NEW c \in Children, child'[c] = "delivered"
      PROVE  \/ c \in told'
             \/ \E q \in Procs : proc'[q].pc \in {"tell", "resume"} /\ proc'[q].good /\ proc'[q].child = c
  <2>1. CASE c \in told
    BY <2>1
  <2>2. ASSUME NEW q \in Procs, proc[q].pc \in {"tell", "resume"}, proc[q].good, proc[q].child = c
        PROVE  \/ c \in told'
               \/ \E r \in Procs : proc'[r].pc \in {"tell", "resume"} /\ proc'[r].good /\ proc'[r].child = c
    BY <2>2, TheOthersStay
  <2> QED
    BY <1>1, <2>1, <2>2 DEF Answered
<1> QED
  BY <1>1 DEF Answered

(* The steps of the parent.                                                  *)
LEMMA StepFinds ==
  ASSUME Shapes, AInv, BInv, NEW p \in Procs, Steps(p)
  PROVE  /\ ~Stopped /\ ~Ends(p) /\ ~proc[p].owner
         /\ \A q \in Procs \ {p} : ~Steps(q) /\ Bystander(q)
         /\ proposal = "pending" => proc[p].proposes /\ parent.status \in {"running", "cancelled"}
<1>1. ~Stopped /\ ~Ends(p) /\ ~proc[p].owner
  BY DEF Stopped, Steps, Ends, Working, Ending
<1>2. \A q \in Procs \ {p} : ~Steps(q) /\ Bystander(q)
  BY BesideAStep DEF BInv
<1> QED
  BY <1>1, <1>2 DEF BInv, PendingFits

LEMMA HelpReadsHelps ==
  ASSUME Shapes, B, AInv, BInv, NEW p \in Procs, HelpReads(p)
  PROVE  BInv'
<1>1. /\ At(p, "loop") /\ ~proc[p].owner /\ Steps(p) /\ Alone /\ parent.status = "running"
      /\ parent' = parent /\ child' = child /\ proposal' = proposal /\ told' = told /\ env' = env
      /\ "propose" \notin env
  BY DEF HelpReads, MayAsk, Shapes, At, Steps, Working
<1>2. Moves(p) /\ proc'[p].pc = "create" /\ Keeps(p)
  BY <1>1, ReadTheRow DEF HelpReads, Working
<1>3. Steps(p)' /\ ~Ends(p)'
  BY <1>1, <1>2 DEF Steps, Ends, Working, Ending, Keeps
<1>4. \A q \in Procs : ~Others(q)
  BY <1>1, Kinds, Guards
<1>5. NoneOpen
  <2>1. \A q \in Procs : proc[q].pc \notin {"park", "retryKids", "cancelKids"}
    <3>1. ASSUME NEW q \in Procs, At(q, "park")
          PROVE  FALSE
      BY <1>1, <1>4, <3>1 DEF AInv, OneAtATime, Steps, Others, Working, At
    <3> QED
      BY <3>1, <1>4 DEF Others, Ends, Ending, At
  <2> QED
    BY <2>1, <1>1, NobodyIsOpen DEF BInv, At
<1>6. \A q \in Procs : Undisturbed(q)'
  <2>1. Undisturbed(p)'
    BY <1>1, <1>2, <1>3 DEF Undisturbed, BInv, Keeps
  <2> QED
    BY <1>1, <1>2, <2>1, StepFinds, UndisturbedKept DEF BInv
<1>7. PendingFits'
  BY <1>1, <1>2, <1>3, PendingKept DEF BInv, Keeps
<1>8. HelpIsWaitedFor'
  BY <1>1, <1>5, NobodyOpen DEF NoneOpen
<1>9. Answered'
  BY <1>1, <1>2, AnsweredKept DEF BInv, At
<1> QED
  BY <1>6, <1>7, <1>8, <1>9 DEF BInv

LEMMA HelpProposedHelps ==
  ASSUME Shapes, B, AInv, BInv, NEW p \in Procs, HelpProposed(p)
  PROVE  BInv'
<1> DEFINE rec == [proc[p] EXCEPT !.proposes = TRUE]
<1>1. /\ At(p, "loop") /\ ~proc[p].owner /\ Steps(p) /\ parent.status = "running"
      /\ parent' = parent /\ child' = child /\ told' = told /\ env' = env
      /\ "propose" \in env
  BY DEF HelpProposed, MayAsk, Shapes, At, Steps, Working
<1>2. rec \in Invocation /\ Is(p, rec) /\ rec.pc = "loop" /\ rec.proposes /\ ~rec.owner
  BY <1>1 DEF HelpProposed, Shapes, Invocation, At
<1>3. Moves(p) /\ proc'[p] = rec
  BY <1>2, OneInvocation
<1> HIDE DEF rec
<1>4. Steps(p)' /\ ~Ends(p)' /\ proc'[p].pc = "loop"
  BY <1>2, <1>3 DEF Steps, Ends, Working, Ending
<1>5. \A q \in Procs : Undisturbed(q)'
  <2>1. Undisturbed(p)'
    BY <1>1, <1>2, <1>3, <1>4 DEF Undisturbed
  <2> QED
    BY <1>1, <1>3, <2>1, StepFinds, UndisturbedKept DEF BInv
<1>6. PendingFits'
  BY <1>1, <1>2, <1>3, <1>4 DEF PendingFits
<1>7. HelpIsWaitedFor'
  <2>1. \A c \in Children : child[c] \in Open => WaitedFor(c)'
    BY <1>1, <1>3, WaitedForKept DEF BInv, HelpIsWaitedFor, At
  <2>2. HelpFits(p)'
    BY <1>4 DEF HelpFits, At
  <2> QED
    BY <2>1, <2>2, <1>1, <1>3, HelpKept DEF BInv
<1>8. Answered'
  BY <1>1, <1>3, AnsweredKept DEF BInv, At
<1> QED
  BY <1>5, <1>6, <1>7, <1>8 DEF BInv

(* Who asks is alone.                                                        *)
LEMMA AskerIsAlone ==
  ASSUME Shapes, B, AInv, BInv, NEW p \in Procs, proc[p].pc \in {"create", "park"}
  PROVE  /\ \A q \in Procs \ {p} : ~Steps(q) /\ ~Others(q) /\ Bystander(q)
         /\ proposal # "pending"
         /\ parent.status \in {"running", "waiting_approval"}
<1>1. CASE proc[p].owner
  BY <1>1, BesideAnEnd DEF Others, BInv, Undisturbed, Stopped
<1>2. CASE ~proc[p].owner
  <2>1. Steps(p)
    BY <1>2 DEF Steps, Working
  <2>2. parent.status = "running" /\ \A q \in Procs : ~Others(q)
    BY <2>1 DEF AInv, StepsAlone
  <2>3. proposal # "pending"
    BY <2>1, StepFinds DEF BInv, Undisturbed
  <2> QED
    BY <2>1, <2>2, <2>3, StepFinds
<1> QED
  BY <1>1, <1>2

LEMMA HelpCreatesHelps ==
  ASSUME Shapes, B, AInv, BInv, NEW p \in Procs, HelpCreates(p)
  PROVE  BInv'
<1>1. PICK c \in Children :
        /\ proc[p].pc = "create" /\ parent' = parent /\ proposal' = proposal /\ told' = told /\ env' = env
        /\ child[c] = "absent" /\ child' = [child EXCEPT ![c] = "open"]
        /\ Is(p, [proc[p] EXCEPT !.pc = "park", !.child = c])
  BY FreshIsChild DEF HelpCreates, At
<1> DEFINE rec == [proc[p] EXCEPT !.pc = "park", !.child = c]
<1>2. /\ rec \in Invocation /\ rec.pc = "park" /\ rec.child = c
      /\ rec.owner = proc[p].owner /\ rec.proposes = proc[p].proposes
  BY <1>1 DEF Shapes, Invocation, Working
<1>3. Moves(p) /\ proc'[p] = rec
  BY <1>1, <1>2, OneInvocation
<1> HIDE DEF rec
<1>4. (Steps(p)' <=> Steps(p)) /\ ~Ends(p) /\ ~Ends(p)'
  BY <1>1, <1>2, <1>3 DEF Steps, Ends, Working, Ending
<1>5. Stopped' <=> Stopped
  BY <1>3, <1>4, TheOthersStay DEF Stopped
<1>6. \A q \in Procs : Undisturbed(q)'
  <2>1. Undisturbed(p)'
    BY <1>1, <1>2, <1>3, <1>4, <1>5 DEF Undisturbed, BInv
  <2> QED
    BY <1>1, <1>3, <2>1, AskerIsAlone, UndisturbedKept DEF BInv
<1>7. PendingFits'
  BY <1>1, AskerIsAlone DEF PendingFits
<1>8. HelpIsWaitedFor'
  <2>1. \A d \in Children : child'[d] \in Open => d = c
    BY <1>1 DEF BInv, HelpIsWaitedFor, HelpFits, NoneOpen, Shapes
  <2>2. proc'[p].pc = "park" /\ proc'[p].child = c
    BY <1>2, <1>3
  <2>4. WaitedFor(c)'
    BY <2>2 DEF WaitedFor, At
  <2>3. ASSUME NEW q \in Procs
        PROVE  HelpFits(q)'
    <3>1. CASE q = p
      BY <3>1, <2>1, <2>2 DEF HelpFits, At
    <3>2. CASE q # p
      <4>1. proc'[q] = proc[q] /\ ~Steps(q) /\ ~Others(q)
        BY <3>2, <2>3, <1>1, <1>3, TheOthersStay, AskerIsAlone
      <4>2. proc'[q].pc \notin {"create", "tell", "resume", "complete", "park", "cancelKids"}
        BY <4>1 DEF Steps, Others, Ends, Working, Ending
      <4> QED
        BY <4>2 DEF HelpFits, At
    <3> QED
      BY <3>1, <3>2
  <2>5. ASSUME NEW d \in Children, child'[d] \in Open
        PROVE  WaitedFor(d)'
    BY <2>1, <2>4, <2>5
  <2>6. \A d, e \in Children : child'[d] \in Open /\ child'[e] \in Open => d = e
    BY <2>1
  <2> QED
    BY <2>3, <2>5, <2>6 DEF HelpIsWaitedFor
<1>9. Answered'
  <2>1. \A d \in Children : child'[d] = "delivered" => child[d] = "delivered"
    BY <1>1 DEF Shapes
  <2> QED
    BY <1>1, <1>3, <2>1, AnsweredKept DEF BInv
<1> QED
  BY <1>6, <1>7, <1>8, <1>9 DEF BInv

LEMMA HelpParksHelps ==
  ASSUME Shapes, B, AInv, BInv, NEW p \in Procs, HelpParks(p)
  PROVE  BInv'
<1>1. /\ proc[p].pc = "park" /\ child' = child /\ proposal' = proposal /\ told' = told /\ env' = env
      /\ parent' = [Snap(p) EXCEPT !.status = "waiting_subtask", !.asked = @ + 1,
                                  !.help = @ \cup {proc[p].child}, !.waited = FALSE,
                                  !.claimed = Snap(p).step]
      /\ proposal # "pending"
  BY AskerIsAlone DEF HelpParks, At
<1>2. parent'.status = "waiting_subtask" /\ proc[p].child \in parent'.help
  BY <1>1, PutsAreRows DEF Row
<1>3. /\ Moves(p) /\ ~Ends(p)' /\ proc'[p].pc \in {"idle", "loop"} /\ ~proc'[p].owner
      /\ proc'[p].proposes => proc[p].proposes /\ Steps(p) /\ Steps(p)'
  <2>1. CASE End(p)
    BY <2>1, Ended DEF Ends, Ending
  <2>2. CASE Goto(p, "loop") /\ ~proc[p].owner
    BY <2>2, <1>1, Went DEF Ends, Ending, Working, Keeps, Steps
  <2> QED
    BY <2>1, <2>2 DEF HelpParks
<1>4. \A q \in Procs : Undisturbed(q)'
  <2>1. Undisturbed(p)'
    BY <1>1, <1>3 DEF Undisturbed, BInv
  <2> QED
    BY <1>1, <1>3, <2>1, AskerIsAlone, UndisturbedKept DEF BInv
<1>5. PendingFits'
  BY <1>1 DEF PendingFits
<1>6. HelpIsWaitedFor'
  <2>1. \A c \in Children : child[c] \in Open => c = proc[p].child
    BY <1>1 DEF BInv, HelpIsWaitedFor, HelpFits, At
  <2>2. \A c \in Children : child'[c] \in Open => child[c] \in Open /\ WaitedFor(c)'
    BY <1>1, <1>2, <2>1 DEF WaitedFor
  <2>3. HelpFits(p)'
    BY <1>3 DEF HelpFits, At
  <2>4. parent.status # "cancelled"
    BY <1>1, AskerIsAlone
  <2> QED
    BY <1>3, <2>2, <2>3, <2>4, HelpKept DEF BInv
<1>7. Answered'
  BY <1>1, <1>3, AnsweredKept DEF BInv
<1> QED
  BY <1>4, <1>5, <1>6, <1>7 DEF BInv

LEMMA LoopEndsHelps ==
  ASSUME Shapes, B, AInv, BInv, NEW p \in Procs, LoopEnds(p)
  PROVE  BInv'
<1>1. /\ At(p, "loop") /\ ~proc[p].owner /\ Steps(p) /\ ~Stopped
      /\ parent' = parent /\ child' = child /\ proposal' = proposal /\ told' = told /\ env' = env
  BY DEF LoopEnds, Shapes, At, Steps, Working, Stopped
<1>2. \A c \in Children, q \in Procs : child[c] \in Open /\ Moves(p) => WaitedFor(c)'
  BY <1>1, WaitedForKept DEF BInv, HelpIsWaitedFor, At
<1>3. CASE Reads(p, "complete")
  <2>1. Moves(p) /\ proc'[p].pc = "complete" /\ Keeps(p) /\ Snap(p)' = parent
    BY <1>3, ReadTheRow DEF Working
  <2>2. Steps(p)' /\ ~Ends(p)'
    BY <1>1, <2>1 DEF Steps, Ends, Working, Ending, Keeps
  <2>3. \A q \in Procs : Undisturbed(q)'
    <3>1. Undisturbed(p)'
      BY <1>1, <2>1, <2>2 DEF Undisturbed, BInv, Keeps
    <3> QED
      BY <1>1, <2>1, <3>1, StepFinds, UndisturbedKept DEF BInv
  <2>4. PendingFits'
    BY <1>1, <2>1, <2>2, PendingKept DEF BInv, Keeps
  <2>5. HelpIsWaitedFor'
    <3>1. parent.status = "running" => NoneOpen
      <4>1. ASSUME NEW q \in Procs
            PROVE  proc[q].pc \notin {"park", "retryKids"}
        <5>1. CASE q = p
          BY <5>1, <1>1 DEF At
        <5>2. CASE q # p
          BY <5>2, <1>1, StepFinds DEF Bystander, Steps, Working, Ending
        <5> QED
          BY <5>1, <5>2
      <4> QED
        BY <4>1, NobodyIsOpen DEF BInv
    <3>2. HelpFits(p)'
      BY <1>1, <2>1, <3>1 DEF HelpFits, At, NoneOpen
    <3> QED
      BY <1>1, <1>2, <2>1, <3>2, HelpKept DEF BInv
  <2>6. Answered'
    BY <1>1, <2>1, AnsweredKept DEF BInv, At
  <2> QED
    BY <2>3, <2>4, <2>5, <2>6 DEF BInv
<1>4. CASE End(p) /\ parent.status \notin {"running"}
  <2>1. Moves(p) /\ proc'[p].pc = "idle" /\ ~proc'[p].owner /\ ~proc'[p].proposes
    BY <1>4, Ended
  <2>2. ~Ends(p)' /\ ~Steps(p)'
    BY <2>1 DEF Steps, Ends, Working, Ending
  <2>3. Stopped'
    BY <1>1, <2>1, <2>2, StepFinds, TheOthersStay DEF Stopped
  <2>4. \A q \in Procs : Undisturbed(q)'
    <3>1. Undisturbed(p)'
      BY <1>1, <2>1, <2>2 DEF Undisturbed
    <3> QED
      BY <1>1, <2>1, <3>1, StepFinds, UndisturbedKept DEF BInv
  <2>5. PendingFits'
    BY <1>1, <1>4, <2>3, StepFinds DEF PendingFits
  <2>6. HelpIsWaitedFor'
    <3>1. HelpFits(p)'
      BY <2>1 DEF HelpFits, At
    <3> QED
      BY <1>1, <1>2, <2>1, <3>1, HelpKept DEF BInv
  <2>7. Answered'
    BY <1>1, <2>1, AnsweredKept DEF BInv, At
  <2> QED
    BY <2>4, <2>5, <2>6, <2>7 DEF BInv
<1> QED
  BY <1>3, <1>4 DEF LoopEnds

LEMMA CompletesHelps ==
  ASSUME Shapes, B, AInv, BInv, NEW p \in Procs,
         CompleteParks(p) \/ CompletePatches(p) \/ CompleteRuns(p)
  PROVE  BInv'
<1>1. /\ At(p, "complete") /\ ~proc[p].owner /\ Steps(p) /\ ~Stopped /\ End(p)
      /\ child' = child /\ proposal' = proposal /\ told' = told /\ env' = env
  BY DEF CompleteParks, CompletePatches, CompleteRuns, Shapes, At, Steps, Working, Stopped
<1>2. Moves(p) /\ proc'[p].pc = "idle" /\ ~proc'[p].owner /\ ~proc'[p].proposes
  BY <1>1, Ended
<1>3. ~Ends(p)' /\ ~Steps(p)'
  BY <1>2 DEF Steps, Ends, Working, Ending
<1>4. Stopped'
  BY <1>1, <1>2, <1>3, StepFinds, TheOthersStay DEF Stopped
<1>5. \A q \in Procs : Undisturbed(q)'
  <2>1. Undisturbed(p)'
    BY <1>1, <1>2, <1>3 DEF Undisturbed
  <2> QED
    BY <1>1, <1>2, <2>1, StepFinds, UndisturbedKept DEF BInv
<1>6. Answered'
  BY <1>1, <1>2, AnsweredKept DEF BInv, At
<1>7. HelpFits(p)'
  BY <1>2 DEF HelpFits, At
<1>8. CASE CompleteParks(p)
  <2>1. \/ parent' = parent /\ parent.status \notin {"running", "done"}
        \/ parent'.status = "waiting_approval" /\ parent.status \in {"running", "done"}
    BY <1>8, PutsAreRows DEF CompleteParks, Row
  <2>2. PendingFits'
    BY <1>1, <1>4, <2>1, StepFinds DEF PendingFits
  <2>3. ASSUME NEW c \in Children, child[c] \in Open
        PROVE  WaitedFor(c)'
    <3>1. CASE parent' = parent
      BY <3>1, <1>1, <1>2, <2>3, WaitedForKept DEF BInv, HelpIsWaitedFor, At
    <3>2. CASE parent.status \in {"running", "done"}
      <4>1. PICK q \in Procs : \/ At(q, "park") /\ proc[q].child = c
                               \/ proc[q].pc \in {"cancelKids", "retryKids"} /\ c \in Snap(q).help
        BY <2>3, <3>2 DEF BInv, HelpIsWaitedFor, WaitedFor
      <4>2. q # p
        BY <4>1, <1>1 DEF At
      <4> QED
        BY <4>1, <4>2, <1>2, TheOthersStay DEF WaitedFor, At
    <3> QED
      BY <2>1, <3>1, <3>2
  <2>4. HelpIsWaitedFor'
    BY <1>1, <1>2, <1>7, <2>1, <2>3, HelpKept DEF BInv
  <2> QED
    BY <1>5, <1>6, <2>2, <2>4 DEF BInv
<1>9. CASE ~proc[p].proposes
  <2>1. PendingFits'
    BY <1>1, <1>9, StepFinds DEF PendingFits
  <2>2. CASE CompletePatches(p)
    <3>1. parent'.status = parent.status /\ parent'.help = parent.help
      BY <2>2 DEF CompletePatches, Shapes, Row
    <3>2. \A c \in Children : child[c] \in Open => WaitedFor(c)'
      BY <1>1, <1>2, <3>1, WaitedForKept DEF BInv, HelpIsWaitedFor, At
    <3>3. HelpIsWaitedFor'
      BY <1>1, <1>2, <1>7, <3>1, <3>2, HelpKept DEF BInv
    <3> QED
      BY <1>5, <1>6, <2>1, <3>3 DEF BInv
  <2>3. CASE CompleteRuns(p)
    <3>1. NoneOpen
      BY <1>1, <2>3 DEF CompleteRuns, BInv, HelpIsWaitedFor, HelpFits
    <3>2. HelpIsWaitedFor'
      BY <1>1, <3>1, NobodyOpen DEF NoneOpen
    <3> QED
      BY <1>5, <1>6, <2>1, <3>2 DEF BInv
  <2> QED
    BY <1>9, <2>2, <2>3 DEF CompleteParks, CompletePatches, CompleteRuns
<1> QED
  BY <1>8, <1>9 DEF CompletePatches, CompleteRuns

(* The ends of a wait.                                                       *)
LEMMA EndFinds ==
  ASSUME Shapes, AInv, BInv, NEW p \in Procs, Ends(p)
  PROVE  /\ Others(p) /\ ~Steps(p) /\ ~proc[p].owner /\ ~proc[p].proposes
         /\ \A q \in Procs \ {p} : ~Others(q) /\ Bystander(q)
         /\ proc[p].pc # "cancelKids" => /\ \A q \in Procs : ~Steps(q)
                                         /\ \A q \in Procs \ {p} :
                                              proc[q].pc \notin Working \cup Ending
<1>1. Others(p) /\ ~Steps(p) /\ ~proc[p].owner /\ ~proc[p].proposes
  BY DEF Others, Ends, Steps, Shapes, Working, Ending, BInv, Undisturbed
<1>2. \A q \in Procs \ {p} : ~Others(q) /\ Bystander(q)
  BY <1>1, BesideAnEnd
<1>3. proc[p].pc # "cancelKids" => \A q \in Procs : ~Steps(q)
  BY DEF BInv, Undisturbed, Stopped
<1>4. ASSUME NEW q \in Procs \ {p}, ~Steps(q), ~Others(q)
      PROVE  proc[q].pc \notin Working \cup Ending
  BY <1>4 DEF Steps, Others, Ends
<1> QED
  BY <1>1, <1>2, <1>3, <1>4

(* In a wait of the parent that is being ended, no child is open but for the *)
(* one it waits for.                                                         *)
LEMMA EndFindsOpen ==
  ASSUME Shapes, AInv, BInv, NEW p \in Procs, Ends(p), proc[p].pc # "cancelKids"
  PROVE  \A c \in Children : child[c] \in Open =>
           \/ parent.status = "waiting_subtask" /\ c \in parent.help
           \/ At(p, "retryKids") /\ c \in Snap(p).help
<1>1. ASSUME NEW c \in Children, child[c] \in Open, NEW q \in Procs,
             \/ At(q, "park") /\ proc[q].child = c
             \/ proc[q].pc \in {"cancelKids", "retryKids"} /\ c \in Snap(q).help
      PROVE  At(p, "retryKids") /\ c \in Snap(p).help
  <2>1. q = p
    BY <1>1, EndFinds DEF At, Working, Ending
  <2> QED
    BY <2>1, <1>1 DEF At, Ends, Ending
<1> QED
  BY <1>1 DEF BInv, HelpIsWaitedFor, WaitedFor

LEMMA EndPutsHelps ==
  ASSUME Shapes, B, AInv, BInv, NEW p \in Procs,
         ResumePuts(p) \/ NotePuts(p) \/ GivesUp(p) \/ RetryPuts(p)
  PROVE  BInv'
<1>1. /\ Ends(p) /\ End(p) /\ proc[p].pc \in {"resume", "note", "giveUp", "retryKids"}
      /\ child' = child /\ proposal' = proposal /\ env' = env
      /\ told \subseteq told'
      /\ proc[p].good /\ At(p, "resume") => proc[p].child \in told'
  BY DEF ResumePuts, NotePuts, GivesUp, RetryPuts, Ends, Ending, At
<1>2. Moves(p) /\ proc'[p].pc = "idle" /\ ~proc'[p].owner /\ ~proc'[p].proposes
  BY <1>1, Ended
<1>3. ~Ends(p)' /\ ~Steps(p)'
  BY <1>2 DEF Steps, Ends, Working, Ending
<1>4. \A q \in Procs : Undisturbed(q)'
  <2>1. Undisturbed(p)'
    BY <1>1, <1>2, <1>3 DEF Undisturbed
  <2> QED
    BY <1>1, <1>2, <2>1, EndFinds, UndisturbedKept DEF BInv
<1>5. Answered'
  BY <1>1, <1>2, AnsweredKept DEF BInv, At
<1>6. parent.status = CASE At(p, "giveUp") -> "waiting_approval"
                        [] At(p, "retryKids") -> "failed"
                        [] OTHER -> "waiting_subtask"
  BY <1>1, EndsFit DEF EndFits, At
<1>7. proposal # "pending"
  <2>1. At(p, "giveUp") => proposal # "pending"
    BY DEF BInv, Undisturbed, At
  <2> QED
    BY <2>1, <1>1, <1>6 DEF BInv, PendingFits, At
<1>8. PendingFits'
  BY <1>1, <1>7 DEF PendingFits
<1>9. CASE NotePuts(p)
  <2>1. parent'.status = parent.status /\ parent'.help = parent.help /\ proc[p].pc = "note"
    <3>1. proc[p].pc = "note" /\ parent' = Snap(p) /\ parent.status = "waiting_subtask"
      BY <1>9, <1>6 DEF NotePuts, At
    <3>2. Snap(p).status = "waiting_subtask" /\ Snap(p).help = parent.help
      BY <1>1, <3>1, EndsFit DEF EndFits, BInv, Undisturbed
    <3> QED
      BY <3>1, <3>2
  <2>2. \A c \in Children : child[c] \in Open => WaitedFor(c)'
    BY <1>2, <2>1, WaitedForKept DEF BInv, HelpIsWaitedFor
  <2>3. HelpFits(p)'
    BY <1>2 DEF HelpFits, At
  <2>4. HelpIsWaitedFor'
    BY <1>1, <1>2, <2>1, <2>2, <2>3, HelpKept DEF BInv
  <2> QED
    BY <1>4, <1>5, <1>8, <2>4 DEF BInv
<1>10. CASE ~NotePuts(p)
  <2>1. NoneOpen
    <3>1. CASE ResumePuts(p)
      BY <3>1 DEF ResumePuts, BInv, HelpIsWaitedFor, HelpFits, At
    <3>2. CASE GivesUp(p)
      BY <3>2, <1>1, <1>6, EndFindsOpen DEF GivesUp, NoneOpen, At
    <3>3. CASE RetryPuts(p)
      BY <3>3, <1>1, <1>6, EndFindsOpen DEF RetryPuts, NoneOpen, At, OpenKids
    <3> QED
      BY <3>1, <3>2, <3>3, <1>10
  <2>2. HelpIsWaitedFor'
    BY <1>1, <2>1, NobodyOpen DEF NoneOpen
  <2> QED
    BY <1>4, <1>5, <1>8, <2>2 DEF BInv
<1> QED
  BY <1>9, <1>10

LEMMA EndGoesOnHelps ==
  ASSUME Shapes, B, AInv, BInv, NEW p \in Procs,
         \/ TellReads(p) \/ HeldReads(p) \/ HelpRuns(p) \/ DeclinedReads(p)
         \/ ExpireTells(p) \/ RejectsOverdue(p) \/ KidsCancelled(p)
  PROVE  BInv'
<1>1. /\ Ends(p) /\ parent' = parent /\ child' = child /\ told' = told /\ env' = env
      /\ proposal' \in {proposal, "decided"}
  BY DEF TellReads, HeldReads, HelpRuns, DeclinedReads, ExpireTells, RejectsOverdue, KidsCancelled,
         Ends, Ending, At
<1>2. ASSUME Moves(p), ~Steps(p)', proc'[p].proposes = proc[p].proposes
      PROVE  PendingFits' /\ (Stopped' <=> Stopped)
  <2>1. \A q \in Procs : (Steps(q)' <=> Steps(q)) /\ proc'[q].proposes = proc[q].proposes
    BY <1>1, <1>2, EndFinds, TheOthersStay
  <2> QED
    BY <1>1, <2>1 DEF PendingFits, BInv, Stopped
(* What an invocation that lets go, or turns to another part of the end,     *)
(* must bring.                                                               *)
<1>3. ASSUME Moves(p), Undisturbed(p)', HelpFits(p)', PendingFits',
             \A c \in Children : child[c] \in Open => WaitedFor(c)',
             At(p, "tell") => /\ proc'[p].pc = "resume" /\ Keeps(p)
      PROVE  BInv'
  <2>1. \A q \in Procs : Undisturbed(q)'
    BY <1>1, <1>3, EndFinds, UndisturbedKept DEF BInv
  <2>2. HelpIsWaitedFor'
    BY <1>1, <1>3, HelpKept DEF BInv
  <2>3. ~At(p, "resume")
    BY DEF TellReads, HeldReads, HelpRuns, DeclinedReads, ExpireTells, RejectsOverdue, KidsCancelled, At
  <2>4. Answered'
    BY <1>1, <1>3, <2>3, AnsweredKept DEF BInv, At, Keeps
  <2> QED
    BY <1>3, <2>1, <2>2, <2>4 DEF BInv
<1>4. ~At(p, "park") /\ ~At(p, "retryKids")
  BY DEF TellReads, HeldReads, HelpRuns, DeclinedReads, ExpireTells, RejectsOverdue, KidsCancelled, At
<1>5. ASSUME Moves(p), ~At(p, "cancelKids")
      PROVE  \A c \in Children : child[c] \in Open => WaitedFor(c)'
  BY <1>1, <1>4, <1>5, WaitedForKept DEF BInv, HelpIsWaitedFor, At
<1>6. CASE End(p)
  <2>1. Moves(p) /\ proc'[p].pc = "idle" /\ ~proc'[p].owner /\ ~proc'[p].proposes
    BY <1>6, Ended
  <2>2. ~Ends(p)' /\ ~Steps(p)'
    BY <2>1 DEF Steps, Ends, Working, Ending
  <2>3. Undisturbed(p)' /\ HelpFits(p)'
    BY <2>1, <2>2 DEF Undisturbed, HelpFits, At
  <2>4. PendingFits'
    <3>1. \A q \in Procs : (Steps(q)' <=> Steps(q)) /\ (Steps(q) => proc'[q].proposes = proc[q].proposes)
      BY <1>1, <2>1, <2>2, EndFinds, TheOthersStay
    <3> QED
      BY <1>1, <3>1 DEF PendingFits, BInv, Stopped
  <2>5. ~At(p, "tell")
    <3>1. At(p, "tell") => TellReads(p) /\ parent.status = "waiting_subtask"
      BY DEF TellReads, HeldReads, HelpRuns, DeclinedReads, ExpireTells, RejectsOverdue,
             KidsCancelled, At, BInv, Undisturbed
    <3>2. CASE At(p, "tell")
      <4>1. Reads(p, "resume")
        BY <3>1, <3>2 DEF TellReads
      <4>2. proc'[p].pc = "resume"
        BY <4>1, ReadTheRow DEF Ending
      <4> QED
        BY <2>1, <4>2
    <3> QED
      BY <3>2
  <2>6. \A c \in Children : child[c] \in Open => WaitedFor(c)'
    <3>1. CASE At(p, "cancelKids")
      <4>1. OpenKids(Snap(p)) = {}
        BY <3>1 DEF TellReads, HeldReads, HelpRuns, DeclinedReads, ExpireTells, RejectsOverdue, KidsCancelled, At
      <4>2. ASSUME NEW c \in Children, child[c] \in Open
            PROVE  WaitedFor(c)'
        <5>1. CASE parent.status = "waiting_subtask" /\ c \in parent.help
          BY <5>1, <1>1 DEF WaitedFor
        <5>2. ASSUME NEW q \in Procs, \/ At(q, "park") /\ proc[q].child = c
                                      \/ proc[q].pc \in {"cancelKids", "retryKids"} /\ c \in Snap(q).help
              PROVE  WaitedFor(c)'
          <6>1. q # p
            BY <3>1, <4>1, <4>2, <5>2 DEF OpenKids, At
          <6> QED
            BY <5>2, <6>1, <2>1, TheOthersStay DEF WaitedFor, At
        <5> QED
          BY <4>2, <5>1, <5>2 DEF BInv, HelpIsWaitedFor, WaitedFor
      <4> QED
        BY <4>2
    <3> QED
      BY <3>1, <2>1, <1>5
  <2> QED
    BY <2>1, <2>3, <2>4, <2>5, <2>6, <1>3
<1>7. CASE TellReads(p) /\ ~End(p)
  <2>1. Moves(p) /\ proc'[p].pc = "resume" /\ Keeps(p) /\ At(p, "tell")
    BY <1>7, ReadTheRow DEF TellReads, Ending
  <2>2. ~Steps(p)' /\ Ends(p)' /\ ~proc'[p].owner /\ ~proc'[p].proposes
    BY <1>1, <2>1, EndFinds DEF Steps, Ends, Working, Ending, Keeps
  <2>3. PendingFits' /\ Stopped' /\ NoneOpen
    BY <1>1, <1>2, <2>1, <2>2 DEF BInv, Undisturbed, HelpIsWaitedFor, HelpFits, At, Keeps
  <2>4. Undisturbed(p)' /\ HelpFits(p)'
    BY <1>1, <2>1, <2>2, <2>3 DEF Undisturbed, HelpFits, NoneOpen, At
  <2> QED
    BY <2>1, <2>3, <2>4, <1>3, <1>5 DEF At
<1>8. CASE HeldReads(p) /\ ~End(p)
  <2>1. Moves(p) /\ proc'[p].pc = "note" /\ Keeps(p) /\ At(p, "tellHeld") /\ Snap(p)' = parent
    BY <1>8, ReadTheRow DEF HeldReads, Ending
  <2>2. ~Steps(p)' /\ Ends(p)' /\ ~proc'[p].owner /\ ~proc'[p].proposes
    BY <1>1, <2>1, EndFinds DEF Steps, Ends, Working, Ending, Keeps
  <2>3. PendingFits' /\ Stopped'
    BY <1>1, <1>2, <2>1, <2>2 DEF BInv, Undisturbed, At, Keeps
  <2>4. Undisturbed(p)' /\ HelpFits(p)'
    BY <1>1, <2>1, <2>2, <2>3 DEF Undisturbed, HelpFits, At
  <2> QED
    BY <2>1, <2>3, <2>4, <1>3, <1>5 DEF At
<1>9. CASE DeclinedReads(p) /\ ~End(p)
  <2>1. Moves(p) /\ proc'[p].pc = "giveUp" /\ Keeps(p) /\ At(p, "declined")
    BY <1>9, ReadTheRow DEF DeclinedReads, Ending
  <2>2. ~Steps(p)' /\ Ends(p)' /\ ~proc'[p].owner /\ ~proc'[p].proposes
    BY <1>1, <2>1, EndFinds DEF Steps, Ends, Working, Ending, Keeps
  <2>3. PendingFits' /\ Stopped' /\ proposal' # "pending"
    BY <1>1, <1>2, <2>1, <2>2 DEF BInv, Undisturbed, At, Keeps
  <2>4. Undisturbed(p)' /\ HelpFits(p)'
    BY <1>1, <2>1, <2>2, <2>3 DEF Undisturbed, HelpFits, At
  <2> QED
    BY <2>1, <2>3, <2>4, <1>3, <1>5 DEF At
<1>10. CASE ExpireTells(p)
  <2>1. Moves(p) /\ proc'[p].pc = "tell" /\ Keeps(p) /\ At(p, "expire") /\ OpenKids(Snap(p)) = {}
    BY <1>10, Went DEF ExpireTells, Ending
  <2>2. ~Steps(p)' /\ Ends(p)' /\ ~proc'[p].owner /\ ~proc'[p].proposes
    BY <1>1, <2>1, EndFinds DEF Steps, Ends, Working, Ending, Keeps
  <2>3. /\ PendingFits' /\ Stopped' /\ Snap(p).help = parent.help
        /\ parent.status = "waiting_subtask"
    BY <1>1, <1>2, <2>1, <2>2, EndsFit DEF BInv, Undisturbed, EndFits, At, Keeps
  <2>4. NoneOpen
    BY <1>1, <2>1, <2>3, EndFindsOpen DEF OpenKids, NoneOpen, At
  <2>5. Undisturbed(p)' /\ HelpFits(p)'
    BY <1>1, <2>1, <2>2, <2>3, <2>4 DEF Undisturbed, HelpFits, NoneOpen, At
  <2> QED
    BY <2>1, <2>3, <2>5, <1>3, <1>5 DEF At
<1>11. CASE RejectsOverdue(p)
  <2>1. Moves(p) /\ proc'[p].pc = "giveUp" /\ Keeps(p) /\ At(p, "reject") /\ proposal' = "decided"
    BY <1>11, Went DEF RejectsOverdue, Ending
  <2>2. ~Steps(p)' /\ Ends(p)' /\ ~proc'[p].owner /\ ~proc'[p].proposes
    BY <1>1, <2>1, EndFinds DEF Steps, Ends, Working, Ending, Keeps
  <2>3. PendingFits' /\ Stopped'
    BY <1>1, <1>2, <2>1, <2>2 DEF BInv, Undisturbed, At, Keeps
  <2>4. Undisturbed(p)' /\ HelpFits(p)'
    BY <1>1, <2>1, <2>2, <2>3 DEF Undisturbed, HelpFits, At
  <2> QED
    BY <2>1, <2>3, <2>4, <1>3, <1>5 DEF At
<1>12. CASE HelpRuns(p)
  <2>1. /\ At(p, "run") /\ Stopped /\ proposal' # "pending"
        /\ parent.status \in {"waiting_approval", "cancelled"}
    BY <1>1, <1>12 DEF HelpRuns, BInv, Undisturbed, At
  <2> DEFINE rec == [proc[p] EXCEPT !.pc = "create", !.snap = parent, !.owner = TRUE]
  <2>2. CASE Is(p, rec) /\ parent.status \in {"running", "waiting_approval"}
    <3>1. rec \in Invocation /\ rec.pc = "create" /\ rec.owner /\ rec.proposes = proc[p].proposes
      BY DEF Shapes, Invocation, Working
    <3>2. Moves(p) /\ proc'[p] = rec
      BY <2>2, <3>1, OneInvocation
    <3> HIDE DEF rec
    <3>3. ~Steps(p)' /\ ~Ends(p)' /\ ~proc'[p].proposes
      BY <1>1, <3>1, <3>2, EndFinds DEF Steps, Ends, Ending
    <3>4. PendingFits' /\ Stopped'
      BY <1>2, <2>1, <3>1, <3>2, <3>3
    <3>5. NoneOpen
      BY <1>1, <2>1, <2>2, EndFindsOpen DEF NoneOpen, At
    <3>6. Undisturbed(p)' /\ HelpFits(p)'
      BY <1>1, <2>1, <2>2, <3>1, <3>2, <3>3, <3>4, <3>5 DEF Undisturbed, HelpFits, NoneOpen, At
    <3> QED
      BY <2>1, <3>2, <3>4, <3>6, <1>3, <1>5 DEF At
  <2>3. CASE Goto(p, "declined")
    <3>1. Moves(p) /\ proc'[p].pc = "declined" /\ Keeps(p)
      BY <2>3, Went DEF Ending
    <3>2. ~Steps(p)' /\ Ends(p)' /\ ~proc'[p].owner /\ ~proc'[p].proposes
      BY <1>1, <3>1, EndFinds DEF Steps, Ends, Working, Ending, Keeps
    <3>3. PendingFits' /\ Stopped'
      BY <1>2, <2>1, <3>1, <3>2 DEF Keeps
    <3>4. Undisturbed(p)' /\ HelpFits(p)'
      BY <1>1, <2>1, <3>1, <3>2, <3>3 DEF Undisturbed, HelpFits, At
    <3> QED
      BY <2>1, <3>1, <3>3, <3>4, <1>3, <1>5 DEF At
  <2> QED
    BY <1>12, <2>2, <2>3 DEF HelpRuns, MayAsk
<1> QED
  BY <1>6, <1>7, <1>8, <1>9, <1>10, <1>11, <1>12 DEF KidsCancelled, TellReads, HeldReads, DeclinedReads

LEMMA CancelsKidHelps ==
  ASSUME Shapes, B, AInv, BInv, NEW p \in Procs, NEW c \in Children, CancelsKid(p, c)
  PROVE  BInv'
<1>1. /\ proc' = proc /\ parent' = parent /\ told' = told /\ env' = env /\ proposal' = proposal
      /\ \A d \in Children : /\ child'[d] \in Open => child[d] \in Open
                             /\ child'[d] = "delivered" => child[d] = "delivered"
  BY DEF CancelsKid, Shapes, Open
<1>3. /\ \A q \in Procs : Undisturbed(q)'
      /\ PendingFits' /\ Answered'
  BY <1>1 DEF BInv, Undisturbed, PendingFits, Answered, Stopped, Steps, Ends, Snap
<1>4. \A d \in Children : WaitedFor(d) => WaitedFor(d)'
  BY <1>1 DEF WaitedFor, At, Snap
<1>5. \A q \in Procs : HelpFits(q) => HelpFits(q)'
  BY <1>1 DEF HelpFits, NoneOpen, At, Snap
<1>6. HelpIsWaitedFor'
  BY <1>1, <1>4, <1>5 DEF BInv, HelpIsWaitedFor
<1> QED
  BY <1>3, <1>6 DEF BInv

(* The claim of the next step.                                               *)
LEMMA StepBeginsHelps ==
  ASSUME Shapes, B, AInv, BInv, NEW p \in Procs, Deliver(p)
  PROVE  BInv'
<1>1. PICK n \in events : StepClaims(p, n)
  BY DEF Deliver
<1>e. env' = env /\ child' = child /\ proposal' = proposal /\ told' = told /\ At(p, "idle")
  BY <1>1 DEF StepClaims
<1>2. CASE parent.status = "running" /\ n = parent.step + 1 /\ parent.claimed < n
  <2> DEFINE rec == [Idle EXCEPT !.pc = "loop", !.want = n]
  <2>1. parent \in Row /\ parent.step \in Nat /\ parent.claimed \in Nat
    BY DEF Shapes, Row
  <2>2. /\ n \in Nat /\ parent' = [parent EXCEPT !.claimed = n] /\ Is(p, rec)
        /\ ~(parent.claimed > parent.step)
    BY <1>1, <1>2, <2>1 DEF StepClaims
  <2>3. parent'.status = parent.status /\ parent'.help = parent.help
    BY <2>1, <2>2 DEF Row
  <2>4. rec \in Invocation /\ rec.pc = "loop" /\ ~rec.owner /\ ~rec.proposes
    BY <2>2, RecordsAreTyped DEF Invocation, Working
  <2>5. Moves(p) /\ proc'[p] = rec
    BY <2>2, <2>4, OneInvocation
  <2> HIDE DEF rec
  <2>6. Stopped
    BY <1>2, <2>2 DEF AInv, StepsAlone
  <2>7. ~Ends(p)' /\ proc'[p].pc = "loop" /\ ~proc'[p].owner /\ ~proc'[p].proposes
    BY <2>4, <2>5 DEF Ends, Ending
  <2>8. ASSUME NEW q \in Procs
        PROVE  Bystander(q)
    BY <1>2, <2>8 DEF BInv, Undisturbed, AInv, EndsAlone, Bystander, Ending
  <2>9. \A q \in Procs : Undisturbed(q)'
    <3>1. Undisturbed(p)'
      BY <2>7 DEF Undisturbed
    <3> QED
      BY <1>e, <2>5, <2>8, <3>1, UndisturbedKept DEF BInv
  <2>10. PendingFits'
    <3>1. proposal # "pending"
      BY <1>2, <2>6 DEF BInv, PendingFits, Stopped
    <3> QED
      BY <1>e, <3>1 DEF PendingFits
  <2>11. HelpIsWaitedFor'
    <3>1. HelpFits(p)'
      BY <2>7 DEF HelpFits, At
    <3>2. \A c \in Children : child[c] \in Open => WaitedFor(c)'
      BY <1>e, <2>3, <2>5, WaitedForKept DEF BInv, HelpIsWaitedFor, At
    <3> QED
      BY <1>e, <2>3, <2>5, <3>1, <3>2, HelpKept DEF BInv
  <2>12. Answered'
    BY <1>e, <2>5, AnsweredKept DEF BInv, At
  <2> QED
    BY <2>9, <2>10, <2>11, <2>12 DEF BInv
<1>3. CASE ~(parent.status = "running" /\ n = parent.step + 1 /\ parent.claimed < n)
  <2>1. parent' = parent /\ proc' = proc
    BY <1>1, <1>3 DEF StepClaims
  <2> QED
    BY <1>e, <2>1 DEF BInv, Undisturbed, PendingFits, HelpIsWaitedFor, HelpFits, WaitedFor, Answered,
                      NoneOpen, Stopped, Steps, Ends, Snap, At
<1> QED
  BY <1>2, <1>3

(* An end of the wait begins.                                                *)
LEMMA BeginFinds ==
  ASSUME Shapes, B, AInv, BInv, NEW p \in Procs, Alone, At(p, "idle"), Moves(p), env' = env,
         Ends(p)', ~proc'[p].owner, ~proc'[p].proposes, Undisturbed(p)'
  PROVE  /\ \A q \in Procs : /\ ~Others(q) /\ Undisturbed(q)'
                             /\ (Steps(q)' <=> Steps(q)) /\ (Steps(q) => proc'[q].proposes = proc[q].proposes)
         /\ Stopped' <=> Stopped
         /\ proposal' = proposal /\ parent'.status = parent.status => PendingFits'
<1>1. \A q \in Procs : ~Others(q)
  BY Kinds, Guards
<1>2. \A q \in Procs : Undisturbed(q)'
  BY <1>1, BesideAnEnd, UndisturbedKept DEF BInv
<1>3. ~Steps(p) /\ ~Steps(p)'
  BY DEF At, Steps, Working, Ends, Ending
<1>4. \A q \in Procs : (Steps(q)' <=> Steps(q)) /\ (Steps(q) => proc'[q].proposes = proc[q].proposes)
  BY <1>3, TheOthersStay
<1>5. Stopped' <=> Stopped
  BY <1>4 DEF Stopped
<1>6. proposal' = proposal /\ parent'.status = parent.status => PendingFits'
  BY <1>4, <1>5 DEF BInv, PendingFits
<1> QED
  BY <1>1, <1>2, <1>4, <1>5, <1>6

(* Somebody says a last word on a child, or holds it for the founder.        *)
LEMMA ChildIsWaitedFor ==
  ASSUME Shapes, B, AInv, BInv, Settled, Alone, NEW c \in Children, child[c] \in Open
  PROVE  Stopped /\ parent.status = "waiting_subtask" /\ \A d \in Children : child[d] \in Open => d = c
<1>1. Stopped /\ \A q \in Procs : ~Others(q) /\ ~At(q, "park")
  BY Kinds, Guards DEF Settled, A, Orderly, Working, At
<1>2. WaitedFor(c) /\ \A d \in Children : child[d] \in Open => d = c
  BY DEF BInv, HelpIsWaitedFor
<1>3. \A q \in Procs : proc[q].pc \notin {"cancelKids", "retryKids"}
  BY <1>1 DEF Others, Ends, Ending
<1> QED
  BY <1>1, <1>2, <1>3 DEF WaitedFor

LEMMA ChildEndsHelps ==
  ASSUME Shapes, B, AInv, BInv, NEW p \in Procs, NEW c \in Children,
         NEW status \in {"delivered", "cancelled", "failed"}, ChildEnds(p, c, status)
  PROVE  BInv'
<1> DEFINE rec == [Idle EXCEPT !.pc = "tell", !.child = c, !.good = (status = "delivered")]
<1>1. /\ At(p, "idle") /\ Settled /\ Alone /\ Is(p, rec)
      /\ parent' = parent /\ proposal' = proposal /\ told' = told /\ env' = env
      /\ child[c] \in Open /\ child' = [child EXCEPT ![c] = status]
  BY Kinds DEF ChildEnds, ChildMayEnd, Open, Held
<1>2. /\ rec \in Invocation /\ rec.pc = "tell" /\ ~rec.owner /\ ~rec.proposes /\ rec.child = c
      /\ status = "delivered" => rec.good
  BY RecordsAreTyped DEF Invocation, Ending
<1>3. Moves(p) /\ proc'[p] = rec
  BY <1>1, <1>2, OneInvocation
<1> HIDE DEF rec
<1>4. Stopped /\ parent.status = "waiting_subtask" /\ \A d \in Children : child[d] \in Open => d = c
  BY <1>1, ChildIsWaitedFor
<1>5. NoneOpen' /\ \A d \in Children : child'[d] = "delivered" => child[d] = "delivered" \/ (d = c /\ status = "delivered")
  BY <1>1, <1>4 DEF NoneOpen, Shapes, Open
<1>6. Ends(p)' /\ ~Steps(p)' /\ ~Steps(p)
  BY <1>1, <1>2, <1>3 DEF Ends, Steps, Working, Ending, At
<1>7. Stopped'
  BY <1>3, <1>4, <1>6, TheOthersStay DEF Stopped
<1>8. Undisturbed(p)'
  BY <1>1, <1>2, <1>3, <1>4, <1>6, <1>7 DEF Undisturbed
<1>9. (\A q \in Procs : Undisturbed(q)') /\ PendingFits'
  BY <1>1, <1>2, <1>3, <1>6, <1>8, BeginFinds
<1>10. HelpIsWaitedFor'
  BY <1>5, NobodyOpen
<1>11. Answered'
  <2>1. ASSUME NEW d \in Children, child'[d] = "delivered"
        PROVE  \/ d \in told'
               \/ \E q \in Procs : proc'[q].pc \in {"tell", "resume"} /\ proc'[q].good /\ proc'[q].child = d
    <3>1. CASE d = c /\ status = "delivered"
      BY <3>1, <1>2, <1>3
    <3>2. CASE child[d] = "delivered"
      <4>1. \/ d \in told
            \/ \E q \in Procs : proc[q].pc \in {"tell", "resume"} /\ proc[q].good /\ proc[q].child = d
        BY <3>2 DEF BInv, Answered
      <4> QED
        BY <4>1, <1>1, <1>3, TheOthersStay DEF At
    <3> QED
      BY <2>1, <3>1, <3>2, <1>5
  <2> QED
    BY <2>1 DEF Answered
<1> QED
  BY <1>9, <1>10, <1>11 DEF BInv

LEMMA ChildIsHeldHelps ==
  ASSUME Shapes, B, AInv, BInv, NEW p \in Procs, NEW c \in Children, ChildIsHeld(p, c)
  PROVE  BInv'
<1> DEFINE rec == [Idle EXCEPT !.pc = "tellHeld", !.child = c]
<1>1. /\ At(p, "idle") /\ Settled /\ Alone /\ Is(p, rec)
      /\ parent' = parent /\ proposal' = proposal /\ told' = told /\ env' = env
      /\ child[c] \in Open /\ child' = [child EXCEPT ![c] = "needs_owner"]
  BY DEF ChildIsHeld, Open
<1>2. rec \in Invocation /\ rec.pc = "tellHeld" /\ ~rec.owner /\ ~rec.proposes
  BY RecordsAreTyped DEF Invocation, Ending
<1>3. Moves(p) /\ proc'[p] = rec
  BY <1>1, <1>2, OneInvocation
<1> HIDE DEF rec
<1>4. Stopped /\ parent.status = "waiting_subtask"
  BY <1>1, ChildIsWaitedFor
<1>5. \A d \in Children : /\ child'[d] \in Open => child[d] \in Open
                          /\ child'[d] = "delivered" => child[d] = "delivered"
  BY <1>1 DEF Shapes, Open
<1>6. Ends(p)' /\ ~Steps(p)' /\ ~Steps(p)
  BY <1>1, <1>2, <1>3 DEF Ends, Steps, Working, Ending, At
<1>7. Stopped'
  BY <1>3, <1>4, <1>6, TheOthersStay DEF Stopped
<1>8. Undisturbed(p)'
  BY <1>1, <1>2, <1>3, <1>4, <1>6, <1>7 DEF Undisturbed
<1>9. (\A q \in Procs : Undisturbed(q)') /\ PendingFits'
  BY <1>1, <1>2, <1>3, <1>6, <1>8, BeginFinds
<1>10. HelpIsWaitedFor'
  <2>1. HelpFits(p)'
    BY <1>2, <1>3 DEF HelpFits, At
  <2>2. \A d \in Children : child[d] \in Open => WaitedFor(d)'
    BY <1>1, <1>3, WaitedForKept DEF BInv, HelpIsWaitedFor, At
  <2> QED
    BY <1>1, <1>3, <1>5, <2>1, <2>2, HelpKept DEF BInv
<1>11. Answered'
  BY <1>1, <1>3, <1>5, AnsweredKept DEF BInv, At
<1> QED
  BY <1>9, <1>10, <1>11 DEF BInv

(* The tick, or the founder, begins.                                         *)
LEMMA BeginsHelps ==
  ASSUME Shapes, B, AInv, BInv, NEW p \in Procs,
         \/ Tick(p) \/ CancelParent(p) \/ RetryReads(p)
         \/ \E pc \in {"run", "declined"} : Decide(p, pc)
  PROVE  BInv'
<1>k. parent.waited => Stopped
  BY DEF AInv, StepsAlone
<1>1. PICK pc \in {"expire", "reject", "run", "declined", "cancelKids", "retryKids"} :
        /\ Begins(p, pc) /\ Alone /\ env' = env /\ child' = child /\ told' = told
        /\ parent'.status = parent.status \/ (parent'.status = "cancelled" /\ pc = "cancelKids")
        /\ parent'.help = parent.help
        /\ proposal' = proposal \/ (proposal' = "decided" /\ pc \in {"run", "declined"})
        /\ pc # "cancelKids" => Stopped /\ parent' = parent
        /\ pc = "cancelKids" => /\ parent'.status = "cancelled" /\ proposal' = proposal
                                /\ \A q \in Procs : proc[q].pc \notin {"create", "park"}
        /\ pc \in {"run", "declined"} => proposal = "pending" /\ proposal' = "decided"
        /\ pc = "reject" => parent.status = "waiting_approval"
        /\ pc = "expire" => parent.status = "waiting_subtask"
        /\ pc = "retryKids" => parent.status = "failed"
  <2>1. CASE Tick(p) \/ RetryReads(p) \/ \E pc \in {"run", "declined"} : Decide(p, pc)
    BY <2>1, <1>k, Kinds, Guards DEF Tick, ExpireLists, ExpireProposal, RetryReads, Decide
  <2>2. CASE CancelParent(p)
    <3>1. parent'.status = "cancelled" /\ parent'.help = parent.help
      BY <2>2 DEF CancelParent, Shapes, Row
    <3> QED
      BY <2>2, <3>1, Kinds DEF CancelParent, A, Orderly
  <2> QED
    BY <2>1, <2>2
<1>2. /\ Moves(p) /\ At(p, "idle") /\ proc'[p].pc = pc /\ Snap(p)' = parent
      /\ ~proc'[p].proposes /\ ~proc'[p].owner
  BY <1>1, Began DEF Ending
<1>3. Ends(p)' /\ ~Steps(p) /\ ~Steps(p)'
  BY <1>2 DEF Ends, Steps, Working, Ending, At
<1>4. Stopped => Stopped'
  BY <1>2, <1>3, TheOthersStay DEF Stopped
<1>5. pc \in {"run", "declined"} => parent.status \in {"waiting_approval", "cancelled"}
  BY <1>1 DEF BInv, PendingFits, Stopped
<1>6. Undisturbed(p)'
  BY <1>1, <1>2, <1>3, <1>4, <1>5 DEF Undisturbed
<1>7. /\ \A q \in Procs : /\ ~Others(q) /\ Undisturbed(q)'
                          /\ (Steps(q)' <=> Steps(q)) /\ (Steps(q) => proc'[q].proposes = proc[q].proposes)
      /\ Stopped' <=> Stopped
      /\ proposal' = proposal /\ parent'.status = parent.status => PendingFits'
  BY <1>1, <1>2, <1>3, <1>6, BeginFinds
<1>8. PendingFits'
  <2>1. CASE proposal' = "decided"
    BY <2>1 DEF PendingFits
  <2>2. CASE proposal' = proposal /\ parent'.status = "cancelled"
    BY <2>2, <1>7 DEF BInv, PendingFits, Stopped
  <2> QED
    BY <2>1, <2>2, <1>1, <1>7
<1>9. \A c \in Children : child[c] \in Open => WaitedFor(c)'
  <2>1. ASSUME NEW c \in Children, child[c] \in Open
        PROVE  WaitedFor(c)'
    <3>1. CASE pc # "cancelKids"
      BY <3>1, <2>1, <1>1, <1>2, WaitedForKept DEF BInv, HelpIsWaitedFor, At
    <3>2. CASE pc = "cancelKids"
      <4>1. \A q \in Procs : ~At(q, "park") /\ proc[q].pc \notin {"cancelKids", "retryKids"}
        BY <3>2, <1>1, <1>7 DEF Others, Ends, Ending, At
      <4>2. c \in Snap(p)'.help
        BY <2>1, <4>1, <1>2 DEF BInv, HelpIsWaitedFor, WaitedFor
      <4> QED
        BY <3>2, <4>2, <1>2 DEF WaitedFor
    <3> QED
      BY <3>1, <3>2
  <2> QED
    BY <2>1
<1>10. HelpIsWaitedFor'
  <2>1. HelpFits(p)'
    BY <1>1, <1>2 DEF HelpFits, At
  <2>2. parent.status = "cancelled" => parent'.status = "cancelled"
    BY <1>1
  <2> QED
    BY <1>1, <1>2, <1>9, <2>1, <2>2, HelpKept DEF BInv
<1>11. Answered'
  BY <1>1, <1>2, AnsweredKept DEF BInv, At
<1> QED
  BY <1>7, <1>8, <1>10, <1>11 DEF BInv

LEMMA PlatformHelps ==
  ASSUME Shapes, B, AInv, BInv, Platform
  PROVE  BInv'
<1>1. CASE \E c \in Children : ChildSubmits(c) \/ ChildReturned(c) \/ ChildRetried(c)
  <2>1. /\ proc' = proc /\ parent' = parent /\ told' = told /\ env' = env /\ proposal' = proposal
        /\ \A d \in Children : /\ child'[d] \in Open => child[d] \in Open
                               /\ child'[d] = "delivered" => child[d] = "delivered"
    BY <1>1, Kinds DEF ChildSubmits, ChildReturned, ChildRetried, Shapes, Open, Held
  <2>2. /\ \A q \in Procs : Undisturbed(q)'
        /\ PendingFits' /\ Answered'
    BY <2>1 DEF BInv, Undisturbed, PendingFits, Answered, Stopped, Steps, Ends, Snap
  <2>3. \A d \in Children : WaitedFor(d) => WaitedFor(d)'
    BY <2>1 DEF WaitedFor, At, Snap
  <2>4. \A q \in Procs : HelpFits(q) => HelpFits(q)'
    BY <2>1 DEF HelpFits, NoneOpen, At, Snap
  <2>5. HelpIsWaitedFor'
    BY <2>1, <2>3, <2>4 DEF BInv, HelpIsWaitedFor
  <2> QED
    BY <2>2, <2>5 DEF BInv
<1>2. CASE WaitAges
  <2>1. /\ child' = child /\ told' = told /\ env' = env /\ proposal' = proposal
        /\ parent'.status = parent.status /\ parent'.help = parent.help
        /\ \A q \in Procs : /\ proc'[q].pc = proc[q].pc /\ Keeps(q)
                            /\ proc[q].pc \in {"idle", "dead", "resume", "note", "giveUp"}
                            /\ proc[q].pc = "note" => Snap(q)'.help = parent'.help
    BY <1>2, Aged DEF WaitAges, Keeps
  <2>2. Stopped' /\ Stopped /\ \A q \in Procs : ~Steps(q)' /\ Ends(q)' = Ends(q)
    BY <2>1 DEF Stopped, Steps, Ends, Working
  <2>3. \A q \in Procs : Undisturbed(q)'
    <3>1. ASSUME NEW q \in Procs
          PROVE  Undisturbed(q)'
      BY <2>1, <2>2, <3>1 DEF BInv, Undisturbed, Keeps, Steps, Stopped
    <3> QED
      BY <3>1
  <2>4. PendingFits'
    BY <2>1, <2>2 DEF BInv, PendingFits, Stopped
  <2>5. HelpIsWaitedFor'
    <3>1. \A c \in Children : WaitedFor(c) => WaitedFor(c)'
      BY <2>1 DEF WaitedFor, At
    <3>2. \A q \in Procs : HelpFits(q) => HelpFits(q)'
      BY <2>1 DEF HelpFits, NoneOpen, At
    <3> QED
      BY <2>1, <3>1, <3>2 DEF BInv, HelpIsWaitedFor
  <2>6. Answered'
    BY <2>1 DEF BInv, Answered, Keeps
  <2> QED
    BY <2>3, <2>4, <2>5, <2>6 DEF BInv
<1>3. CASE SweepRetries \/ SweepFails
  <2>1. /\ parent.status = "running" /\ Stopped
        /\ proc' = proc /\ child' = child /\ told' = told /\ env' = env /\ proposal' = proposal
        /\ parent'.help = parent.help /\ parent'.status \in {"running", "failed"}
    BY <1>3 DEF SweepRetries, SweepFails, Stuck, Stopped, Steps, Working, Ending, Shapes, Row
  <2>2. proposal # "pending"
    BY <2>1 DEF BInv, PendingFits, Stopped
  <2>3. \A q \in Procs : Undisturbed(q)'
    BY <2>1 DEF BInv, Undisturbed, Stopped, Steps, Ends, Snap
  <2>4. PendingFits' /\ Answered'
    BY <2>1, <2>2 DEF BInv, PendingFits, Answered
  <2>5. HelpIsWaitedFor'
    <3>1. \A c \in Children : WaitedFor(c) => WaitedFor(c)'
      BY <2>1 DEF WaitedFor, At, Snap
    <3>2. \A q \in Procs : HelpFits(q) => HelpFits(q)'
      BY <2>1 DEF HelpFits, NoneOpen, At, Snap
    <3> QED
      BY <2>1, <3>1, <3>2 DEF BInv, HelpIsWaitedFor
  <2> QED
    BY <2>3, <2>4, <2>5 DEF BInv
<1> QED
  BY <1>1, <1>2, <1>3 DEF Platform

(* A dead invocation's capacity comes back; none dies here.                  *)
LEMMA DeathHelps ==
  ASSUME Shapes, B, AInv, BInv, NEW p \in Procs, Crash(p) \/ DeadIsGone(p)
  PROVE  BInv'
<1>1. /\ DeadIsGone(p) /\ At(p, "dead") /\ parent' = parent /\ child' = child
      /\ proposal' = proposal /\ told' = told /\ env' = env
  BY Kinds DEF Crash, DeadIsGone
<1>2. Moves(p) /\ proc'[p].pc = "idle" /\ ~proc'[p].owner /\ ~proc'[p].proposes
  BY <1>1, Ended DEF DeadIsGone
<1>3. ~Ends(p)' /\ ~Steps(p)' /\ ~Steps(p) /\ ~Ends(p) /\ ~proc[p].owner
  BY <1>1, <1>2 DEF Steps, Ends, Working, Ending, At, Shapes
<1>4. \A q \in Procs : (Steps(q)' <=> Steps(q)) /\ (Steps(q) => proc'[q].proposes = proc[q].proposes)
  BY <1>2, <1>3, TheOthersStay
<1>5. ASSUME NEW q \in Procs
      PROVE  Undisturbed(q)'
  <2>1. CASE q = p
    BY <2>1, <1>2, <1>3 DEF Undisturbed
  <2>2. CASE q # p
    <3>1. proc'[q] = proc[q] /\ Snap(q)' = Snap(q) /\ Ends(q)' = Ends(q) /\ Undisturbed(q)
      BY <2>2, <1>2, <1>5, TheOthersStay DEF BInv
    <3> QED
      BY <3>1, <1>1, <1>4 DEF Undisturbed, Stopped
  <2> QED
    BY <2>1, <2>2
<1>6. PendingFits'
  BY <1>1, <1>4 DEF BInv, PendingFits, Stopped
<1>7. HelpIsWaitedFor'
  <2>1. HelpFits(p)'
    BY <1>2 DEF HelpFits, At
  <2>2. \A c \in Children : child[c] \in Open => WaitedFor(c)'
    BY <1>1, <1>2, WaitedForKept DEF BInv, HelpIsWaitedFor, At
  <2> QED
    BY <1>1, <1>2, <2>1, <2>2, HelpKept DEF BInv
<1>8. Answered'
  BY <1>1, <1>2, AnsweredKept DEF BInv, At
<1> QED
  BY <1>5, <1>6, <1>7, <1>8 DEF BInv

-----------------------------------------------------------------------------
(* The theorems.                                                           *)

LEMMA StartHolds ==
  ASSUME Init
  PROVE  IInv
<1>1. Shapes
  BY RecordsAreTyped, HelpAssumption DEF Init, Shapes, ChildStatuses, At
<1>2. \A p \in Procs : proc[p] = Idle
  BY DEF Init
<1>3. \A p \in Procs : /\ ~Steps(p) /\ ~Ends(p) /\ ~Others(p) /\ ~proc[p].proposes /\ ~proc[p].owner
                       /\ proc[p].pc = "idle"
  BY <1>2, RecordsAreTyped DEF Steps, Ends, Others, Working, Ending
<1>4. AInv
  BY <1>3, RecordsAreTyped DEF Init, AInv, OneAtATime, StepsAlone, EndsAlone, Stopped
<1>5. BInv
  BY <1>3 DEF Init, BInv, Undisturbed, PendingFits, HelpIsWaitedFor, HelpFits, Answered, Open, At, NoneOpen
<1> QED
  BY <1>1, <1>4, <1>5 DEF IInv

LEMMA StepHolds ==
  ASSUME IInv, [Next]_vars
  PROVE  IInv'
<1>1. CASE UNCHANGED vars
  BY <1>1 DEF vars, IInv, Shapes, A, B, Orderly, AInv, BInv, OneAtATime, StepsAlone, EndsAlone, Undisturbed,
              PendingFits, HelpIsWaitedFor, WaitedFor, HelpFits, Answered, NoneOpen, Stopped, Steps, Ends,
              Others, Snap, At
<1>2. ASSUME Shapes', env' = env, A /\ AInv => AInv', B /\ AInv /\ BInv => BInv'
      PROVE  IInv'
  <2>1. (A' <=> A) /\ (B' <=> B) /\ (B => A)
    BY <1>2, Kinds DEF A, B, Orderly
  <2> QED
    BY <1>2, <2>1 DEF IInv
<1>s. Shapes
  BY DEF IInv
<1>3. ASSUME NEW p \in Procs, RunStep(p)
      PROVE  IInv'
  <2>1. env' = env
    BY <1>3 DEF RunStep, HelpReads, HelpProposed, HelpCreates, HelpParks, LoopEnds,
                CompleteParks, CompletePatches, CompleteRuns
  <2>2. A /\ AInv => AInv'
    BY <1>s, <1>3, StepGoesOn, StepPuts DEF RunStep
  <2>3. B /\ AInv /\ BInv => BInv'
    BY <1>s, <1>3, HelpReadsHelps, HelpProposedHelps, HelpCreatesHelps, HelpParksHelps, LoopEndsHelps,
       CompletesHelps DEF RunStep
  <2> QED
    BY <1>s, <1>2, <1>3, <2>1, <2>2, <2>3, StepIsTyped
<1>4. ASSUME NEW p \in Procs, EndsWait(p)
      PROVE  IInv'
  <2>1. env' = env
    BY <1>4 DEF EndsWait, TellReads, ResumePuts, HeldReads, NotePuts, HelpRuns, DeclinedReads,
                GivesUp, ExpireTells, RejectsOverdue, KidsCancelled, RetryPuts, CancelsKid
  <2>2. CASE \E c \in Children : CancelsKid(p, c)
    <3>1. PICK c \in Children : CancelsKid(p, c)
      BY <2>2
    <3>2. A /\ AInv => AInv'
      <4>1. proc' = proc /\ parent' = parent
        BY <3>1 DEF CancelsKid
      <4> QED
        BY <4>1 DEF AInv, OneAtATime, StepsAlone, EndsAlone, Stopped, Steps, Others, Ends, Snap
    <3>3. B /\ AInv /\ BInv => BInv'
      BY <1>s, <3>1, CancelsKidHelps
    <3> QED
      BY <1>s, <1>2, <1>4, <2>1, <3>2, <3>3, EndIsTyped
  <2>3. CASE ResumePuts(p) \/ NotePuts(p) \/ GivesUp(p) \/ RetryPuts(p)
    BY <1>s, <1>2, <1>4, <2>1, <2>3, EndIsTyped, EndPuts, EndPutsHelps
  <2>4. CASE \/ TellReads(p) \/ HeldReads(p) \/ HelpRuns(p) \/ DeclinedReads(p)
             \/ ExpireTells(p) \/ RejectsOverdue(p) \/ KidsCancelled(p)
    BY <1>s, <1>2, <1>4, <2>1, <2>4, EndIsTyped, EndGoesOn, EndGoesOnHelps
  <2> QED
    BY <1>4, <2>2, <2>3, <2>4 DEF EndsWait
<1>5. ASSUME NEW p \in Procs, Starts(p)
      PROVE  IInv'
  <2>1. env' = env
    BY <1>5 DEF Starts, Deliver, Judge, Tick, Founder, StepClaims, ChildEnds, ChildIsHeld,
                ExpireLists, ExpireProposal, Decide, CancelParent, RetryReads
  <2>2. A /\ AInv => AInv'
    BY <1>s, <1>5, StepBegins, EndBegins DEF Starts
  <2>3. B /\ AInv /\ BInv => BInv'
    <3>1. \/ Deliver(p)
          \/ \E c \in Children : ChildIsHeld(p, c)
          \/ \E c \in Children, status \in {"delivered", "cancelled", "failed"} : ChildEnds(p, c, status)
          \/ Tick(p) \/ CancelParent(p) \/ RetryReads(p) \/ \E pc \in {"run", "declined"} : Decide(p, pc)
      BY <1>5 DEF Starts, Judge, Founder
    <3> QED
      BY <1>s, <3>1, StepBeginsHelps, ChildIsHeldHelps, ChildEndsHelps, BeginsHelps
  <2> QED
    BY <1>s, <1>2, <1>5, <2>1, <2>2, <2>3, StartIsTyped
<1>6. ASSUME Platform
      PROVE  IInv'
  <2>1. env' = env
    BY <1>6 DEF Platform, ChildSubmits, ChildReturned, ChildRetried, WaitAges, SweepRetries, SweepFails
  <2> QED
    BY <1>s, <1>2, <1>6, <2>1, PlatformIsTyped, PlatformKeeps, PlatformHelps
<1>7. ASSUME NEW p \in Procs, Crash(p) \/ DeadIsGone(p)
      PROVE  IInv'
  <2>1. env' = env
    BY <1>7 DEF Crash, DeadIsGone
  <2> QED
    BY <1>s, <1>2, <1>7, <2>1, DeathIsTyped, DeathKeeps, DeathHelps
<1> QED
  BY <1>1, <1>3, <1>4, <1>5, <1>6, <1>7 DEF Next, Starts, Platform

LEMMA Invariance == Spec => []IInv
<1>1. Init => IInv
  BY StartHolds
<1>2. IInv /\ [Next]_vars => IInv'
  BY StepHolds
<1> QED
  BY <1>1, <1>2, PTL DEF Spec

(* At most one invocation works on the parent, however often it is claimed,  *)
(* parked and resumed (claim_task_step, _park_waiting_subtask,               *)
(* _resume_parent_after_help), where no end of a wait overlaps another.      *)
THEOREM ParentStepExclusiveAlways == Spec => []ParentStepExclusive
<1>1. IInv => ParentStepExclusive
  BY DEF IInv, A, Orderly, AInv, OneAtATime, Steps, ParentStepExclusive
<1> QED
  BY <1>1, Invariance, PTL

(* A parent that goes on after its child was delivered has the child's memo  *)
(* (_resume_parent_after_help writes it before the parent runs).             *)
THEOREM AnswerIsHeardAlways == Spec => []AnswerIsHeard
<1>1. ASSUME IInv
      PROVE  AnswerIsHeard
  <2>1. SUFFICES ASSUME B, NEW c \in parent.help, child[c] = "delivered", parent.status \in {"running", "done"}
                 PROVE  c \in told
    BY DEF AnswerIsHeard, B, Orderly
  <2>2. c \in Children /\ AInv /\ BInv
    BY <1>1, <2>1, Kinds DEF IInv, Shapes, Row
  <2>3. \A p \in Procs : proc[p].pc \notin {"tell", "resume"}
    BY <2>1, <2>2 DEF AInv, EndsAlone, BInv, Undisturbed
  <2> QED
    BY <2>1, <2>2, <2>3 DEF BInv, Answered
<1> QED
  BY <1>1, Invariance, PTL

(* An open child is the one its parent waits for, or about to be, or being   *)
(* cancelled (op_task_request_help, cancel_task, expire_waiting_help).       *)
THEOREM NobodyHelpsInVainAlways == Spec => []NobodyHelpsInVain
<1>1. IInv => NobodyHelpsInVain
  BY DEF IInv, B, Orderly, BInv, HelpIsWaitedFor, WaitedFor, NobodyHelpsInVain
<1> QED
  BY <1>1, Invariance, PTL
=============================================================================

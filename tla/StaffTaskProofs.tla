--------------------------- MODULE StaffTaskProofs ---------------------------
(***************************************************************************)
(* Theorems about the staff engine for every set of tasks and invocations, *)
(* every limit and every choice of Envs.                                   *)
(***************************************************************************)
EXTENDS StaffTask, FiniteSetTheorems, TLAPS

USE ConstantsAssumption

(***************************************************************************)
(* The inductive invariant of this module: the types, with two facts added *)
(* where they live.  Every row, stored or held as a snapshot by some       *)
(* invocation, has idle steps left while its task can run: a late put of a *)
(* snapshot is then as harmless as the row it overwrites.  A drain that    *)
(* goes on has slots left, so that counting one off stays in Nat, and only *)
(* a task that waits for an approval is resumed.                           *)
(***************************************************************************)
GoodRow == {r \in Row : IdleLeft(r)}

GoodInvocation ==
  {i \in Invocation : /\ IdleLeft(i.snap)
                      /\ i.pc \in {"drain", "drainUndo"} => i.slots > 0
                      /\ i.pc = "resume" => i.snap.status = "waiting_approval"}

Good ==
  /\ row \in [Tasks -> GoodRow]
  /\ events \subseteq Events
  /\ pending \in [Tasks -> Nat]
  /\ asks \in [Tasks -> Nat]
  /\ spent \in BOOLEAN
  /\ inv \in [Procs -> GoodInvocation]

-----------------------------------------------------------------------------
(* A row with one attribute replaced is a row. *)

LEMMA SetStatus ==
  ASSUME NEW r \in Row, NEW x \in Statuses
  PROVE  [r EXCEPT !.status = x] \in Row
BY DEF Row

LEMMA SetStep ==
  ASSUME NEW r \in Row, NEW n \in Nat
  PROVE  [r EXCEPT !.step = n] \in Row
BY DEF Row

LEMMA SetClaimed ==
  ASSUME NEW r \in Row, NEW n \in Nat
  PROVE  [r EXCEPT !.claimed = n] \in Row
BY DEF Row

LEMMA SetClaimedAt ==
  ASSUME NEW r \in Row, NEW x \in {"none", "fresh", "stale"}
  PROVE  [r EXCEPT !.claimedAt = x] \in Row
BY DEF Row

LEMMA SetUpdated ==
  ASSUME NEW r \in Row, NEW n \in 0..2
  PROVE  [r EXCEPT !.updated = n] \in Row
BY DEF Row

LEMMA SetIdle ==
  ASSUME NEW r \in Row, NEW n \in Nat
  PROVE  [r EXCEPT !.idle = n] \in Row
BY DEF Row

LEMMA SetRevisions ==
  ASSUME NEW r \in Row, NEW n \in 0..MaxRevisions
  PROVE  [r EXCEPT !.revisions = n] \in Row
BY DEF Row

LEMMA SetAttempt ==
  ASSUME NEW r \in Row, NEW n \in Nat
  PROVE  [r EXCEPT !.attempt = n] \in Row
BY DEF Row

LEMMA SetStuckRetried ==
  ASSUME NEW r \in Row, NEW b \in BOOLEAN
  PROVE  [r EXCEPT !.stuckRetried = b] \in Row
BY DEF Row

LEMMA SetReviewRetried ==
  ASSUME NEW r \in Row, NEW b \in BOOLEAN
  PROVE  [r EXCEPT !.reviewRetried = b] \in Row
BY DEF Row

LEMMA RowFields ==
  ASSUME NEW r \in Row
  PROVE  /\ r.status \in Statuses
         /\ r.step \in Nat
         /\ r.claimed \in Nat
         /\ r.idle \in Nat
         /\ r.revisions \in 0..MaxRevisions
         /\ r.attempt \in Nat
BY DEF Row

-----------------------------------------------------------------------------
(* The rows the handlers build. *)

LEMMA NewRowType ==
  ASSUME NEW status \in Statuses
  PROVE  NewRow(status) \in GoodRow
<1>1. NewRow(status) \in Row
  BY DEF NewRow, Row
<1>2. IdleLeft(NewRow(status))
  BY DEF NewRow, IdleLeft
<1> QED BY <1>1, <1>2 DEF GoodRow

LEMMA TouchType ==
  ASSUME NEW r \in Row
  PROVE  /\ Touch(r) \in Row
         /\ Touch(r).status = r.status
         /\ Touch(r).idle = r.idle
         /\ Touch(r).step = r.step
<1>1. Touch(r) \in Row
  BY SetUpdated, 0 \in 0..2 DEF Touch
<1>2. Touch(r).status = r.status /\ Touch(r).idle = r.idle /\ Touch(r).step = r.step
  BY DEF Touch, Row
<1> QED BY <1>1, <1>2

LEMMA UnclaimedType ==
  ASSUME NEW r \in Row
  PROVE  /\ Unclaimed(r) \in Row
         /\ Unclaimed(r).status = r.status
         /\ Unclaimed(r).idle = r.idle
         /\ Unclaimed(r).step = r.step
         /\ Unclaimed(r).revisions = r.revisions
<1> DEFINE s == [r EXCEPT !.claimedAt = "none"]
<1>1. s \in Row
  BY SetClaimedAt, "none" \in {"none", "fresh", "stale"}
<1>2. Unclaimed(r) = [s EXCEPT !.updated = 0]
  BY DEF Unclaimed, Row
<1>3. [s EXCEPT !.updated = 0] \in Row
  <2> HIDE DEF s
  <2> QED BY <1>1, SetUpdated, 0 \in 0..2
<1>4. /\ Unclaimed(r).status = r.status /\ Unclaimed(r).idle = r.idle
      /\ Unclaimed(r).step = r.step /\ Unclaimed(r).revisions = r.revisions
  BY DEF Unclaimed, Row
<1> QED BY <1>2, <1>3, <1>4

LEMMA AlignType ==
  ASSUME NEW r \in Row
  PROVE  /\ Align(r) \in Row
         /\ Align(r).status = r.status
         /\ Align(r).idle = r.idle
         /\ Align(r).revisions = r.revisions
<1> DEFINE s == Unclaimed(r)
<1>1. s \in Row /\ s.status = r.status /\ s.idle = r.idle /\ s.revisions = r.revisions
  BY UnclaimedType
<1>2. r.step \in Nat
  BY RowFields
<1> HIDE DEF s
<1>3. [s EXCEPT !.claimed = r.step] \in Row
  BY <1>1, <1>2, SetClaimed
<1>4. /\ [s EXCEPT !.claimed = r.step].status = r.status
      /\ [s EXCEPT !.claimed = r.step].idle = r.idle
      /\ [s EXCEPT !.claimed = r.step].revisions = r.revisions
  BY <1>1 DEF Row
<1> QED BY <1>3, <1>4 DEF Align, s

LEMMA ReleaseType ==
  ASSUME NEW r \in Row, NEW n \in Nat
  PROVE  /\ ReleaseStepClaim(r, n) \in Row
         /\ ReleaseStepClaim(r, n).status = r.status
         /\ ReleaseStepClaim(r, n).idle = r.idle
<1> DEFINE s == Unclaimed(r)
<1>1. s \in Row /\ s.status = r.status /\ s.idle = r.idle
  BY UnclaimedType
<1>2. Max0(n - 1) \in Nat
  BY DEF Max0
<1> DEFINE m == Max0(n - 1)
<1> HIDE DEF s, m
<1>3. [s EXCEPT !.claimed = m] \in Row
  BY <1>1, <1>2, SetClaimed DEF m
<1>4. [s EXCEPT !.claimed = m].status = r.status /\ [s EXCEPT !.claimed = m].idle = r.idle
  BY <1>1 DEF Row
<1> QED BY <1>3, <1>4 DEF ReleaseStepClaim, s, m

(* A new status, with the idle count kept or reset. *)
LEMMA StatusType ==
  ASSUME NEW r \in Row, NEW x \in Statuses
  PROVE  /\ [r EXCEPT !.status = x] \in Row
         /\ [r EXCEPT !.status = x].status = x
         /\ [r EXCEPT !.status = x].idle = r.idle
BY SetStatus DEF Row

LEMMA StatusIdleType ==
  ASSUME NEW r \in Row, NEW x \in Statuses
  PROVE  /\ [r EXCEPT !.status = x, !.idle = 0] \in Row
         /\ [r EXCEPT !.status = x, !.idle = 0].idle = 0
<1> DEFINE s == [r EXCEPT !.status = x]
<1>1. s \in Row
  BY SetStatus
<1>2. [r EXCEPT !.status = x, !.idle = 0] = [s EXCEPT !.idle = 0]
  BY DEF Row
<1>3. [s EXCEPT !.idle = 0] \in Row
  <2> HIDE DEF s
  <2> QED BY <1>1, SetIdle, 0 \in Nat
<1>4. [r EXCEPT !.status = x, !.idle = 0].idle = 0
  BY DEF Row
<1> QED BY <1>2, <1>3, <1>4

LEMMA GoodRowIntro ==
  ASSUME NEW r \in Row,
         r.idle < MaxIdle \/ r.status \notin {"queued", "running", "waiting_approval"}
  PROVE  r \in GoodRow
BY DEF GoodRow, IdleLeft

-----------------------------------------------------------------------------
(* What an invocation is about to do, with some of its fields replaced. *)

LEMMA SetPc ==
  ASSUME NEW i \in Invocation, NEW pc \in Pcs
  PROVE  [i EXCEPT !.pc = pc] \in Invocation
BY DEF Invocation

LEMMA SetTask ==
  ASSUME NEW i \in Invocation, NEW t \in Tasks
  PROVE  [i EXCEPT !.task = t] \in Invocation
BY DEF Invocation

LEMMA SetWant ==
  ASSUME NEW i \in Invocation, NEW n \in Nat
  PROVE  [i EXCEPT !.want = n] \in Invocation
BY DEF Invocation

LEMMA SetRetried ==
  ASSUME NEW i \in Invocation, NEW b \in BOOLEAN
  PROVE  [i EXCEPT !.retried = b] \in Invocation
BY DEF Invocation

LEMMA SetAsked ==
  ASSUME NEW i \in Invocation, NEW b \in BOOLEAN
  PROVE  [i EXCEPT !.asked = b] \in Invocation
BY DEF Invocation

LEMMA SetNoted ==
  ASSUME NEW i \in Invocation, NEW b \in BOOLEAN
  PROVE  [i EXCEPT !.noted = b] \in Invocation
BY DEF Invocation

LEMMA SetSnap ==
  ASSUME NEW i \in Invocation, NEW r \in Row
  PROVE  [i EXCEPT !.snap = r] \in Invocation
BY DEF Invocation

LEMMA SetQueue ==
  ASSUME NEW i \in Invocation, NEW queue \in SUBSET Tasks
  PROVE  [i EXCEPT !.queue = queue] \in Invocation
BY DEF Invocation

LEMMA SetSlots ==
  ASSUME NEW i \in Invocation, NEW n \in Nat
  PROVE  [i EXCEPT !.slots = n] \in Invocation
BY DEF Invocation

(* Elsewhere only the snapshot's idle steps matter. *)
Plain == Pcs \ {"drain", "drainUndo", "resume"}

LEMMA GoodInvocationIntro ==
  ASSUME NEW i \in Invocation, IdleLeft(i.snap), i.pc \in Plain
  PROVE  i \in GoodInvocation
BY DEF GoodInvocation, Plain

LEMMA GotoType ==
  ASSUME NEW i \in GoodInvocation, NEW pc \in Plain
  PROVE  [i EXCEPT !.pc = pc] \in GoodInvocation
<1>1. i \in Invocation /\ IdleLeft(i.snap)
  BY DEF GoodInvocation
<1>2. [i EXCEPT !.pc = pc] \in Invocation
  BY <1>1, SetPc DEF Plain
<1>3. [i EXCEPT !.pc = pc].snap = i.snap /\ [i EXCEPT !.pc = pc].pc = pc
  BY <1>1 DEF Invocation
<1> QED BY <1>1, <1>2, <1>3, GoodInvocationIntro

LEMMA ReadAsType ==
  ASSUME NEW i \in GoodInvocation, NEW pc \in Plain, NEW r \in GoodRow
  PROVE  [i EXCEPT !.pc = pc, !.snap = r] \in GoodInvocation
<1> DEFINE j == [i EXCEPT !.pc = pc]
<1>1. i \in Invocation /\ r \in Row /\ IdleLeft(r)
  BY DEF GoodInvocation, GoodRow
<1>2. j \in Invocation /\ j.pc = pc
  BY <1>1, SetPc DEF Plain, Invocation
<1>3. [i EXCEPT !.pc = pc, !.snap = r] = [j EXCEPT !.snap = r]
  BY <1>1 DEF Invocation
<1> HIDE DEF j
<1>4. [j EXCEPT !.snap = r] \in Invocation
  BY <1>1, <1>2, SetSnap
<1>5. [j EXCEPT !.snap = r].snap = r /\ [j EXCEPT !.snap = r].pc = pc
  BY <1>2 DEF Invocation
<1>6. [j EXCEPT !.snap = r] \in GoodInvocation
  BY <1>1, <1>4, <1>5, GoodInvocationIntro
<1> QED BY <1>3, <1>6

LEMMA IdleType == Idle \in GoodInvocation
<1>1. NewRow("absent") \in GoodRow
  BY NewRowType DEF Statuses
<1>2. (CHOOSE t \in Tasks : TRUE) \in Tasks
  OBVIOUS
<1>3. Idle \in Invocation
  BY <1>1, <1>2 DEF Idle, Invocation, Pcs, GoodRow
<1>4. IdleLeft(Idle.snap) /\ Idle.pc = "idle"
  BY <1>1 DEF Idle, GoodRow
<1> QED BY <1>3, <1>4, GoodInvocationIntro DEF Plain, Pcs

LEMMA DrainingType == Draining \in GoodInvocation
BY IdleType, GotoType DEF Draining, Plain, Pcs

LEMMA DeadType == Dead \in GoodInvocation
BY IdleType, GotoType DEF Dead, Plain, Pcs

LEMMA BeginType ==
  ASSUME NEW pc \in Plain, NEW t \in Tasks, NEW r \in GoodRow
  PROVE  [Idle EXCEPT !.pc = pc, !.task = t, !.snap = r] \in GoodInvocation
<1> DEFINE i == [Idle EXCEPT !.task = t]
<1>1. Idle \in Invocation
  BY IdleType DEF GoodInvocation
<1>2. i \in Invocation /\ IdleLeft(i.snap) /\ i.pc = "idle"
  <2>1. i \in Invocation
    BY <1>1, SetTask
  <2>2. i.snap = Idle.snap /\ i.pc = "idle"
    BY <1>1 DEF Invocation, Idle
  <2> QED BY <2>1, <2>2, IdleType DEF GoodInvocation
<1>3. i \in GoodInvocation
  BY <1>2, GoodInvocationIntro DEF Plain, Pcs
<1>4. [Idle EXCEPT !.pc = pc, !.task = t, !.snap = r] = [i EXCEPT !.pc = pc, !.snap = r]
  BY <1>1 DEF Invocation
<1> HIDE DEF i
<1> QED BY <1>3, <1>4, ReadAsType

-----------------------------------------------------------------------------
(* The parts of a step that preserve a part of Good. *)

LEMMA ActorType ==
  ASSUME Good, NEW p \in Procs
  PROVE  /\ inv[p] \in GoodInvocation
         /\ T(p) \in Tasks
         /\ Snap(p) \in GoodRow /\ Snap(p) \in Row /\ IdleLeft(Snap(p))
         /\ Now(p) \in GoodRow /\ Now(p) \in Row /\ IdleLeft(Now(p))
         /\ inv[p].want \in Nat
<1>1. inv[p] \in GoodInvocation /\ inv[p] \in Invocation /\ IdleLeft(inv[p].snap)
  BY DEF Good, GoodInvocation
<1>2. inv[p].task \in Tasks /\ inv[p].snap \in Row /\ inv[p].want \in Nat
  BY <1>1 DEF Invocation
<1>3. row[inv[p].task] \in GoodRow
  BY <1>2 DEF Good
<1> QED BY <1>1, <1>2, <1>3 DEF T, Snap, Now, GoodRow

LEMMA PutType ==
  ASSUME Good, NEW t \in Tasks, NEW r \in GoodRow, Put(t, r)
  PROVE  row' \in [Tasks -> GoodRow]
BY DEF Good, Put

LEMMA SetInvType ==
  ASSUME Good, NEW p \in Procs, NEW i \in GoodInvocation, inv' = [inv EXCEPT ![p] = i]
  PROVE  inv' \in [Procs -> GoodInvocation]
BY DEF Good

LEMMA EndType ==
  ASSUME Good, NEW p \in Procs, End(p)
  PROVE  inv' \in [Procs -> GoodInvocation]
BY IdleType, SetInvType DEF End

LEMMA GotoStep ==
  ASSUME Good, NEW p \in Procs, NEW pc \in Plain, Goto(p, pc)
  PROVE  inv' \in [Procs -> GoodInvocation]
<1> DEFINE i == [inv[p] EXCEPT !.pc = pc]
<1>1. i \in GoodInvocation
  BY ActorType, GotoType
<1>2. inv' = [inv EXCEPT ![p] = i]
  BY DEF Goto
<1> HIDE DEF i
<1> QED BY <1>1, <1>2, SetInvType

LEMMA ReadAsStep ==
  ASSUME Good, NEW p \in Procs, NEW pc \in Plain, NEW r \in GoodRow,
         inv' = [inv EXCEPT ![p] = [@ EXCEPT !.pc = pc, !.snap = r]]
  PROVE  inv' \in [Procs -> GoodInvocation]
<1> DEFINE i == [inv[p] EXCEPT !.pc = pc, !.snap = r]
<1>1. i \in GoodInvocation
  BY ActorType, ReadAsType
<1>2. inv' = [inv EXCEPT ![p] = i]
  OBVIOUS
<1> HIDE DEF i
<1> QED BY <1>1, <1>2, SetInvType

LEMMA ForgetStep ==
  ASSUME Good, NEW p \in Procs, NEW pc \in Plain, Forget(p, pc)
  PROVE  inv' \in [Procs -> GoodInvocation]
<1> DEFINE r == NewRow("absent")
<1>1. r \in GoodRow
  BY NewRowType DEF Statuses
<1>2. inv' = [inv EXCEPT ![p] = [@ EXCEPT !.pc = pc, !.snap = r]]
  BY DEF Forget
<1> HIDE DEF r
<1> QED BY <1>1, <1>2, ReadAsStep

LEMMA BeginStep ==
  ASSUME Good, NEW p \in Procs, NEW pc \in Plain, NEW t \in Tasks, Begin(p, pc, t)
  PROVE  inv' \in [Procs -> GoodInvocation]
<1> DEFINE i == [Idle EXCEPT !.pc = pc, !.task = t, !.snap = row[t]]
<1>1. row[t] \in GoodRow
  BY DEF Good
<1>2. i \in GoodInvocation
  BY <1>1, BeginType
<1>3. inv' = [inv EXCEPT ![p] = i]
  BY DEF Begin
<1> HIDE DEF i
<1> QED BY <1>2, <1>3, SetInvType

LEMMA EventType ==
  ASSUME NEW t \in Tasks, NEW n \in Nat
  PROVE  /\ StepEvent(t, n) \in Events
         /\ RetriedEvent(t, n) \in Events
         /\ ReviewEvent(t) \in Events
BY DEF StepEvent, RetriedEvent, ReviewEvent, Events

LEMMA InvokeType ==
  ASSUME Good, NEW e \in Events, Invoke(e)
  PROVE  events' \subseteq Events
BY DEF Good, Invoke

-----------------------------------------------------------------------------
(* The rows put by the handlers. *)

LEMMA FailType ==
  ASSUME NEW r \in Row
  PROVE  Fail(r) \in GoodRow
<1> DEFINE s == Touch(r)
<1>1. s \in Row
  BY TouchType
<1>2. "failed" \in Statuses
  BY DEF Statuses
<1> HIDE DEF s
<1>3. [s EXCEPT !.status = "failed"] \in Row /\ [s EXCEPT !.status = "failed"].status = "failed"
  BY <1>1, <1>2, StatusType
<1> QED BY <1>3, GoodRowIntro DEF Fail, s

LEMMA TouchGood ==
  ASSUME NEW r \in GoodRow
  PROVE  Touch(r) \in GoodRow
BY TouchType DEF GoodRow, IdleLeft

LEMMA ReleaseGood ==
  ASSUME NEW r \in GoodRow, NEW n \in Nat
  PROVE  ReleaseStepClaim(r, n) \in GoodRow
BY ReleaseType DEF GoodRow, IdleLeft

(* A new status for a row whose task could still run, or one that ends or parks the task. *)
LEMMA StatusGood ==
  ASSUME NEW r \in Row, NEW x \in Statuses,
         r.idle < MaxIdle \/ x \notin {"queued", "running", "waiting_approval"}
  PROVE  [r EXCEPT !.status = x] \in GoodRow
BY StatusType, GoodRowIntro

LEMMA StatusIdleGood ==
  ASSUME NEW r \in Row, NEW x \in Statuses
  PROVE  [r EXCEPT !.status = x, !.idle = 0] \in GoodRow
<1> DEFINE s == [r EXCEPT !.status = x, !.idle = 0]
<1>1. s \in Row /\ s.idle = 0
  BY StatusIdleType
<1>2. s.idle < MaxIdle
  BY <1>1
<1> HIDE DEF s
<1>3. s \in GoodRow
  BY <1>1, <1>2, GoodRowIntro
<1> QED BY <1>3 DEF s

LEMMA RequeueGood ==
  ASSUME NEW r \in GoodRow, NEW n \in Nat, r.status = "running"
  PROVE  [ReleaseStepClaim(r, n) EXCEPT !.status = "queued"] \in GoodRow
<1> DEFINE s == ReleaseStepClaim(r, n)
<1>1. s \in Row /\ s.idle < MaxIdle
  BY ReleaseType DEF GoodRow, IdleLeft
<1>2. "queued" \in Statuses
  BY DEF Statuses
<1> HIDE DEF s
<1>3. [s EXCEPT !.status = "queued"] \in GoodRow
  BY <1>1, <1>2, StatusGood
<1> QED BY <1>3 DEF s

LEMMA FinishedGood ==
  ASSUME NEW r \in Row, NEW status \in {"review", "needs_owner"}
  PROVE  Finished(r, status) \in GoodRow
<1> DEFINE a == [r EXCEPT !.step = @ + 1]
           b == [r EXCEPT !.step = @ + 1, !.idle = 0]
           c == Align(b)
<1>1. r.step + 1 \in Nat
  BY RowFields
<1>2. a \in Row
  BY <1>1, SetStep
<1>3. b = [a EXCEPT !.idle = 0]
  BY DEF Row
<1>4. b \in Row
  <2> HIDE DEF a, b
  <2> QED BY <1>2, <1>3, SetIdle, 0 \in Nat
<1>5. c \in Row
  <2> HIDE DEF b
  <2> QED BY <1>4, AlignType
<1>6. status \in Statuses /\ status \notin {"queued", "running", "waiting_approval"}
  BY DEF Statuses
<1>7. Finished(r, status) = [c EXCEPT !.status = status]
  BY DEF Finished
<1> HIDE DEF c
<1> QED BY <1>5, <1>6, <1>7, StatusGood

LEMMA ParkGood ==
  ASSUME NEW r \in Row, NEW x \in Statuses
  PROVE  [Align(r) EXCEPT !.status = x, !.idle = 0] \in GoodRow
<1> DEFINE s == Align(r)
<1>1. s \in Row
  BY AlignType
<1> HIDE DEF s
<1>2. [s EXCEPT !.status = x, !.idle = 0] \in GoodRow
  BY <1>1, StatusIdleGood
<1> QED BY <1>2 DEF s

LEMMA ResumeGood ==
  ASSUME NEW r \in GoodRow, r.status = "waiting_approval"
  PROVE  [Align(r) EXCEPT !.status = "running"] \in GoodRow
<1> DEFINE s == Align(r)
<1>1. s \in Row /\ s.idle < MaxIdle
  BY AlignType DEF GoodRow, IdleLeft
<1>2. "running" \in Statuses
  BY DEF Statuses
<1> HIDE DEF s
<1>3. [s EXCEPT !.status = "running"] \in GoodRow
  BY <1>1, <1>2, StatusGood
<1> QED BY <1>3 DEF s

LEMMA ReturnGood ==
  ASSUME NEW r \in Row, r.revisions < MaxRevisions
  PROVE  [Align(r) EXCEPT !.status = "running", !.revisions = @ + 1, !.idle = 0] \in GoodRow
<1> DEFINE s == Align(r)
           u == [s EXCEPT !.revisions = @ + 1]
           v == [s EXCEPT !.status = "running", !.revisions = @ + 1, !.idle = 0]
<1>1. s \in Row /\ s.revisions = r.revisions
  BY AlignType
<1>2. s.revisions + 1 \in 0..MaxRevisions
  BY <1>1, RowFields
<1>3. "running" \in Statuses
  BY DEF Statuses
<1> HIDE DEF s
<1>4. u \in Row
  BY <1>1, <1>2, SetRevisions
<1>5. v = [u EXCEPT !.status = "running", !.idle = 0]
  BY <1>1 DEF Row
<1> HIDE DEF u, v
<1>6. v \in GoodRow
  BY <1>3, <1>4, <1>5, StatusIdleGood
<1> QED BY <1>6 DEF v, s

LEMMA SettleGood ==
  ASSUME NEW r \in Row, NEW x \in {"delivered", "needs_owner", "cancelled"}
  PROVE  [Touch(r) EXCEPT !.status = x] \in GoodRow
<1> DEFINE s == Touch(r)
<1>1. s \in Row
  BY TouchType
<1>2. x \in Statuses /\ x \notin {"queued", "running", "waiting_approval"}
  BY DEF Statuses
<1> HIDE DEF s
<1>3. [s EXCEPT !.status = x] \in GoodRow
  BY <1>1, <1>2, StatusGood
<1> QED BY <1>3 DEF s

LEMMA SteppedType ==
  ASSUME Good, NEW p \in Procs
  PROVE  /\ Stepped(p) \in Row
         /\ Stepped(p).idle = Snap(p).idle
         /\ Stepped(p).status = Snap(p).status
         /\ Stepped(p).step \in Nat
         /\ Seq(p) \in Nat
<1> DEFINE s == Touch(Snap(p))
           n == IF Snap(p).step >= inv[p].want THEN Snap(p).step ELSE Snap(p).step + 1
           u == [s EXCEPT !.step = n]
<1>1. Snap(p) \in Row /\ inv[p].want \in Nat
  BY ActorType
<1>2. Snap(p).step \in Nat
  BY <1>1, RowFields
<1>3. n \in Nat /\ Seq(p) \in Nat
  BY <1>1, <1>2 DEF Seq
<1>4. s \in Row /\ s.idle = Snap(p).idle /\ s.status = Snap(p).status
  BY <1>1, TouchType
<1>5. Stepped(p) = [s EXCEPT !.step = n, !.stuckRetried = FALSE]
  BY DEF Stepped
<1> HIDE DEF s, n
<1>6. u \in Row /\ u.idle = s.idle /\ u.status = s.status /\ u.step = n
  BY <1>3, <1>4, SetStep DEF Row
<1>7. Stepped(p) = [u EXCEPT !.stuckRetried = FALSE]
  BY <1>4, <1>5 DEF Row
<1> HIDE DEF u
<1>8. [u EXCEPT !.stuckRetried = FALSE] \in Row
  BY <1>6, SetStuckRetried, FALSE \in BOOLEAN
<1>9. /\ [u EXCEPT !.stuckRetried = FALSE].idle = u.idle
      /\ [u EXCEPT !.stuckRetried = FALSE].status = u.status
      /\ [u EXCEPT !.stuckRetried = FALSE].step = u.step
  BY <1>6 DEF Row
<1> QED BY <1>3, <1>4, <1>6, <1>7, <1>8, <1>9

LEMMA SameStatusGood ==
  ASSUME NEW r \in GoodRow, NEW s \in Row, s.status = r.status, s.idle = r.idle
  PROVE  s \in GoodRow
BY DEF GoodRow, IdleLeft

LEMMA ClaimGood ==
  ASSUME Good, NEW t \in Tasks, NEW n, ClaimTaskStep(t, n)
  PROVE  row' \in [Tasks -> GoodRow]
<1> DEFINE s == Touch(row[t])
           u == [s EXCEPT !.claimed = n + 1]
           v == [s EXCEPT !.claimed = n + 1, !.claimedAt = "fresh"]
           w == [s EXCEPT !.status = "running"]
<1>1. row[t] \in GoodRow /\ row[t] \in Row
  BY DEF Good, GoodRow
<1>2. s \in Row /\ s.status = row[t].status /\ s.idle = row[t].idle
  BY <1>1, TouchType
<1>3. CASE CanPromote(row[t], n) /\ Put(t, w)
  <2>1. s.idle < MaxIdle
    BY <1>1, <1>2, <1>3 DEF CanPromote, GoodRow, IdleLeft
  <2>2. "running" \in Statuses
    BY DEF Statuses
  <2> HIDE DEF s
  <2>3. w \in GoodRow
    BY <1>2, <2>1, <2>2, StatusGood
  <2> HIDE DEF w
  <2> QED BY <1>3, <2>3, PutType
<1>4. CASE CanClaim(row[t], n) /\ Put(t, v)
  <2>1. n \in Nat /\ n + 1 \in Nat
    BY <1>1, <1>4, RowFields DEF CanClaim
  <2> HIDE DEF s
  <2>2. u \in Row /\ u.status = s.status /\ u.idle = s.idle
    BY <1>2, <2>1, SetClaimed DEF Row
  <2>3. v = [u EXCEPT !.claimedAt = "fresh"]
    BY <1>2 DEF Row
  <2> HIDE DEF u
  <2>4. /\ [u EXCEPT !.claimedAt = "fresh"] \in Row
        /\ [u EXCEPT !.claimedAt = "fresh"].status = u.status
        /\ [u EXCEPT !.claimedAt = "fresh"].idle = u.idle
    BY <2>2, SetClaimedAt, "fresh" \in {"none", "fresh", "stale"} DEF Row
  <2>5. v \in Row /\ v.status = row[t].status /\ v.idle = row[t].idle
    BY <1>2, <2>2, <2>3, <2>4
  <2> HIDE DEF v
  <2>6. v \in GoodRow
    BY <1>1, <2>5, SameStatusGood
  <2> QED BY <1>4, <2>6, PutType
<1> QED BY <1>3, <1>4 DEF ClaimTaskStep

LEMMA UnstartedGood ==
  ASSUME NEW r \in GoodRow, r.status = "running"
  PROVE  [Unclaimed(r) EXCEPT !.status = "queued", !.claimed = 0] \in GoodRow
<1> DEFINE s == Unclaimed(r)
           u == [s EXCEPT !.status = "queued"]
           v == [s EXCEPT !.status = "queued", !.claimed = 0]
<1>1. s \in Row /\ s.idle = r.idle /\ r.idle < MaxIdle
  BY UnclaimedType DEF GoodRow, IdleLeft
<1>2. "queued" \in Statuses
  BY DEF Statuses
<1> HIDE DEF s
<1>3. u \in Row /\ u.idle = s.idle
  BY <1>1, <1>2, StatusType
<1>4. v = [u EXCEPT !.claimed = 0]
  BY <1>1 DEF Row
<1> HIDE DEF u
<1>5. [u EXCEPT !.claimed = 0] \in Row /\ [u EXCEPT !.claimed = 0].idle = u.idle
  BY <1>3, SetClaimed, 0 \in Nat DEF Row
<1>6. v \in Row /\ v.idle < MaxIdle
  BY <1>1, <1>3, <1>4, <1>5
<1> HIDE DEF v
<1>7. v \in GoodRow
  BY <1>6, GoodRowIntro
<1> QED BY <1>7 DEF v, s

LEMMA MovedGood ==
  ASSUME NEW r \in Row, NEW n \in Nat
  PROVE  [Touch(r) EXCEPT !.step = n, !.idle = 0, !.stuckRetried = FALSE] \in GoodRow
<1> DEFINE s == Touch(r)
           u == [s EXCEPT !.step = n]
           v == [u EXCEPT !.stuckRetried = FALSE]
           w == [s EXCEPT !.step = n, !.idle = 0, !.stuckRetried = FALSE]
<1>1. s \in Row
  BY TouchType
<1> HIDE DEF s
<1>2. u \in Row
  BY <1>1, SetStep
<1>3. v \in Row
  <2> HIDE DEF u
  <2> QED BY <1>2, SetStuckRetried, FALSE \in BOOLEAN
<1>4. w = [v EXCEPT !.idle = 0] /\ w.idle = 0
  BY <1>1 DEF Row
<1> HIDE DEF v
<1>5. [v EXCEPT !.idle = 0] \in Row
  BY <1>3, SetIdle, 0 \in Nat
<1>6. w \in Row /\ w.idle < MaxIdle
  BY <1>4, <1>5
<1> HIDE DEF w
<1>7. w \in GoodRow
  BY <1>6, GoodRowIntro
<1> QED BY <1>7 DEF w, s

(* A step that completes keeps its task's status and counts n idle steps. *)
LEMMA SteppedIdle ==
  ASSUME Good, NEW p \in Procs, NEW n \in Nat
  PROVE  /\ [Stepped(p) EXCEPT !.idle = n] \in Row
         /\ [Stepped(p) EXCEPT !.idle = n].idle = n
         /\ n < MaxIdle => [Stepped(p) EXCEPT !.idle = n] \in GoodRow
<1> DEFINE s == Stepped(p)
           v == [s EXCEPT !.idle = n]
<1>1. s \in Row
  BY SteppedType
<1> HIDE DEF s
<1>2. v \in Row /\ v.idle = n
  BY <1>1, SetIdle DEF Row
<1> HIDE DEF v
<1>3. n < MaxIdle => v \in GoodRow
  BY <1>2, GoodRowIntro
<1> QED BY <1>2, <1>3 DEF v, s

LEMMA RetryGood ==
  ASSUME NEW n \in Nat
  PROVE  [NewRow("queued") EXCEPT !.attempt = n] \in GoodRow
<1> DEFINE s == NewRow("queued")
           v == [s EXCEPT !.attempt = n]
<1>1. s \in Row /\ s.idle = 0
  BY NewRowType DEF Statuses, GoodRow, NewRow
<1> HIDE DEF s
<1>2. v \in Row /\ v.idle = 0
  BY <1>1, SetAttempt DEF Row
<1>3. v.idle < MaxIdle
  BY <1>2
<1> HIDE DEF v
<1>4. v \in GoodRow
  BY <1>2, <1>3, GoodRowIntro
<1> QED BY <1>4 DEF v, s

LEMMA RetriedGood ==
  ASSUME NEW r \in GoodRow
  PROVE  /\ [Touch(r) EXCEPT !.stuckRetried = TRUE] \in GoodRow
         /\ [Touch(r) EXCEPT !.reviewRetried = TRUE] \in GoodRow
<1> DEFINE s == Touch(r)
           u == [s EXCEPT !.stuckRetried = TRUE]
           v == [s EXCEPT !.reviewRetried = TRUE]
<1>1. s \in Row /\ s \in GoodRow
  BY TouchType, TouchGood DEF GoodRow
<1> HIDE DEF s
<1>2. u \in Row /\ u.status = s.status /\ u.idle = s.idle
  BY <1>1, SetStuckRetried, TRUE \in BOOLEAN DEF Row
<1>3. v \in Row /\ v.status = s.status /\ v.idle = s.idle
  BY <1>1, SetReviewRetried, TRUE \in BOOLEAN DEF Row
<1> HIDE DEF u, v
<1>4. u \in GoodRow /\ v \in GoodRow
  BY <1>1, <1>2, <1>3, SameStatusGood
<1> QED BY <1>4 DEF u, v, s

LEMMA AgedGood ==
  ASSUME NEW r \in GoodRow
  PROVE  /\ [r EXCEPT !.updated = 1, !.claimedAt = IF @ = "none" THEN "none" ELSE "stale"]
               \in GoodRow
         /\ [r EXCEPT !.updated = 2] \in GoodRow
<1> DEFINE x == IF r.claimedAt = "none" THEN "none" ELSE "stale"
           u == [r EXCEPT !.updated = 1]
           v == [u EXCEPT !.claimedAt = x]
           w == [r EXCEPT !.updated = 2]
<1>1. r \in Row
  BY DEF GoodRow
<1>2. u \in Row /\ u.status = r.status /\ u.idle = r.idle
  BY <1>1, SetUpdated, 1 \in 0..2 DEF Row
<1>3. w \in Row /\ w.status = r.status /\ w.idle = r.idle
  BY <1>1, SetUpdated, 2 \in 0..2 DEF Row
<1>4. x \in {"none", "fresh", "stale"}
  OBVIOUS
<1>5. [r EXCEPT !.updated = 1, !.claimedAt = IF @ = "none" THEN "none" ELSE "stale"] = v
  BY <1>1 DEF Row
<1> HIDE DEF u, x
<1>6. v \in Row /\ v.status = u.status /\ v.idle = u.idle
  BY <1>2, <1>4, SetClaimedAt DEF Row
<1> HIDE DEF v, w
<1>7. v \in GoodRow /\ w \in GoodRow
  BY <1>2, <1>3, <1>6, SameStatusGood
<1> QED BY <1>5, <1>7 DEF w

-----------------------------------------------------------------------------
(* One lemma per group of actions: each action preserves Good. *)

LEMMA DrainNextType ==
  ASSUME Good, NEW p \in Procs, NEW t, NEW started \in 0..1, At(p, "drain"),
         DrainNext(p, t, started)
  PROVE  inv' \in [Procs -> GoodInvocation]
<1> DEFINE queue == inv[p].queue \ {t}
           slots == inv[p].slots - started
           i == [inv[p] EXCEPT !.queue = queue]
           j == [inv[p] EXCEPT !.queue = queue, !.slots = slots]
<1>1. CASE End(p)
  BY <1>1, EndType
<1>2. CASE slots # 0 /\ inv' = [inv EXCEPT ![p] = j]
  <2>1. /\ inv[p] \in Invocation /\ inv[p].pc = "drain"
        /\ inv[p].slots > 0 /\ IdleLeft(inv[p].snap)
    BY ActorType DEF GoodInvocation, At
  <2>2. queue \in SUBSET Tasks /\ inv[p].slots \in Nat
    BY <2>1 DEF Invocation
  <2>3. slots \in Nat /\ slots > 0
    BY <2>1, <2>2, <1>2
  <2> HIDE DEF queue, slots
  <2>4. i \in Invocation /\ i.pc = "drain" /\ i.snap = inv[p].snap
    BY <2>1, <2>2, SetQueue DEF Invocation
  <2>5. j = [i EXCEPT !.slots = slots]
    BY <2>1 DEF Invocation
  <2> HIDE DEF i
  <2>6. [i EXCEPT !.slots = slots] \in Invocation
    BY <2>3, <2>4, SetSlots
  <2>7. /\ [i EXCEPT !.slots = slots].slots = slots
        /\ [i EXCEPT !.slots = slots].snap = inv[p].snap
        /\ [i EXCEPT !.slots = slots].pc = "drain"
    BY <2>4 DEF Invocation
  <2>8. j \in GoodInvocation
    BY <2>1, <2>3, <2>5, <2>6, <2>7 DEF GoodInvocation
  <2> HIDE DEF j
  <2> QED BY <1>2, <2>8, SetInvType
<1> QED BY <1>1, <1>2 DEF DrainNext

LEMMA UndoType ==
  ASSUME NEW i \in GoodInvocation, i.pc \in {"drain", "drainUndo"},
         NEW t \in Tasks, NEW queue \in SUBSET Tasks
  PROVE  /\ [i EXCEPT !.pc = "drainUndo", !.task = t] \in GoodInvocation
         /\ [i EXCEPT !.pc = "drain", !.queue = queue] \in GoodInvocation
<1> DEFINE u == [i EXCEPT !.pc = "drainUndo"]
           v == [i EXCEPT !.pc = "drain"]
           x == [i EXCEPT !.pc = "drainUndo", !.task = t]
           y == [i EXCEPT !.pc = "drain", !.queue = queue]
<1>1. i \in Invocation /\ i.slots > 0 /\ IdleLeft(i.snap)
  BY DEF GoodInvocation
<1>2. "drain" \in Pcs /\ "drainUndo" \in Pcs
  BY DEF Pcs
<1>3. u \in Invocation /\ v \in Invocation
  BY <1>1, <1>2, SetPc
<1>4. x = [u EXCEPT !.task = t] /\ y = [v EXCEPT !.queue = queue]
  BY <1>1 DEF Invocation
<1>5. /\ x.slots = i.slots /\ x.snap = i.snap /\ x.pc = "drainUndo"
      /\ y.slots = i.slots /\ y.snap = i.snap /\ y.pc = "drain"
  BY <1>1 DEF Invocation
<1> HIDE DEF u, v
<1>6. x \in Invocation /\ y \in Invocation
  BY <1>3, <1>4, SetTask, SetQueue
<1> HIDE DEF x, y
<1>7. x \in GoodInvocation /\ y \in GoodInvocation
  BY <1>1, <1>5, <1>6 DEF GoodInvocation
<1> QED BY <1>7 DEF x, y

LEMMA DrainStep ==
  ASSUME Good, NEW p \in Procs, Drain(p)
  PROVE  Good'
<1>1. CASE DrainList(p)
  <2> DEFINE n == Cap - Cardinality(Busy)
             i == [Idle EXCEPT !.pc = "drain", !.queue = Queued, !.slots = n]
  <2>1. CASE End(p)
    BY <1>1, <2>1, EndType DEF DrainList, Good
  <2>2. CASE ~(Cardinality(Busy) >= Cap) /\ inv' = [inv EXCEPT ![p] = i]
    <3>1. n \in Nat \ {0}
      <4>1. IsFiniteSet(Busy)
        BY FS_Subset DEF Busy
      <4>2. Cardinality(Busy) \in Nat
        BY <4>1, FS_CardinalityType
      <4> QED BY <2>2, <4>2
    <3>2. Queued \in SUBSET Tasks
      BY DEF Queued
    <3>3. Idle \in Invocation /\ IdleLeft(Idle.snap)
      BY IdleType DEF GoodInvocation
    <3> DEFINE u == [Idle EXCEPT !.pc = "drain"]
               v == [u EXCEPT !.queue = Queued]
    <3>4. u \in Invocation /\ u.snap = Idle.snap /\ u.pc = "drain"
      <4>1. "drain" \in Pcs
        BY DEF Pcs
      <4> QED BY <3>3, <4>1, SetPc DEF Invocation
    <3>5. i = [v EXCEPT !.slots = n]
      BY <3>3 DEF Invocation
    <3> HIDE DEF u, n
    <3>6. v \in Invocation /\ v.snap = Idle.snap /\ v.pc = "drain"
      BY <3>2, <3>4, SetQueue DEF Invocation
    <3> HIDE DEF v
    <3>7. [v EXCEPT !.slots = n] \in Invocation
      BY <3>1, <3>6, SetSlots
    <3>8. /\ [v EXCEPT !.slots = n].slots > 0 /\ [v EXCEPT !.slots = n].snap = Idle.snap
          /\ [v EXCEPT !.slots = n].pc = "drain"
      BY <3>1, <3>6 DEF Invocation
    <3>9. i \in GoodInvocation
      BY <3>3, <3>5, <3>7, <3>8 DEF GoodInvocation
    <3> HIDE DEF i
    <3> QED BY <1>1, <2>2, <3>9, SetInvType DEF DrainList, Good
  <2> QED BY <1>1, <2>1, <2>2 DEF DrainList
<1>2. CASE RequeueUnstarted(p)
  <2> DEFINE queue == inv[p].queue \ {T(p)}
             i == [inv[p] EXCEPT !.pc = "drain", !.queue = queue]
  <2>1. row' \in [Tasks -> GoodRow]
    BY <1>2, ActorType, UnstartedGood, PutType DEF RequeueUnstarted, Good
  <2>2. inv' \in [Procs -> GoodInvocation]
    <3>1. CASE End(p)
      BY <3>1, EndType
    <3>2. CASE inv' = [inv EXCEPT ![p] = i]
      <4>1. inv[p] \in GoodInvocation /\ inv[p].pc \in {"drain", "drainUndo"} /\ T(p) \in Tasks
        BY <1>2, ActorType DEF RequeueUnstarted, At
      <4>2. queue \in SUBSET Tasks
        BY <4>1 DEF GoodInvocation, Invocation
      <4> HIDE DEF queue
      <4>3. i \in GoodInvocation
        BY <4>1, <4>2, UndoType
      <4> HIDE DEF i
      <4> QED BY <3>2, <4>3, SetInvType
    <3> QED BY <1>2, <3>1, <3>2 DEF RequeueUnstarted
  <2> QED BY <1>2, <2>1, <2>2 DEF RequeueUnstarted, Good
<1>3. ASSUME NEW t \in Tasks, DrainClaim(p, t)
      PROVE  Good'
  <2>1. CASE ClaimTaskStep(t, 0) /\ Invoke(StepEvent(t, 1)) /\ DrainNext(p, t, 1)
    BY <1>3, <2>1, ClaimGood, InvokeType, EventType, DrainNextType, 1 \in 0..1, 1 \in Nat
       DEF DrainClaim, Good
  <2>2. CASE DrainNext(p, t, 0) /\ UNCHANGED <<row, events>>
    BY <1>3, <2>2, DrainNextType, 0 \in 0..1 DEF DrainClaim, Good
  <2> QED BY <1>3, <2>1, <2>2 DEF DrainClaim
<1>4. ASSUME NEW t \in Tasks, DrainInvokeFails(p, t)
      PROVE  Good'
  <2> DEFINE i == [inv[p] EXCEPT !.pc = "drainUndo", !.task = t]
  <2>1. row' \in [Tasks -> GoodRow]
    BY <1>4, ClaimGood DEF DrainInvokeFails
  <2>2. events' \subseteq Events
    BY <1>4, EventType, 1 \in Nat DEF DrainInvokeFails, Good
  <2>3. i \in GoodInvocation
    BY <1>4, ActorType, UndoType DEF DrainInvokeFails, At
  <2>4. inv' = [inv EXCEPT ![p] = i]
    BY <1>4 DEF DrainInvokeFails
  <2> HIDE DEF i
  <2>5. inv' \in [Procs -> GoodInvocation]
    BY <2>3, <2>4, SetInvType
  <2> QED BY <1>4, <2>1, <2>2, <2>5 DEF DrainInvokeFails, Good
<1> QED BY <1>1, <1>2, <1>3, <1>4 DEF Drain

LEMMA RunStepStep ==
  ASSUME Good, NEW p \in Procs, RunStep(p)
  PROVE  Good'
<1>1. CASE StepClaimed(p)
  <2>1. row' \in [Tasks -> GoodRow]
    BY <1>1, ActorType, ClaimGood DEF StepClaimed
  <2>2. inv' \in [Procs -> GoodInvocation]
    BY <1>1, GotoStep DEF StepClaimed, Plain, Pcs
  <2> QED BY <1>1, <2>1, <2>2 DEF StepClaimed, Good
<1>2. CASE StepRefused(p)
  BY <1>2, EndType DEF StepRefused, Good
<1>3. CASE StepOverBudget(p)
  BY <1>3, ActorType, FailType, PutType, EndType DEF StepOverBudget, Good
<1>4. CASE StepParkedForBudget(p)
  <2>1. row' \in [Tasks -> GoodRow]
    <3>1. CASE UNCHANGED row
      BY <3>1 DEF Good
    <3>2. CASE /\ Now(p).status = "running"
               /\ Put(T(p), [ReleaseStepClaim(Now(p), inv[p].want) EXCEPT !.status = "queued"])
      BY <3>2, ActorType, RequeueGood, PutType
    <3> QED BY <1>4, <3>1, <3>2 DEF StepParkedForBudget, RequeueForBudget, Now
  <2> QED BY <1>4, <2>1, EndType DEF StepParkedForBudget, Good
<1>5. CASE StepStarts(p)
  <2>1. inv' \in [Procs -> GoodInvocation]
    BY <1>5, ForgetStep DEF StepStarts, BackToLoop, Plain, Pcs
  <2> QED BY <1>5, <2>1 DEF StepStarts, Good
<1> QED BY <1>1, <1>2, <1>3, <1>4, <1>5 DEF RunStep

LEMMA NoteType ==
  ASSUME NEW i \in GoodInvocation, NEW r \in GoodRow
  PROVE  /\ [i EXCEPT !.pc = "note", !.noted = TRUE, !.snap = r] \in GoodInvocation
         /\ i.pc \in Plain => [i EXCEPT !.asked = TRUE] \in GoodInvocation
<1> DEFINE u == [i EXCEPT !.noted = TRUE]
           v == [u EXCEPT !.pc = "note"]
           w == [v EXCEPT !.snap = r]
           x == [i EXCEPT !.pc = "note", !.noted = TRUE, !.snap = r]
           y == [i EXCEPT !.asked = TRUE]
<1>1. i \in Invocation /\ r \in Row /\ IdleLeft(i.snap) /\ IdleLeft(r)
  BY DEF GoodInvocation, GoodRow
<1>2. u \in Invocation
  BY <1>1, SetNoted, TRUE \in BOOLEAN
<1>3. x = w /\ x.snap = r /\ x.pc = "note"
  BY <1>1 DEF Invocation
<1>4. y \in Invocation /\ y.snap = i.snap /\ y.pc = i.pc
  BY <1>1, SetAsked, TRUE \in BOOLEAN DEF Invocation
<1> HIDE DEF u
<1>5. v \in Invocation
  BY <1>2, SetPc, "note" \in Pcs DEF Pcs
<1> HIDE DEF v
<1>6. w \in Invocation
  BY <1>1, <1>5, SetSnap
<1> HIDE DEF w, x, y
<1>7. "note" \in Plain
  BY DEF Plain, Pcs
<1>8. x \in GoodInvocation
  BY <1>1, <1>3, <1>6, <1>7, GoodInvocationIntro
<1>9. i.pc \in Plain => y \in GoodInvocation
  BY <1>1, <1>4, GoodInvocationIntro
<1> QED BY <1>8, <1>9 DEF x, y

LEMMA ToolLoopStep ==
  ASSUME Good, NEW p \in Procs, ToolLoop(p)
  PROVE  Good'
<1>1. CASE NoteReads(p)
  <2> DEFINE i == [inv[p] EXCEPT !.pc = "note", !.noted = TRUE, !.snap = Now(p)]
  <2>1. i \in GoodInvocation
    BY ActorType, NoteType
  <2>2. inv' = [inv EXCEPT ![p] = i]
    BY <1>1 DEF NoteReads
  <2> HIDE DEF i
  <2>3. inv' \in [Procs -> GoodInvocation]
    BY <2>1, <2>2, SetInvType
  <2> QED BY <1>1, <2>3 DEF NoteReads, Good
<1>2. CASE NoteWrites(p)
  <2>1. inv' \in [Procs -> GoodInvocation]
    BY <1>2, ForgetStep DEF NoteWrites, BackToLoop, Plain, Pcs
  <2>2. row' \in [Tasks -> GoodRow]
    BY <1>2, ActorType, TouchGood, PutType DEF NoteWrites
  <2> QED BY <1>2, <2>1, <2>2 DEF NoteWrites, Good
<1>3. CASE Ask(p)
  <2> DEFINE i == [inv[p] EXCEPT !.asked = TRUE]
  <2>1. T(p) \in Tasks /\ pending[T(p)] + 1 \in Nat /\ asks[T(p)] + 1 \in Nat
    BY ActorType DEF Good
  <2>2. pending' \in [Tasks -> Nat] /\ asks' \in [Tasks -> Nat]
    BY <1>3, <2>1 DEF Ask, Good
  <2>3. inv[p].pc \in Plain
    BY <1>3 DEF Ask, At, Plain, Pcs
  <2>4. i \in GoodInvocation
    BY <2>3, ActorType, NoteType
  <2>5. inv' = [inv EXCEPT ![p] = i]
    BY <1>3 DEF Ask
  <2> HIDE DEF i
  <2>6. inv' \in [Procs -> GoodInvocation]
    BY <2>4, <2>5, SetInvType
  <2> QED BY <1>3, <2>2, <2>6 DEF Ask, Good
<1>4. CASE FinishReads(p)
  <2>1. inv' \in [Procs -> GoodInvocation]
    BY <1>4, ActorType, ReadAsStep DEF FinishReads, ReadAs, Plain, Pcs
  <2> QED BY <1>4, <2>1 DEF FinishReads, Good
<1>5. CASE FinishSubmits(p)
  <2>1. inv' \in [Procs -> GoodInvocation]
    BY <1>5, ForgetStep DEF FinishSubmits, LastCalls, Plain, Pcs
  <2>2. row' \in [Tasks -> GoodRow]
    BY <1>5, ActorType, FinishedGood, PutType DEF FinishSubmits
  <2>3. events' \subseteq Events
    BY <1>5, ActorType, EventType, InvokeType DEF FinishSubmits
  <2> QED BY <1>5, <2>1, <2>2, <2>3 DEF FinishSubmits, Good
<1>6. CASE FinishInvokeFails(p)
  <2>1. inv' \in [Procs -> GoodInvocation]
    BY <1>6, ForgetStep DEF FinishInvokeFails, BackToLoop, Plain, Pcs
  <2>2. row' \in [Tasks -> GoodRow]
    BY <1>6, ActorType, FinishedGood, PutType DEF FinishInvokeFails
  <2>3. events' \subseteq Events
    BY <1>6, ActorType, EventType DEF FinishInvokeFails, Good
  <2> QED BY <1>6, <2>1, <2>2, <2>3 DEF FinishInvokeFails, Good
<1>7. CASE FinishBlocked(p)
  <2>1. inv' \in [Procs -> GoodInvocation]
    BY <1>7, ForgetStep DEF FinishBlocked, LastCalls, Plain, Pcs
  <2>2. row' \in [Tasks -> GoodRow]
    BY <1>7, ActorType, FinishedGood, PutType DEF FinishBlocked
  <2> QED BY <1>7, <2>1, <2>2 DEF FinishBlocked, Good
<1> QED BY <1>1, <1>2, <1>3, <1>4, <1>5, <1>6, <1>7 DEF ToolLoop

LEMMA OnStepExceptionStep ==
  ASSUME Good, NEW p \in Procs, OnStepException(p)
  PROVE  Good'
<1>1. CASE LoopErrorOnMovedRow(p)
  BY <1>1, EndType DEF LoopErrorOnMovedRow, Good
<1>2. CASE LoopCreditError(p)
  <2>1. row' \in [Tasks -> GoodRow]
    <3>1. Put(T(p), [ReleaseStepClaim(Now(p), inv[p].want) EXCEPT !.status = "queued"])
      BY <1>2 DEF LoopCreditError, RequeueForBudget, Now
    <3> QED BY <1>2, <3>1, ActorType, RequeueGood, PutType DEF LoopCreditError
  <2>2. spent' \in BOOLEAN
    BY <1>2 DEF LoopCreditError
  <2> QED BY <1>2, <2>1, <2>2, EndType DEF LoopCreditError, Good
<1>3. CASE LoopErrorRetried(p)
  <2>1. row' \in [Tasks -> GoodRow]
    BY <1>3, ActorType, ReleaseGood, PutType DEF LoopErrorRetried
  <2>2. events' \subseteq Events
    BY <1>3, ActorType, EventType, InvokeType DEF LoopErrorRetried
  <2> QED BY <1>3, <2>1, <2>2, EndType DEF LoopErrorRetried, Good
<1>4. CASE LoopErrorFinal(p)
  BY <1>4, ActorType, FailType, PutType, EndType DEF LoopErrorFinal, Good
<1> QED BY <1>1, <1>2, <1>3, <1>4 DEF OnStepException

LEMMA SalvageType ==
  ASSUME Good, NEW t \in Tasks, NEW r \in Row, Salvage(t, r) \/ GiveUp(t, r)
  PROVE  row' \in [Tasks -> GoodRow] /\ events' \subseteq Events
<1>1. CASE GiveUp(t, r)
  BY <1>1, FailType, PutType DEF GiveUp, Good
<1>2. CASE /\ Put(t, [Align(r) EXCEPT !.status = "needs_owner", !.idle = 0])
           /\ UNCHANGED events
  BY <1>2, ParkGood, PutType, "needs_owner" \in Statuses DEF Statuses, Good
<1>3. CASE /\ Put(t, [Align(r) EXCEPT !.status = "review", !.idle = 0])
           /\ Invoke(ReviewEvent(t))
  BY <1>3, ParkGood, PutType, EventType, InvokeType, 0 \in Nat, "review" \in Statuses DEF Statuses
<1> QED BY <1>1, <1>2, <1>3 DEF Salvage

LEMMA ProceedType ==
  ASSUME Good, NEW p \in Procs, NEW r \in GoodRow, Proceed(p, r)
  PROVE  row' \in [Tasks -> GoodRow] /\ events' \subseteq Events
<1>1. CASE Salvage(T(p), r) \/ GiveUp(T(p), r)
  BY <1>1, ActorType, SalvageType DEF GoodRow
<1>2. CASE Put(T(p), r) /\ Invoke(StepEvent(T(p), Seq(p) + 1))
  <2>1. Seq(p) + 1 \in Nat
    BY SteppedType
  <2> QED BY <1>2, <2>1, ActorType, PutType, EventType, InvokeType
<1> QED BY <1>1, <1>2 DEF Proceed

LEMMA CompleteStepStep ==
  ASSUME Good, NEW p \in Procs, CompleteStep(p)
  PROVE  Good'
<1>1. CASE LoopEnds(p)
  <2>1. inv' \in [Procs -> GoodInvocation]
    <3>1. CASE End(p)
      BY <3>1, EndType
    <3>2. CASE ReadAs(p, "complete")
      BY <3>2, ActorType, ReadAsStep DEF ReadAs, Plain, Pcs
    <3> QED BY <1>1, <3>1, <3>2 DEF LoopEnds
  <2> QED BY <1>1, <2>1 DEF LoopEnds, Good
<1>2. CASE ParkWaitingApproval(p)
  <2>1. CASE UNCHANGED row
    BY <1>2, <2>1, EndType DEF ParkWaitingApproval, Good
  <2>2. CASE Put(T(p), [Align(Stepped(p)) EXCEPT !.status = "waiting_approval", !.idle = 0])
    <3>1. "waiting_approval" \in Statuses /\ Stepped(p) \in Row /\ T(p) \in Tasks
      BY SteppedType, ActorType DEF Statuses
    <3>2. row' \in [Tasks -> GoodRow]
      BY <2>2, <3>1, ParkGood, PutType
    <3> QED BY <1>2, <3>2, EndType DEF ParkWaitingApproval, Good
  <2> QED BY <1>2, <2>1, <2>2 DEF ParkWaitingApproval
<1>3. CASE CompleteMovedRow(p)
  <2>1. CASE UNCHANGED row
    BY <1>3, <2>1, EndType DEF CompleteMovedRow, Good
  <2>2. CASE Put(T(p), [Touch(Now(p)) EXCEPT !.step = Stepped(p).step, !.idle = 0,
                                             !.stuckRetried = FALSE])
    <3>1. Now(p) \in Row /\ Stepped(p).step \in Nat /\ T(p) \in Tasks
      BY SteppedType, ActorType
    <3>2. row' \in [Tasks -> GoodRow]
      BY <2>2, <3>1, MovedGood, PutType
    <3> QED BY <1>3, <3>2, EndType DEF CompleteMovedRow, Good
  <2> QED BY <1>3, <2>1, <2>2 DEF CompleteMovedRow
<1>4. CASE CompleteProductive(p)
  <2> DEFINE r == [Stepped(p) EXCEPT !.idle = 0]
  <2>1. r \in GoodRow
    BY SteppedIdle, 0 \in Nat, 0 < MaxIdle
  <2>2. Proceed(p, r)
    BY <1>4 DEF CompleteProductive
  <2> HIDE DEF r
  <2>3. row' \in [Tasks -> GoodRow] /\ events' \subseteq Events
    BY <2>1, <2>2, ProceedType
  <2> QED BY <1>4, <2>3, EndType DEF CompleteProductive, Good
<1>5. CASE CompleteIdle(p)
  <2> DEFINE n == Stepped(p).idle + 1
             r == [Stepped(p) EXCEPT !.idle = n]
  <2>1. n \in Nat
    BY SteppedType, RowFields
  <2>2. \/ Salvage(T(p), r)
        \/ r.idle >= MaxIdle /\ GiveUp(T(p), r)
        \/ r.idle < MaxIdle /\ Proceed(p, r)
    BY <1>5 DEF CompleteIdle
  <2> HIDE DEF n
  <2>3. r \in Row /\ r.idle = n /\ (n < MaxIdle => r \in GoodRow)
    BY <2>1, SteppedIdle
  <2> HIDE DEF r
  <2>4. row' \in [Tasks -> GoodRow] /\ events' \subseteq Events
    BY <2>2, <2>3, ActorType, SalvageType, ProceedType
  <2> QED BY <1>5, <2>4, EndType DEF CompleteIdle, Good
<1> QED BY <1>1, <1>2, <1>3, <1>4, <1>5 DEF CompleteStep

LEMMA ReturnType ==
  ASSUME Good, NEW t \in Tasks, NEW r \in Row, Return(t, r)
  PROVE  row' \in [Tasks -> GoodRow] /\ events' \subseteq Events
<1>1. CASE r.revisions < MaxRevisions
  <2>1. r.step + 1 \in Nat
    BY RowFields
  <2>2. events' \subseteq Events
    BY <1>1, <2>1, EventType, InvokeType DEF Return
  <2>3. row' \in [Tasks -> GoodRow]
    BY <1>1, ReturnGood, PutType DEF Return
  <2> QED BY <2>2, <2>3
<1>2. CASE ~(r.revisions < MaxRevisions)
  BY <1>2, SettleGood, PutType DEF Return, Good
<1> QED BY <1>1, <1>2

LEMMA ReviewStep ==
  ASSUME Good, NEW p \in Procs, Review(p) \/ Owner(p)
  PROVE  Good'
<1>1. CASE ReviewAccepts(p)
  <2>1. row' \in [Tasks -> GoodRow]
    BY <1>1, ActorType, SettleGood, PutType DEF ReviewAccepts
  <2> QED BY <1>1, <2>1, EndType DEF ReviewAccepts, Good
<1>2. CASE ReviewReturns(p)
  <2>1. row' \in [Tasks -> GoodRow] /\ events' \subseteq Events
    BY <1>2, ActorType, ReturnType DEF ReviewReturns
  <2> QED BY <1>2, <2>1, EndType DEF ReviewReturns, Good
<1>3. CASE OwnerAccepts(p)
  <2>1. row' \in [Tasks -> GoodRow]
    BY <1>3, ActorType, SettleGood, PutType DEF OwnerAccepts
  <2> QED BY <1>3, <2>1, EndType DEF OwnerAccepts, Good
<1>4. CASE OwnerReturns(p)
  <2>1. row' \in [Tasks -> GoodRow] /\ events' \subseteq Events
    BY <1>4, ActorType, ReturnType DEF OwnerReturns
  <2> QED BY <1>4, <2>1, EndType DEF OwnerReturns, Good
<1>5. CASE RetryWrites(p)
  <2>1. Snap(p).attempt + 1 \in Nat
    BY ActorType, RowFields
  <2>2. row' \in [Tasks -> GoodRow]
    BY <1>5, <2>1, ActorType, RetryGood, PutType DEF RetryWrites
  <2>3. inv' \in [Procs -> GoodInvocation]
    BY <1>5, DrainingType, SetInvType DEF RetryWrites
  <2> QED BY <1>5, <2>2, <2>3 DEF RetryWrites, Good
<1> QED BY <1>1, <1>2, <1>3, <1>4, <1>5 DEF Review, Owner

LEMMA ResumeType ==
  ASSUME NEW i \in GoodInvocation, NEW r \in GoodRow, r.status = "waiting_approval"
  PROVE  [i EXCEPT !.pc = "resume", !.snap = r] \in GoodInvocation
<1> DEFINE u == [i EXCEPT !.pc = "resume"]
           v == [i EXCEPT !.pc = "resume", !.snap = r]
<1>1. i \in Invocation /\ r \in Row /\ IdleLeft(r)
  BY DEF GoodInvocation, GoodRow
<1>2. u \in Invocation
  BY <1>1, SetPc, "resume" \in Pcs DEF Pcs
<1>3. v = [u EXCEPT !.snap = r] /\ v.pc = "resume" /\ v.snap = r
  BY <1>1 DEF Invocation
<1> HIDE DEF u
<1>4. [u EXCEPT !.snap = r] \in Invocation
  BY <1>1, <1>2, SetSnap
<1> HIDE DEF v
<1>5. v \in GoodInvocation
  BY <1>1, <1>3, <1>4 DEF GoodInvocation
<1> QED BY <1>5 DEF v

LEMMA ResumeStep ==
  ASSUME Good, NEW p \in Procs, Resume(p)
  PROVE  Good'
<1>1. CASE ResumeReads(p)
  <2>1. inv' \in [Procs -> GoodInvocation]
    <3>1. CASE End(p)
      BY <3>1, EndType
    <3>2. CASE Now(p).status = "waiting_approval" /\ ReadAs(p, "resume")
      <4> DEFINE i == [inv[p] EXCEPT !.pc = "resume", !.snap = Now(p)]
      <4>1. i \in GoodInvocation
        BY <3>2, ActorType, ResumeType
      <4>2. inv' = [inv EXCEPT ![p] = i]
        BY <3>2 DEF ReadAs
      <4> HIDE DEF i
      <4> QED BY <4>1, <4>2, SetInvType
    <3> QED BY <1>1, <3>1, <3>2 DEF ResumeReads
  <2> QED BY <1>1, <2>1 DEF ResumeReads, Good
<1>2. CASE StaysParked(p)
  <2>1. row' \in [Tasks -> GoodRow]
    BY <1>2, ActorType, TouchGood, PutType DEF StaysParked
  <2> QED BY <1>2, <2>1, EndType DEF StaysParked, Good
<1>3. CASE Resumes(p)
  <2>1. Snap(p).step + 1 \in Nat
    BY ActorType, RowFields
  <2>2. row' \in [Tasks -> GoodRow]
    <3> DEFINE r == [Align(Snap(p)) EXCEPT !.status = "running"]
    <3>1. r \in GoodRow
      <4>1. Snap(p) \in GoodRow /\ Snap(p).status = "waiting_approval"
        BY <1>3, ActorType DEF Resumes, At, Snap, GoodInvocation
      <4> QED BY <4>1, ResumeGood
    <3>2. Put(T(p), r)
      BY <1>3 DEF Resumes
    <3> HIDE DEF r
    <3> QED BY <3>1, <3>2, ActorType, PutType
  <2>3. events' \subseteq Events
    BY <1>3, <2>1, ActorType, EventType, InvokeType DEF Resumes
  <2> QED BY <1>3, <2>2, <2>3, EndType DEF Resumes, Good
<1> QED BY <1>1, <1>2, <1>3 DEF Resume

LEMMA SweepStep ==
  ASSUME Good, NEW p \in Procs, Sweep(p)
  PROVE  Good'
<1>1. CASE SweepReleases(p)
  <2> DEFINE n == Snap(p).step + 1
             r == NewRow("absent")
             i == [inv[p] EXCEPT !.want = n]
             j == [i EXCEPT !.pc = "sweepRetry", !.snap = r]
             k == [inv[p] EXCEPT !.pc = "sweepRetry", !.want = n, !.snap = r]
  <2>1. n \in Nat
    BY ActorType, RowFields
  <2>2. row' \in [Tasks -> GoodRow]
    <3>1. ReleaseStepClaim(Now(p), n) \in GoodRow
      BY <2>1, ActorType, ReleaseGood
    <3> QED BY <1>1, <3>1, ActorType, PutType DEF SweepReleases
  <2>3. inv[p] \in Invocation /\ inv[p].pc = "sweep" /\ IdleLeft(inv[p].snap)
    BY <1>1, ActorType DEF SweepReleases, At, GoodInvocation
  <2>4. inv' = [inv EXCEPT ![p] = k]
    BY <1>1 DEF SweepReleases
  <2>5. k = j
    BY <2>3 DEF Invocation
  <2>6. r \in GoodRow
    BY NewRowType DEF Statuses
  <2> HIDE DEF n, r, k
  <2>7. i \in Invocation /\ i.pc = "sweep" /\ i.snap = inv[p].snap
    BY <2>1, <2>3, SetWant DEF Invocation
  <2> HIDE DEF i
  <2>8. i \in GoodInvocation
    BY <2>3, <2>7, GoodInvocationIntro DEF Plain, Pcs
  <2>9. j \in GoodInvocation
    BY <2>6, <2>8, ReadAsType DEF Plain, Pcs
  <2> HIDE DEF j
  <2>10. inv' \in [Procs -> GoodInvocation]
    BY <2>4, <2>5, <2>9, SetInvType
  <2> QED BY <1>1, <2>2, <2>10 DEF SweepReleases, Good
<1>2. CASE SweepReinvokes(p)
  <2>1. row' \in [Tasks -> GoodRow]
    BY <1>2, ActorType, RetriedGood, PutType DEF SweepReinvokes
  <2>2. events' \subseteq Events
    BY <1>2, ActorType, EventType, InvokeType DEF SweepReinvokes
  <2> QED BY <1>2, <2>1, <2>2, EndType DEF SweepReinvokes, Good
<1>3. CASE SweepFails(p)
  BY <1>3, ActorType, FailType, PutType, EndType DEF SweepFails, Good
<1>4. CASE SweepReview(p)
  <2>1. row' \in [Tasks -> GoodRow]
    BY <1>4, ActorType, RetriedGood, SettleGood, PutType DEF SweepReview
  <2>2. events' \subseteq Events
    <3>1. CASE UNCHANGED events
      BY <3>1 DEF Good
    <3>2. CASE Invoke(ReviewEvent(T(p)))
      BY <3>2, ActorType, EventType, InvokeType, 0 \in Nat
    <3> QED BY <1>4, <3>1, <3>2 DEF SweepReview
  <2> QED BY <1>4, <2>1, <2>2, EndType DEF SweepReview, Good
<1> QED BY <1>1, <1>2, <1>3, <1>4 DEF Sweep

LEMMA StepReceivedStep ==
  ASSUME Good, NEW p \in Procs, NEW e \in events, StepReceived(p, e)
  PROVE  Good'
<1> DEFINE r == row[e.task]
           i == [Idle EXCEPT !.want = e.seq]
           j == [i EXCEPT !.retried = e.retried]
           k == [j EXCEPT !.task = e.task]
           l == [k EXCEPT !.pc = "claim", !.snap = r]
           m == [Idle EXCEPT !.pc = "claim", !.task = e.task, !.want = e.seq,
                             !.retried = e.retried, !.snap = r]
<1>1. e.task \in Tasks /\ e.seq \in Nat /\ e.retried \in BOOLEAN
  BY DEF Good, Events
<1>2. r \in GoodRow
  BY <1>1 DEF Good
<1>3. Idle \in Invocation /\ IdleLeft(Idle.snap) /\ Idle.pc = "idle"
  BY IdleType DEF GoodInvocation, Idle
<1>4. m = l
  BY <1>3 DEF Invocation
<1>5. inv' = inv \/ inv' = [inv EXCEPT ![p] = m]
  BY DEF StepReceived
<1> HIDE DEF r, m
<1>6. i \in Invocation /\ i.snap = Idle.snap /\ i.pc = "idle"
  BY <1>1, <1>3, SetWant DEF Invocation
<1> HIDE DEF i
<1>7. j \in Invocation /\ j.snap = Idle.snap /\ j.pc = "idle"
  BY <1>1, <1>6, SetRetried DEF Invocation
<1> HIDE DEF j
<1>8. k \in Invocation /\ k.snap = Idle.snap /\ k.pc = "idle"
  BY <1>1, <1>7, SetTask DEF Invocation
<1> HIDE DEF k
<1>9. k \in GoodInvocation
  BY <1>3, <1>8, GoodInvocationIntro DEF Plain, Pcs
<1>10. l \in GoodInvocation
  BY <1>2, <1>9, ReadAsType DEF Plain, Pcs
<1> HIDE DEF l
<1>11. inv' \in [Procs -> GoodInvocation]
  BY <1>4, <1>5, <1>10, SetInvType DEF Good
<1>12. events' \subseteq Events
  BY DEF StepReceived, Consume, Good
<1> QED BY <1>11, <1>12 DEF StepReceived, Good

LEMMA ReviewReceivedStep ==
  ASSUME Good, NEW p \in Procs, NEW e \in events, ReviewReceived(p, e)
  PROVE  Good'
<1> DEFINE i == [Idle EXCEPT !.pc = "judge", !.task = e.task, !.snap = row[e.task]]
<1>1. e.task \in Tasks
  BY DEF Good, Events
<1>2. row[e.task] \in GoodRow
  BY <1>1 DEF Good
<1>3. "judge" \in Plain
  BY DEF Plain, Pcs
<1>4. i \in GoodInvocation
  BY <1>1, <1>2, <1>3, BeginType
<1>5. inv' = inv \/ inv' = [inv EXCEPT ![p] = i]
  BY DEF ReviewReceived
<1> HIDE DEF i
<1>6. inv' \in [Procs -> GoodInvocation]
  BY <1>4, <1>5, SetInvType DEF Good
<1>7. events' \subseteq Events
  BY DEF ReviewReceived, Consume, Good
<1> QED BY <1>6, <1>7 DEF ReviewReceived, Good

LEMMA StartStep ==
  ASSUME Good, NEW p \in Procs, Start(p)
  PROVE  Good'
<1>1. CASE TickDrain(p)
  BY <1>1, DrainingType, SetInvType DEF TickDrain, Good
<1>2. ASSUME NEW t \in Tasks, CreateTask(p, t)
      PROVE  Good'
  <2>1. NewRow("queued") \in GoodRow
    BY NewRowType, "queued" \in Statuses DEF Statuses
  <2>2. row' \in [Tasks -> GoodRow]
    BY <1>2, <2>1, PutType DEF CreateTask
  <2>3. inv' \in [Procs -> GoodInvocation]
    BY <1>2, DrainingType, SetInvType DEF CreateTask
  <2> QED BY <1>2, <2>2, <2>3 DEF CreateTask, Good
<1>3. ASSUME NEW t \in Tasks, OwnerReviewReads(p, t)
      PROVE  Good'
  <2>1. inv' \in [Procs -> GoodInvocation]
    BY <1>3, BeginStep, "ownerJudge" \in Plain DEF OwnerReviewReads, Plain, Pcs
  <2> QED BY <1>3, <2>1 DEF OwnerReviewReads, Good
<1>4. ASSUME NEW t \in Tasks, RetryReads(p, t)
      PROVE  Good'
  <2>1. inv' \in [Procs -> GoodInvocation]
    BY <1>4, BeginStep, "retry" \in Plain DEF RetryReads, Plain, Pcs
  <2> QED BY <1>4, <2>1 DEF RetryReads, Good
<1>5. ASSUME NEW t \in Tasks, Decide(p, t)
      PROVE  Good'
  <2>1. inv' \in [Procs -> GoodInvocation]
    BY <1>5, BeginStep, "decided" \in Plain DEF Decide, Plain, Pcs
  <2>2. pending[t] - 1 \in Nat
    BY <1>5 DEF Decide, Good
  <2>3. pending' \in [Tasks -> Nat]
    BY <1>5, <2>2 DEF Decide, Good
  <2> QED BY <1>5, <2>1, <2>3 DEF Decide, Good
<1>6. ASSUME NEW t \in Tasks, SweepLists(p, t)
      PROVE  Good'
  <2>1. inv' \in [Procs -> GoodInvocation]
    BY <1>6, BeginStep, "sweep" \in Plain DEF SweepLists, Plain, Pcs
  <2> QED BY <1>6, <2>1 DEF SweepLists, Good
<1>7. ASSUME NEW e \in events, Deliver(p, e)
      PROVE  Good'
  BY <1>7, StepReceivedStep, ReviewReceivedStep DEF Deliver
<1> QED BY <1>1, <1>2, <1>3, <1>4, <1>5, <1>6, <1>7 DEF Start

LEMMA EnvironmentStep ==
  ASSUME Good, Environment
  PROVE  Good'
<1>1. CASE BudgetExhausts \/ BudgetResets
  BY <1>1 DEF BudgetExhausts, BudgetResets, Good
<1>2. ASSUME NEW t \in Tasks, CancelTask(t)
      PROVE  Good'
  <2>1. row[t] \in Row
    BY DEF Good, GoodRow
  <2>2. row' \in [Tasks -> GoodRow]
    BY <1>2, <2>1, SettleGood, PutType DEF CancelTask
  <2> QED BY <1>2, <2>2 DEF CancelTask, Good
<1>3. ASSUME NEW t \in Tasks, PastClaimCut(t)
      PROVE  Good'
  <2>1. row[t] \in GoodRow
    BY DEF Good
  <2>2. row' \in [Tasks -> GoodRow]
    BY <1>3, <2>1, AgedGood, PutType DEF PastClaimCut
  <2> QED BY <1>3, <2>2 DEF PastClaimCut, Good
<1>4. ASSUME NEW t \in Tasks, PastStuckCut(t)
      PROVE  Good'
  <2>1. row[t] \in GoodRow
    BY DEF Good
  <2>2. row' \in [Tasks -> GoodRow]
    BY <1>4, <2>1, AgedGood, PutType DEF PastStuckCut
  <2>3. events' \subseteq Events
    BY <1>4 DEF PastStuckCut, Good
  <2> QED BY <1>4, <2>2, <2>3 DEF PastStuckCut, Good
<1>5. ASSUME NEW p \in Procs, Crash(p)
      PROVE  Good'
  BY <1>5, DeadType, SetInvType DEF Crash, Good
<1>6. ASSUME NEW p \in Procs, DeadIsGone(p)
      PROVE  Good'
  BY <1>6, EndType DEF DeadIsGone, Good
<1> QED BY <1>1, <1>2, <1>3, <1>4, <1>5, <1>6 DEF Environment

-----------------------------------------------------------------------------
LEMMA InitGood == Init => Good
<1> SUFFICES ASSUME Init PROVE Good
  OBVIOUS
<1>1. NewRow("absent") \in GoodRow
  BY NewRowType, "absent" \in Statuses DEF Statuses
<1> QED BY <1>1, IdleType DEF Init, Good

LEMMA NextGood == Good /\ [Next]_vars => Good'
<1> SUFFICES ASSUME Good, [Next]_vars PROVE Good'
  OBVIOUS
<1>1. ASSUME NEW p \in Procs, Continue(p)
      PROVE  Good'
  BY <1>1, DrainStep, RunStepStep, ToolLoopStep, OnStepExceptionStep, CompleteStepStep,
     ReviewStep, ResumeStep, SweepStep DEF Continue
<1>2. ASSUME NEW p \in Procs, Start(p)
      PROVE  Good'
  BY <1>2, StartStep
<1>3. CASE Environment
  BY <1>3, EnvironmentStep
<1>4. CASE UNCHANGED vars
  BY <1>4 DEF vars, Good
<1> QED BY <1>1, <1>2, <1>3, <1>4 DEF Next

LEMMA AlwaysGood == Spec => []Good
BY InitGood, NextGood, PTL DEF Spec

(***************************************************************************)
(* Every handler writes well-formed rows, events and invocations, whatever *)
(* the limits, the number of invocations and the faults in env: no release *)
(* takes stepClaimed below zero, no drain counts its slots below zero, and *)
(* revisions never pass maxRevisions.                                      *)
(***************************************************************************)
THEOREM TypeCorrect == Spec => []TypeOK
<1>1. Good => TypeOK
  <2> SUFFICES ASSUME Good PROVE TypeOK
    OBVIOUS
  <2>1. row \in [Tasks -> Row]
    BY DEF Good, GoodRow
  <2>2. inv \in [Procs -> Invocation]
    BY DEF Good, GoodInvocation
  <2> QED BY <2>1, <2>2 DEF Good, TypeOK
<1> QED BY <1>1, AlwaysGood, PTL

(***************************************************************************)
(* maxIdleStepsPerTask holds under every fault the environment can play:   *)
(* no late put of an old snapshot, duplicate delivery, sweep, requeue or   *)
(* resume brings back to work a task that has used up its idle steps.      *)
(***************************************************************************)
THEOREM NeverIdledOut == Spec => []NeverRunsIdledOut
<1>1. Good => NeverRunsIdledOut
  BY DEF Good, GoodRow, NeverRunsIdledOut
<1> QED BY <1>1, AlwaysGood, PTL

-----------------------------------------------------------------------------
(***************************************************************************)
(* The second invariant: who may write a task.                             *)
(*                                                                         *)
(* An invocation holds a task while it works on a step of it, judges it,   *)
(* retries it, resumes it or sweeps it; everybody else only claims, lists  *)
(* or waits.  In the environments below a task has one holder, and what    *)
(* the holder read is still what is stored.  Two reasons keep it so.       *)
(*                                                                         *)
(* Lossy: every event is delivered once at most.  Then the step event, the *)
(* invocation about to claim and the holder are one token that is handed   *)
(* on; where two drains have made two of it, stepClaimed says that step 1  *)
(* is taken, and both are refused.                                         *)
(*                                                                         *)
(* Repeating: events are delivered again and again, but nothing makes a    *)
(* step claimable again: no budget puts the task back in the queue, nobody *)
(* returns or retries it.  Then the claim alone refuses the others.        *)
(*                                                                         *)
(* A sweep is safe because a row that looks stuck has no live invocation   *)
(* but readers, no event, and is in no drain's list.                       *)
(***************************************************************************)
Lossy == {"loss", "crash", "error", "tick", "drain", "budget", "approval", "review", "retry", "cancel"}
Repeating == {"duplicate", "loss", "crash", "error", "tick", "drain", "approval", "cancel"}

Once(e) == e \subseteq Lossy
Orderly == Once(env) \/ env \subseteq Repeating

Sweeping == {"sweep", "sweepRetry"}
Holding  == Working \cup Sweeping \cup {"judge", "retry", "resume"}

Holds(i, t)   == i.task = t /\ i.pc \in Holding
Claims(i, t)  == i.task = t /\ i.pc = "claim"
Sweeps(i, t)  == i.task = t /\ i.pc \in Sweeping
Decides(i, t) == i.task = t /\ i.pc \in {"decided", "resume"}

Waking(e, t) == e.task = t /\ e.kind = "step"

-----------------------------------------------------------------------------
(* What an invocation i and the row r of its task have to do with each other, in environment e. *)

AtWork(i, r) == /\ r.status \in {"running", "cancelled"}
                /\ i.want = r.step + 1
                /\ r.claimed = i.want

Same(i, r) == i.snap.step = r.step /\ i.snap.attempt = r.attempt

Kept(i, r) == r.status \in {i.snap.status, "cancelled"}

Recorded(i, r) == r.step = i.want /\ r.status \in {"review", "needs_owner", "cancelled"}

(* What a worker has read: its own claim is fresh. *)
Reads(i) == i.snap.status = "running" /\ AtWork(i, i.snap) /\ i.snap.claimedAt # "stale"

(* Two judges at once are possible where events repeat; they only settle a task. *)
Judged(e) == IF Once(e) THEN {"review", "cancelled"} ELSE {"review", "delivered", "needs_owner", "cancelled"}

Completes(i, r) ==
  \/ Reads(i) /\ AtWork(i, r)
  \/ i.snap.status \in {"review", "needs_owner"} /\ Recorded(i, r) /\ Kept(i, r)

Fits(e, i, r) ==
  /\ i.pc \in {"claim", "check"} =>
       /\ i.snap.status = "running"
       /\ i.want = i.snap.step + 1
       /\ Once(e) => Same(i, r)
  /\ i.pc \in {"check", "loop", "note", "finish"} => AtWork(i, r)
  /\ i.pc \in {"note", "finish"} => Reads(i)
  /\ i.pc = "finished"   => Recorded(i, r)
  /\ i.pc = "complete"   => Completes(i, r)
  /\ i.pc = "judge"      => i.snap.status = "review" /\ r.status \in Judged(e)
  /\ i.pc = "retry"      => i.snap.status \in {"failed", "needs_owner"} /\ Kept(i, r)
  /\ i.pc = "resume"     => i.snap.status = "waiting_approval" /\ Kept(i, r)
  /\ i.pc = "sweep"      => i.snap.status \in {"running", "review"} /\ Kept(i, r)
  /\ i.pc = "sweepRetry" => r.status \in {"running", "cancelled"}
  /\ i.pc \in {"note", "finish", "complete", "judge", "retry", "resume", "sweep"} => Same(i, r)

(* NextStepClaimable of one row, stored or held. *)
Tame(r) ==
  /\ r.claimed <= r.step + 1
  /\ r.status \in {"queued", "waiting_approval", "review"} => r.claimed <= r.step

(* A claim grows old with its row: a running row that was just put has no stale one. *)
Fresh(r) ==
  /\ r.status = "queued" => r.claimedAt = "none"
  /\ r.status = "running" /\ r.updated = 0 => r.claimedAt # "stale"

-----------------------------------------------------------------------------
(* The parts of the invariant, for one task. *)

Fitting(t) == \A p \in Procs : inv[p].task = t => Fits(env, inv[p], row[t])

OneHolder(t) ==
  \A p, q \in Procs : p # q /\ Holds(inv[p], t) /\ Holds(inv[q], t)
    => ~Once(env) /\ inv[p].pc = "judge" /\ inv[q].pc = "judge"

OneDecider(t) == \A p, q \in Procs : Decides(inv[p], t) /\ Decides(inv[q], t) => p = q

(* A row past the claim cut has readers only, and past the stuck cut no judge. *)
Aged(t) == row[t].updated # 0 =>
  /\ \A e \in events : e.task # t
  /\ \A p \in Procs : inv[p].task = t => inv[p].pc \notin Working \cup {"claim", "sweepRetry"}
  /\ row[t].status # "queued" => \A p \in Procs : t \notin inv[p].queue
  /\ row[t].updated = 2 => \A p \in Procs : inv[p].task = t => inv[p].pc # "judge"

SweptAlone(t) == \A p \in Procs : Sweeps(inv[p], t) =>
  /\ \A e \in events : e.task # t
  /\ \A q \in Procs : ~Claims(inv[q], t) /\ t \notin inv[q].queue

NoToken(t) == /\ \A e \in events : ~Waking(e, t)
              /\ \A p \in Procs : ~Claims(inv[p], t)

OneToken(t) ==
  /\ \A d, e \in events : Waking(d, t) /\ Waking(e, t) => d = e
  /\ \A p, q \in Procs : Claims(inv[p], t) /\ Claims(inv[q], t) => p = q
  /\ \A p \in Procs, e \in events : ~(Claims(inv[p], t) /\ Waking(e, t))

Unstarted(t) == row[t].status \in {"absent", "queued"} =>
  NoToken(t) /\ \A p \in Procs : ~Holds(inv[p], t)

HandedOn(t) == Once(env) =>
  /\ row[t].status \notin {"running", "cancelled"} => NoToken(t)
  /\ (\E p \in Procs : Holds(inv[p], t)) => NoToken(t)
  /\ OneToken(t) \/ (row[t].step = 0 /\ row[t].claimed # 0)

JudgedOnce(t) == Once(env) =>
  \A p \in Procs : inv[p].task = t /\ inv[p].pc = "judge" => \A e \in events : e.task = t => e.kind # "review"

Calm(t) ==
  /\ Tame(row[t]) /\ Fresh(row[t]) /\ Fitting(t) /\ OneHolder(t) /\ OneDecider(t) /\ Aged(t) /\ SweptAlone(t)
  /\ Unstarted(t) /\ HandedOn(t) /\ JudgedOnce(t)

(* What holds of the whole state: what env rules out does not occur. *)
Possible ==
  /\ \A p \in Procs : inv[p].pc \notin {"ownerJudge", "drainUndo"}
  /\ "retry" \notin env => \A p \in Procs : inv[p].pc # "retry"
  /\ "budget" \notin env => ~spent
  /\ "cancel" \notin env => \A t \in Tasks : row[t].status # "cancelled"
  /\ \A t \in Tasks : row[t].status = "absent" => row[t].step = 0 /\ row[t].attempt = 1
  /\ \A p \in Procs : Tame(inv[p].snap)
  /\ \A e \in events : e.kind = "review" => e = ReviewEvent(e.task)
  /\ \A p \in Procs : inv[p].pc # "drain" => inv[p].queue = {}

IInv == Good /\ (Orderly => Possible /\ \A t \in Tasks : Calm(t))

-----------------------------------------------------------------------------
(* What the handlers put, as far as the invariant looks at it: a fresh row. *)

Says(r, status, step, claimed, at, attempt) ==
  /\ r.status = status /\ r.step = step /\ r.claimed = claimed /\ r.claimedAt = at
  /\ r.attempt = attempt /\ r.updated = 0

LEMMA TouchSays ==
  ASSUME NEW r \in Row
  PROVE  Touch(r) \in Row /\ Says(Touch(r), r.status, r.step, r.claimed, r.claimedAt, r.attempt)
BY DEF Touch, Row, Says

LEMMA StatusSays ==
  ASSUME NEW r \in Row, NEW x \in Statuses
  PROVE  Says([Touch(r) EXCEPT !.status = x], x, r.step, r.claimed, r.claimedAt, r.attempt)
BY DEF Touch, Row, Says

LEMMA FailSays ==
  ASSUME NEW r \in Row
  PROVE  Says(Fail(r), "failed", r.step, r.claimed, r.claimedAt, r.attempt)
BY DEF Fail, Touch, Row, Says

LEMMA ClaimSays ==
  ASSUME NEW r \in Row, NEW n \in Nat
  PROVE  Says([Touch(r) EXCEPT !.claimed = n, !.claimedAt = "fresh"], r.status, r.step, n, "fresh", r.attempt)
BY DEF Touch, Row, Says

LEMMA UnclaimedSays ==
  ASSUME NEW r \in Row
  PROVE  Unclaimed(r) \in Row /\ Says(Unclaimed(r), r.status, r.step, r.claimed, "none", r.attempt)
BY UnclaimedType DEF Unclaimed, Row, Says

LEMMA AlignSays ==
  ASSUME NEW r \in Row
  PROVE  Align(r) \in Row /\ Says(Align(r), r.status, r.step, r.step, "none", r.attempt)
<1> DEFINE s == Unclaimed(r)
<1>1. s \in Row /\ Says(s, r.status, r.step, r.claimed, "none", r.attempt)
  BY UnclaimedSays
<1>2. Align(r) = [s EXCEPT !.claimed = r.step]
  BY DEF Align
<1>3. Align(r) \in Row
  BY AlignType
<1> HIDE DEF s
<1> QED BY <1>1, <1>2, <1>3 DEF Row, Says

LEMMA ReleaseSays ==
  ASSUME NEW r \in Row, NEW n \in Nat
  PROVE  /\ ReleaseStepClaim(r, n + 1) \in Row
         /\ Says(ReleaseStepClaim(r, n + 1), r.status, r.step, n, "none", r.attempt)
<1> DEFINE s == Unclaimed(r)
<1>1. s \in Row /\ Says(s, r.status, r.step, r.claimed, "none", r.attempt)
  BY UnclaimedSays
<1>2. Max0(n + 1 - 1) = n
  BY DEF Max0
<1>3. ReleaseStepClaim(r, n + 1) = [s EXCEPT !.claimed = n]
  BY <1>2 DEF ReleaseStepClaim
<1>4. ReleaseStepClaim(r, n + 1) \in Row
  BY ReleaseType
<1> HIDE DEF s
<1> QED BY <1>1, <1>3, <1>4 DEF Row, Says

LEMMA RequeueSays ==
  ASSUME NEW r \in Row, NEW n \in Nat
  PROVE  Says([ReleaseStepClaim(r, n + 1) EXCEPT !.status = "queued"], "queued", r.step, n, "none", r.attempt)
<1> DEFINE s == ReleaseStepClaim(r, n + 1)
<1>1. s \in Row /\ Says(s, r.status, r.step, n, "none", r.attempt)
  BY ReleaseSays
<1> HIDE DEF s
<1>2. Says([s EXCEPT !.status = "queued"], "queued", r.step, n, "none", r.attempt)
  BY <1>1 DEF Row, Says
<1> QED BY <1>2 DEF s

LEMMA FinishedSays ==
  ASSUME NEW r \in Row, NEW x \in Statuses
  PROVE  Says(Finished(r, x), x, r.step + 1, r.step + 1, "none", r.attempt)
<1> DEFINE s == [r EXCEPT !.step = r.step + 1, !.idle = 0]
<1>1. s \in Row /\ s.step = r.step + 1 /\ s.attempt = r.attempt
  <2>1. r.step + 1 \in Nat
    BY RowFields
  <2> QED BY <2>1 DEF Row
<1>2. Finished(r, x) = [Align(s) EXCEPT !.status = x]
  BY DEF Finished, Row
<1> HIDE DEF s
<1>3. Align(s) \in Row /\ Says(Align(s), s.status, s.step, s.step, "none", s.attempt)
  BY <1>1, AlignSays
<1>4. Says([Align(s) EXCEPT !.status = x], x, s.step, s.step, "none", s.attempt)
  BY <1>3 DEF Row, Says
<1> QED BY <1>1, <1>2, <1>4 DEF Says

LEMMA ParkSays ==
  ASSUME NEW r \in Row, NEW x \in Statuses
  PROVE  Says([Align(r) EXCEPT !.status = x, !.idle = 0], x, r.step, r.step, "none", r.attempt)
BY AlignSays DEF Row, Says

LEMMA ResumeSays ==
  ASSUME NEW r \in Row, NEW x \in Statuses
  PROVE  Says([Align(r) EXCEPT !.status = x], x, r.step, r.step, "none", r.attempt)
BY AlignSays DEF Row, Says

LEMMA ReturnSays ==
  ASSUME NEW r \in Row, NEW x \in Statuses
  PROVE  Says([Align(r) EXCEPT !.status = x, !.revisions = @ + 1, !.idle = 0], x, r.step, r.step, "none", r.attempt)
<1> DEFINE s == Align(r)
<1>1. s \in Row /\ Says(s, r.status, r.step, r.step, "none", r.attempt)
  BY AlignSays
<1> HIDE DEF s
<1>2. Says([s EXCEPT !.status = x, !.revisions = @ + 1, !.idle = 0], x, r.step, r.step, "none", r.attempt)
  BY <1>1 DEF Row, Says
<1> QED BY <1>2 DEF s

LEMMA MovedSays ==
  ASSUME NEW r \in Row, NEW n \in Nat
  PROVE  Says([Touch(r) EXCEPT !.step = n, !.idle = 0, !.stuckRetried = FALSE], r.status, n, r.claimed, r.claimedAt, r.attempt)
BY TouchSays DEF Row, Says

LEMMA RetrySays ==
  ASSUME NEW n \in Nat
  PROVE  Says([NewRow("queued") EXCEPT !.attempt = n], "queued", 0, 0, "none", n)
BY DEF NewRow, Says

LEMMA RetriedSays ==
  ASSUME NEW r \in Row
  PROVE  /\ Says([Touch(r) EXCEPT !.stuckRetried = TRUE], r.status, r.step, r.claimed, r.claimedAt, r.attempt)
         /\ Says([Touch(r) EXCEPT !.reviewRetried = TRUE], r.status, r.step, r.claimed, r.claimedAt, r.attempt)
<1> DEFINE s == Touch(r)
<1>1. s \in Row /\ Says(s, r.status, r.step, r.claimed, r.claimedAt, r.attempt)
  BY TouchSays
<1> HIDE DEF s
<1>2. Says([s EXCEPT !.stuckRetried = TRUE], r.status, r.step, r.claimed, r.claimedAt, r.attempt)
  BY <1>1 DEF Row, Says
<1>3. Says([s EXCEPT !.reviewRetried = TRUE], r.status, r.step, r.claimed, r.claimedAt, r.attempt)
  BY <1>1 DEF Row, Says
<1> QED BY <1>2, <1>3 DEF s

(* A step of p records one more, unless its row did already. *)
LEMMA SteppedSays ==
  ASSUME Good, NEW p \in Procs, NEW n \in Nat,
         n = IF Snap(p).step >= inv[p].want THEN Snap(p).step ELSE Snap(p).step + 1
  PROVE  /\ Stepped(p) \in Row
         /\ Says(Stepped(p), Snap(p).status, n, Snap(p).claimed, Snap(p).claimedAt, Snap(p).attempt)
<1> DEFINE s == Touch(Snap(p))
<1>1. Snap(p) \in Row /\ Snap(p).step \in Nat
  BY ActorType, RowFields
<1>2. s \in Row /\ Says(s, Snap(p).status, Snap(p).step, Snap(p).claimed, Snap(p).claimedAt, Snap(p).attempt)
  BY <1>1, TouchSays
<1>3. Stepped(p) = [s EXCEPT !.step = n, !.stuckRetried = FALSE]
  BY DEF Stepped
<1> HIDE DEF s
<1>4. [s EXCEPT !.step = n, !.stuckRetried = FALSE] \in Row
  BY <1>2 DEF Row
<1>5. Says([s EXCEPT !.step = n, !.stuckRetried = FALSE], Snap(p).status, n, Snap(p).claimed, Snap(p).claimedAt, Snap(p).attempt)
  BY <1>2 DEF Row, Says
<1> QED BY <1>3, <1>4, <1>5

LEMMA IdleSays ==
  ASSUME NEW r \in Row, NEW n \in Nat
  PROVE  /\ [r EXCEPT !.idle = n] \in Row
         /\ [r EXCEPT !.idle = n].status = r.status
         /\ [r EXCEPT !.idle = n].step = r.step
         /\ [r EXCEPT !.idle = n].claimed = r.claimed
         /\ [r EXCEPT !.idle = n].claimedAt = r.claimedAt
         /\ [r EXCEPT !.idle = n].attempt = r.attempt
         /\ [r EXCEPT !.idle = n].updated = r.updated
BY DEF Row

-----------------------------------------------------------------------------
(* Invocations that are on no task. *)
Resting == {"idle", "dead", "drainList", "drain"}

OffTask(i, t) == i.pc \in Resting \/ i.task # t

(***************************************************************************)
(* A task whose row stays and that gets no event is as calm as before when *)
(* one invocation has left it or looks at an approval's end, whatever it   *)
(* does elsewhere.                                                         *)
(***************************************************************************)
LEMMA Still ==
  ASSUME NEW t \in Tasks, NEW p \in Procs, Calm(t),
         env' = env, row'[t] = row[t],
         \A q \in Procs \ {p} : inv'[q] = inv[q],
         \A d \in events' : d.task = t => d \in events,
         \/ OffTask(inv'[p], t)
         \/ inv'[p].pc = "decided" /\ \A q \in Procs : ~Decides(inv[q], t),
         t \in inv'[p].queue => t \in inv[p].queue \/ row[t].status = "queued"
  PROVE  Calm(t)'
<1> USE DEF Calm
<1>1. /\ ~Holds(inv'[p], t) /\ ~Claims(inv'[p], t) /\ ~Sweeps(inv'[p], t)
      /\ inv'[p].task = t => inv'[p].pc \in Resting \cup {"decided"}
      /\ Decides(inv'[p], t) => \A q \in Procs : ~Decides(inv[q], t)
  BY DEF OffTask, Resting, Holds, Claims, Sweeps, Decides, Holding, Working, Sweeping
<1>2. Tame(row[t])' /\ Fresh(row[t])'
  OBVIOUS
<1>3. Fitting(t)'
  <2>1. inv'[p].task = t => Fits(env', inv'[p], row'[t])
    BY <1>1 DEF Resting, Fits
  <2> QED BY <2>1 DEF Fitting
<1>4. OneHolder(t)'
  BY <1>1 DEF OneHolder
<1>5. OneDecider(t)'
  BY <1>1 DEF OneDecider
<1>6. Aged(t)'
  <2> SUFFICES ASSUME row'[t].updated # 0 PROVE Aged(t)'
    BY DEF Aged
  <2>1. \A e \in events' : e.task # t
    BY DEF Aged
  <2>2. \A q \in Procs : inv'[q].task = t => inv'[q].pc \notin Working \cup {"claim", "sweepRetry"}
    BY <1>1 DEF Aged, Resting, Working
  <2>3. row'[t].status # "queued" => \A q \in Procs : t \notin inv'[q].queue
    BY DEF Aged
  <2>4. row'[t].updated = 2 => \A q \in Procs : inv'[q].task = t => inv'[q].pc # "judge"
    BY <1>1 DEF Aged, Resting
  <2> QED BY <2>1, <2>2, <2>3, <2>4 DEF Aged
<1>7. SweptAlone(t)'
  <2> SUFFICES ASSUME NEW q \in Procs, Sweeps(inv'[q], t)
               PROVE  /\ \A e \in events' : e.task # t
                      /\ \A o \in Procs : ~Claims(inv'[o], t) /\ t \notin inv'[o].queue
    BY DEF SweptAlone
  <2>1. q # p /\ inv'[q] = inv[q]
    BY <1>1
  <2>2. /\ \A e \in events : e.task # t
        /\ \A o \in Procs : ~Claims(inv[o], t) /\ t \notin inv[o].queue
    BY <2>1 DEF SweptAlone
  <2>3. row[t].status # "queued"
    BY <2>1 DEF Fitting, Fits, Sweeps, Sweeping, Kept
  <2> QED BY <1>1, <2>2, <2>3
<1>8. NoToken(t) => NoToken(t)'
  BY <1>1 DEF NoToken, Waking
<1>9. Unstarted(t)'
  BY <1>1, <1>8 DEF Unstarted
<1>10. HandedOn(t)'
  <2>1. OneToken(t) => OneToken(t)'
    BY <1>1 DEF OneToken, Waking
  <2> QED BY <1>1, <1>8, <2>1 DEF HandedOn
<1>11. JudgedOnce(t)'
  BY <1>1 DEF JudgedOnce, Resting
<1> QED BY <1>2, <1>3, <1>4, <1>5, <1>6, <1>7, <1>9, <1>10, <1>11

(* The pcs of an invocation that neither claims nor holds a task ask nothing of its row. *)
LEMMA FitsIdly ==
  ASSUME NEW i, NEW r, NEW t, i.task = t, ~Holds(i, t), ~Claims(i, t)
  PROVE  Fits(env, i, r)
BY DEF Holds, Claims, Holding, Working, Sweeping, Fits

(* Where events repeat, a claim asks nothing of the row it has not claimed yet. *)
LEMMA ClaimFits ==
  ASSUME NEW i, NEW r, NEW s, i.pc = "claim", Fits(env, i, r),
         Once(env) => s.step = r.step /\ s.attempt = r.attempt
  PROVE  Fits(env, i, s)
BY DEF Fits, Same

(***************************************************************************)
(* A holder puts the row and is gone, perhaps with one event sent.         *)
(***************************************************************************)
LEMMA Leaves ==
  ASSUME NEW t \in Tasks, NEW p \in Procs, Calm(t), Holds(inv[p], t),
         env' = env, \A q \in Procs \ {p} : inv'[q] = inv[q],
         inv'[p].pc \in Resting,
         NEW e, e.kind = "step" => row'[t].status \in {"running", "cancelled"},
         \A d \in events' : d.task = t => d \in events \/ d = e,
         row'[t].updated = 0, Tame(row'[t]), Fresh(row'[t]), row'[t].status # "absent",
         row'[t].status = "queued" => Once(env) /\ e.kind # "step",
         inv[p].pc = "judge" =>
           \/ Once(env)
           \/ /\ row'[t].status \in {"review", "delivered", "needs_owner", "cancelled"}
              /\ row'[t].step = row[t].step /\ row'[t].attempt = row[t].attempt
  PROVE  Calm(t)'
<1> USE DEF Calm
<1>1. /\ ~Holds(inv'[p], t) /\ ~Claims(inv'[p], t) /\ ~Sweeps(inv'[p], t) /\ ~Decides(inv'[p], t)
      /\ inv'[p].task = t => inv'[p].pc # "judge"
  BY DEF Resting, Holds, Claims, Sweeps, Decides, Holding, Working, Sweeping
<1>2. \A q \in Procs \ {p} : Holds(inv[q], t) => ~Once(env) /\ inv[q].pc = "judge" /\ inv[p].pc = "judge"
  BY DEF OneHolder
<1>3. Once(env) => NoToken(t)
  BY DEF HandedOn
<1>4. Fitting(t)'
  <2> SUFFICES ASSUME NEW q \in Procs, inv'[q].task = t
               PROVE  Fits(env, inv'[q], row'[t])
    BY DEF Fitting
  <2>1. CASE q = p
    BY <1>1, <2>1, FitsIdly
  <2>2. CASE q # p /\ Holds(inv[q], t)
    <3>1. Fits(env, inv[q], row[t]) /\ inv[q].pc = "judge" /\ ~Once(env)
      BY <1>2, <2>2 DEF Fitting, Holds
    <3>2. Fits(env, inv[q], row'[t])
      BY <1>2, <2>2, <3>1 DEF Fits, Judged, Same
    <3> QED BY <2>2, <3>2
  <2>3. CASE q # p /\ Claims(inv[q], t)
    <3>1. Fits(env, inv[q], row[t]) /\ inv[q].pc = "claim" /\ ~Once(env)
      BY <1>3, <2>3 DEF Fitting, Claims, NoToken
    <3> QED BY <2>3, <3>1, ClaimFits
  <2>4. CASE q # p /\ ~Holds(inv[q], t) /\ ~Claims(inv[q], t)
    BY <2>4, FitsIdly
  <2> QED BY <2>1, <2>2, <2>3, <2>4
<1>5. OneHolder(t)'
  BY <1>1 DEF OneHolder
<1>6. OneDecider(t)'
  BY <1>1 DEF OneDecider
<1>7. Aged(t)'
  BY DEF Aged
<1>8. SweptAlone(t)'
  <2>1. \A q \in Procs : ~Sweeps(inv'[q], t)
    BY <1>1, <1>2 DEF Sweeps, Holds, Holding, Sweeping
  <2> QED BY <2>1 DEF SweptAlone
<1>9. Once(env) /\ e.kind # "step" => NoToken(t)'
  BY <1>1, <1>3 DEF NoToken, Waking
<1>10. Once(env) => \A q \in Procs : ~Holds(inv'[q], t)
  BY <1>1, <1>2
<1>11. Unstarted(t)'
  BY <1>9, <1>10 DEF Unstarted
<1>12. HandedOn(t)'
  <2> SUFFICES ASSUME Once(env)
               PROVE  /\ row'[t].status \notin {"running", "cancelled"} => NoToken(t)'
                      /\ OneToken(t)'
    BY <1>10 DEF HandedOn
  <2>1. OneToken(t)'
    BY <1>1, <1>3 DEF NoToken, OneToken, Waking
  <2> QED BY <1>9, <2>1
<1>13. JudgedOnce(t)'
  BY <1>1, <1>2 DEF JudgedOnce, Holds, Holding
<1> QED BY <1>4, <1>5, <1>6, <1>7, <1>8, <1>11, <1>12, <1>13

(***************************************************************************)
(* A holder goes on, perhaps with the row put and a review invoked.        *)
(***************************************************************************)
LEMMA Stays ==
  ASSUME NEW t \in Tasks, NEW p \in Procs, Calm(t), Holds(inv[p], t), inv[p].pc # "judge",
         env' = env, \A q \in Procs \ {p} : inv'[q] = inv[q],
         inv'[p].task = t, inv'[p].queue = inv[p].queue,
         \/ inv'[p].pc \in Working
         \/ /\ inv'[p].pc = "sweepRetry" /\ inv[p].pc = "sweep"
            /\ \A d \in events' : d.task = t => d \in events,
         NEW e, e.kind # "step",
         \A d \in events' : d.task = t => d \in events \/ d = e,
         row'[t].updated = 0, Tame(row'[t]), Fresh(row'[t]), row'[t].status \notin {"absent", "queued"},
         Fits(env, inv'[p], row'[t])
  PROVE  Calm(t)'
<1> USE DEF Calm
<1>1. /\ Holds(inv'[p], t) /\ ~Claims(inv'[p], t) /\ ~Decides(inv'[p], t)
      /\ inv'[p].pc # "judge"
  BY DEF Holds, Claims, Decides, Holding, Working, Sweeping
<1>2. \A q \in Procs \ {p} : ~Holds(inv[q], t)
  BY DEF OneHolder
<1>3. Once(env) => NoToken(t)
  BY DEF HandedOn
<1>4. Fitting(t)'
  <2> SUFFICES ASSUME NEW q \in Procs \ {p}, inv'[q].task = t
               PROVE  Fits(env, inv'[q], row'[t])
    BY DEF Fitting
  <2>1. CASE Claims(inv[q], t)
    <3>1. Fits(env, inv[q], row[t]) /\ inv[q].pc = "claim" /\ ~Once(env)
      BY <1>3, <2>1 DEF Fitting, Claims, NoToken
    <3> QED BY <3>1, ClaimFits
  <2>2. CASE ~Claims(inv[q], t)
    BY <1>2, <2>2, FitsIdly
  <2> QED BY <2>1, <2>2
<1>5. OneHolder(t)'
  BY <1>2 DEF OneHolder
<1>6. OneDecider(t)'
  BY <1>1 DEF OneDecider
<1>7. Aged(t)'
  BY DEF Aged
<1>8. SweptAlone(t)'
  <2>1. \A q \in Procs \ {p} : ~Sweeps(inv'[q], t)
    BY <1>2 DEF Sweeps, Holds, Holding, Sweeping
  <2>2. CASE inv'[p].pc \in Working
    BY <2>1, <2>2 DEF SweptAlone, Sweeps, Sweeping, Working
  <2>3. CASE inv[p].pc = "sweep" /\ \A d \in events' : d.task = t => d \in events
    <3>1. Sweeps(inv[p], t)
      BY <2>3 DEF Sweeps, Holds, Sweeping
    <3>2. /\ \A d \in events : d.task # t
          /\ \A q \in Procs : ~Claims(inv[q], t) /\ t \notin inv[q].queue
      BY <3>1 DEF SweptAlone
    <3> QED BY <1>1, <2>1, <2>3, <3>2 DEF SweptAlone
  <2> QED BY <2>2, <2>3
<1>9. Unstarted(t)'
  BY DEF Unstarted
<1>10. HandedOn(t)'
  <2> SUFFICES ASSUME Once(env)
               PROVE  NoToken(t)' /\ OneToken(t)'
    BY DEF HandedOn
  <2> QED BY <1>1, <1>3 DEF NoToken, OneToken, Waking
<1>11. JudgedOnce(t)'
  BY <1>1, <1>2 DEF JudgedOnce, Holds, Holding
<1> QED BY <1>4, <1>5, <1>6, <1>7, <1>8, <1>9, <1>10, <1>11

(***************************************************************************)
(* An invocation reads a row nobody holds and becomes its holder.          *)
(***************************************************************************)
LEMMA Enters ==
  ASSUME NEW t \in Tasks, NEW p \in Procs, Calm(t),
         env' = env, row'[t] = row[t], \A q \in Procs \ {p} : inv'[q] = inv[q],
         \A d \in events' : d.task = t => d \in events,
         inv'[p].task = t, inv'[p].pc \in {"judge", "retry", "resume", "sweep"}, inv'[p].queue = {},
         row[t].status \notin {"absent", "queued"},
         Fits(env, inv'[p], row[t]),
         \A q \in Procs : Holds(inv[q], t) =>
           ~Once(env) /\ inv[q].pc = "judge" /\ inv'[p].pc = "judge",
         Once(env) => NoToken(t),
         inv'[p].pc = "judge" =>
           /\ row[t].updated = 0
           /\ Once(env) => \A d \in events' : d.task = t => d.kind # "review",
         inv'[p].pc = "resume" => inv[p].pc = "decided" /\ inv[p].task = t,
         inv'[p].pc = "sweep" =>
           /\ \A d \in events : d.task # t
           /\ \A q \in Procs : ~Claims(inv[q], t) /\ t \notin inv[q].queue
  PROVE  Calm(t)'
<1> USE DEF Calm
<1>1. /\ Holds(inv'[p], t) /\ ~Claims(inv'[p], t)
      /\ inv'[p].pc \notin Working \cup {"claim", "sweepRetry"}
  BY DEF Holds, Claims, Holding, Working, Sweeping
<1>2. Tame(row[t])' /\ Fresh(row[t])' /\ Unstarted(t)'
  BY DEF Unstarted
<1>3. Fitting(t)'
  BY DEF Fitting
<1>4. OneHolder(t)'
  BY DEF OneHolder
<1>5. OneDecider(t)'
  <2>1. Decides(inv'[p], t) => Decides(inv[p], t)
    BY DEF Decides
  <2> QED BY <2>1 DEF OneDecider
<1>6. Aged(t)'
  <2> SUFFICES ASSUME row[t].updated # 0 PROVE Aged(t)'
    BY DEF Aged
  <2>1. \A d \in events' : d.task # t
    BY DEF Aged
  <2>2. \A q \in Procs : inv'[q].task = t => inv'[q].pc \notin Working \cup {"claim", "sweepRetry"}
    BY <1>1 DEF Aged
  <2>3. row'[t].status # "queued" => \A q \in Procs : t \notin inv'[q].queue
    BY DEF Aged
  <2>4. row'[t].updated = 2 => \A q \in Procs : inv'[q].task = t => inv'[q].pc # "judge"
    BY DEF Aged
  <2> QED BY <2>1, <2>2, <2>3, <2>4 DEF Aged
<1>7. SweptAlone(t)'
  <2>1. \A q \in Procs \ {p} : ~Sweeps(inv'[q], t)
    BY DEF Sweeps, Holds, Holding, Sweeping
  <2>2. Sweeps(inv'[p], t) => inv'[p].pc = "sweep"
    BY DEF Sweeps, Sweeping
  <2> QED BY <1>1, <2>1, <2>2 DEF SweptAlone
<1>8. NoToken(t) => NoToken(t)' /\ OneToken(t)'
  BY <1>1 DEF NoToken, OneToken, Waking
<1>9. HandedOn(t)'
  BY <1>8 DEF HandedOn
<1>10. JudgedOnce(t)'
  BY DEF JudgedOnce, Holds, Holding
<1> QED BY <1>2, <1>3, <1>4, <1>5, <1>6, <1>7, <1>9, <1>10

(***************************************************************************)
(* Who finds a step claimable, and is not about to be swept, finds the     *)
(* task without a holder.                                                  *)
(***************************************************************************)
LEMMA ClaimableUnheld ==
  ASSUME NEW t \in Tasks, Calm(t), row[t] \in Row, NEW n \in Nat,
         CanPromote(row[t], n) \/ CanClaim(row[t], n),
         \A q \in Procs : ~Sweeps(inv[q], t)
  PROVE  \A q \in Procs : ~Holds(inv[q], t)
<1>1. CASE CanPromote(row[t], n)
  BY <1>1 DEF CanPromote, Calm, Unstarted
<1>2. CASE CanClaim(row[t], n)
  <2> SUFFICES ASSUME NEW q \in Procs, Holds(inv[q], t) PROVE FALSE
    OBVIOUS
  <2>1. Fits(env, inv[q], row[t])
    BY DEF Calm, Fitting, Holds
  <2>2. row[t].status = "running" /\ row[t].step = n /\ row[t].claimed < n + 1
    BY <1>2 DEF CanClaim
  <2>3. row[t].claimed # row[t].step + 1
    BY <2>2 DEF Row
  <2>4. ~AtWork(inv[q], row[t])
    BY <2>3 DEF AtWork
  <2>5. ~Recorded(inv[q], row[t]) /\ row[t].status \notin Judged(env)
    BY <2>2 DEF Recorded, Judged
  <2>6. inv[q].pc \notin {"check", "loop", "note", "finish", "finished", "complete", "judge"}
    BY <2>1, <2>4, <2>5 DEF Fits, Completes
  <2>7. inv[q].pc \notin {"retry", "resume"}
    BY <2>1, <2>2 DEF Fits, Kept
  <2> QED BY <2>6, <2>7 DEF Holds, Sweeps, Holding, Working, Sweeping
<1> QED BY <1>1, <1>2

(***************************************************************************)
(* claim_task_step by a step: it becomes the holder.                       *)
(***************************************************************************)
LEMMA ClaimHolds ==
  ASSUME NEW t \in Tasks, NEW p \in Procs, Calm(t), row[t] \in Row,
         Claims(inv[p], t), CanClaim(row[t], inv[p].want - 1), inv[p].want \in Nat \ {0},
         env' = env, \A q \in Procs \ {p} : inv'[q] = inv[q],
         \A d \in events' : d.task = t => d \in events,
         inv'[p].task = t, inv'[p].pc = "check", inv'[p].queue = inv[p].queue,
         Fits(env, inv'[p], row'[t]),
         Says(row'[t], row[t].status, row[t].step, inv[p].want, "fresh", row[t].attempt)
  PROVE  Calm(t)'
<1> USE DEF Calm
<1>1. /\ Holds(inv'[p], t) /\ ~Claims(inv'[p], t) /\ ~Decides(inv'[p], t) /\ ~Sweeps(inv'[p], t)
      /\ inv'[p].pc # "judge"
  BY DEF Holds, Claims, Decides, Sweeps, Holding, Working, Sweeping
<1>2. \A q \in Procs : ~Sweeps(inv[q], t)
  BY DEF SweptAlone
<1>3. \A q \in Procs : ~Holds(inv[q], t)
  BY <1>2, ClaimableUnheld, inv[p].want - 1 \in Nat
<1>4. /\ row[t].status = "running" /\ row[t].step + 1 = inv[p].want
      /\ row[t].claimed <= row[t].step
  BY DEF CanClaim, Row
<1>5. Tame(row'[t])
  BY <1>4 DEF Says, Tame, Row
<1> Fresh(row'[t])
  BY <1>4 DEF Says, Fresh
<1>6. Once(env) => OneToken(t)
  BY <1>4 DEF HandedOn, Row
<1>7. Fitting(t)'
  <2> SUFFICES ASSUME NEW q \in Procs \ {p}, inv'[q].task = t
               PROVE  Fits(env, inv'[q], row'[t])
    BY DEF Fitting
  <2>1. CASE Claims(inv[q], t)
    BY <2>1, ClaimFits DEF Fitting, Claims, Says
  <2>2. CASE ~Claims(inv[q], t)
    BY <1>3, <2>2, FitsIdly
  <2> QED BY <2>1, <2>2
<1>8. OneHolder(t)'
  BY <1>3 DEF OneHolder
<1>9. OneDecider(t)'
  BY <1>1 DEF OneDecider
<1>10. Aged(t)'
  BY DEF Aged, Says
<1>11. SweptAlone(t)'
  BY <1>1, <1>2 DEF SweptAlone
<1>12. Unstarted(t)'
  BY <1>4 DEF Unstarted, Says
<1>13. Once(env) => NoToken(t)' /\ OneToken(t)'
  BY <1>1, <1>6 DEF OneToken, NoToken, Waking
<1>14. HandedOn(t)'
  BY <1>13 DEF HandedOn
<1>15. JudgedOnce(t)'
  BY <1>1, <1>3 DEF JudgedOnce, Holds, Holding
<1> QED BY <1>5, <1>7, <1>8, <1>9, <1>10, <1>11, <1>12, <1>14, <1>15

(***************************************************************************)
(* claim_task_step by a drain: it sends the event of the first step.       *)
(***************************************************************************)
LEMMA DrainTakes ==
  ASSUME NEW t \in Tasks, NEW p \in Procs, Calm(t), row[t] \in Row,
         t \in inv[p].queue, OffTask(inv[p], t), OffTask(inv'[p], t),
         env' = env, \A q \in Procs \ {p} : inv'[q] = inv[q],
         NEW e, \A d \in events' : d.task = t => d \in events \/ d = e,
         \/ /\ CanPromote(row[t], 0)
            /\ Says(row'[t], "running", row[t].step, row[t].claimed, row[t].claimedAt, row[t].attempt)
         \/ /\ CanClaim(row[t], 0)
            /\ Says(row'[t], row[t].status, row[t].step, 1, "fresh", row[t].attempt)
  PROVE  Calm(t)'
<1> USE DEF Calm
<1>1. /\ ~Holds(inv'[p], t) /\ ~Claims(inv'[p], t) /\ ~Sweeps(inv'[p], t) /\ ~Decides(inv'[p], t)
      /\ inv'[p].task = t => inv'[p].pc \in Resting
  BY DEF OffTask, Resting, Holds, Claims, Sweeps, Decides, Holding, Working, Sweeping
<1>2. \A q \in Procs : ~Sweeps(inv[q], t)
  BY DEF SweptAlone
<1>3. \A q \in Procs : ~Holds(inv[q], t)
  BY <1>2, ClaimableUnheld, 0 \in Nat
<1>4. /\ row[t].step = 0 /\ row'[t].step = 0 /\ row'[t].attempt = row[t].attempt
      /\ row'[t].status = "running" /\ row'[t].updated = 0
  BY DEF CanPromote, CanClaim, Says
<1>5. Tame(row'[t])
  BY <1>4 DEF Says, Tame, CanPromote, Row
<1> Fresh(row'[t])
  BY <1>4 DEF Says, Fresh, CanPromote
<1>6. Fitting(t)'
  <2> SUFFICES ASSUME NEW q \in Procs, inv'[q].task = t
               PROVE  Fits(env, inv'[q], row'[t])
    BY DEF Fitting
  <2>1. CASE q = p
    BY <1>1, <2>1, FitsIdly
  <2>2. CASE q # p /\ Claims(inv[q], t)
    BY <1>4, <2>2, ClaimFits DEF Fitting, Claims
  <2>3. CASE q # p /\ ~Claims(inv[q], t)
    BY <1>3, <2>3, FitsIdly
  <2> QED BY <2>1, <2>2, <2>3
<1>7. \A q \in Procs : ~Holds(inv'[q], t)
  BY <1>1, <1>3
<1>8. OneHolder(t)'
  BY <1>7 DEF OneHolder
<1>9. OneDecider(t)'
  BY <1>1 DEF OneDecider
<1>10. Aged(t)'
  BY <1>4 DEF Aged
<1>11. SweptAlone(t)'
  BY <1>1, <1>2 DEF SweptAlone
<1>12. Unstarted(t)'
  BY <1>4 DEF Unstarted
<1>13. Once(env) => OneToken(t)' \/ (row'[t].step = 0 /\ row'[t].claimed # 0)
  <2>1. CASE CanPromote(row[t], 0)
    <3>1. NoToken(t)
      BY <2>1 DEF CanPromote, Unstarted
    <3> QED BY <1>1, <3>1 DEF NoToken, OneToken, Waking
  <2>2. CASE CanClaim(row[t], 0) /\ Says(row'[t], row[t].status, row[t].step, 1, "fresh", row[t].attempt)
    BY <1>4, <2>2 DEF Says
  <2> QED BY <2>1, <2>2
<1>14. HandedOn(t)'
  BY <1>4, <1>7, <1>13 DEF HandedOn
<1>15. JudgedOnce(t)'
  BY <1>1, <1>3 DEF JudgedOnce, Holds, Holding, Resting
<1> QED BY <1>5, <1>6, <1>8, <1>9, <1>10, <1>11, <1>12, <1>14, <1>15

(***************************************************************************)
(* run_step received its event and found the row running before its step.  *)
(***************************************************************************)
LEMMA Receives ==
  ASSUME NEW t \in Tasks, NEW p \in Procs, Calm(t), inv[p].pc = "idle",
         NEW e \in events, Waking(e, t), row[t].status = "running", e.seq = row[t].step + 1,
         env' = env, row'[t] = row[t], \A q \in Procs \ {p} : inv'[q] = inv[q],
         \A d \in events' : d.task = t => d \in events,
         Once(env) => e \notin events',
         Claims(inv'[p], t), inv'[p].queue = {}, inv'[p].want = e.seq, inv'[p].snap = row[t]
  PROVE  Calm(t)'
<1> USE DEF Calm
<1>1. ~Holds(inv'[p], t) /\ ~Decides(inv'[p], t) /\ ~Sweeps(inv'[p], t) /\ inv'[p].pc = "claim"
  BY DEF Holds, Claims, Decides, Sweeps, Holding, Working, Sweeping
<1>2. row[t].updated = 0
  BY DEF Aged, Waking
<1>3. \A q \in Procs : ~Sweeps(inv[q], t)
  BY DEF SweptAlone, Waking
<1>4. Once(env) => \A q \in Procs : ~Holds(inv[q], t)
  BY DEF HandedOn, NoToken
<1>5. Fitting(t)'
  <2>1. Fits(env, inv'[p], row[t])
    BY <1>1 DEF Fits, Same
  <2> QED BY <2>1 DEF Fitting
<1>6. Tame(row[t])' /\ Fresh(row[t])' /\ OneHolder(t)'
  BY <1>1 DEF OneHolder
<1>7. OneDecider(t)'
  BY <1>1 DEF OneDecider
<1>8. Aged(t)' /\ Unstarted(t)'
  BY <1>2 DEF Aged, Unstarted
<1>9. SweptAlone(t)'
  BY <1>1, <1>3 DEF SweptAlone
<1>10. Once(env) /\ OneToken(t) => OneToken(t)'
  BY <1>1 DEF OneToken, Claims, Waking
<1>11. HandedOn(t)'
  BY <1>1, <1>4, <1>10 DEF HandedOn
<1>12. JudgedOnce(t)'
  BY <1>1, <1>4 DEF JudgedOnce, Holds, Holding
<1> QED BY <1>5, <1>6, <1>7, <1>8, <1>9, <1>11, <1>12

(* create_task: nothing knows of the task yet. *)
LEMMA Creates ==
  ASSUME NEW t \in Tasks, NEW p \in Procs, Calm(t), row[t].status = "absent",
         env' = env, events' = events, \A q \in Procs \ {p} : inv'[q] = inv[q],
         OffTask(inv'[p], t), inv'[p].queue = {},
         row'[t] = NewRow("queued")
  PROVE  Calm(t)'
<1> USE DEF Calm
<1>1. /\ ~Holds(inv'[p], t) /\ ~Claims(inv'[p], t) /\ ~Sweeps(inv'[p], t) /\ ~Decides(inv'[p], t)
      /\ inv'[p].task = t => inv'[p].pc \in Resting
  BY DEF OffTask, Resting, Holds, Claims, Sweeps, Decides, Holding, Working, Sweeping
<1>2. \A q \in Procs : ~Holds(inv[q], t) /\ ~Claims(inv[q], t)
  BY DEF Unstarted, NoToken
<1>3. /\ row'[t].status = "queued" /\ row'[t].updated = 0 /\ row'[t].step = 0 /\ row'[t].claimed = 0
      /\ row'[t].claimedAt = "none"
  BY DEF NewRow
<1>4. Tame(row'[t]) /\ Fresh(row'[t])
  BY <1>3 DEF Tame, Fresh
<1>5. \A q \in Procs : ~Holds(inv'[q], t) /\ ~Claims(inv'[q], t)
  BY <1>1, <1>2
<1>6. Fitting(t)'
  BY <1>5, FitsIdly DEF Fitting
<1>7. OneHolder(t)'
  BY <1>5 DEF OneHolder
<1>8. OneDecider(t)'
  BY <1>1 DEF OneDecider
<1>9. Aged(t)'
  BY <1>3 DEF Aged
<1>10. SweptAlone(t)'
  BY <1>5 DEF SweptAlone, Sweeps, Holds, Holding
<1>11. NoToken(t)' /\ OneToken(t)'
  BY <1>5 DEF NoToken, OneToken, Unstarted
<1>12. Unstarted(t)' /\ HandedOn(t)'
  BY <1>5, <1>11 DEF Unstarted, HandedOn
<1>13. JudgedOnce(t)'
  BY <1>5 DEF JudgedOnce, Holds, Holding
<1> QED BY <1>4, <1>6, <1>7, <1>8, <1>9, <1>10, <1>12, <1>13

-----------------------------------------------------------------------------
(* What changes a row behind the invocations' backs: the founder's cancel, and time. *)

LEMMA Cancels ==
  ASSUME NEW t \in Tasks, Calm(t), row[t] \in Row, UNCHANGED <<env, events, inv>>,
         Says(row'[t], "cancelled", row[t].step, row[t].claimed, row[t].claimedAt, row[t].attempt)
  PROVE  Calm(t)'
<1> USE DEF Calm
<1>1. Tame(row'[t]) /\ Fresh(row'[t])
  BY DEF Tame, Fresh, Says
<1>2. Fitting(t)'
  <2> SUFFICES ASSUME NEW q \in Procs, inv[q].task = t, Fits(env, inv[q], row[t])
               PROVE  Fits(env, inv[q], row'[t])
    BY DEF Fitting
  <2>1. /\ AtWork(inv[q], row[t]) => AtWork(inv[q], row'[t])
        /\ Recorded(inv[q], row[t]) => Recorded(inv[q], row'[t])
        /\ Same(inv[q], row[t]) => Same(inv[q], row'[t])
        /\ Kept(inv[q], row'[t])
        /\ row'[t].status \in Judged(env)
    BY DEF Says, AtWork, Recorded, Same, Kept, Judged
  <2>2. Completes(inv[q], row[t]) => Completes(inv[q], row'[t])
    BY <2>1 DEF Completes
  <2>3. row'[t].status = "cancelled"
    BY DEF Says
  <2> QED BY <2>1, <2>2, <2>3 DEF Fits
<1>3. OneHolder(t)' /\ OneDecider(t)'
  BY DEF OneHolder, OneDecider
<1>4. Aged(t)' /\ Unstarted(t)'
  BY DEF Aged, Unstarted, Says
<1>5. SweptAlone(t)'
  BY DEF SweptAlone
<1>6. HandedOn(t)'
  BY DEF HandedOn, NoToken, OneToken, Says
<1>7. JudgedOnce(t)'
  BY DEF JudgedOnce
<1> QED BY <1>1, <1>2, <1>3, <1>4, <1>5, <1>6, <1>7

LEMMA Ages ==
  ASSUME NEW t \in Tasks, Calm(t), UNCHANGED <<env, inv>>,
         \A d \in events' : d \in events /\ d.task # t,
         row'[t].status = row[t].status, row'[t].step = row[t].step,
         row'[t].claimed = row[t].claimed, row'[t].attempt = row[t].attempt,
         row'[t].updated # 0, row[t].claimedAt = "none" => row'[t].claimedAt = "none",
         \A q \in Procs : inv[q].task = t => inv[q].pc \notin Working \cup {"claim", "sweepRetry"},
         row[t].status # "queued" => \A q \in Procs : t \notin inv[q].queue,
         row'[t].updated = 2 => \A q \in Procs : inv[q].task = t => inv[q].pc # "judge"
  PROVE  Calm(t)'
<1> USE DEF Calm
<1>1. Tame(row[t])' /\ Fresh(row[t])'
  BY DEF Tame, Fresh
<1>2. Fitting(t)'
  <2> SUFFICES ASSUME NEW q \in Procs, inv[q].task = t, Fits(env, inv[q], row[t])
               PROVE  Fits(env, inv[q], row'[t])
    BY DEF Fitting
  <2>1. /\ AtWork(inv[q], row[t]) => AtWork(inv[q], row'[t])
        /\ Recorded(inv[q], row[t]) => Recorded(inv[q], row'[t])
        /\ Same(inv[q], row[t]) => Same(inv[q], row'[t])
        /\ Kept(inv[q], row[t]) => Kept(inv[q], row'[t])
    BY DEF AtWork, Recorded, Same, Kept
  <2>2. Completes(inv[q], row[t]) => Completes(inv[q], row'[t])
    BY <2>1 DEF Completes
  <2> QED BY <2>1, <2>2 DEF Fits
<1>3. OneHolder(t)' /\ OneDecider(t)'
  BY DEF OneHolder, OneDecider
<1>4. Aged(t)'
  BY DEF Aged
<1>5. SweptAlone(t)'
  BY DEF SweptAlone
<1>6. NoToken(t) => NoToken(t)'
  BY DEF NoToken
<1>7. OneToken(t) => OneToken(t)'
  BY DEF OneToken
<1>8. Unstarted(t)' /\ HandedOn(t)'
  BY <1>6, <1>7 DEF Unstarted, HandedOn
<1>9. JudgedOnce(t)'
  BY DEF JudgedOnce
<1> QED BY <1>1, <1>2, <1>3, <1>4, <1>5, <1>8, <1>9

(* A task whose row and whose invocations stay: only events are forgotten. *)
LEMMA Unmoved ==
  ASSUME NEW t \in Tasks, Calm(t), env' = env, inv' = inv, row'[t] = row[t], events' \subseteq events
  PROVE  Calm(t)'
<1> USE DEF Calm
<1>1. Tame(row[t])' /\ Fresh(row[t])' /\ Fitting(t)' /\ OneHolder(t)' /\ OneDecider(t)'
  BY DEF Fitting, OneHolder, OneDecider
<1>2. Aged(t)' /\ SweptAlone(t)'
  BY DEF Aged, SweptAlone
<1>3. (NoToken(t) => NoToken(t)') /\ (OneToken(t) => OneToken(t)')
  BY DEF NoToken, OneToken
<1>4. Unstarted(t)' /\ HandedOn(t)'
  BY <1>3 DEF Unstarted, HandedOn
<1>5. JudgedOnce(t)'
  BY DEF JudgedOnce
<1> QED BY <1>1, <1>2, <1>4, <1>5

-----------------------------------------------------------------------------
(* From the task an action is about to all tasks. *)

Calmed == Orderly /\ Possible /\ \A t \in Tasks : Calm(t)

(* Every review event of a task is the same event. *)
Sent(e, t) == e = ReviewEvent(t) \/ Waking(e, t)

LEMMA EventSays ==
  ASSUME NEW t, NEW n
  PROVE  /\ StepEvent(t, n).kind = "step" /\ StepEvent(t, n).task = t /\ StepEvent(t, n).seq = n
         /\ RetriedEvent(t, n).kind = "step" /\ RetriedEvent(t, n).task = t
         /\ ReviewEvent(t).kind = "review" /\ ReviewEvent(t).task = t
BY DEF StepEvent, RetriedEvent, ReviewEvent

LEMMA SentSays ==
  ASSUME NEW t, NEW e, Sent(e, t)
  PROVE  e.task = t /\ (e.kind = "review" => e = ReviewEvent(t))
BY EventSays DEF Sent, Waking

LEMMA Together ==
  ASSUME Good, Calmed, NEW t \in Tasks, NEW p \in Procs, Calm(t)',
         env' = env, "budget" \notin env => ~spent',
         \A q \in Procs \ {p} : inv'[q] = inv[q],
         \A u \in Tasks \ {t} : row'[u] = row[u],
         \A d \in events' : d \in events \/ Sent(d, t),
         inv'[p].pc \in Resting \/ inv'[p].task = t,
         \A u \in Tasks : u \in inv'[p].queue => u \in inv[p].queue \/ row[u].status = "queued",
         inv'[p].pc \notin {"ownerJudge", "drainUndo"},
         inv'[p].pc = "retry" => "retry" \in env,
         inv'[p].pc = "drain" \/ inv'[p].queue = {},
         Tame(inv'[p].snap),
         row'[t].status = "cancelled" => row[t].status = "cancelled" \/ "cancel" \in env,
         row'[t].status = "absent" =>
           /\ row[t].status = "absent"
           /\ row'[t].step = row[t].step /\ row'[t].attempt = row[t].attempt
  PROVE  Calmed'
<1>1. \A u \in Tasks : Calm(u)'
  <2> SUFFICES ASSUME NEW u \in Tasks, u # t PROVE Calm(u)'
    OBVIOUS
  <2>1. Calm(u) /\ row'[u] = row[u]
    BY DEF Calmed
  <2>2. \A d \in events' : d.task = u => d \in events
    BY SentSays
  <2>3. OffTask(inv'[p], u)
    BY DEF OffTask
  <2> QED BY <2>1, <2>2, <2>3, Still
<1>2. \A d \in events' : d.kind = "review" => d = ReviewEvent(d.task)
  BY SentSays DEF Calmed, Possible
<1>3. Possible'
  BY <1>2 DEF Calmed, Possible
<1> QED BY <1>1, <1>3 DEF Calmed, Orderly

(* One edge of the life cycle, or none. *)
Advances(r, s) ==
  \/ s.status = r.status /\ s.step = r.step /\ s.attempt = r.attempt
  \/ <<r.status, s.status>> \in Lifecycle!Moves /\ s.step = r.step /\ s.attempt = r.attempt
  \/ <<r.status, s.status>> \in Lifecycle!StepMoves /\ s.step = r.step + 1 /\ s.attempt = r.attempt
  \/ r.status \in {"failed", "needs_owner"} /\ s.status = "queued" /\ s.step = 0 /\ s.attempt = r.attempt + 1

(* The founder's cancel is not seen by the handlers that put a row they read before it. *)
Uncancelled(e) == Once(e) /\ "cancel" \notin e

Advanced == \E t \in Tasks : Advances(row[t], row'[t]) /\ \A u \in Tasks \ {t} : row'[u] = row[u]

OnTrack == Calmed' /\ (Uncancelled(env) => Advanced)

LEMMA RowStays ==
  ASSUME row' = row
  PROVE  Advanced
BY DEF Advanced, Advances

(* The invocation p is through with its task. *)
Gone(p) ==
  /\ inv'[p].pc \in {"idle", "dead", "drainList"}
  /\ inv'[p].queue = {}
  /\ Tame(inv'[p].snap)
  /\ \A q \in Procs \ {p} : inv'[q] = inv[q]

LEMMA RestGone ==
  ASSUME Good, NEW p \in Procs, inv' \in {[inv EXCEPT ![p] = i] : i \in {Idle, Draining, Dead}}
  PROVE  Gone(p)
<1>1. PICK i \in {Idle, Draining, Dead} : inv' = [inv EXCEPT ![p] = i]
  OBVIOUS
<1>2. inv'[p] = i /\ \A q \in Procs \ {p} : inv'[q] = inv[q]
  BY <1>1 DEF Good
<1>3. i.pc \in {"idle", "dead", "drainList"} /\ i.queue = {} /\ i.snap = NewRow("absent")
  <2>1. Idle.pc = "idle" /\ Idle.queue = {} /\ Idle.snap = NewRow("absent")
    BY DEF Idle
  <2>2. Idle \in Invocation
    BY IdleType DEF GoodInvocation
  <2>3. Draining.pc = "drainList" /\ Draining.queue = {} /\ Draining.snap = NewRow("absent")
    BY <2>1, <2>2 DEF Draining, Invocation
  <2>4. Dead.pc = "dead" /\ Dead.queue = {} /\ Dead.snap = NewRow("absent")
    BY <2>1, <2>2 DEF Dead, Invocation
  <2> QED BY <2>1, <2>3, <2>4
<1>4. Tame(NewRow("absent"))
  BY DEF Tame, NewRow
<1> QED BY <1>2, <1>3, <1>4 DEF Gone

LEMMA EndGone ==
  ASSUME Good, NEW p \in Procs, End(p)
  PROVE  Gone(p)
BY RestGone DEF End

(* ... or only drains the queue: what it lists was queued, or was listed before. *)
Drains(p) ==
  /\ inv'[p].pc \in Resting
  /\ inv'[p].pc = "drain" \/ inv'[p].queue = {}
  /\ \A u \in Tasks : u \in inv'[p].queue => u \in inv[p].queue \/ row[u].status = "queued"
  /\ Tame(inv'[p].snap)
  /\ \A q \in Procs \ {p} : inv'[q] = inv[q]

LEMMA GoneDrains ==
  ASSUME NEW p \in Procs, Gone(p)
  PROVE  Drains(p)
BY DEF Gone, Drains, Resting

(* Many a call ends without a write. *)
LEMMA Quiet ==
  ASSUME Good, Calmed, NEW p \in Procs, Drains(p), env' = env, row' = row, spent' = spent,
         events' \subseteq events
  PROVE  OnTrack
<1>1. PICK t \in Tasks : t = T(p)
  BY ActorType
<1>2. /\ OffTask(inv'[p], t)
      /\ t \in inv'[p].queue => t \in inv[p].queue \/ row[t].status = "queued"
      /\ \A q \in Procs \ {p} : inv'[q] = inv[q]
  BY DEF Drains, OffTask
<1>3. Calm(t)'
  <2>1. Calm(t)
    BY <1>1 DEF Calmed
  <2>2. \A d \in events' : d.task = t => d \in events
    OBVIOUS
  <2>3. row'[t] = row[t]
    OBVIOUS
  <2> QED BY <1>1, <1>2, <2>1, <2>2, <2>3, Still
<1>4. "budget" \notin env => ~spent'
  BY DEF Calmed, Possible
<1>5. inv'[p].pc \notin {"ownerJudge", "drainUndo", "retry"}
  BY DEF Drains, Resting
<1>6. Calmed'
  BY <1>1, <1>3, <1>4, <1>5, Together DEF Drains, Calmed, Possible
<1> QED BY <1>6, RowStays DEF OnTrack

LEMMA PutDoes ==
  ASSUME Good, NEW t \in Tasks, NEW r, Put(t, r)
  PROVE  row'[t] = r /\ \A u \in Tasks \ {t} : row'[u] = row[u]
BY DEF Good, Put

(* The most frequent end: put the row, perhaps send an event, and return. *)
LEMMA PutsAndGoes ==
  ASSUME Good, Calmed, NEW p \in Procs, Holds(inv[p], T(p)), Gone(p), env' = env,
         NEW r, Put(T(p), r), r.updated = 0, Tame(r), Fresh(r),
         r.status \notin {"absent", "cancelled"} \/ r.status = Now(p).status,
         NEW e, Sent(e, T(p)), events' \subseteq events \cup {e},
         e.kind = "step" => r.status \in {"running", "cancelled"},
         r.status = "queued" => Once(env) /\ e.kind # "step",
         "budget" \notin env => ~spent',
         inv[p].pc = "judge" =>
           \/ Once(env)
           \/ /\ r.status \in {"review", "delivered", "needs_owner", "cancelled"}
              /\ r.step = Now(p).step /\ r.attempt = Now(p).attempt,
         Uncancelled(env) => Advances(Now(p), r)
  PROVE  OnTrack
<1>1. PICK t \in Tasks : t = T(p)
  BY ActorType
<1>2. row'[t] = r /\ \A u \in Tasks \ {t} : row'[u] = row[u]
  BY <1>1, PutDoes
<1>3. Calm(t) /\ Now(p) = row[t]
  BY <1>1 DEF Calmed, Now
<1>4. Holds(inv[p], t)
  BY <1>1
<1>5. row[t].status # "absent"
  BY <1>3, <1>4 DEF Calm, Unstarted
<1>6. /\ inv'[p].pc \in Resting
      /\ \A q \in Procs \ {p} : inv'[q] = inv[q]
  BY DEF Gone, Resting
<1>7. \A d \in events' : d \in events \/ d = e
  OBVIOUS
<1>8. Calm(t)'
  BY <1>1, <1>2, <1>3, <1>4, <1>5, <1>6, <1>7, Leaves
<1>9. \A d \in events' : d \in events \/ Sent(d, t)
  BY <1>1, <1>7
<1>10. Calmed'
  BY <1>1, <1>2, <1>3, <1>5, <1>6, <1>8, <1>9, Together DEF Gone
<1>11. Uncancelled(env) => Advanced
  BY <1>1, <1>2, <1>3 DEF Advanced
<1> QED BY <1>10, <1>11 DEF OnTrack

LEMMA HolderKnows ==
  ASSUME Good, Calmed, NEW p \in Procs, Holds(inv[p], T(p)) \/ Claims(inv[p], T(p))
  PROVE  /\ Fits(env, inv[p], Now(p)) /\ Tame(Now(p)) /\ Fresh(Now(p)) /\ Tame(Snap(p))
         /\ Now(p).status \notin {"absent", "queued"}
         /\ inv[p].pc \in Working \cup {"claim", "sweepRetry"} => Now(p).updated = 0
<1>1. PICK t \in Tasks : t = T(p)
  BY ActorType
<1>2. Calm(t) /\ Now(p) = row[t] /\ inv[p].task = t
  BY <1>1 DEF Calmed, Now, T
<1>3. Fits(env, inv[p], Now(p)) /\ Tame(Now(p)) /\ Fresh(Now(p))
  BY <1>2 DEF Calm, Fitting
<1>4. Tame(Snap(p))
  BY DEF Calmed, Possible, Snap
<1>5. Now(p).status \notin {"absent", "queued"}
  BY <1>1, <1>2 DEF Calm, Unstarted, NoToken
<1>6. inv[p].pc \in Working \cup {"claim", "sweepRetry"} => Now(p).updated = 0
  BY <1>2 DEF Calm, Aged
<1> QED BY <1>3, <1>4, <1>5, <1>6

(* An invocation that goes on with its task. *)
Goes(p, pc) ==
  /\ inv'[p].pc = pc /\ inv'[p].task = inv[p].task /\ inv'[p].queue = inv[p].queue
  /\ \A q \in Procs \ {p} : inv'[q] = inv[q]

LEMMA ReadsGoes ==
  ASSUME Good, NEW p \in Procs, NEW pc, NEW r,
         inv' = [inv EXCEPT ![p] = [@ EXCEPT !.pc = pc, !.snap = r]]
  PROVE  Goes(p, pc) /\ inv'[p].snap = r /\ inv'[p].want = inv[p].want
<1>1. inv[p] \in Invocation
  BY ActorType DEF GoodInvocation
<1>2. /\ inv'[p] = [inv[p] EXCEPT !.pc = pc, !.snap = r]
      /\ \A q \in Procs \ {p} : inv'[q] = inv[q]
  BY DEF Good
<1> QED BY <1>1, <1>2 DEF Goes, Invocation

LEMMA GotoGoes ==
  ASSUME Good, NEW p \in Procs, NEW pc, Goto(p, pc)
  PROVE  Goes(p, pc) /\ inv'[p].snap = Snap(p) /\ inv'[p].want = inv[p].want
<1>1. inv[p] \in Invocation
  BY ActorType DEF GoodInvocation
<1>2. /\ inv'[p] = [inv[p] EXCEPT !.pc = pc]
      /\ \A q \in Procs \ {p} : inv'[q] = inv[q]
  BY DEF Good, Goto
<1> QED BY <1>1, <1>2 DEF Goes, Invocation, Snap

LEMMA ForgetGoes ==
  ASSUME Good, NEW p \in Procs, NEW pc, Forget(p, pc)
  PROVE  Goes(p, pc) /\ Tame(inv'[p].snap) /\ inv'[p].want = inv[p].want
<1>1. Goes(p, pc) /\ inv'[p].snap = NewRow("absent") /\ inv'[p].want = inv[p].want
  BY ReadsGoes DEF Forget
<1> QED BY <1>1 DEF Tame, NewRow

LEMMA HolderGoesOn ==
  ASSUME Good, Calmed, NEW p \in Procs, Holds(inv[p], T(p)), inv[p].pc # "judge",
         NEW pc, Goes(p, pc),
         pc \in Working \/ (pc = "sweepRetry" /\ inv[p].pc = "sweep" /\ events' = events),
         Tame(inv'[p].snap), env' = env, spent' = spent,
         NEW r, Put(T(p), r) \/ (row' = row /\ r = Now(p)), r.updated = 0, Tame(r), Fresh(r),
         r.status \notin {"absent", "queued", "cancelled"} \/ r.status = Now(p).status,
         Fits(env, inv'[p], r),
         events' \subseteq events \cup {ReviewEvent(T(p))},
         Uncancelled(env) => Advances(Now(p), r)
  PROVE  OnTrack
<1>1. PICK t \in Tasks : t = T(p)
  BY ActorType
<1>2. row'[t] = r /\ \A u \in Tasks \ {t} : row'[u] = row[u]
  BY <1>1, PutDoes DEF Now
<1>3. Calm(t) /\ Now(p) = row[t] /\ inv'[p].task = t /\ Holds(inv[p], t)
  BY <1>1 DEF Calmed, Now, Goes, T
<1>4. row[t].status \notin {"absent", "queued"}
  BY <1>3, HolderKnows
<1>5. /\ inv'[p].pc = pc /\ inv'[p].queue = inv[p].queue
      /\ \A q \in Procs \ {p} : inv'[q] = inv[q]
  BY DEF Goes
<1>6. PICK e : e = ReviewEvent(t)
  OBVIOUS
<1>7. e.kind = "review" /\ e.task = t
  BY <1>6, EventSays
<1>8. \A d \in events' : d \in events \/ d = e
  BY <1>1, <1>6
<1>9. Calm(t)'
  BY <1>1, <1>2, <1>3, <1>4, <1>5, <1>7, <1>8, Stays
<1>10. \A d \in events' : d \in events \/ Sent(d, t)
  BY <1>6, <1>8 DEF Sent
<1>11. "budget" \notin env => ~spent'
  BY DEF Calmed, Possible
<1>12. pc \notin {"ownerJudge", "drainUndo", "retry"}
  BY DEF Working
<1>13. inv'[p].queue = {}
  BY <1>5 DEF Calmed, Possible, Holds, Holding, Working, Sweeping
<1>14. Calmed'
  BY <1>1, <1>2, <1>3, <1>4, <1>5, <1>9, <1>10, <1>11, <1>12, <1>13, Together
<1>15. Uncancelled(env) => Advanced
  BY <1>1, <1>2, <1>3 DEF Advanced
<1> QED BY <1>14, <1>15 DEF OnTrack

-----------------------------------------------------------------------------
(* Creating a task and draining the queue. *)

LEMMA DrainNextDrains ==
  ASSUME Good, Calmed, NEW p \in Procs, At(p, "drain"), NEW t, NEW n, DrainNext(p, t, n)
  PROVE  Drains(p)
<1>1. CASE End(p)
  BY <1>1, EndGone, GoneDrains
<1>2. ASSUME NEW queue, queue = inv[p].queue \ {t}, NEW slots,
             inv' = [inv EXCEPT ![p] = [@ EXCEPT !.queue = queue, !.slots = slots]]
      PROVE  Drains(p)
  <2>1. inv[p] \in Invocation
    BY ActorType DEF GoodInvocation
  <2>2. /\ inv'[p] = [inv[p] EXCEPT !.queue = queue, !.slots = slots]
        /\ \A q \in Procs \ {p} : inv'[q] = inv[q]
    BY <1>2 DEF Good
  <2>3. inv'[p].pc = "drain" /\ inv'[p].queue = queue /\ inv'[p].snap = inv[p].snap
    BY <2>1, <2>2 DEF Invocation, At
  <2>4. Tame(inv'[p].snap)
    BY <2>3 DEF Calmed, Possible
  <2> QED BY <1>2, <2>2, <2>3, <2>4 DEF Drains, Resting
<1> QED BY <1>1, <1>2 DEF DrainNext

LEMMA DrainListOnTrack ==
  ASSUME Good, Calmed, NEW p \in Procs, DrainList(p)
  PROVE  OnTrack
<1>1. Drains(p)
  <2>1. CASE End(p)
    BY <2>1, EndGone, GoneDrains
  <2>2. ASSUME NEW slots,
               inv' = [inv EXCEPT ![p] = [Idle EXCEPT !.pc = "drain", !.queue = Queued, !.slots = slots]]
        PROVE  Drains(p)
    <3>1. Idle \in Invocation /\ Idle.snap = NewRow("absent")
      BY IdleType DEF GoodInvocation, Idle
    <3>2. /\ inv'[p] = [Idle EXCEPT !.pc = "drain", !.queue = Queued, !.slots = slots]
          /\ \A q \in Procs \ {p} : inv'[q] = inv[q]
      BY <2>2 DEF Good
    <3>3. inv'[p].pc = "drain" /\ inv'[p].queue = Queued /\ inv'[p].snap = NewRow("absent")
      BY <3>1, <3>2 DEF Invocation
    <3>4. Tame(NewRow("absent"))
      BY DEF Tame, NewRow
    <3> QED BY <3>2, <3>3, <3>4 DEF Drains, Resting, Queued
  <2> QED BY <2>1, <2>2 DEF DrainList
<1> QED BY <1>1, Quiet DEF DrainList

LEMMA DrainClaimOnTrack ==
  ASSUME Good, Calmed, NEW p \in Procs, NEW t \in Tasks, DrainClaim(p, t)
  PROVE  OnTrack
<1>1. Drains(p)
  BY DrainNextDrains DEF DrainClaim
<1>2. CASE UNCHANGED <<row, events>>
  BY <1>1, <1>2, Quiet DEF DrainClaim
<1>3. CASE ClaimTaskStep(t, 0) /\ Invoke(StepEvent(t, 1))
  <2>1. row[t] \in Row /\ Calm(t)
    BY DEF Good, GoodRow, Calmed
  <2>2. \/ /\ CanPromote(row[t], 0)
           /\ Says(row'[t], "running", row[t].step, row[t].claimed, row[t].claimedAt, row[t].attempt)
        \/ /\ CanClaim(row[t], 0)
           /\ Says(row'[t], row[t].status, row[t].step, 1, "fresh", row[t].attempt)
    <3>1. CASE CanPromote(row[t], 0) /\ Put(t, [Touch(row[t]) EXCEPT !.status = "running"])
      <4>1. "running" \in Statuses
        BY DEF Statuses
      <4> QED BY <2>1, <3>1, <4>1, StatusSays, PutDoes
    <3>2. CASE /\ CanClaim(row[t], 0)
               /\ Put(t, [Touch(row[t]) EXCEPT !.claimed = 0 + 1, !.claimedAt = "fresh"])
      <4>1. 0 + 1 = 1 /\ 1 \in Nat
        OBVIOUS
      <4>2. row'[t] = [Touch(row[t]) EXCEPT !.claimed = 1, !.claimedAt = "fresh"]
        BY <3>2, <4>1, PutDoes
      <4> QED BY <2>1, <3>2, <4>1, <4>2, ClaimSays
    <3> QED BY <1>3, <3>1, <3>2 DEF ClaimTaskStep
  <2>3. \A u \in Tasks \ {t} : row'[u] = row[u]
    BY <1>3, PutDoes DEF ClaimTaskStep
  <2>4. StepEvent(t, 1).task = t /\ StepEvent(t, 1).kind = "step"
    BY EventSays
  <2>5. \A d \in events' : d \in events \/ d = StepEvent(t, 1)
    BY <1>3 DEF Invoke
  <2>6. /\ OffTask(inv[p], t) /\ OffTask(inv'[p], t) /\ t \in inv[p].queue /\ env' = env
        /\ \A q \in Procs \ {p} : inv'[q] = inv[q]
    BY <1>1 DEF DrainClaim, At, OffTask, Drains, Resting
  <2>7. PICK e : e = StepEvent(t, 1)
    OBVIOUS
  <2>8. \A d \in events' : d.task = t => d \in events \/ d = e
    BY <2>5, <2>7
  <2>9. Calm(t)'
    BY <2>1, <2>2, <2>6, <2>8, DrainTakes
  <2>10. row'[t].status = "running" /\ row'[t].step = row[t].step /\ row'[t].attempt = row[t].attempt
    BY <2>2 DEF Says, CanClaim
  <2>11. \A d \in events' : d \in events \/ Sent(d, t)
    BY <2>4, <2>5 DEF Sent, Waking
  <2>12. "budget" \notin env => ~spent'
    BY DEF DrainClaim, Calmed, Possible
  <2>13. inv'[p].pc \notin {"ownerJudge", "drainUndo", "retry"}
    BY <1>1 DEF Drains, Resting
  <2>14. Calmed'
    BY <1>1, <2>3, <2>6, <2>9, <2>10, <2>11, <2>12, <2>13, Together DEF Drains
  <2>15. Advances(row[t], row'[t])
    <3>1. row[t].status \in {"queued", "running"}
      BY <2>2 DEF CanPromote, CanClaim
    <3> QED BY <2>10, <3>1 DEF Advances, Lifecycle!Moves
  <2> QED BY <2>3, <2>14, <2>15 DEF OnTrack, Advanced
<1> QED BY <1>2, <1>3 DEF DrainClaim

LEMMA CreateTaskOnTrack ==
  ASSUME Good, Calmed, NEW p \in Procs, NEW t \in Tasks, CreateTask(p, t)
  PROVE  OnTrack
<1>1. Gone(p)
  BY RestGone DEF CreateTask
<1>2. row'[t] = NewRow("queued") /\ \A u \in Tasks \ {t} : row'[u] = row[u]
  BY PutDoes DEF CreateTask
<1>3. Calm(t) /\ row[t].status = "absent" /\ row[t].step = 0 /\ row[t].attempt = 1
  BY DEF CreateTask, Calmed, Possible
<1>4. row'[t].status = "queued" /\ row'[t].step = 0 /\ row'[t].attempt = 1
  BY <1>2 DEF NewRow
<1>5. OffTask(inv'[p], t) /\ inv'[p].queue = {} /\ \A q \in Procs \ {p} : inv'[q] = inv[q]
  BY <1>1 DEF Gone, OffTask, Resting
<1>6. Calm(t)'
  BY <1>2, <1>3, <1>5, Creates DEF CreateTask
<1>7. "budget" \notin env => ~spent'
  BY DEF CreateTask, Calmed, Possible
<1>8. Calmed'
  BY <1>1, <1>2, <1>4, <1>5, <1>6, <1>7, Together DEF CreateTask, Gone, Resting
<1>9. Advances(row[t], row'[t])
  BY <1>3, <1>4 DEF Advances, Lifecycle!Moves
<1> QED BY <1>2, <1>8, <1>9 DEF OnTrack, Advanced

-----------------------------------------------------------------------------
(* run_step *)

(* An event that nobody acts on. *)
LEMMA Dropped ==
  ASSUME Good, Calmed, NEW p \in Procs, At(p, "idle"), UNCHANGED <<env, row, inv, spent>>,
         events' \subseteq events
  PROVE  OnTrack
<1>1. inv'[p].pc = "idle" /\ inv'[p].queue = {} /\ Tame(inv'[p].snap)
  BY DEF At, Calmed, Possible
<1>2. Drains(p)
  BY <1>1 DEF Drains, Resting
<1> QED BY <1>2, Quiet

LEMMA StepReceivedOnTrack ==
  ASSUME Good, Calmed, NEW p \in Procs, NEW e \in events, StepReceived(p, e)
  PROVE  OnTrack
<1>1. events' \subseteq events
  BY DEF StepReceived, Consume
<1>2. CASE inv' = inv
  BY <1>1, <1>2, Dropped DEF StepReceived
<1>3. ASSUME NEW t, t = e.task, row[t].status = "running", e.seq = row[t].step + 1,
             inv' = [inv EXCEPT ![p] = [Idle EXCEPT !.pc = "claim", !.task = t, !.want = e.seq,
                                          !.retried = e.retried, !.snap = row[t]]]
      PROVE  OnTrack
  <2>1. t \in Tasks
    BY <1>3 DEF Good, Events
  <2>2. Calm(t) /\ Tame(row[t])
    BY <2>1 DEF Calmed, Calm
  <2>3. Idle \in Invocation /\ Idle.queue = {}
    BY IdleType DEF GoodInvocation, Idle
  <2>4. /\ inv'[p] = [Idle EXCEPT !.pc = "claim", !.task = t, !.want = e.seq,
                                  !.retried = e.retried, !.snap = row[t]]
        /\ \A q \in Procs \ {p} : inv'[q] = inv[q]
    BY <1>3 DEF Good
  <2>5. /\ inv'[p].pc = "claim" /\ inv'[p].task = t /\ inv'[p].want = e.seq
        /\ inv'[p].snap = row[t] /\ inv'[p].queue = {}
    BY <2>3, <2>4 DEF Invocation
  <2>6. Claims(inv'[p], t) /\ Waking(e, t) /\ inv[p].pc = "idle"
    BY <1>3, <2>5 DEF Claims, Waking, StepReceived, At
  <2>7. Once(env) => e \notin events'
    BY DEF StepReceived, Consume, Once, Lossy
  <2>8. env' = env /\ row' = row /\ spent' = spent
    BY DEF StepReceived
  <2>9. Calm(t)'
    BY <1>1, <1>3, <2>1, <2>2, <2>4, <2>5, <2>6, <2>7, <2>8, Receives
  <2>10. "budget" \notin env => ~spent'
    BY <2>8 DEF Calmed, Possible
  <2>11. Calmed'
    BY <1>1, <1>3, <2>1, <2>2, <2>4, <2>5, <2>8, <2>9, <2>10, Together
  <2> QED BY <2>8, <2>11, RowStays DEF OnTrack
<1> QED BY <1>2, <1>3 DEF StepReceived

LEMMA StepClaimedOnTrack ==
  ASSUME Good, Calmed, NEW p \in Procs, StepClaimed(p)
  PROVE  OnTrack
<1>1. PICK t \in Tasks : t = T(p)
  BY ActorType
<1>2. Calm(t) /\ row[t] \in Row /\ Claims(inv[p], t) /\ Now(p) = row[t]
  BY <1>1, ActorType DEF Calmed, StepClaimed, At, Claims, T, Now
<1>3. Goes(p, "check") /\ inv'[p].snap = Snap(p) /\ inv'[p].want = inv[p].want
  BY GotoGoes DEF StepClaimed
<1>4. /\ Fits(env, inv[p], row[t]) /\ Tame(Snap(p)) /\ Snap(p).step \in Nat
      /\ row[t].status \notin {"absent", "queued"}
  <2>1. Claims(inv[p], T(p))
    BY <1>1, <1>2
  <2> QED BY <1>2, <2>1, HolderKnows, ActorType, RowFields
<1>5. /\ Snap(p).status = "running" /\ inv[p].want = Snap(p).step + 1
      /\ Once(env) => Same(inv[p], row[t])
  BY <1>2, <1>4 DEF Claims, Fits, Snap
<1>6. inv[p].want \in Nat \ {0}
  BY <1>4, <1>5
<1>7. PICK n : n = inv[p].want - 1
  OBVIOUS
<1>8. n \in Nat /\ n + 1 = inv[p].want
  BY <1>6, <1>7
<1>9. CanClaim(row[t], n) /\ row'[t] = [Touch(row[t]) EXCEPT !.claimed = inv[p].want, !.claimedAt = "fresh"]
  <2>1. CanClaim(row[t], n) /\ Put(t, [Touch(row[t]) EXCEPT !.claimed = n + 1, !.claimedAt = "fresh"])
    BY <1>1, <1>4, <1>7 DEF StepClaimed, ClaimTaskStep, CanPromote
  <2> QED BY <1>8, <2>1, PutDoes
<1>10. Says(row'[t], row[t].status, row[t].step, inv[p].want, "fresh", row[t].attempt)
  <2>1. PICK m \in Nat : m = inv[p].want
    BY <1>6
  <2>2. Says([Touch(row[t]) EXCEPT !.claimed = m, !.claimedAt = "fresh"],
             row[t].status, row[t].step, m, "fresh", row[t].attempt)
    BY <1>2, ClaimSays
  <2> QED BY <1>9, <2>1, <2>2
<1>11. \A u \in Tasks \ {t} : row'[u] = row[u]
  BY <1>1, PutDoes DEF StepClaimed, ClaimTaskStep
<1>12. /\ inv'[p].pc = "check" /\ inv'[p].task = t /\ inv'[p].queue = inv[p].queue
       /\ \A q \in Procs \ {p} : inv'[q] = inv[q]
  BY <1>1, <1>3 DEF Goes, T
<1>13. Fits(env, inv'[p], row'[t])
  <2>1. row[t].status = "running" /\ row[t].step + 1 = inv[p].want
    BY <1>8, <1>9 DEF CanClaim
  <2>2. AtWork(inv'[p], row'[t])
    BY <1>3, <1>10, <2>1 DEF AtWork, Says
  <2>3. Once(env) => Same(inv'[p], row'[t])
    BY <1>3, <1>5, <1>10 DEF Same, Says, Snap
  <2> QED BY <1>3, <1>5, <1>12, <2>2, <2>3 DEF Fits
<1>14. env' = env /\ events' = events /\ spent' = spent
  BY DEF StepClaimed
<1>15. Calm(t)'
  BY <1>2, <1>6, <1>7, <1>9, <1>10, <1>12, <1>13, <1>14, ClaimHolds
<1>16. "budget" \notin env => ~spent'
  BY <1>14 DEF Calmed, Possible
<1>17. inv[p].queue = {}
  BY <1>2 DEF Calmed, Possible, Claims
<1>18. row'[t].status = row[t].status /\ row'[t].step = row[t].step /\ row'[t].attempt = row[t].attempt
  BY <1>10 DEF Says
<1>19. Calmed'
  BY <1>3, <1>4, <1>11, <1>12, <1>14, <1>15, <1>16, <1>17, <1>18, Together
<1> QED BY <1>11, <1>18, <1>19 DEF OnTrack, Advanced, Advances

LEMMA StepRefusedOnTrack ==
  ASSUME Good, Calmed, NEW p \in Procs, StepRefused(p)
  PROVE  OnTrack
BY EndGone, GoneDrains, Quiet DEF StepRefused

(* A worker has its row's next step claimed. *)
LEMMA WorkerKnows ==
  ASSUME Good, Calmed, NEW p \in Procs, inv[p].pc \in {"check", "loop", "note", "finish"}
  PROVE  /\ Holds(inv[p], T(p)) /\ inv[p].pc # "judge"
         /\ AtWork(inv[p], Now(p))
         /\ Now(p).updated = 0
         /\ inv[p].pc = "check" => Snap(p).status = "running" /\ (Once(env) => Same(inv[p], Now(p)))
         /\ inv[p].pc \in {"note", "finish"} => Reads(inv[p]) /\ Same(inv[p], Now(p))
<1>1. Holds(inv[p], T(p)) /\ inv[p].pc \in Working
  BY DEF Holds, T, Holding, Working
<1>2. Fits(env, inv[p], Now(p)) /\ Now(p).updated = 0
  BY <1>1, HolderKnows
<1> QED BY <1>1, <1>2 DEF Fits, Snap

(* Without a cancel, a worker's row runs. *)
LEMMA NotCancelled ==
  ASSUME Good, Calmed, NEW p \in Procs, Uncancelled(env)
  PROVE  Now(p).status # "cancelled" /\ Once(env)
BY ActorType DEF Calmed, Possible, Uncancelled, Now

LEMMA StepOverBudgetOnTrack ==
  ASSUME Good, Calmed, NEW p \in Procs, StepOverBudget(p)
  PROVE  OnTrack
<1>1. /\ Holds(inv[p], T(p)) /\ inv[p].pc = "check" /\ AtWork(inv[p], Now(p))
      /\ Once(env) => Same(inv[p], Now(p))
  BY WorkerKnows DEF StepOverBudget, At
<1>2. Snap(p) \in Row /\ Tame(Snap(p))
  BY <1>1, HolderKnows, ActorType
<1>3. PICK r : r = Fail(Snap(p))
  OBVIOUS
<1>4. Says(r, "failed", Snap(p).step, Snap(p).claimed, Snap(p).claimedAt, Snap(p).attempt)
  BY <1>2, <1>3, FailSays
<1>5. r.updated = 0 /\ Tame(r) /\ Fresh(r) /\ r.status = "failed"
  BY <1>2, <1>4 DEF Says, Tame, Fresh
<1>6. Uncancelled(env) => Advances(Now(p), r)
  BY <1>1, <1>4, NotCancelled DEF AtWork, Same, Says, Advances, Lifecycle!Moves, Snap
<1>7. PICK e : e = ReviewEvent(T(p))
  OBVIOUS
<1>8. e.kind = "review" /\ Sent(e, T(p)) /\ events' \subseteq events \cup {e}
  BY <1>7, EventSays DEF Sent, StepOverBudget
<1>9. Gone(p) /\ env' = env /\ Put(T(p), r)
  BY <1>3, EndGone DEF StepOverBudget
<1>10. "budget" \notin env => ~spent'
  BY DEF StepOverBudget
<1> QED BY <1>1, <1>5, <1>6, <1>8, <1>9, <1>10, PutsAndGoes

(* _requeue_for_budget: the step is free again and its task back in the queue. *)
LEMMA RequeueOnTrack ==
  ASSUME Good, Calmed, NEW p \in Procs, inv[p].pc \in {"check", "loop"}, "budget" \in env,
         Now(p).status = "running", RequeueForBudget(T(p), inv[p].want), End(p),
         env' = env, events' = events
  PROVE  OnTrack
<1>1. /\ Holds(inv[p], T(p)) /\ inv[p].pc # "judge" /\ AtWork(inv[p], Now(p))
      /\ Now(p) \in Row /\ Now(p).step \in Nat
  BY WorkerKnows, ActorType, RowFields
<1>2. PICK r : r = [ReleaseStepClaim(Now(p), Now(p).step + 1) EXCEPT !.status = "queued"]
  OBVIOUS
<1>3. Put(T(p), r)
  <2>1. inv[p].want = Now(p).step + 1
    BY <1>1 DEF AtWork
  <2> QED BY <1>2, <2>1 DEF RequeueForBudget, Now
<1>4. Says(r, "queued", Now(p).step, Now(p).step, "none", Now(p).attempt)
  BY <1>1, <1>2, RequeueSays
<1>5. r.updated = 0 /\ Tame(r) /\ Fresh(r) /\ r.status = "queued"
  BY <1>1, <1>4 DEF Says, Tame, Fresh
<1>6. Advances(Now(p), r)
  BY <1>4 DEF Says, Advances, Lifecycle!Moves
<1>7. PICK e : e = ReviewEvent(T(p))
  OBVIOUS
<1>8. e.kind = "review" /\ Sent(e, T(p)) /\ events' \subseteq events \cup {e}
  BY <1>7, EventSays DEF Sent
<1>9. Once(env)
  BY DEF Calmed, Orderly, Repeating
<1> QED BY <1>1, <1>3, <1>5, <1>6, <1>8, <1>9, EndGone, PutsAndGoes

LEMMA StepParkedForBudgetOnTrack ==
  ASSUME Good, Calmed, NEW p \in Procs, StepParkedForBudget(p)
  PROVE  OnTrack
<1>1. "budget" \in env
  BY DEF StepParkedForBudget, Calmed, Possible
<1>2. CASE Now(p).status = "running"
  BY <1>1, <1>2, RequeueOnTrack DEF StepParkedForBudget, At
<1>3. CASE Now(p).status # "running"
  BY <1>3, EndGone, GoneDrains, Quiet DEF StepParkedForBudget, RequeueForBudget, Now
<1> QED BY <1>2, <1>3

LEMMA StepStartsOnTrack ==
  ASSUME Good, Calmed, NEW p \in Procs, StepStarts(p)
  PROVE  OnTrack
<1>1. Holds(inv[p], T(p)) /\ inv[p].pc = "check" /\ AtWork(inv[p], Now(p)) /\ Now(p).updated = 0
  BY WorkerKnows DEF StepStarts, At
<1>2. Goes(p, "loop") /\ Tame(inv'[p].snap) /\ inv'[p].want = inv[p].want
  BY ForgetGoes DEF StepStarts, BackToLoop
<1>3. Fits(env, inv'[p], Now(p))
  BY <1>1, <1>2 DEF Goes, Fits, AtWork
<1>4. Tame(Now(p)) /\ Fresh(Now(p))
  BY <1>1, HolderKnows
<1>5. Advances(Now(p), Now(p))
  BY DEF Advances
<1>6. env' = env /\ row' = row /\ events' = events /\ spent' = spent
  BY DEF StepStarts
<1> QED BY <1>1, <1>2, <1>3, <1>4, <1>5, <1>6, HolderGoesOn DEF Working

-----------------------------------------------------------------------------
(* The tool loop. *)

(* A worker reads its row on the way: what it read is what is stored. *)
LEMMA WorkerReads ==
  ASSUME Good, Calmed, NEW p \in Procs, inv[p].pc = "loop", Now(p).status = "running",
         NEW pc \in {"note", "finish"}, Goes(p, pc), inv'[p].snap = Now(p), inv'[p].want = inv[p].want,
         UNCHANGED <<env, row, events, spent>>
  PROVE  OnTrack
<1>1. Holds(inv[p], T(p)) /\ AtWork(inv[p], Now(p)) /\ Now(p).updated = 0
  BY WorkerKnows
<1>2. Tame(Now(p)) /\ Fresh(Now(p))
  BY <1>1, HolderKnows
<1>3. Fits(env, inv'[p], Now(p))
  BY <1>1, <1>2 DEF Goes, Fits, Reads, AtWork, Same, Fresh
<1>4. Advances(Now(p), Now(p))
  BY DEF Advances
<1> QED BY <1>1, <1>2, <1>3, <1>4, HolderGoesOn DEF Working

LEMMA NoteReadsOnTrack ==
  ASSUME Good, Calmed, NEW p \in Procs, NoteReads(p)
  PROVE  OnTrack
<1>1. inv[p] \in Invocation
  BY ActorType DEF GoodInvocation
<1>2. /\ inv'[p] = [inv[p] EXCEPT !.pc = "note", !.noted = TRUE, !.snap = Now(p)]
      /\ \A q \in Procs \ {p} : inv'[q] = inv[q]
  BY DEF Good, NoteReads
<1>3. Goes(p, "note") /\ inv'[p].snap = Now(p) /\ inv'[p].want = inv[p].want
  BY <1>1, <1>2 DEF Goes, Invocation
<1> QED BY <1>3, WorkerReads DEF NoteReads, At

LEMMA FinishReadsOnTrack ==
  ASSUME Good, Calmed, NEW p \in Procs, FinishReads(p)
  PROVE  OnTrack
<1>1. Goes(p, "finish") /\ inv'[p].snap = Now(p) /\ inv'[p].want = inv[p].want
  BY ReadsGoes DEF FinishReads, ReadAs
<1> QED BY <1>1, WorkerReads DEF FinishReads, At

LEMMA NoteWritesOnTrack ==
  ASSUME Good, Calmed, NEW p \in Procs, NoteWrites(p)
  PROVE  OnTrack
<1>1. /\ Holds(inv[p], T(p)) /\ inv[p].pc = "note" /\ AtWork(inv[p], Now(p))
      /\ Reads(inv[p]) /\ Same(inv[p], Now(p))
  BY WorkerKnows DEF NoteWrites, At
<1>2. Snap(p) \in Row /\ Tame(Snap(p))
  BY <1>1, HolderKnows, ActorType
<1>3. PICK r : r = Touch(Snap(p))
  OBVIOUS
<1>4. Says(r, Snap(p).status, Snap(p).step, Snap(p).claimed, Snap(p).claimedAt, Snap(p).attempt)
  BY <1>2, <1>3, TouchSays
<1>5. /\ Snap(p).status = "running" /\ Snap(p).claimedAt # "stale"
      /\ inv[p].want = Snap(p).step + 1 /\ Snap(p).claimed = inv[p].want
  BY <1>1 DEF Reads, AtWork, Snap
<1>6. r.updated = 0 /\ Tame(r) /\ Fresh(r) /\ r.status = "running"
  BY <1>2, <1>4, <1>5 DEF Says, Tame, Fresh
<1>7. Goes(p, "loop") /\ Tame(inv'[p].snap) /\ inv'[p].want = inv[p].want
  BY ForgetGoes DEF NoteWrites, BackToLoop
<1>8. Fits(env, inv'[p], r)
  BY <1>4, <1>5, <1>7 DEF Goes, Fits, AtWork, Says
<1>9. Uncancelled(env) => Advances(Now(p), r)
  BY <1>1, <1>4, <1>5, NotCancelled DEF AtWork, Same, Says, Advances, Snap
<1>10. env' = env /\ Put(T(p), r) /\ events' = events /\ spent' = spent
  BY <1>3 DEF NoteWrites
<1> QED BY <1>1, <1>6, <1>7, <1>8, <1>9, <1>10, HolderGoesOn DEF Working

LEMMA AskOnTrack ==
  ASSUME Good, Calmed, NEW p \in Procs, Ask(p)
  PROVE  OnTrack
<1>1. inv[p] \in Invocation
  BY ActorType DEF GoodInvocation
<1>2. inv'[p] = [inv[p] EXCEPT !.asked = TRUE] /\ \A q \in Procs \ {p} : inv'[q] = inv[q]
  BY DEF Good, Ask
<1>3. PICK pc \in Working : pc = inv[p].pc
  BY DEF Ask, At, Working
<1>4. Goes(p, pc) /\ inv'[p].snap = Snap(p) /\ inv'[p].want = inv[p].want
  BY <1>1, <1>2, <1>3 DEF Goes, Invocation, Snap
<1>5. Holds(inv[p], T(p)) /\ inv[p].pc # "judge"
  BY <1>3 DEF Holds, T, Holding, Working
<1>6. /\ Fits(env, inv[p], Now(p)) /\ Tame(Now(p)) /\ Fresh(Now(p)) /\ Tame(Snap(p))
      /\ Now(p).updated = 0
  BY <1>3, <1>5, HolderKnows
<1>7. Fits(env, inv'[p], Now(p))
  BY <1>3, <1>4, <1>6 DEF Goes, Snap, Fits, AtWork, Same, Kept, Reads, Recorded, Completes
<1>8. Advances(Now(p), Now(p))
  BY DEF Advances
<1>9. env' = env /\ row' = row /\ events' = events /\ spent' = spent
  BY DEF Ask
<1> QED BY <1>4, <1>5, <1>6, <1>7, <1>8, <1>9, HolderGoesOn

(* op_task_finish records the step as it ends the loop. *)
LEMMA FinishOnTrack ==
  ASSUME Good, Calmed, NEW p \in Procs, At(p, "finish"), NEW x \in {"review", "needs_owner"},
         Put(T(p), Finished(Snap(p), x)), LastCalls(p), env' = env, spent' = spent,
         events' \subseteq events \cup {ReviewEvent(T(p))}
  PROVE  OnTrack
<1>1. /\ Holds(inv[p], T(p)) /\ inv[p].pc = "finish" /\ AtWork(inv[p], Now(p))
      /\ Reads(inv[p]) /\ Same(inv[p], Now(p))
  BY WorkerKnows DEF At
<1>2. Snap(p) \in Row /\ Snap(p).step \in Nat /\ x \in Statuses
  BY ActorType, RowFields DEF Statuses
<1>3. PICK r : r = Finished(Snap(p), x)
  OBVIOUS
<1>4. Says(r, x, Snap(p).step + 1, Snap(p).step + 1, "none", Snap(p).attempt)
  BY <1>2, <1>3, FinishedSays
<1>5. inv[p].want = Snap(p).step + 1
  BY <1>1 DEF Reads, AtWork, Snap
<1>6. r.updated = 0 /\ Tame(r) /\ Fresh(r) /\ r.status = x
  BY <1>2, <1>4 DEF Says, Tame, Fresh
<1>7. Goes(p, "finished") /\ Tame(inv'[p].snap) /\ inv'[p].want = inv[p].want
  BY ForgetGoes DEF LastCalls
<1>8. Fits(env, inv'[p], r)
  BY <1>4, <1>5, <1>7 DEF Goes, Fits, Recorded, Says
<1>9. Uncancelled(env) => Advances(Now(p), r)
  BY <1>1, <1>4, NotCancelled DEF AtWork, Same, Says, Advances, Snap, Lifecycle!StepMoves
<1> QED BY <1>1, <1>3, <1>6, <1>7, <1>8, <1>9, HolderGoesOn DEF Working

LEMMA ToolLoopOnTrack ==
  ASSUME Good, Calmed, NEW p \in Procs, ToolLoop(p)
  PROVE  OnTrack
<1>1. CASE FinishSubmits(p)
  BY <1>1, FinishOnTrack DEF FinishSubmits, Invoke
<1>2. CASE FinishBlocked(p)
  BY <1>2, FinishOnTrack DEF FinishBlocked
<1>3. CASE FinishInvokeFails(p)
  BY <1>3 DEF FinishInvokeFails, Calmed, Orderly, Once, Lossy, Repeating
<1> QED BY <1>1, <1>2, <1>3, NoteReadsOnTrack, NoteWritesOnTrack, AskOnTrack, FinishReadsOnTrack DEF ToolLoop

-----------------------------------------------------------------------------
(* _on_step_exception *)

LEMMA LoopErrorRetriedOnTrack ==
  ASSUME Good, Calmed, NEW p \in Procs, LoopErrorRetried(p)
  PROVE  OnTrack
<1>1. /\ Holds(inv[p], T(p)) /\ inv[p].pc = "loop" /\ AtWork(inv[p], Now(p))
      /\ Now(p) \in Row /\ Now(p).step \in Nat /\ Now(p).status = "running"
  BY WorkerKnows, ActorType, RowFields DEF LoopErrorRetried, At
<1>2. PICK r : r = ReleaseStepClaim(Now(p), Now(p).step + 1)
  OBVIOUS
<1>3. Says(r, "running", Now(p).step, Now(p).step, "none", Now(p).attempt)
  BY <1>1, <1>2, ReleaseSays
<1>4. r.updated = 0 /\ Tame(r) /\ Fresh(r) /\ r.status = "running"
  BY <1>1, <1>3 DEF Says, Tame, Fresh
<1>5. Advances(Now(p), r)
  BY <1>1, <1>3 DEF Says, Advances
<1>6. PICK e : e = RetriedEvent(T(p), inv[p].want)
  OBVIOUS
<1>7. e.kind = "step" /\ Sent(e, T(p)) /\ events' \subseteq events \cup {e}
  BY <1>6, EventSays DEF LoopErrorRetried, Invoke, Sent, Waking
<1>8. Put(T(p), r) /\ Gone(p) /\ env' = env /\ spent' = spent
  <2>1. inv[p].want = Now(p).step + 1
    BY <1>1 DEF AtWork
  <2> QED BY <1>2, <2>1, EndGone DEF LoopErrorRetried
<1>9. "budget" \notin env => ~spent'
  BY <1>8 DEF Calmed, Possible
<1> QED BY <1>1, <1>4, <1>5, <1>7, <1>8, <1>9, PutsAndGoes

LEMMA LoopErrorFinalOnTrack ==
  ASSUME Good, Calmed, NEW p \in Procs, LoopErrorFinal(p)
  PROVE  OnTrack
<1>1. /\ Holds(inv[p], T(p)) /\ inv[p].pc = "loop"
      /\ Now(p) \in Row /\ Now(p).status = "running"
  BY WorkerKnows, ActorType DEF LoopErrorFinal, At
<1>2. Tame(Now(p))
  BY <1>1, HolderKnows
<1>3. PICK r : r = Fail(Now(p))
  OBVIOUS
<1>4. Says(r, "failed", Now(p).step, Now(p).claimed, Now(p).claimedAt, Now(p).attempt)
  BY <1>1, <1>3, FailSays
<1>5. r.updated = 0 /\ Tame(r) /\ Fresh(r) /\ r.status = "failed"
  BY <1>2, <1>4 DEF Says, Tame, Fresh
<1>6. Advances(Now(p), r)
  BY <1>1, <1>4 DEF Says, Advances, Lifecycle!Moves
<1>7. PICK e : e = ReviewEvent(T(p))
  OBVIOUS
<1>8. e.kind = "review" /\ Sent(e, T(p)) /\ events' \subseteq events \cup {e}
  BY <1>7, EventSays DEF Sent, LoopErrorFinal
<1>9. Gone(p) /\ env' = env /\ Put(T(p), r)
  BY <1>3, EndGone DEF LoopErrorFinal
<1>10. "budget" \notin env => ~spent'
  BY DEF LoopErrorFinal, Calmed, Possible
<1> QED BY <1>1, <1>5, <1>6, <1>8, <1>9, <1>10, PutsAndGoes

LEMMA OnStepExceptionOnTrack ==
  ASSUME Good, Calmed, NEW p \in Procs, OnStepException(p)
  PROVE  OnTrack
<1>1. CASE LoopErrorOnMovedRow(p)
  BY <1>1, EndGone, GoneDrains, Quiet DEF LoopErrorOnMovedRow
<1>2. CASE LoopCreditError(p)
  BY <1>2, RequeueOnTrack DEF LoopCreditError, At
<1> QED BY <1>1, <1>2, LoopErrorRetriedOnTrack, LoopErrorFinalOnTrack DEF OnStepException

-----------------------------------------------------------------------------
(* _complete_step *)

LEMMA LoopEndsOnTrack ==
  ASSUME Good, Calmed, NEW p \in Procs, LoopEnds(p)
  PROVE  OnTrack
<1>1. CASE End(p)
  BY <1>1, EndGone, GoneDrains, Quiet DEF LoopEnds
<1>2. CASE Now(p).status \in Completable /\ ReadAs(p, "complete")
  <2>1. inv[p].pc \in {"loop", "finished"} /\ Holds(inv[p], T(p))
    BY DEF LoopEnds, At, Holds, T, Holding, Working
  <2>2. /\ Fits(env, inv[p], Now(p)) /\ Tame(Now(p)) /\ Fresh(Now(p))
        /\ Now(p).updated = 0
    BY <2>1, HolderKnows DEF Working
  <2>3. Goes(p, "complete") /\ inv'[p].snap = Now(p) /\ inv'[p].want = inv[p].want
    BY <1>2, ReadsGoes DEF ReadAs
  <2>4. Completes(inv'[p], Now(p))
    <3>1. CASE inv[p].pc = "loop"
      <4>1. AtWork(inv[p], Now(p)) /\ Now(p).status = "running"
        BY <1>2, <2>2, <3>1 DEF Fits, AtWork, Completable
      <4> QED BY <2>2, <2>3, <4>1 DEF Completes, Reads, AtWork, Fresh
    <3>2. CASE inv[p].pc = "finished"
      BY <1>2, <2>2, <2>3, <3>2 DEF Fits, Completes, Recorded, Kept, Completable
    <3> QED BY <2>1, <3>1, <3>2
  <2>5. Fits(env, inv'[p], Now(p))
    BY <2>3, <2>4 DEF Goes, Fits, Same
  <2>6. Advances(Now(p), Now(p))
    BY DEF Advances
  <2>7. env' = env /\ row' = row /\ events' = events /\ spent' = spent
    BY DEF LoopEnds
  <2> QED BY <2>1, <2>2, <2>3, <2>5, <2>6, <2>7, HolderGoesOn DEF Working
<1> QED BY <1>1, <1>2 DEF LoopEnds

(* What a completing step has read, and how far Stepped counts. *)
LEMMA CompletingKnows ==
  ASSUME Good, Calmed, NEW p \in Procs, At(p, "complete")
  PROVE  /\ Holds(inv[p], T(p)) /\ inv[p].pc = "complete" /\ Same(inv[p], Now(p))
         /\ Stepped(p) \in Row
         /\ Tame(Snap(p)) /\ Now(p) \in Row /\ Tame(Now(p)) /\ Fresh(Now(p)) /\ Snap(p).step \in Nat
         /\ \/ /\ Snap(p).status = "running" /\ Now(p).status \in {"running", "cancelled"}
               /\ Says(Stepped(p), "running", Snap(p).step + 1, Snap(p).step + 1, Snap(p).claimedAt, Snap(p).attempt)
               /\ Snap(p).claimedAt # "stale"
            \/ /\ Snap(p).status \in {"review", "needs_owner"}
               /\ Now(p).status \in {Snap(p).status, "cancelled"}
               /\ Says(Stepped(p), Snap(p).status, Snap(p).step, Snap(p).claimed, Snap(p).claimedAt, Snap(p).attempt)
<1>1. Holds(inv[p], T(p)) /\ inv[p].pc = "complete"
  BY DEF At, Holds, T, Holding, Working
<1>2. Fits(env, inv[p], Now(p)) /\ Tame(Now(p)) /\ Fresh(Now(p)) /\ Tame(Snap(p))
  BY <1>1, HolderKnows
<1>3. Snap(p) \in Row /\ Now(p) \in Row /\ Snap(p).step \in Nat
  BY ActorType, RowFields
<1>4. Completes(inv[p], Now(p)) /\ Same(inv[p], Now(p))
  BY <1>1, <1>2 DEF Fits
<1>5. PICK n \in Nat : n = IF Snap(p).step >= inv[p].want THEN Snap(p).step ELSE Snap(p).step + 1
  BY <1>3
<1>6. /\ Stepped(p) \in Row
      /\ Says(Stepped(p), Snap(p).status, n, Snap(p).claimed, Snap(p).claimedAt, Snap(p).attempt)
  BY <1>5, SteppedSays
<1>7. CASE Reads(inv[p]) /\ AtWork(inv[p], Now(p))
  <2>1. /\ Snap(p).status = "running" /\ inv[p].want = Snap(p).step + 1
        /\ Snap(p).claimed = Snap(p).step + 1 /\ Snap(p).claimedAt # "stale"
        /\ Now(p).status \in {"running", "cancelled"}
    BY <1>7 DEF Reads, AtWork, Snap
  <2>2. n = Snap(p).step + 1
    BY <1>3, <1>5, <2>1
  <2> QED BY <1>1, <1>2, <1>3, <1>4, <1>6, <2>1, <2>2
<1>8. CASE /\ inv[p].snap.status \in {"review", "needs_owner"}
           /\ Recorded(inv[p], Now(p)) /\ Kept(inv[p], Now(p))
  <2>1. /\ Snap(p).status \in {"review", "needs_owner"} /\ inv[p].want = Snap(p).step
        /\ Now(p).status \in {Snap(p).status, "cancelled"}
    BY <1>4, <1>8 DEF Recorded, Kept, Same, Snap
  <2>2. n = Snap(p).step
    BY <1>3, <1>5, <2>1
  <2> QED BY <1>1, <1>2, <1>3, <1>4, <1>6, <2>1, <2>2
<1> QED BY <1>4, <1>7, <1>8 DEF Completes

LEMMA ParkOnTrack ==
  ASSUME Good, Calmed, NEW p \in Procs, ParkWaitingApproval(p)
  PROVE  OnTrack
<1>1. PICK r : r = [Align(Stepped(p)) EXCEPT !.status = "waiting_approval", !.idle = 0]
  OBVIOUS
<1>2. CASE row' = row
  BY <1>2, EndGone, GoneDrains, Quiet DEF ParkWaitingApproval
<1>3. CASE Now(p).status \in {"running", "review"} /\ Put(T(p), r)
  <2>1. At(p, "complete")
    BY DEF ParkWaitingApproval
  <2>2. /\ Holds(inv[p], T(p)) /\ inv[p].pc = "complete" /\ Same(inv[p], Now(p)) /\ Stepped(p) \in Row
    BY <2>1, CompletingKnows
  <2>3. "waiting_approval" \in Statuses
    BY DEF Statuses
  <2>4. Says(r, "waiting_approval", Stepped(p).step, Stepped(p).step, "none", Stepped(p).attempt)
    BY <1>1, <2>2, <2>3, ParkSays
  <2>5. Stepped(p).step \in Nat
    BY <2>2, RowFields
  <2>6. r.updated = 0 /\ Tame(r) /\ Fresh(r) /\ r.status = "waiting_approval"
    BY <2>4, <2>5 DEF Says, Tame, Fresh
  <2>7. \/ /\ Now(p).status = "running"
           /\ Stepped(p).step = Snap(p).step + 1 /\ Stepped(p).attempt = Snap(p).attempt
        \/ /\ Now(p).status = "review"
           /\ Stepped(p).step = Snap(p).step /\ Stepped(p).attempt = Snap(p).attempt
    BY <1>3, <2>1, CompletingKnows DEF Says
  <2>8. Advances(Now(p), r)
    BY <2>2, <2>4, <2>7 DEF Says, Same, Snap, Advances, Lifecycle!Moves, Lifecycle!StepMoves
  <2>9. PICK e : e = ReviewEvent(T(p))
    OBVIOUS
  <2>10. e.kind = "review" /\ Sent(e, T(p)) /\ events' \subseteq events \cup {e}
    BY <2>9, EventSays DEF Sent, ParkWaitingApproval
  <2>11. Gone(p) /\ env' = env
    BY EndGone DEF ParkWaitingApproval
  <2>12. "budget" \notin env => ~spent'
    BY DEF ParkWaitingApproval, Calmed, Possible
  <2> QED BY <1>3, <2>2, <2>6, <2>8, <2>10, <2>11, <2>12, PutsAndGoes
<1> QED BY <1>1, <1>2, <1>3 DEF ParkWaitingApproval

LEMMA CompleteMovedRowOnTrack ==
  ASSUME Good, Calmed, NEW p \in Procs, CompleteMovedRow(p)
  PROVE  OnTrack
<1>1. PICK n : n = Stepped(p).step
  OBVIOUS
<1>2. PICK r : r = [Touch(Now(p)) EXCEPT !.step = n, !.idle = 0, !.stuckRetried = FALSE]
  OBVIOUS
<1>3. CASE row' = row
  BY <1>3, EndGone, GoneDrains, Quiet DEF CompleteMovedRow
<1>4. CASE Now(p).status = Snap(p).status /\ Put(T(p), r)
  <2>1. At(p, "complete") /\ Snap(p).status # "running"
    BY DEF CompleteMovedRow
  <2>2. /\ Holds(inv[p], T(p)) /\ inv[p].pc = "complete" /\ Same(inv[p], Now(p))
        /\ Now(p) \in Row /\ Tame(Now(p)) /\ Snap(p).step \in Nat
        /\ Snap(p).status \in {"review", "needs_owner"} /\ n = Snap(p).step
    BY <1>1, <2>1, CompletingKnows DEF Says
  <2>3. Says(r, Now(p).status, n, Now(p).claimed, Now(p).claimedAt, Now(p).attempt)
    BY <1>2, <2>2, MovedSays
  <2>4. n = Now(p).step /\ Now(p).status \in {"review", "needs_owner"}
    BY <1>4, <2>2 DEF Same, Snap
  <2>5. r.updated = 0 /\ Tame(r) /\ Fresh(r) /\ r.status = Now(p).status
    BY <2>2, <2>3, <2>4 DEF Says, Tame, Fresh
  <2>6. Advances(Now(p), r)
    BY <2>3, <2>4 DEF Says, Advances
  <2>7. PICK e : e = ReviewEvent(T(p))
    OBVIOUS
  <2>8. e.kind = "review" /\ Sent(e, T(p)) /\ events' \subseteq events \cup {e}
    BY <2>7, EventSays DEF Sent, CompleteMovedRow
  <2>9. Gone(p) /\ env' = env
    BY EndGone DEF CompleteMovedRow
  <2>10. "budget" \notin env => ~spent'
    BY DEF CompleteMovedRow, Calmed, Possible
  <2> QED BY <1>4, <2>2, <2>4, <2>5, <2>6, <2>8, <2>9, <2>10, PutsAndGoes
<1> QED BY <1>1, <1>2, <1>3, <1>4 DEF CompleteMovedRow

(* A step that is counted: what it puts has one step more, and nobody claimed the next. *)
LEMMA CountedOnTrack ==
  ASSUME Good, Calmed, NEW p \in Procs, At(p, "complete"), Snap(p).status = "running",
         NEW r, NEW x \in {"running", "review", "needs_owner", "failed"}, NEW at, at # "stale",
         Says(r, x, Snap(p).step + 1, Snap(p).step + 1, at, Snap(p).attempt),
         Put(T(p), r), End(p), env' = env, spent' = spent,
         NEW e, Sent(e, T(p)), events' \subseteq events \cup {e}, e.kind = "step" => x = "running"
  PROVE  OnTrack
<1>1. /\ Holds(inv[p], T(p)) /\ inv[p].pc = "complete" /\ Same(inv[p], Now(p))
      /\ Snap(p).step \in Nat /\ Now(p).status \in {"running", "cancelled"}
  BY CompletingKnows
<1>2. r.updated = 0 /\ Tame(r) /\ Fresh(r) /\ r.status = x
  BY <1>1 DEF Says, Tame, Fresh
<1>3. Uncancelled(env) => Advances(Now(p), r)
  BY <1>1, NotCancelled DEF Same, Says, Advances, Snap, Lifecycle!StepMoves
<1>4. Gone(p)
  BY EndGone
<1>5. "budget" \notin env => ~spent'
  BY DEF Calmed, Possible
<1> QED BY <1>1, <1>2, <1>3, <1>4, <1>5, PutsAndGoes

LEMMA CountingOnTrack ==
  ASSUME Good, Calmed, NEW p \in Procs, At(p, "complete"), Snap(p).status = "running",
         NEW n \in Nat, NEW r, r = [Stepped(p) EXCEPT !.idle = n],
         Salvage(T(p), r) \/ GiveUp(T(p), r) \/ Proceed(p, r),
         End(p), env' = env, spent' = spent
  PROVE  OnTrack
<1>1. /\ Stepped(p) \in Row /\ Snap(p).claimedAt # "stale" /\ Snap(p).step \in Nat
      /\ Says(Stepped(p), "running", Snap(p).step + 1, Snap(p).step + 1, Snap(p).claimedAt, Snap(p).attempt)
  BY CompletingKnows
<1>2. /\ r \in Row
      /\ Says(r, "running", Snap(p).step + 1, Snap(p).step + 1, Snap(p).claimedAt, Snap(p).attempt)
  BY <1>1, IdleSays DEF Says
<1>3. PICK e : e = ReviewEvent(T(p))
  OBVIOUS
<1>4. e.kind = "review" /\ Sent(e, T(p)) /\ (Invoke(e) \/ events' = events => events' \subseteq events \cup {e})
  BY <1>3, EventSays DEF Invoke, Sent
<1>5. CASE GiveUp(T(p), r)
  <2>1. Says(Fail(r), "failed", Snap(p).step + 1, Snap(p).step + 1, Snap(p).claimedAt, Snap(p).attempt)
    BY <1>2, FailSays DEF Says
  <2> QED BY <1>1, <1>4, <1>5, <2>1, CountedOnTrack DEF GiveUp
<1>6. CASE Salvage(T(p), r)
  <2>1. PICK x \in {"review", "needs_owner"} :
          /\ Put(T(p), [Align(r) EXCEPT !.status = x, !.idle = 0])
          /\ events' \subseteq events \cup {e}
    BY <1>3, <1>4, <1>6 DEF Salvage
  <2>2. x \in Statuses
    BY DEF Statuses
  <2>3. PICK s : s = [Align(r) EXCEPT !.status = x, !.idle = 0]
    OBVIOUS
  <2>4. Says(s, x, Snap(p).step + 1, Snap(p).step + 1, "none", Snap(p).attempt)
    BY <1>2, <2>2, <2>3, ParkSays DEF Says
  <2> QED BY <1>4, <2>1, <2>3, <2>4, CountedOnTrack
<1>7. CASE Put(T(p), r) /\ Invoke(StepEvent(T(p), Seq(p) + 1))
  <2>1. PICK d : d = StepEvent(T(p), Seq(p) + 1)
    OBVIOUS
  <2>2. Sent(d, T(p)) /\ events' \subseteq events \cup {d}
    BY <1>7, <2>1, EventSays DEF Invoke, Sent, Waking
  <2> QED BY <1>1, <1>2, <1>7, <2>2, CountedOnTrack
<1> QED BY <1>5, <1>6, <1>7 DEF Proceed

LEMMA CompleteStepOnTrack ==
  ASSUME Good, Calmed, NEW p \in Procs, CompleteStep(p)
  PROVE  OnTrack
<1>1. CASE CompleteProductive(p)
  <2>1. Proceed(p, [Stepped(p) EXCEPT !.idle = 0])
    BY <1>1 DEF CompleteProductive
  <2> QED BY <1>1, <2>1, CountingOnTrack, 0 \in Nat DEF CompleteProductive
<1>2. CASE CompleteIdle(p)
  <2>1. PICK n \in Nat : n = Stepped(p).idle + 1
    BY SteppedType, ActorType, RowFields
  <2>2. PICK r : r = [Stepped(p) EXCEPT !.idle = n]
    OBVIOUS
  <2>3. Salvage(T(p), r) \/ GiveUp(T(p), r) \/ Proceed(p, r)
    BY <1>2, <2>1, <2>2 DEF CompleteIdle
  <2> QED BY <1>2, <2>2, <2>3, CountingOnTrack DEF CompleteIdle
<1> QED BY <1>1, <1>2, LoopEndsOnTrack, ParkOnTrack, CompleteMovedRowOnTrack DEF CompleteStep

-----------------------------------------------------------------------------
(* Those who read a row and become its holder. *)

LEMMA BeginDoes ==
  ASSUME Good, NEW p \in Procs, NEW pc, NEW t \in Tasks, Begin(p, pc, t)
  PROVE  /\ inv'[p].pc = pc /\ inv'[p].task = t /\ inv'[p].snap = row[t] /\ inv'[p].queue = {}
         /\ \A q \in Procs \ {p} : inv'[q] = inv[q]
<1>1. Idle \in Invocation /\ Idle.queue = {}
  BY IdleType DEF GoodInvocation, Idle
<1>2. /\ inv'[p] = [Idle EXCEPT !.pc = pc, !.task = t, !.snap = row[t]]
      /\ \A q \in Procs \ {p} : inv'[q] = inv[q]
  BY DEF Good, Begin
<1> QED BY <1>1, <1>2 DEF Invocation

(* What the status of a task says about its holder. *)
LEMMA HolderStatus ==
  ASSUME NEW t \in Tasks, Calm(t), NEW q \in Procs, Holds(inv[q], t)
  PROVE  /\ inv[q].pc \in Working => row[t].status \in {"running", "review", "needs_owner", "cancelled"}
         /\ inv[q].pc = "judge" => row[t].status \in Judged(env)
         /\ inv[q].pc = "retry" => row[t].status \in {"failed", "needs_owner", "cancelled"}
         /\ inv[q].pc = "resume" => row[t].status \in {"waiting_approval", "cancelled"}
         /\ inv[q].pc \in Sweeping => row[t].status \in {"running", "review", "cancelled"}
         /\ inv[q].pc \in Working \cup Sweeping \cup {"judge", "retry", "resume"}
<1>1. Fits(env, inv[q], row[t])
  BY DEF Calm, Fitting, Holds
<1>2. inv[q].pc \in Working \cup Sweeping \cup {"judge", "retry", "resume"}
  BY DEF Holds, Holding
<1>3. inv[q].pc \in Working => row[t].status \in {"running", "review", "needs_owner", "cancelled"}
  BY <1>1 DEF Working, Fits, AtWork, Recorded, Completes
<1>4. inv[q].pc \in Sweeping => row[t].status \in {"running", "review", "cancelled"}
  BY <1>1 DEF Sweeping, Fits, Kept
<1> QED BY <1>1, <1>2, <1>3, <1>4 DEF Fits, Kept

LEMMA EntersOnTrack ==
  ASSUME Good, Calmed, NEW p \in Procs, NEW t \in Tasks,
         UNCHANGED <<env, row, spent>>, events' \subseteq events,
         \A q \in Procs \ {p} : inv'[q] = inv[q],
         inv'[p].task = t, inv'[p].pc \in {"judge", "retry", "resume", "sweep"},
         inv'[p].queue = {}, inv'[p].snap = row[t],
         row[t].status \notin {"absent", "queued"},
         Fits(env, inv'[p], row[t]),
         \A q \in Procs : Holds(inv[q], t) =>
           ~Once(env) /\ inv[q].pc = "judge" /\ inv'[p].pc = "judge",
         Once(env) => NoToken(t),
         inv'[p].pc = "judge" =>
           /\ row[t].updated = 0
           /\ Once(env) => \A d \in events' : d.task = t => d.kind # "review",
         inv'[p].pc = "retry" => "retry" \in env,
         inv'[p].pc = "resume" => inv[p].pc = "decided" /\ inv[p].task = t,
         inv'[p].pc = "sweep" =>
           /\ \A d \in events : d.task # t
           /\ \A q \in Procs : ~Claims(inv[q], t) /\ t \notin inv[q].queue
  PROVE  OnTrack
<1>1. Calm(t) /\ Tame(row[t]) /\ row' = row /\ env' = env
  BY DEF Calmed, Calm
<1>2. Calm(t)'
  BY <1>1, Enters
<1>3. "budget" \notin env => ~spent'
  BY DEF Calmed, Possible
<1>4. Calmed'
  BY <1>1, <1>2, <1>3, Together
<1> QED BY <1>1, <1>4, RowStays DEF OnTrack

LEMMA ReviewReceivedOnTrack ==
  ASSUME Good, Calmed, NEW p \in Procs, NEW e \in events, ReviewReceived(p, e)
  PROVE  OnTrack
<1>1. events' \subseteq events /\ At(p, "idle")
  BY DEF ReviewReceived, Consume
<1>2. CASE inv' = inv
  BY <1>1, <1>2, Dropped DEF ReviewReceived
<1>3. ASSUME NEW t, t = e.task, row[t].status = "review",
             inv' = [inv EXCEPT ![p] = [Idle EXCEPT !.pc = "judge", !.task = t, !.snap = row[t]]]
      PROVE  OnTrack
  <2>1. t \in Tasks /\ Settled(t) /\ e.kind = "review"
    BY <1>3 DEF Good, Events, ReviewReceived
  <2>2. Calm(t)
    BY <2>1 DEF Calmed
  <2>3. /\ inv'[p].pc = "judge" /\ inv'[p].task = t /\ inv'[p].snap = row[t] /\ inv'[p].queue = {}
        /\ \A q \in Procs \ {p} : inv'[q] = inv[q]
    <3>1. Begin(p, "judge", t)
      BY <1>1, <1>3 DEF Begin
    <3> QED BY <2>1, <3>1, BeginDoes
  <2>4. Fits(env, inv'[p], row[t])
    BY <1>3, <2>3 DEF Fits, Same, Judged
  <2>5. Once(env) => \A d \in events' : d.task = t => d.kind # "review"
    <3>1. \A d \in events : d.task = t /\ d.kind = "review" => d = e
      BY <1>3, <2>1 DEF Calmed, Possible
    <3>2. Once(env) => e \notin events'
      BY DEF ReviewReceived, Consume, Once, Lossy
    <3> QED BY <1>1, <3>1, <3>2
  <2>6. ASSUME NEW q \in Procs, Holds(inv[q], t)
        PROVE  ~Once(env) /\ inv[q].pc = "judge"
    <3>1. inv[q].pc \notin Working \cup {"retry", "ownerJudge"}
      BY <2>1, <2>6 DEF Settled, Holds, T, Calmed, Orderly, Once, Lossy, Repeating
    <3>2. inv[q].pc \notin Sweeping
      BY <1>3, <2>2, <2>6 DEF Calm, SweptAlone, Sweeps, Holds
    <3>3. inv[q].pc = "judge"
      BY <1>3, <2>1, <2>2, <2>6, <3>1, <3>2, HolderStatus
    <3>4. ~Once(env)
      BY <1>3, <2>1, <2>2, <2>6, <3>3 DEF Calm, JudgedOnce, Holds
    <3> QED BY <3>3, <3>4
  <2>7. Once(env) => NoToken(t)
    BY <1>3, <2>2 DEF Calm, HandedOn
  <2>8. row[t].updated = 0
    BY <1>3, <2>2 DEF Calm, Aged
  <2> QED BY <1>1, <1>3, <2>1, <2>3, <2>4, <2>5, <2>6, <2>7, <2>8, EntersOnTrack DEF ReviewReceived
<1> QED BY <1>2, <1>3 DEF ReviewReceived

LEMMA RetryReadsOnTrack ==
  ASSUME Good, Calmed, NEW p \in Procs, NEW t \in Tasks, RetryReads(p, t)
  PROVE  OnTrack
<1>1. row[t].status \in {"failed", "needs_owner"} /\ Settled(t) /\ "retry" \in env /\ Calm(t)
  BY DEF RetryReads, Calmed
<1>2. /\ inv'[p].pc = "retry" /\ inv'[p].task = t /\ inv'[p].snap = row[t] /\ inv'[p].queue = {}
      /\ \A q \in Procs \ {p} : inv'[q] = inv[q]
  BY BeginDoes DEF RetryReads
<1>3. Once(env)
  BY <1>1 DEF Calmed, Orderly, Repeating
<1>4. Fits(env, inv'[p], row[t])
  BY <1>1, <1>2 DEF Fits, Same, Kept
<1>5. ASSUME NEW q \in Procs, Holds(inv[q], t)
      PROVE  FALSE
  <2>1. inv[q].pc \notin Working \cup {"retry"}
    BY <1>1, <1>3, <1>5 DEF Settled, Holds, T, Once, Lossy
  <2> QED BY <1>1, <1>3, <1>5, <2>1, HolderStatus DEF Judged
<1>6. NoToken(t)
  BY <1>1, <1>3 DEF Calm, HandedOn
<1> QED BY <1>1, <1>2, <1>4, <1>5, <1>6, EntersOnTrack DEF RetryReads

LEMMA ResumeReadsOnTrack ==
  ASSUME Good, Calmed, NEW p \in Procs, ResumeReads(p)
  PROVE  OnTrack
<1>1. CASE End(p)
  BY <1>1, EndGone, GoneDrains, Quiet DEF ResumeReads
<1>2. CASE Now(p).status = "waiting_approval" /\ ReadAs(p, "resume")
  <2>1. PICK t \in Tasks : t = T(p)
    BY ActorType
  <2>2. Calm(t) /\ row[t] = Now(p) /\ inv[p].task = t /\ inv[p].pc = "decided" /\ inv[p].queue = {}
    BY <2>1 DEF Calmed, Possible, Now, T, ResumeReads, At
  <2>3. Goes(p, "resume") /\ inv'[p].snap = Now(p)
    BY <1>2, ReadsGoes DEF ReadAs
  <2>4. /\ inv'[p].pc = "resume" /\ inv'[p].task = t /\ inv'[p].snap = row[t] /\ inv'[p].queue = {}
        /\ \A q \in Procs \ {p} : inv'[q] = inv[q]
    BY <2>2, <2>3 DEF Goes
  <2>5. Fits(env, inv'[p], row[t])
    BY <1>2, <2>2, <2>4 DEF Fits, Same, Kept
  <2>6. ASSUME NEW q \in Procs, Holds(inv[q], t)
        PROVE  FALSE
    <3>1. inv[q].pc = "resume"
      BY <1>2, <2>2, <2>6, HolderStatus DEF Judged
    <3>2. q = p
      BY <2>2, <2>6, <3>1 DEF Calm, OneDecider, Decides, Holds
    <3> QED BY <2>2, <3>1, <3>2
  <2>7. Once(env) => NoToken(t)
    BY <1>2, <2>2 DEF Calm, HandedOn
  <2> QED BY <1>2, <2>2, <2>4, <2>5, <2>6, <2>7, EntersOnTrack DEF ResumeReads
<1> QED BY <1>1, <1>2 DEF ResumeReads

(* A row that looks stuck is past the claim cut. *)
LEMMA SweepListsOnTrack ==
  ASSUME Good, Calmed, NEW p \in Procs, NEW t \in Tasks, SweepLists(p, t)
  PROVE  OnTrack
<1>1. Calm(t) /\ Stuck(row[t]) /\ row[t] \in Row
  BY DEF SweepLists, Calmed, Good, GoodRow
<1>2. /\ row[t].updated # 0 /\ row[t].status \in {"running", "review"}
      /\ row[t].status = "review" => row[t].updated = 2
  <2>1. row[t].status = "running" /\ ClaimIsStale(row[t]) => row[t].updated # 0
    BY <1>1 DEF Calm, Fresh, ClaimIsStale
  <2>2. NeverStarted(row[t]) => row[t].updated # 0
    BY DEF NeverStarted
  <2> QED BY <1>1, <2>1, <2>2 DEF Stuck
<1>3. /\ inv'[p].pc = "sweep" /\ inv'[p].task = t /\ inv'[p].snap = row[t] /\ inv'[p].queue = {}
      /\ \A q \in Procs \ {p} : inv'[q] = inv[q]
  BY BeginDoes DEF SweepLists
<1>4. Fits(env, inv'[p], row[t])
  BY <1>2, <1>3 DEF Fits, Same, Kept
<1>5. /\ \A d \in events : d.task # t
      /\ \A q \in Procs : ~Claims(inv[q], t) /\ t \notin inv[q].queue
  BY <1>1, <1>2 DEF Calm, Aged, Claims
<1>6. ASSUME NEW q \in Procs, Holds(inv[q], t)
      PROVE  FALSE
  <2>1. inv[q].pc \notin Working
    BY <1>1, <1>2, <1>6 DEF Calm, Aged, Holds
  <2>2. inv[q].pc \notin Sweeping
    BY <1>6 DEF SweepLists, Holds, T, Sweeping, Calmed, Orderly, Once, Lossy, Repeating
  <2>3. inv[q].pc = "judge" => row[t].status = "review"
    BY <1>1, <1>2, <1>6, HolderStatus DEF Judged
  <2>4. inv[q].pc # "judge"
    BY <1>1, <1>2, <1>6, <2>3 DEF Calm, Aged, Holds
  <2> QED BY <1>1, <1>2, <1>6, <2>1, <2>2, <2>4, HolderStatus
<1>7. NoToken(t)
  BY <1>5 DEF NoToken, Waking
<1> QED BY <1>2, <1>3, <1>4, <1>5, <1>6, <1>7, EntersOnTrack DEF SweepLists

LEMMA DecideOnTrack ==
  ASSUME Good, Calmed, NEW p \in Procs, NEW t \in Tasks, Decide(p, t)
  PROVE  OnTrack
<1>1. /\ inv'[p].pc = "decided" /\ inv'[p].task = t /\ inv'[p].snap = row[t] /\ inv'[p].queue = {}
      /\ \A q \in Procs \ {p} : inv'[q] = inv[q]
  BY BeginDoes DEF Decide
<1>2. \A q \in Procs : ~Decides(inv[q], t)
  BY DEF Decide, Decides, T, Calmed, Orderly, Once, Lossy, Repeating
<1>3. Calm(t) /\ Tame(row[t])
  BY DEF Calmed, Calm
<1>4. env' = env /\ row' = row /\ events' = events /\ spent' = spent
  BY DEF Decide
<1>5. Calm(t)'
  BY <1>1, <1>2, <1>3, <1>4, Still
<1>6. "budget" \notin env => ~spent'
  BY <1>4 DEF Calmed, Possible
<1>7. Calmed'
  BY <1>1, <1>3, <1>4, <1>5, <1>6, Together
<1> QED BY <1>4, <1>7, RowStays DEF OnTrack

-----------------------------------------------------------------------------
(* Those who write what they read and leave. *)

(* A reader of pc that puts r and is gone. *)
LEMMA ReaderKnows ==
  ASSUME Good, Calmed, NEW p \in Procs, inv[p].pc \in {"judge", "retry", "resume", "sweep"}
  PROVE  /\ Holds(inv[p], T(p)) /\ Same(inv[p], Now(p))
         /\ Snap(p) \in Row /\ Tame(Snap(p)) /\ Snap(p).step \in Nat
         /\ inv[p].pc = "judge" => Snap(p).status = "review" /\ Now(p).status \in Judged(env)
         /\ inv[p].pc # "judge" => Now(p).status \in {Snap(p).status, "cancelled"}
         /\ inv[p].pc = "retry" => Snap(p).status \in {"failed", "needs_owner"}
         /\ inv[p].pc = "resume" => Snap(p).status = "waiting_approval"
<1>1. Holds(inv[p], T(p))
  BY DEF Holds, T, Holding, Sweeping
<1>2. Fits(env, inv[p], Now(p)) /\ Tame(Snap(p))
  BY <1>1, HolderKnows
<1>3. Snap(p) \in Row /\ Snap(p).step \in Nat
  BY ActorType, RowFields
<1>4. inv[p].pc # "judge" => Kept(inv[p], Now(p))
  BY <1>2 DEF Fits
<1> QED BY <1>1, <1>2, <1>3, <1>4 DEF Fits, Kept, Snap

LEMMA ReaderPuts ==
  ASSUME Good, Calmed, NEW p \in Procs, inv[p].pc \in {"judge", "resume", "sweep"},
         NEW r, NEW x \in Statuses, NEW c, NEW at,
         Says(r, x, Snap(p).step, c, at, Snap(p).attempt), Tame(r),
         x \notin {"absent", "queued", "cancelled"}, x = "running" => at # "stale",
         inv[p].pc = "judge" => Once(env) \/ x \in {"delivered", "needs_owner"},
         x = Snap(p).status \/ <<Snap(p).status, x>> \in Lifecycle!Moves,
         Put(T(p), r), End(p), env' = env, spent' = spent,
         NEW e, Sent(e, T(p)), events' \subseteq events \cup {e}, e.kind = "step" => x = "running"
  PROVE  OnTrack
<1>1. Holds(inv[p], T(p)) /\ Same(inv[p], Now(p))
  BY ReaderKnows
<1>2. r.updated = 0 /\ Fresh(r) /\ r.status = x
  BY DEF Says, Fresh
<1>3. inv[p].pc = "judge" =>
        \/ Once(env)
        \/ /\ r.status \in {"review", "delivered", "needs_owner", "cancelled"}
           /\ r.step = Now(p).step /\ r.attempt = Now(p).attempt
  BY <1>1 DEF Says, Same, Snap
<1>4. Uncancelled(env) => Advances(Now(p), r)
  <2> SUFFICES ASSUME Uncancelled(env) PROVE Advances(Now(p), r)
    OBVIOUS
  <2>1. Now(p).status = Snap(p).status
    BY ReaderKnows, NotCancelled DEF Judged
  <2> QED BY <1>1, <2>1 DEF Says, Same, Snap, Advances
<1>5. "budget" \notin env => ~spent'
  BY DEF Calmed, Possible
<1>6. Gone(p)
  BY EndGone
<1> QED BY <1>1, <1>2, <1>3, <1>4, <1>5, <1>6, PutsAndGoes

LEMMA ReviewAcceptsOnTrack ==
  ASSUME Good, Calmed, NEW p \in Procs, ReviewAccepts(p)
  PROVE  OnTrack
<1>1. PICK x \in {"delivered", "needs_owner"} : Put(T(p), [Touch(Snap(p)) EXCEPT !.status = x])
  BY DEF ReviewAccepts
<1>2. inv[p].pc = "judge" /\ Snap(p).status = "review" /\ Tame(Snap(p)) /\ Snap(p) \in Row
  BY ReaderKnows DEF ReviewAccepts, At
<1>3. x \in Statuses
  BY DEF Statuses
<1>4. PICK r : r = [Touch(Snap(p)) EXCEPT !.status = x]
  OBVIOUS
<1>5. Says(r, x, Snap(p).step, Snap(p).claimed, Snap(p).claimedAt, Snap(p).attempt)
  BY <1>2, <1>3, <1>4, StatusSays
<1>6. Tame(r)
  BY <1>2, <1>5 DEF Says, Tame
<1>7. PICK e : e = ReviewEvent(T(p))
  OBVIOUS
<1>8. e.kind = "review" /\ Sent(e, T(p)) /\ events' \subseteq events \cup {e}
  BY <1>7, EventSays DEF Sent, ReviewAccepts
<1>9. <<Snap(p).status, x>> \in Lifecycle!Moves
  BY <1>2 DEF Lifecycle!Moves
<1> QED BY <1>1, <1>2, <1>3, <1>4, <1>5, <1>6, <1>8, <1>9, ReaderPuts DEF ReviewAccepts

LEMMA ReviewReturnsOnTrack ==
  ASSUME Good, Calmed, NEW p \in Procs, ReviewReturns(p)
  PROVE  OnTrack
<1>1. /\ inv[p].pc = "judge" /\ Snap(p).status = "review" /\ Tame(Snap(p)) /\ Snap(p) \in Row
      /\ Snap(p).step \in Nat
  BY ReaderKnows DEF ReviewReturns, At
<1>2. Once(env)
  BY DEF ReviewReturns, Calmed, Orderly, Repeating
<1>3. "running" \in Statuses /\ "needs_owner" \in Statuses
  BY DEF Statuses
<1>4. CASE /\ Put(T(p), [Align(Snap(p)) EXCEPT !.status = "running", !.revisions = @ + 1, !.idle = 0])
           /\ Invoke(StepEvent(T(p), Snap(p).step + 1))
  <2>1. PICK r : r = [Align(Snap(p)) EXCEPT !.status = "running", !.revisions = @ + 1, !.idle = 0]
    OBVIOUS
  <2>2. Says(r, "running", Snap(p).step, Snap(p).step, "none", Snap(p).attempt)
    BY <1>1, <1>3, <2>1, ReturnSays
  <2>3. Tame(r)
    BY <1>1, <2>2 DEF Says, Tame
  <2>4. PICK e : e = StepEvent(T(p), Snap(p).step + 1)
    OBVIOUS
  <2>5. Sent(e, T(p)) /\ events' \subseteq events \cup {e}
    BY <1>4, <2>4, EventSays DEF Sent, Waking, Invoke
  <2>6. <<Snap(p).status, "running">> \in Lifecycle!Moves
    BY <1>1 DEF Lifecycle!Moves
  <2>7. Put(T(p), r) /\ End(p) /\ env' = env /\ spent' = spent
    BY <1>4, <2>1 DEF ReviewReturns
  <2>8. "none" # "stale"
    OBVIOUS
  <2> QED BY <1>1, <1>2, <1>3, <2>2, <2>3, <2>5, <2>6, <2>7, <2>8, ReaderPuts
<1>5. CASE /\ Put(T(p), [Touch(Snap(p)) EXCEPT !.status = "needs_owner"])
           /\ UNCHANGED events
  <2>1. PICK r : r = [Touch(Snap(p)) EXCEPT !.status = "needs_owner"]
    OBVIOUS
  <2>2. Says(r, "needs_owner", Snap(p).step, Snap(p).claimed, Snap(p).claimedAt, Snap(p).attempt)
    BY <1>1, <1>3, <2>1, StatusSays
  <2>3. Tame(r)
    BY <1>1, <2>2 DEF Says, Tame
  <2>4. PICK e : e = ReviewEvent(T(p))
    OBVIOUS
  <2>5. e.kind = "review" /\ Sent(e, T(p)) /\ events' \subseteq events \cup {e}
    BY <1>5, <2>4, EventSays DEF Sent
  <2>6. <<Snap(p).status, "needs_owner">> \in Lifecycle!Moves
    BY <1>1 DEF Lifecycle!Moves
  <2> QED BY <1>1, <1>2, <1>3, <1>5, <2>1, <2>2, <2>3, <2>5, <2>6, ReaderPuts DEF ReviewReturns
<1> QED BY <1>4, <1>5 DEF ReviewReturns, Return

LEMMA RetryWritesOnTrack ==
  ASSUME Good, Calmed, NEW p \in Procs, RetryWrites(p)
  PROVE  OnTrack
<1>1. /\ inv[p].pc = "retry" /\ Snap(p).status \in {"failed", "needs_owner"} /\ Holds(inv[p], T(p))
      /\ Same(inv[p], Now(p)) /\ Now(p).status \in {Snap(p).status, "cancelled"}
  BY ReaderKnows DEF RetryWrites, At
<1>2. Once(env)
  BY <1>1 DEF Calmed, Possible, Orderly, Repeating
<1>3. PICK n \in Nat : n = Snap(p).attempt + 1
  BY ActorType, RowFields
<1>4. PICK r : r = [NewRow("queued") EXCEPT !.attempt = n]
  OBVIOUS
<1>5. Says(r, "queued", 0, 0, "none", n)
  BY <1>4, RetrySays
<1>6. r.updated = 0 /\ Tame(r) /\ Fresh(r) /\ r.status = "queued"
  BY <1>5 DEF Says, Tame, Fresh
<1>7. Uncancelled(env) => Advances(Now(p), r)
  <2> SUFFICES ASSUME Uncancelled(env) PROVE Advances(Now(p), r)
    OBVIOUS
  <2>1. Now(p).status # "cancelled"
    BY NotCancelled
  <2> QED BY <1>1, <1>3, <1>5, <2>1 DEF Says, Same, Snap, Advances
<1>8. PICK e : e = ReviewEvent(T(p))
  OBVIOUS
<1>9. e.kind = "review" /\ Sent(e, T(p)) /\ events' \subseteq events \cup {e}
  BY <1>8, EventSays DEF Sent, RetryWrites
<1>10. Gone(p)
  BY RestGone DEF RetryWrites
<1>11. env' = env /\ Put(T(p), r)
  BY <1>3, <1>4 DEF RetryWrites
<1>12. "budget" \notin env => ~spent'
  BY DEF RetryWrites, Calmed, Possible
<1> QED BY <1>1, <1>2, <1>6, <1>7, <1>9, <1>10, <1>11, <1>12, PutsAndGoes

LEMMA StaysParkedOnTrack ==
  ASSUME Good, Calmed, NEW p \in Procs, StaysParked(p)
  PROVE  OnTrack
<1>1. inv[p].pc = "resume" /\ Snap(p).status = "waiting_approval" /\ Tame(Snap(p)) /\ Snap(p) \in Row
  BY ReaderKnows DEF StaysParked, At
<1>2. PICK r : r = Touch(Snap(p))
  OBVIOUS
<1>3. /\ Says(r, "waiting_approval", Snap(p).step, Snap(p).claimed, Snap(p).claimedAt, Snap(p).attempt)
      /\ "waiting_approval" \in Statuses
  BY <1>1, <1>2, TouchSays DEF Statuses
<1>4. Tame(r)
  BY <1>1, <1>3 DEF Says, Tame
<1>5. PICK e : e = ReviewEvent(T(p))
  OBVIOUS
<1>6. e.kind = "review" /\ Sent(e, T(p)) /\ events' \subseteq events \cup {e}
  BY <1>5, EventSays DEF Sent, StaysParked
<1> QED BY <1>1, <1>2, <1>3, <1>4, <1>6, ReaderPuts DEF StaysParked

LEMMA ResumesOnTrack ==
  ASSUME Good, Calmed, NEW p \in Procs, Resumes(p)
  PROVE  OnTrack
<1>1. /\ inv[p].pc = "resume" /\ Snap(p).status = "waiting_approval" /\ Snap(p) \in Row
      /\ Snap(p).step \in Nat
  BY ReaderKnows DEF Resumes, At
<1>2. PICK r : r = [Align(Snap(p)) EXCEPT !.status = "running"]
  OBVIOUS
<1>3. "running" \in Statuses
  BY DEF Statuses
<1>4. Says(r, "running", Snap(p).step, Snap(p).step, "none", Snap(p).attempt)
  BY <1>1, <1>2, <1>3, ResumeSays
<1>5. Tame(r)
  BY <1>1, <1>4 DEF Says, Tame
<1>6. PICK e : e = StepEvent(T(p), Snap(p).step + 1)
  OBVIOUS
<1>7. Sent(e, T(p)) /\ events' \subseteq events \cup {e}
  BY <1>6, EventSays DEF Sent, Waking, Resumes, Invoke
<1>8. <<Snap(p).status, "running">> \in Lifecycle!Moves
  BY <1>1 DEF Lifecycle!Moves
<1>9. Put(T(p), r) /\ End(p) /\ env' = env /\ spent' = spent
  BY <1>2 DEF Resumes
<1>10. "none" # "stale"
  OBVIOUS
<1> QED BY <1>1, <1>3, <1>4, <1>5, <1>7, <1>8, <1>9, <1>10, ReaderPuts

-----------------------------------------------------------------------------
(* The sweep *)

LEMMA SweepReleasesOnTrack ==
  ASSUME Good, Calmed, NEW p \in Procs, SweepReleases(p)
  PROVE  OnTrack
<1>1. inv[p].pc = "sweep" /\ Snap(p).status = "running"
  BY DEF SweepReleases, At
<1>2. /\ Holds(inv[p], T(p)) /\ Now(p).step = Snap(p).step /\ Now(p).step \in Nat /\ Now(p) \in Row
      /\ Now(p).status \in {"running", "cancelled"}
  BY <1>1, ReaderKnows, ActorType DEF Same, Snap
<1>3. PICK r : r = ReleaseStepClaim(Now(p), Now(p).step + 1)
  OBVIOUS
<1>4. Says(r, Now(p).status, Now(p).step, Now(p).step, "none", Now(p).attempt)
  BY <1>2, <1>3, ReleaseSays
<1>5. r.updated = 0 /\ Tame(r) /\ Fresh(r) /\ r.status = Now(p).status
  BY <1>2, <1>4 DEF Says, Tame, Fresh
<1>6. inv[p] \in Invocation
  BY ActorType DEF GoodInvocation
<1>7. /\ inv'[p] = [inv[p] EXCEPT !.pc = "sweepRetry", !.want = Snap(p).step + 1, !.snap = NewRow("absent")]
      /\ \A q \in Procs \ {p} : inv'[q] = inv[q]
  BY DEF Good, SweepReleases
<1>8. Goes(p, "sweepRetry") /\ inv'[p].snap = NewRow("absent")
  BY <1>6, <1>7 DEF Goes, Invocation
<1>9. Tame(inv'[p].snap)
  BY <1>8 DEF Tame, NewRow
<1>10. Fits(env, inv'[p], r)
  BY <1>2, <1>5, <1>8 DEF Goes, Fits
<1>11. Advances(Now(p), r)
  BY <1>4 DEF Says, Advances
<1>12. Put(T(p), r) /\ env' = env /\ events' = events /\ spent' = spent
  BY <1>2, <1>3 DEF SweepReleases
<1> QED BY <1>1, <1>2, <1>5, <1>8, <1>9, <1>10, <1>11, <1>12, HolderGoesOn

LEMMA SweepReinvokesOnTrack ==
  ASSUME Good, Calmed, NEW p \in Procs, SweepReinvokes(p)
  PROVE  OnTrack
<1>1. inv[p].pc = "sweepRetry" /\ Holds(inv[p], T(p)) /\ Now(p) \in Row
  BY ActorType DEF SweepReinvokes, At, Holds, T, Holding, Sweeping
<1>2. /\ Fits(env, inv[p], Now(p)) /\ Tame(Now(p)) /\ Fresh(Now(p)) /\ Now(p).updated = 0
  BY <1>1, HolderKnows
<1>3. PICK r : r = [Touch(Now(p)) EXCEPT !.stuckRetried = TRUE]
  OBVIOUS
<1>4. Says(r, Now(p).status, Now(p).step, Now(p).claimed, Now(p).claimedAt, Now(p).attempt)
  BY <1>1, <1>3, RetriedSays
<1>5. r.updated = 0 /\ Tame(r) /\ Fresh(r) /\ r.status = Now(p).status
  BY <1>2, <1>4 DEF Says, Tame, Fresh
<1>6. r.status \in {"running", "cancelled"}
  BY <1>1, <1>2, <1>5 DEF Fits
<1>7. Advances(Now(p), r)
  BY <1>4 DEF Says, Advances
<1>8. PICK e : e = StepEvent(T(p), inv[p].want)
  OBVIOUS
<1>9. Sent(e, T(p)) /\ events' \subseteq events \cup {e}
  BY <1>8, EventSays DEF Sent, Waking, SweepReinvokes, Invoke
<1>10. Put(T(p), r) /\ Gone(p) /\ env' = env
  BY <1>3, EndGone DEF SweepReinvokes
<1>11. "budget" \notin env => ~spent'
  BY DEF SweepReinvokes, Calmed, Possible
<1> QED BY <1>1, <1>5, <1>6, <1>7, <1>9, <1>10, <1>11, PutsAndGoes

LEMMA SweepFailsOnTrack ==
  ASSUME Good, Calmed, NEW p \in Procs, SweepFails(p)
  PROVE  OnTrack
<1>1. inv[p].pc = "sweep" /\ Snap(p).status = "running" /\ Tame(Snap(p)) /\ Snap(p) \in Row
  BY ReaderKnows DEF SweepFails, At
<1>2. PICK r : r = Fail(Snap(p))
  OBVIOUS
<1>3. /\ Says(r, "failed", Snap(p).step, Snap(p).claimed, Snap(p).claimedAt, Snap(p).attempt)
      /\ "failed" \in Statuses
  BY <1>1, <1>2, FailSays DEF Statuses
<1>4. Tame(r)
  BY <1>1, <1>3 DEF Says, Tame
<1>5. PICK e : e = ReviewEvent(T(p))
  OBVIOUS
<1>6. e.kind = "review" /\ Sent(e, T(p)) /\ events' \subseteq events \cup {e}
  BY <1>5, EventSays DEF Sent, SweepFails
<1>7. <<Snap(p).status, "failed">> \in Lifecycle!Moves
  BY <1>1 DEF Lifecycle!Moves
<1>8. Put(T(p), r) /\ End(p) /\ env' = env /\ spent' = spent
  BY <1>2 DEF SweepFails
<1> QED BY <1>1, <1>3, <1>4, <1>6, <1>7, <1>8, ReaderPuts

LEMMA SweepReviewOnTrack ==
  ASSUME Good, Calmed, NEW p \in Procs, SweepReview(p)
  PROVE  OnTrack
<1>1. inv[p].pc = "sweep" /\ Snap(p).status = "review" /\ Tame(Snap(p)) /\ Snap(p) \in Row
  BY ReaderKnows DEF SweepReview, At
<1>2. PICK e : e = ReviewEvent(T(p))
  OBVIOUS
<1>3. e.kind = "review" /\ Sent(e, T(p)) /\ events' \subseteq events \cup {e}
  BY <1>2, EventSays DEF Sent, SweepReview, Invoke
<1>4. PICK x, r :
        /\ x \in {"review", "needs_owner"}
        /\ Says(r, x, Snap(p).step, Snap(p).claimed, Snap(p).claimedAt, Snap(p).attempt)
        /\ Put(T(p), r)
  <2>1. Says([Touch(Snap(p)) EXCEPT !.status = "needs_owner"], "needs_owner",
             Snap(p).step, Snap(p).claimed, Snap(p).claimedAt, Snap(p).attempt)
    <3>1. "needs_owner" \in Statuses
      BY DEF Statuses
    <3> QED BY <1>1, <3>1, StatusSays
  <2>2. Says([Touch(Snap(p)) EXCEPT !.reviewRetried = TRUE], "review",
             Snap(p).step, Snap(p).claimed, Snap(p).claimedAt, Snap(p).attempt)
    BY <1>1, RetriedSays
  <2> QED BY <2>1, <2>2 DEF SweepReview
<1>5. Tame(r) /\ x \in Statuses
  BY <1>1, <1>4 DEF Says, Tame, Statuses
<1>6. x = Snap(p).status \/ <<Snap(p).status, x>> \in Lifecycle!Moves
  BY <1>1, <1>4 DEF Lifecycle!Moves
<1>7. End(p) /\ env' = env /\ spent' = spent
  BY DEF SweepReview
<1> QED BY <1>1, <1>3, <1>4, <1>5, <1>6, <1>7, ReaderPuts

-----------------------------------------------------------------------------
(* What moves a row while no invocation acts. *)

LEMMA RowMoves ==
  ASSUME Good, Calmed, NEW t \in Tasks, Calm(t)', NEW r, Put(t, r),
         env' = env, inv' = inv, spent' = spent, events' \subseteq events,
         r.status = row[t].status \/ (r.status = "cancelled" /\ "cancel" \in env),
         r.step = row[t].step, r.attempt = row[t].attempt
  PROVE  OnTrack
<1>1. row'[t] = r /\ \A u \in Tasks \ {t} : row'[u] = row[u]
  BY PutDoes
<1>2. \A u \in Tasks : Calm(u)'
  <2> SUFFICES ASSUME NEW u \in Tasks, u # t PROVE Calm(u)'
    OBVIOUS
  <2>1. Calm(u) /\ row'[u] = row[u]
    BY <1>1 DEF Calmed
  <2> QED BY <2>1, Unmoved
<1>3. Possible'
  BY <1>1 DEF Calmed, Possible
<1>4. Uncancelled(env) => Advanced
  BY <1>1 DEF Uncancelled, Advanced, Advances
<1> QED BY <1>2, <1>3, <1>4 DEF OnTrack, Calmed, Orderly

LEMMA CancelTaskOnTrack ==
  ASSUME Good, Calmed, NEW t \in Tasks, CancelTask(t)
  PROVE  OnTrack
<1>1. Calm(t) /\ row[t] \in Row /\ "cancelled" \in Statuses
  BY DEF Calmed, Good, GoodRow, Statuses
<1>2. PICK r : r = [Touch(row[t]) EXCEPT !.status = "cancelled"]
  OBVIOUS
<1>3. Says(r, "cancelled", row[t].step, row[t].claimed, row[t].claimedAt, row[t].attempt)
  BY <1>1, <1>2, StatusSays
<1>4. Put(t, r) /\ row'[t] = r
  BY <1>2, PutDoes DEF CancelTask
<1>5. Calm(t)'
  BY <1>1, <1>3, <1>4, Cancels DEF CancelTask
<1> QED BY <1>3, <1>4, <1>5, RowMoves DEF CancelTask, Says

LEMMA PastClaimCutOnTrack ==
  ASSUME Good, Calmed, NEW t \in Tasks, PastClaimCut(t)
  PROVE  OnTrack
<1>1. Calm(t) /\ row[t] \in Row /\ "late" \notin env
  BY DEF Calmed, Good, GoodRow, Orderly, Once, Lossy, Repeating
<1>2. PICK at : at = IF row[t].claimedAt = "none" THEN "none" ELSE "stale"
  OBVIOUS
<1>3. PICK r : r = [row[t] EXCEPT !.updated = 1, !.claimedAt = at]
  OBVIOUS
<1>4. /\ r.status = row[t].status /\ r.step = row[t].step /\ r.claimed = row[t].claimed
      /\ r.attempt = row[t].attempt /\ r.updated = 1 /\ r.claimedAt = at
  BY <1>1, <1>3 DEF Row
<1>5. Put(t, r) /\ row'[t] = r
  BY <1>2, <1>3, PutDoes DEF PastClaimCut
<1>6. ASSUME NEW q \in Procs
      PROVE  /\ inv[q].task = t => inv[q].pc \notin Working \cup {"claim", "sweepRetry"}
             /\ row[t].status # "queued" => t \notin inv[q].queue
  <2>1. CASE Bystander(q, t)
    BY <2>1 DEF Bystander, T, Working
  <2>2. CASE ReadOnlySoFar(q, t)
    BY <1>1, <2>2 DEF ReadOnlySoFar, At, Working, Calmed, Possible
  <2> QED BY <2>1, <2>2 DEF PastClaimCut
<1>7. /\ env' = env /\ inv' = inv /\ spent' = spent /\ events' = events
      /\ \A d \in events' : d \in events /\ d.task # t
  BY <1>1 DEF PastClaimCut
<1>8. Calm(t)'
  BY <1>1, <1>2, <1>4, <1>5, <1>6, <1>7, Ages
<1> QED BY <1>4, <1>5, <1>7, <1>8, RowMoves

LEMMA PastStuckCutOnTrack ==
  ASSUME Good, Calmed, NEW t \in Tasks, PastStuckCut(t)
  PROVE  OnTrack
<1>1. Calm(t) /\ row[t] \in Row
  BY DEF Calmed, Good, GoodRow
<1>2. PICK r : r = [row[t] EXCEPT !.updated = 2]
  OBVIOUS
<1>3. /\ r.status = row[t].status /\ r.step = row[t].step /\ r.claimed = row[t].claimed
      /\ r.attempt = row[t].attempt /\ r.updated = 2 /\ r.claimedAt = row[t].claimedAt
  BY <1>1, <1>2 DEF Row
<1>4. Put(t, r) /\ row'[t] = r
  BY <1>2, PutDoes DEF PastStuckCut
<1>5. ASSUME NEW q \in Procs
      PROVE  /\ inv[q].task = t => inv[q].pc \notin Working \cup {"claim", "sweepRetry", "judge"}
             /\ row[t].status # "queued" => t \notin inv[q].queue
  BY DEF PastStuckCut, Bystander, T, Working
<1>6. /\ env' = env /\ inv' = inv /\ spent' = spent
      /\ \A d \in events' : d \in events /\ d.task # t
  BY DEF PastStuckCut
<1>7. Calm(t)'
  BY <1>1, <1>3, <1>4, <1>5, <1>6, Ages
<1> QED BY <1>3, <1>4, <1>6, <1>7, RowMoves

(* Only the budget changes, or nothing. *)
LEMMA NothingMoves ==
  ASSUME Calmed, UNCHANGED <<env, row, events, inv>>, "budget" \in env \/ spent' = spent \/ ~spent'
  PROVE  OnTrack
<1>1. \A t \in Tasks : Calm(t)'
  BY Unmoved DEF Calmed
<1>2. Possible'
  BY DEF Calmed, Possible
<1> QED BY <1>1, <1>2, RowStays DEF OnTrack, Calmed, Orderly

-----------------------------------------------------------------------------
(* The whole next-state relation. *)

LEMMA ContinueOnTrack ==
  ASSUME Good, Calmed, NEW p \in Procs, Continue(p)
  PROVE  OnTrack
<1>1. CASE Drain(p)
  <2>1. CASE RequeueUnstarted(p)
    BY <2>1 DEF RequeueUnstarted, At, Calmed, Possible
  <2>2. ASSUME NEW t \in Tasks, DrainInvokeFails(p, t) PROVE OnTrack
    BY <2>2 DEF DrainInvokeFails, Calmed, Orderly, Once, Lossy, Repeating
  <2> QED BY <1>1, <2>1, <2>2, DrainListOnTrack, DrainClaimOnTrack DEF Drain
<1>2. CASE RunStep(p)
  BY <1>2, StepClaimedOnTrack, StepRefusedOnTrack, StepOverBudgetOnTrack,
     StepParkedForBudgetOnTrack, StepStartsOnTrack DEF RunStep
<1>3. CASE Review(p)
  BY <1>3, ReviewAcceptsOnTrack, ReviewReturnsOnTrack DEF Review
<1>4. CASE Owner(p)
  BY <1>4, RetryWritesOnTrack DEF Owner, OwnerAccepts, OwnerReturns, At, Calmed, Possible
<1>5. CASE Resume(p)
  BY <1>5, ResumeReadsOnTrack, StaysParkedOnTrack, ResumesOnTrack DEF Resume
<1>6. CASE Sweep(p)
  BY <1>6, SweepReleasesOnTrack, SweepReinvokesOnTrack, SweepFailsOnTrack, SweepReviewOnTrack DEF Sweep
<1> QED BY <1>1, <1>2, <1>3, <1>4, <1>5, <1>6, ToolLoopOnTrack, OnStepExceptionOnTrack,
           CompleteStepOnTrack DEF Continue

LEMMA StartOnTrack ==
  ASSUME Good, Calmed, NEW p \in Procs, Start(p)
  PROVE  OnTrack
<1>1. CASE TickDrain(p)
  BY <1>1, RestGone, GoneDrains, Quiet DEF TickDrain
<1>2. ASSUME NEW t \in Tasks, OwnerReviewReads(p, t) PROVE OnTrack
  BY <1>2 DEF OwnerReviewReads, Calmed, Orderly, Once, Lossy, Repeating
<1>3. ASSUME NEW e \in events, Deliver(p, e) PROVE OnTrack
  BY <1>3, StepReceivedOnTrack, ReviewReceivedOnTrack DEF Deliver
<1> QED BY <1>1, <1>2, <1>3, CreateTaskOnTrack, RetryReadsOnTrack, DecideOnTrack, SweepListsOnTrack DEF Start

LEMMA EnvironmentOnTrack ==
  ASSUME Good, Calmed, Environment
  PROVE  OnTrack
<1>1. CASE BudgetExhausts \/ BudgetResets
  BY <1>1, NothingMoves DEF BudgetExhausts, BudgetResets
<1>2. ASSUME NEW p \in Procs, Crash(p) \/ DeadIsGone(p) PROVE OnTrack
  <2>1. Gone(p)
    BY <1>2, RestGone, EndGone DEF Crash, DeadIsGone
  <2> QED BY <1>2, <2>1, GoneDrains, Quiet DEF Crash, DeadIsGone
<1> QED BY <1>1, <1>2, CancelTaskOnTrack, PastClaimCutOnTrack, PastStuckCutOnTrack DEF Environment

LEMMA NextOnTrack ==
  ASSUME Good, Calmed, [Next]_vars
  PROVE  OnTrack
<1>1. CASE UNCHANGED vars
  BY <1>1, NothingMoves DEF vars
<1> QED BY <1>1, ContinueOnTrack, StartOnTrack, EnvironmentOnTrack DEF Next

LEMMA EnvStays ==
  ASSUME [Next]_vars
  PROVE  env' = env
<1>1. ASSUME NEW p \in Procs, Drain(p) \/ RunStep(p) \/ Review(p) \/ Owner(p) \/ Resume(p) \/ Sweep(p)
      PROVE  env' = env
  BY <1>1 DEF Drain, DrainList, RequeueUnstarted, DrainClaim, DrainInvokeFails,
     RunStep, StepClaimed, StepRefused, StepOverBudget, StepParkedForBudget, StepStarts,
     Review, ReviewAccepts, ReviewReturns, Owner, OwnerAccepts, OwnerReturns, RetryWrites,
     Resume, ResumeReads, StaysParked, Resumes, Sweep, SweepReleases, SweepReinvokes, SweepFails, SweepReview
<1>2. ASSUME NEW p \in Procs, ToolLoop(p) \/ OnStepException(p) \/ CompleteStep(p)
      PROVE  env' = env
  BY <1>2 DEF ToolLoop, NoteReads, NoteWrites, Ask, FinishReads, FinishSubmits, FinishInvokeFails, FinishBlocked,
     OnStepException, LoopErrorOnMovedRow, LoopCreditError, LoopErrorRetried, LoopErrorFinal,
     CompleteStep, LoopEnds, ParkWaitingApproval, CompleteMovedRow, CompleteProductive, CompleteIdle
<1>3. ASSUME NEW p \in Procs, Start(p)
      PROVE  env' = env
  BY <1>3 DEF Start, TickDrain, CreateTask, OwnerReviewReads, RetryReads, Decide, SweepLists,
     Deliver, StepReceived, ReviewReceived
<1>4. CASE Environment
  BY <1>4 DEF Environment, BudgetExhausts, BudgetResets, CancelTask, PastClaimCut, PastStuckCut, Crash, DeadIsGone
<1> QED BY <1>1, <1>2, <1>3, <1>4 DEF Next, Continue, vars

LEMMA InitIInv == Init => IInv
<1> SUFFICES ASSUME Init PROVE IInv
  OBVIOUS
<1>1. Good
  BY InitGood
<1>2. \A p \in Procs : inv[p] = Idle
  BY DEF Init
<1>3. Idle.pc = "idle" /\ Idle.snap = NewRow("absent") /\ Idle.queue = {}
  BY DEF Idle
<1>4. \A t \in Tasks : row[t] = NewRow("absent")
  BY DEF Init
<1>5. PICK r : r = NewRow("absent")
  OBVIOUS
<1>6. r.status = "absent" /\ r.step = 0 /\ r.attempt = 1 /\ r.claimed = 0 /\ r.updated = 0
  BY <1>5 DEF NewRow
<1>7. Tame(r) /\ Fresh(r)
  BY <1>6 DEF Tame, Fresh
<1>8. Possible
  BY <1>2, <1>3, <1>4, <1>5, <1>6, <1>7 DEF Possible, Init
<1>9. ASSUME NEW t \in Tasks PROVE Calm(t)
  <2>1. \A p \in Procs : inv[p].pc = "idle" /\ inv[p].queue = {}
    BY <1>2, <1>3
  <2>2. \A p \in Procs : ~Holds(inv[p], t) /\ ~Claims(inv[p], t) /\ ~Decides(inv[p], t) /\ ~Sweeps(inv[p], t)
    BY <2>1 DEF Holds, Claims, Decides, Sweeps, Holding, Working, Sweeping
  <2>3. Tame(row[t]) /\ Fresh(row[t]) /\ row[t].updated = 0 /\ events = {}
    BY <1>4, <1>5, <1>6, <1>7 DEF Init
  <2>4. Fitting(t)
    BY <2>2, FitsIdly DEF Fitting
  <2>5. OneHolder(t) /\ OneDecider(t) /\ Aged(t) /\ SweptAlone(t)
    BY <2>2, <2>3 DEF OneHolder, OneDecider, Aged, SweptAlone
  <2>6. NoToken(t) /\ OneToken(t)
    BY <2>2, <2>3 DEF NoToken, OneToken
  <2>7. Unstarted(t) /\ HandedOn(t) /\ JudgedOnce(t)
    BY <2>1, <2>2, <2>6 DEF Unstarted, HandedOn, JudgedOnce
  <2> QED BY <2>3, <2>4, <2>5, <2>7 DEF Calm
<1> QED BY <1>1, <1>8, <1>9 DEF IInv

LEMMA NextIInv == IInv /\ [Next]_vars => IInv'
<1> SUFFICES ASSUME IInv, [Next]_vars PROVE IInv'
  OBVIOUS
<1>1. Good' /\ env' = env
  BY NextGood, EnvStays DEF IInv
<1>2. CASE Orderly
  <2>1. Calmed
    BY <1>2 DEF IInv, Calmed
  <2>2. OnTrack
    BY <2>1, NextOnTrack DEF IInv
  <2> QED BY <1>1, <2>2 DEF OnTrack, Calmed, IInv
<1>3. CASE ~Orderly
  <2>1. ~Orderly'
    BY <1>1, <1>3 DEF Orderly
  <2> QED BY <1>1, <2>1 DEF IInv
<1> QED BY <1>2, <1>3

LEMMA AlwaysIInv == Spec => []IInv
BY InitIInv, NextIInv, PTL DEF Spec

(***************************************************************************)
(* claim_task_step keeps two invocations from working on one step, in      *)
(* every environment in which what frees the claim of a step (a requeue, a *)
(* retry, a return) and what repeats its event do not meet: neither        *)
(* losses, crashes, failing steps, the tick, the drains, approvals nor the *)
(* founder's cancel let two of them past the claim.                        *)
(***************************************************************************)
THEOREM StepsExclude == Spec => [](Orderly => StepExclusive)
<1>1. IInv => (Orderly => StepExclusive)
  <2> SUFFICES ASSUME IInv, Orderly, NEW p \in Procs, NEW q \in Procs, p # q,
                      inv[p].pc \in Working, inv[q].pc \in Working, T(p) = T(q)
               PROVE  FALSE
    BY DEF StepExclusive
  <2>1. PICK t \in Tasks : t = T(p)
    BY ActorType DEF IInv
  <2>2. Holds(inv[p], t) /\ Holds(inv[q], t)
    BY <2>1 DEF Holds, T, Holding
  <2>3. inv[p].pc = "judge"
    BY <2>2 DEF IInv, Calm, OneHolder
  <2> QED BY <2>3 DEF Working
<1> QED BY <1>1, AlwaysIInv, PTL

(***************************************************************************)
(* Likewise _align_step_claim and _release_step_claim leave the next step  *)
(* of every task claimable, whichever of those environments it runs in.    *)
(***************************************************************************)
THEOREM NextStepsClaimable == Spec => [](Orderly => NextStepClaimable)
<1>1. IInv => (Orderly => NextStepClaimable)
  BY DEF IInv, Calm, Tame, NextStepClaimable
<1> QED BY <1>1, AlwaysIInv, PTL

-----------------------------------------------------------------------------
(* The life cycle *)

LEMMA InitFollows == Init => Lifecycle!Init
BY DEF Init, Lifecycle!Init, NewRow

LEMMA AdvancedFollows ==
  ASSUME Good, Advanced
  PROVE  [Lifecycle!Next]_(Lifecycle!lifecycleVars)
<1>1. PICK t \in Tasks : Advances(row[t], row'[t]) /\ \A u \in Tasks \ {t} : row'[u] = row[u]
  BY DEF Advanced
<1> DEFINE S  == [u \in Tasks |-> row[u].status]
           N  == [u \in Tasks |-> row[u].step]
           A  == [u \in Tasks |-> row[u].attempt]
           S2 == [u \in Tasks |-> row'[u].status]
           N2 == [u \in Tasks |-> row'[u].step]
           A2 == [u \in Tasks |-> row'[u].attempt]
<1>2. /\ S2 = [S EXCEPT ![t] = row'[t].status]
      /\ N2 = [N EXCEPT ![t] = row'[t].step]
      /\ A2 = [A EXCEPT ![t] = row'[t].attempt]
  BY <1>1
<1>3. S[t] = row[t].status /\ N[t] = row[t].step /\ A[t] = row[t].attempt
  OBVIOUS
<1>4. (row'[t].step = row[t].step => N2 = N) /\ (row'[t].attempt = row[t].attempt => A2 = A)
  BY <1>1
<1>5. CASE row'[t].status = row[t].status /\ row'[t].step = row[t].step /\ row'[t].attempt = row[t].attempt
  <2>1. S2 = S /\ N2 = N /\ A2 = A
    BY <1>1, <1>4, <1>5
  <2> QED BY <2>1 DEF Lifecycle!lifecycleVars
<1>6. CASE /\ <<row[t].status, row'[t].status>> \in Lifecycle!Moves
           /\ row'[t].step = row[t].step /\ row'[t].attempt = row[t].attempt
  <2>1. PICK to : to = row'[t].status
    OBVIOUS
  <2>2. to \in Lifecycle!Open \cup {"delivered", "failed", "cancelled"}
    BY <1>6, <2>1 DEF Lifecycle!Moves, Lifecycle!Open
  <2>3. <<S[t], to>> \in Lifecycle!Moves /\ S2 = [S EXCEPT ![t] = to] /\ N2 = N /\ A2 = A
    BY <1>2, <1>3, <1>4, <1>6, <2>1
  <2>4. Lifecycle!Move(t, to)
    BY <2>3 DEF Lifecycle!Move
  <2> QED BY <2>2, <2>4 DEF Lifecycle!Next
<1>7. CASE /\ <<row[t].status, row'[t].status>> \in Lifecycle!StepMoves
           /\ row'[t].step = row[t].step + 1 /\ row'[t].attempt = row[t].attempt
  <2>1. PICK to : to = row'[t].status
    OBVIOUS
  <2>2. to \in Lifecycle!Open \cup {"delivered", "failed", "cancelled"}
    BY <1>7, <2>1 DEF Lifecycle!StepMoves, Lifecycle!Open
  <2>3. /\ <<S[t], to>> \in Lifecycle!StepMoves /\ S2 = [S EXCEPT ![t] = to]
        /\ N2 = [N EXCEPT ![t] = @ + 1] /\ A2 = A
    BY <1>2, <1>3, <1>4, <1>7, <2>1
  <2>4. Lifecycle!RecordStep(t, to)
    BY <2>3 DEF Lifecycle!RecordStep
  <2> QED BY <2>2, <2>4 DEF Lifecycle!Next
<1>8. CASE /\ row[t].status \in {"failed", "needs_owner"} /\ row'[t].status = "queued"
           /\ row'[t].step = 0 /\ row'[t].attempt = row[t].attempt + 1
  <2>1. /\ S[t] \in {"failed", "needs_owner"} /\ S2 = [S EXCEPT ![t] = "queued"]
        /\ N2 = [N EXCEPT ![t] = 0] /\ A2 = [A EXCEPT ![t] = @ + 1]
    BY <1>2, <1>3, <1>8
  <2>2. Lifecycle!Retry(t)
    BY <2>1 DEF Lifecycle!Retry
  <2> QED BY <2>2 DEF Lifecycle!Next
<1> QED BY <1>1, <1>5, <1>6, <1>7, <1>8 DEF Advances

LEMMA NextFollows ==
  ASSUME IInv, Uncancelled(env), [Next]_vars
  PROVE  [Lifecycle!Next]_(Lifecycle!lifecycleVars)
<1>1. Good /\ Calmed
  BY DEF IInv, Calmed, Orderly, Uncancelled
<1>2. Advanced
  BY <1>1, NextOnTrack DEF OnTrack
<1> QED BY <1>1, <1>2, AdvancedFollows

(***************************************************************************)
(* The engine implements the life cycle: where no event is delivered twice *)
(* and the founder does not cancel, every behaviour of the engine, with    *)
(* its losses, crashes, failing steps, sweeps, requeues, retries and       *)
(* returns, is one of StaffLifecycle: however old the row a handler puts,  *)
(* it takes back no step and no verdict.                                   *)
(***************************************************************************)
THEOREM EngineImplementsLifecycle == Spec /\ Uncancelled(env) => Lifecycle!Spec
<1>1. Uncancelled(env) /\ [Next]_vars => Uncancelled(env)'
  BY EnvStays
<1>2. IInv /\ Uncancelled(env) /\ [Next]_vars => [Lifecycle!Next]_(Lifecycle!lifecycleVars)
  BY NextFollows
<1>3. Spec /\ Uncancelled(env) => []Uncancelled(env)
  BY <1>1, PTL DEF Spec
<1> QED BY <1>2, <1>3, InitFollows, AlwaysIInv, PTL DEF Spec, Lifecycle!Spec

(* And so it follows the life cycle as the runs of the engine state it. *)
THEOREM EngineFollowsLifecycle == Spec /\ Orderly /\ "cancel" \notin env => FollowsLifecycle
<1> DEFINE Quietly == Uncancelled(env) \/ "duplicate" \in env
<1>1. Quietly /\ [Next]_vars => Quietly'
  BY EnvStays
<1>2. IInv /\ Quietly /\ [Next]_vars => [Lifecycle!Next \/ "duplicate" \in env]_(Lifecycle!lifecycleVars)
  BY NextFollows
<1>3. Orderly /\ "cancel" \notin env => Quietly
  BY DEF Orderly, Uncancelled, Once, Lossy, Repeating
<1> HIDE DEF Quietly
<1>4. Spec /\ Quietly => []Quietly
  BY <1>1, PTL DEF Spec
<1> QED BY <1>2, <1>3, <1>4, InitFollows, AlwaysIInv, PTL DEF Spec, FollowsLifecycle

-----------------------------------------------------------------------------
(***************************************************************************)
(* Who drives a task.  While OnlyDelays holds, a task in review has its    *)
(* event on the way or its judge at work; and where one drain empties the  *)
(* queue, a running one has a worker, or its next step is free and the     *)
(* step's event, or an invocation about to claim it, is there.  Then a     *)
(* drain finds the one task it listed as it listed it, unless the founder  *)
(* cancelled it, and the tick finds nothing to sweep.                      *)
(***************************************************************************)
Listing == {"drainList", "drain"}

Reviewed(t) == row[t].status = "review" =>
  \/ \E e \in events : e.kind = "review" /\ e.task = t
  \/ \E p \in Procs : inv[p].task = t /\ inv[p].pc = "judge"

Unswept == \A p \in Procs : inv[p].pc \notin Sweeping

Alone(t) == \A p \in Procs : inv[p].pc \in Listing =>
  /\ row[t].status \in {"queued", "cancelled"}
  /\ \A q \in Procs : ~Holds(inv[q], t) /\ (q # p => inv[q].pc \notin Listing)

Following(e, t, r) == Waking(e, t) /\ e.seq = r.step + 1

Worked(t) == \E p \in Procs : inv[p].task = t /\ inv[p].pc \in Working

Driven(t) == row[t].status = "running" =>
  \/ Worked(t)
  \/ /\ row[t].claimed <= row[t].step
     /\ \/ \E e \in events : Following(e, t, row[t])
        \/ \E p \in Procs : Claims(inv[p], t) /\ inv[p].want = row[t].step + 1

Moving ==
  /\ \A t \in Tasks : Reviewed(t)
  /\ OneDrain => Unswept /\ \A t \in Tasks : Alone(t) /\ Driven(t)

DInv == IInv /\ (Orderly /\ OnlyDelays => Moving)

-----------------------------------------------------------------------------
(* What p leaves as it was, for one task. *)

LEMMA ReviewStays ==
  ASSUME NEW t \in Tasks, NEW p \in Procs, Reviewed(t), \A q \in Procs \ {p} : inv'[q] = inv[q],
         row'[t].status = "review" =>
           \/ row[t].status = "review" /\ ~(inv[p].task = t /\ inv[p].pc = "judge")
           \/ \E e \in events' : e.kind = "review" /\ e.task = t
           \/ inv'[p].task = t /\ inv'[p].pc = "judge",
         \A e \in events : e.kind = "review" /\ e.task = t =>
           \/ e \in events' \/ row'[t].status # "review"
           \/ inv'[p].task = t /\ inv'[p].pc = "judge"
  PROVE  Reviewed(t)'
<1> SUFFICES ASSUME row'[t].status = "review", ~(inv'[p].task = t /\ inv'[p].pc = "judge"),
                    \A e \in events' : ~(e.kind = "review" /\ e.task = t)
             PROVE  \E q \in Procs : inv'[q].task = t /\ inv'[q].pc = "judge"
  BY DEF Reviewed
<1>1. row[t].status = "review" /\ ~(inv[p].task = t /\ inv[p].pc = "judge")
  OBVIOUS
<1>2. \A e \in events : ~(e.kind = "review" /\ e.task = t)
  OBVIOUS
<1>3. PICK q \in Procs : inv[q].task = t /\ inv[q].pc = "judge"
  BY <1>1, <1>2 DEF Reviewed
<1>4. inv'[q] = inv[q]
  BY <1>1, <1>3
<1> QED BY <1>3, <1>4

LEMMA AloneStays ==
  ASSUME NEW t \in Tasks, NEW p \in Procs, Alone(t), \A q \in Procs \ {p} : inv'[q] = inv[q],
         inv'[p].pc \in Listing => inv[p].pc \in Listing,
         row'[t].status \in {row[t].status, "queued", "cancelled"} \/ Holds(inv[p], t),
         Holds(inv'[p], t) => Holds(inv[p], t) \/ row[t].status \notin {"queued", "cancelled"}
  PROVE  Alone(t)'
<1> SUFFICES ASSUME NEW a \in Procs, inv'[a].pc \in Listing
             PROVE  /\ row'[t].status \in {"queued", "cancelled"}
                    /\ \A q \in Procs : ~Holds(inv'[q], t) /\ (q # a => inv'[q].pc \notin Listing)
  BY DEF Alone
<1>1. inv[a].pc \in Listing
  OBVIOUS
<1>2. /\ row[t].status \in {"queued", "cancelled"}
      /\ \A q \in Procs : ~Holds(inv[q], t) /\ (q # a => inv[q].pc \notin Listing)
  BY <1>1 DEF Alone
<1> QED BY <1>2

LEMMA DriveStays ==
  ASSUME NEW t \in Tasks, NEW p \in Procs, Driven(t), \A q \in Procs \ {p} : inv'[q] = inv[q],
         row'[t].status = "running" =>
           \/ inv'[p].task = t /\ inv'[p].pc \in Working
           \/ row'[t].claimed <= row'[t].step /\ \E e \in events' : Following(e, t, row'[t])
           \/ /\ row[t].status = "running"
              /\ row'[t].claimed = row[t].claimed /\ row'[t].step = row[t].step
              /\ ~(inv[p].task = t /\ inv[p].pc \in Working \cup {"claim"})
              /\ \A e \in events : Following(e, t, row[t]) => e \in events'
  PROVE  Driven(t)'
<1> SUFFICES ASSUME row'[t].status = "running",
                    row[t].status = "running",
                    row'[t].claimed = row[t].claimed, row'[t].step = row[t].step,
                    ~(inv[p].task = t /\ inv[p].pc \in Working \cup {"claim"}),
                    \A e \in events : Following(e, t, row[t]) => e \in events'
             PROVE  \/ \E q \in Procs : inv'[q].task = t /\ inv'[q].pc \in Working
                    \/ /\ row'[t].claimed <= row'[t].step
                       /\ \/ \E e \in events' : Following(e, t, row'[t])
                          \/ \E q \in Procs : Claims(inv'[q], t) /\ inv'[q].want = row'[t].step + 1
  BY DEF Driven, Worked
<1>1. \A q \in Procs : inv[q].task = t /\ inv[q].pc \in Working \cup {"claim"} => inv'[q] = inv[q]
  OBVIOUS
<1>2. CASE Worked(t)
  BY <1>1, <1>2 DEF Worked
<1>3. CASE \E e \in events : Following(e, t, row[t]) /\ row[t].claimed <= row[t].step
  BY <1>3 DEF Following
<1>4. CASE \E q \in Procs : Claims(inv[q], t) /\ inv[q].want = row[t].step + 1 /\ row[t].claimed <= row[t].step
  BY <1>1, <1>4 DEF Claims
<1> QED BY <1>2, <1>3, <1>4 DEF Driven

LEMMA OnlyTask ==
  ASSUME OneDrain, NEW t \in Tasks
  PROVE  /\ \A u \in Tasks : u = t
         /\ "drain" \notin env
<1>1. \E x : Tasks = {x}
  BY ConstantsAssumption, FS_Singleton DEF OneDrain
<1> QED BY <1>1 DEF OneDrain

-----------------------------------------------------------------------------
(* The steps of one invocation, which touches one task t. *)

LEMMA Moved ==
  ASSUME Moving, NEW t \in Tasks, NEW p \in Procs,
         env' = env, \A q \in Procs \ {p} : inv'[q] = inv[q], \A u \in Tasks \ {t} : row'[u] = row[u],
         \A e \in events : e \in events' \/ e.task = t,
         inv[p].pc = "judge" => inv[p].task = t,
         Reviewed(t)',
         OneDrain => inv'[p].pc \notin Sweeping /\ Alone(t)' /\ Driven(t)'
  PROVE  Moving'
<1>1. ASSUME NEW u \in Tasks, u # t PROVE Reviewed(u)'
  <2>1. Reviewed(u) /\ row'[u] = row[u]
    BY <1>1 DEF Moving
  <2>2. ~(inv[p].task = u /\ inv[p].pc = "judge")
    BY <1>1
  <2>3. \A e \in events : e.task = u => e \in events'
    BY <1>1
  <2> QED BY <2>1, <2>2, <2>3, ReviewStays
<1>2. ASSUME OneDrain PROVE Unswept' /\ \A u \in Tasks : Alone(u)' /\ Driven(u)'
  <2>1. \A u \in Tasks : u = t
    BY <1>2, OnlyTask
  <2>2. Unswept'
    BY <1>2 DEF Moving, Unswept
  <2> QED BY <1>2, <2>1, <2>2
<1>3. OneDrain' => OneDrain
  BY DEF OneDrain
<1> QED BY <1>1, <1>2, <1>3 DEF Moving

LEMMA EndIdles ==
  ASSUME Good, NEW p \in Procs, End(p)
  PROVE  inv'[p].pc = "idle" /\ \A q \in Procs \ {p} : inv'[q] = inv[q]
BY DEF Good, End, Idle

(* A holder puts a row and ends. *)
LEMMA HolderPuts ==
  ASSUME Good, Moving, NEW p \in Procs, Holds(inv[p], T(p)), End(p), env' = env,
         NEW r, Put(T(p), r), events \subseteq events',
         r.status = "review" =>
           \/ Now(p).status = "review" /\ inv[p].pc # "judge"
           \/ ReviewEvent(T(p)) \in events',
         OneDrain /\ r.status = "running" =>
           r.claimed <= r.step /\ \E e \in events' : Following(e, T(p), r)
  PROVE  Moving'
<1>1. PICK t \in Tasks : t = T(p)
  BY ActorType
<1>2. row'[t] = r /\ (\A u \in Tasks \ {t} : row'[u] = row[u]) /\ Now(p) = row[t] /\ inv[p].task = t
  BY <1>1, PutDoes DEF Now, T
<1>3. inv'[p].pc = "idle" /\ \A q \in Procs \ {p} : inv'[q] = inv[q]
  BY EndIdles
<1>4. Reviewed(t)'
  <2>1. Reviewed(t)
    BY DEF Moving
  <2>2. r.status = "review" =>
          \/ row[t].status = "review" /\ ~(inv[p].task = t /\ inv[p].pc = "judge")
          \/ \E e \in events' : e.kind = "review" /\ e.task = t
    BY <1>1, <1>2, EventSays
  <2>3. \A e \in events : e \in events'
    OBVIOUS
  <2> QED BY <1>2, <1>3, <2>1, <2>2, <2>3, ReviewStays
<1>5. ASSUME OneDrain PROVE Alone(t)' /\ Driven(t)'
  <2>1. Alone(t) /\ Driven(t)
    BY <1>5 DEF Moving
  <2>2. Alone(t)'
    BY <1>1, <1>3, <2>1, AloneStays DEF Listing, Holds, Holding, Working, Sweeping
  <2>3. Driven(t)'
    BY <1>1, <1>2, <1>3, <1>5, <2>1, DriveStays
  <2> QED BY <2>2, <2>3
<1>6. inv'[p].pc \notin Sweeping
  BY <1>3 DEF Sweeping
<1>7. \A e \in events : e \in events' \/ e.task = t
  OBVIOUS
<1> QED BY <1>2, <1>3, <1>4, <1>5, <1>6, <1>7, Moved

(* A worker goes on with its task. *)
LEMMA WorkerGoesOn ==
  ASSUME Good, Moving, NEW p \in Procs, inv[p].pc \in Working, env' = env,
         NEW pc \in Working, Goes(p, pc),
         NEW r, Put(T(p), r) \/ (row' = row /\ r = Now(p)), events \subseteq events',
         r.status = "review" => Now(p).status = "review" \/ ReviewEvent(T(p)) \in events'
  PROVE  Moving'
<1>1. PICK t \in Tasks : t = T(p)
  BY ActorType
<1>2. row'[t] = r /\ (\A u \in Tasks \ {t} : row'[u] = row[u]) /\ Now(p) = row[t] /\ inv[p].task = t
  BY <1>1, PutDoes DEF Now, T
<1>3. inv'[p].pc = pc /\ inv'[p].task = t /\ \A q \in Procs \ {p} : inv'[q] = inv[q]
  BY <1>2 DEF Goes
<1>4. inv[p].pc # "judge" /\ Holds(inv[p], t)
  BY <1>2 DEF Working, Holds, Holding
<1>5. Reviewed(t)'
  <2>1. Reviewed(t)
    BY DEF Moving
  <2>2. r.status = "review" => row[t].status = "review" \/ \E e \in events' : e.kind = "review" /\ e.task = t
    BY <1>1, <1>2, EventSays
  <2>3. \A e \in events : e \in events'
    OBVIOUS
  <2> QED BY <1>2, <1>3, <1>4, <2>1, <2>2, <2>3, ReviewStays
<1>6. ASSUME OneDrain PROVE Alone(t)' /\ Driven(t)'
  <2>1. Alone(t) /\ Driven(t)
    BY <1>6 DEF Moving
  <2>2. pc \notin Listing
    BY DEF Working, Listing
  <2>3. Alone(t)'
    BY <1>3, <1>4, <2>1, <2>2, AloneStays
  <2>4. Driven(t)'
    BY <1>3, <2>1, DriveStays
  <2> QED BY <2>3, <2>4
<1>7. inv'[p].pc \notin Sweeping
  BY <1>3 DEF Sweeping, Working
<1>8. \A e \in events : e \in events' \/ e.task = t
  OBVIOUS
<1> QED BY <1>2, <1>3, <1>4, <1>5, <1>6, <1>7, <1>8, Moved

(* An invocation that drives nothing becomes another that drives nothing and reads no listed task. *)
LEMMA OthersGo ==
  ASSUME Good, Moving, NEW p \in Procs, NEW t \in Tasks,
         UNCHANGED <<env, row>>, events \subseteq events', \A q \in Procs \ {p} : inv'[q] = inv[q],
         inv[p].pc \notin {"judge", "claim"}, inv[p].pc \in Working => Now(p).status # "running",
         inv'[p].pc \in Listing => inv[p].pc \in Listing \/ ~OneDrain,
         inv'[p].pc \notin Sweeping \/ ~OneDrain,
         inv'[p].pc \in Holding => inv'[p].task = t /\ row[t].status \notin {"queued", "cancelled"}
  PROVE  Moving'
<1>1. \A e \in events : e \in events'
  OBVIOUS
<1>2. Reviewed(t)'
  BY <1>1, ReviewStays DEF Moving
<1>3. ASSUME OneDrain PROVE Alone(t)' /\ Driven(t)'
  <2>1. Alone(t) /\ Driven(t)
    BY <1>3 DEF Moving
  <2>2. Alone(t)'
    BY <1>3, <2>1, AloneStays DEF Holds
  <2>3. ~(inv[p].task = t /\ inv[p].pc \in Working \cup {"claim"}) \/ row[t].status # "running"
    BY DEF Now, T
  <2>4. Driven(t)'
    BY <1>1, <2>1, <2>3, DriveStays
  <2> QED BY <2>2, <2>4
<1> QED BY <1>1, <1>2, <1>3, Moved

(* Nobody acts: only time passes, or the budget changes. *)
LEMMA NobodyActs ==
  ASSUME Moving, UNCHANGED <<env, inv>>, events' = events,
         \A t \in Tasks : /\ row'[t].status \in {row[t].status, "cancelled"}
                          /\ row'[t].status = row[t].status =>
                               row'[t].step = row[t].step /\ row'[t].claimed = row[t].claimed
  PROVE  Moving'
<1>1. ASSUME NEW t \in Tasks PROVE Reviewed(t)'
  BY DEF Moving, Reviewed
<1>2. ASSUME OneDrain, NEW t \in Tasks PROVE Alone(t)' /\ Driven(t)'
  <2>1. Alone(t) /\ Driven(t)
    BY <1>2 DEF Moving
  <2>2. row'[t].status = "running" =>
          row[t].status = "running" /\ row'[t].step = row[t].step /\ row'[t].claimed = row[t].claimed
    OBVIOUS
  <2>3. Alone(t)'
    BY <2>1 DEF Alone
  <2>4. Driven(t)'
    BY <2>1, <2>2 DEF Driven, Worked, Following
  <2> QED BY <2>3, <2>4
<1>3. OneDrain' => OneDrain /\ Unswept'
  BY DEF OneDrain, Moving, Unswept
<1> QED BY <1>1, <1>2, <1>3 DEF Moving

LEMMA Sends ==
  ASSUME OnlyDelays, NEW e, Invoke(e)
  PROVE  events \subseteq events' /\ e \in events'
BY DEF OnlyDelays, Invoke

-----------------------------------------------------------------------------
(* Creating a task and draining the queue. *)

LEMMA DrainListMoves ==
  ASSUME Good, Moving, NEW p \in Procs, DrainList(p)
  PROVE  Moving'
<1>1. PICK t \in Tasks : t = T(p)
  BY ActorType
<1>2. inv'[p].pc \in {"idle", "drain"} /\ \A q \in Procs \ {p} : inv'[q] = inv[q]
  <2>1. CASE End(p)
    BY <2>1, EndIdles
  <2>2. ASSUME NEW slots,
               inv' = [inv EXCEPT ![p] = [Idle EXCEPT !.pc = "drain", !.queue = Queued, !.slots = slots]]
        PROVE  inv'[p].pc = "drain" /\ \A q \in Procs \ {p} : inv'[q] = inv[q]
    BY <2>2 DEF Good, Idle
  <2> QED BY <2>1, <2>2 DEF DrainList
<1>3. UNCHANGED <<env, row>> /\ events \subseteq events' /\ inv[p].pc = "drainList"
  BY DEF DrainList, At
<1>4. inv'[p].pc \notin Sweeping \cup Holding /\ inv[p].pc \in Listing /\ inv[p].pc \notin Working
  BY <1>2, <1>3 DEF Sweeping, Holding, Working, Listing
<1> QED BY <1>1, <1>2, <1>3, <1>4, OthersGo

LEMMA TickDrainMoves ==
  ASSUME Good, Moving, NEW p \in Procs, TickDrain(p)
  PROVE  Moving'
<1>1. PICK t \in Tasks : t = T(p)
  BY ActorType
<1>2. inv'[p].pc = "drainList" /\ \A q \in Procs \ {p} : inv'[q] = inv[q]
  BY DEF TickDrain, Good, Draining, Idle
<1>3. UNCHANGED <<env, row>> /\ events \subseteq events' /\ inv[p].pc = "idle" /\ ~OneDrain
  BY DEF TickDrain, At, OneDrain
<1>4. inv'[p].pc \notin Sweeping \cup Holding /\ inv[p].pc \notin Working
  BY <1>2, <1>3 DEF Sweeping, Holding, Working
<1> QED BY <1>1, <1>2, <1>3, <1>4, OthersGo

LEMMA DrainNextGoes ==
  ASSUME Good, NEW p \in Procs, At(p, "drain"), NEW t, NEW n, DrainNext(p, t, n)
  PROVE  /\ inv'[p].pc \in {"idle", "drain"} /\ \A q \in Procs \ {p} : inv'[q] = inv[q]
         /\ inv[p].queue \subseteq {t} => inv'[p].pc = "idle"
<1>1. CASE End(p)
  BY <1>1, EndIdles
<1>2. ASSUME NEW queue, queue = inv[p].queue \ {t}, queue # {}, NEW slots,
             inv' = [inv EXCEPT ![p] = [@ EXCEPT !.queue = queue, !.slots = slots]]
      PROVE  inv'[p].pc = "drain" /\ \A q \in Procs \ {p} : inv'[q] = inv[q]
  <2>1. inv[p] \in Invocation
    BY ActorType DEF GoodInvocation
  <2>2. /\ inv'[p] = [inv[p] EXCEPT !.queue = queue, !.slots = slots]
        /\ \A q \in Procs \ {p} : inv'[q] = inv[q]
    BY <1>2 DEF Good
  <2> QED BY <2>1, <2>2 DEF Invocation, At
<1>3. CASE inv[p].queue \ {t} = {}
  BY <1>1, <1>3 DEF DrainNext
<1>4. CASE inv[p].queue \ {t} # {}
  BY <1>1, <1>2, <1>4 DEF DrainNext
<1> QED BY <1>3, <1>4

LEMMA DrainClaimMoves ==
  ASSUME Good, Calmed, OnlyDelays, Moving, NEW p \in Procs, NEW t \in Tasks, DrainClaim(p, t)
  PROVE  Moving'
<1>1. /\ inv[p].pc = "drain" /\ t \in inv[p].queue
      /\ inv'[p].pc \in {"idle", "drain"} /\ \A q \in Procs \ {p} : inv'[q] = inv[q]
      /\ inv[p].queue \subseteq {t} => inv'[p].pc = "idle"
  BY DrainNextGoes DEF DrainClaim, At
<1>2. inv'[p].pc \notin Sweeping \cup Holding /\ inv[p].pc \in Listing /\ inv[p].pc \notin Holding
  BY <1>1 DEF Sweeping, Holding, Working, Listing
<1>3. CASE UNCHANGED <<row, events>>
  BY <1>1, <1>2, <1>3, OthersGo DEF DrainClaim, Holding
<1>4. CASE ClaimTaskStep(t, 0) /\ Invoke(StepEvent(t, 1))
  <2>1. events \subseteq events' /\ StepEvent(t, 1) \in events' /\ env' = env
    BY <1>4, Sends DEF DrainClaim
  <2>2. row[t] \in Row /\ \A u \in Tasks \ {t} : row'[u] = row[u]
    BY <1>4, PutDoes DEF Good, GoodRow, ClaimTaskStep
  <2>3. row'[t].status = "running"
    <3>1. CASE CanPromote(row[t], 0) /\ Put(t, [Touch(row[t]) EXCEPT !.status = "running"])
      <4>1. "running" \in Statuses
        BY DEF Statuses
      <4>2. Says(row'[t], "running", row[t].step, row[t].claimed, row[t].claimedAt, row[t].attempt)
        BY <2>2, <3>1, <4>1, StatusSays, PutDoes
      <4> QED BY <4>2 DEF Says
    <3>2. CASE CanClaim(row[t], 0) /\ Put(t, [Touch(row[t]) EXCEPT !.claimed = 0 + 1, !.claimedAt = "fresh"])
      <4>1. row'[t] = [Touch(row[t]) EXCEPT !.claimed = 1, !.claimedAt = "fresh"] /\ 1 \in Nat
        BY <3>2, PutDoes
      <4>2. Says(row'[t], row[t].status, row[t].step, 1, "fresh", row[t].attempt)
        BY <2>2, <4>1, ClaimSays
      <4> QED BY <3>2, <4>2 DEF Says, CanClaim
    <3> QED BY <1>4, <3>1, <3>2 DEF ClaimTaskStep
  <2>4. Reviewed(t)'
    BY <2>3 DEF Reviewed
  <2>5. ASSUME OneDrain PROVE Alone(t)' /\ Driven(t)'
    <3>1. /\ row[t].status \in {"queued", "cancelled"}
          /\ \A q \in Procs : ~Holds(inv[q], t) /\ (q # p => inv[q].pc \notin Listing)
      BY <1>2, <2>5 DEF Moving, Alone
    <3>2. CanPromote(row[t], 0) /\ Put(t, [Touch(row[t]) EXCEPT !.status = "running"])
      BY <1>4, <3>1 DEF ClaimTaskStep, CanClaim
    <3>3. Says(row'[t], "running", row[t].step, row[t].claimed, row[t].claimedAt, row[t].attempt)
      <4>1. "running" \in Statuses
        BY DEF Statuses
      <4> QED BY <2>2, <3>2, <4>1, StatusSays, PutDoes
    <3>4. row[t].step = 0 /\ row[t].claimed <= row[t].step
      BY <3>2 DEF CanPromote, Calmed, Calm, Tame
    <3>5. Following(StepEvent(t, 1), t, row'[t])
      <4>1. 1 = 0 + 1
        OBVIOUS
      <4> QED BY <3>3, <3>4, <4>1, EventSays DEF Following, Waking, Says
    <3>6. Driven(t)'
      BY <2>1, <3>3, <3>4, <3>5 DEF Driven, Says
    <3>7. inv[p].queue \subseteq {t}
      BY <2>5, OnlyTask, ActorType DEF GoodInvocation, Invocation
    <3>8. \A q \in Procs : inv'[q].pc \notin Listing
      BY <1>1, <3>1, <3>7 DEF Listing
    <3> QED BY <3>6, <3>8 DEF Alone
  <2>6. \A e \in events : e \in events' \/ e.task = t
    BY <2>1
  <2> QED BY <1>1, <1>2, <2>1, <2>2, <2>4, <2>5, <2>6, Moved
<1> QED BY <1>3, <1>4 DEF DrainClaim

LEMMA CreateTaskMoves ==
  ASSUME Good, Calmed, Moving, NEW p \in Procs, NEW t \in Tasks, CreateTask(p, t)
  PROVE  Moving'
<1>1. inv'[p].pc = "drainList" /\ inv[p].pc = "idle" /\ \A q \in Procs \ {p} : inv'[q] = inv[q]
  BY DEF CreateTask, At, Good, Draining, Idle
<1>2. row'[t].status = "queued" /\ \A u \in Tasks \ {t} : row'[u] = row[u]
  BY PutDoes DEF CreateTask, NewRow
<1>3. Reviewed(t)' /\ Driven(t)'
  BY <1>2 DEF Reviewed, Driven
<1>4. \A q \in Procs : ~Holds(inv[q], t)
  BY DEF CreateTask, Calmed, Calm, Unstarted
<1>5. \A q \in Procs : ~Holds(inv'[q], t)
  BY <1>1, <1>4 DEF Holds, Holding, Working, Sweeping
<1>6. ASSUME OneDrain PROVE Alone(t)'
  <2>1. \A q \in Procs : inv[q].pc \notin Listing
    BY <1>6 DEF CreateTask, Moving, Alone
  <2> QED BY <1>1, <1>2, <1>5, <2>1 DEF Alone
<1>7. env' = env /\ events' = events /\ inv'[p].pc \notin Sweeping /\ inv[p].pc # "judge"
  BY <1>1 DEF CreateTask, Sweeping
<1> QED BY <1>1, <1>2, <1>3, <1>6, <1>7, Moved

-----------------------------------------------------------------------------
(* run_step *)

LEMMA StepReceivedMoves ==
  ASSUME Good, Calmed, Moving, NEW p \in Procs, NEW e \in events, StepReceived(p, e)
  PROVE  Moving'
<1>1. PICK t \in Tasks : t = e.task
  BY DEF Good, Events
<1>2. /\ inv[p].pc = "idle" /\ Waking(e, t) /\ env' = env /\ row' = row
      /\ \A d \in events : d \in events' \/ d = e
  BY <1>1 DEF StepReceived, At, Waking, Consume
<1>3. /\ \A q \in Procs \ {p} : inv'[q] = inv[q]
      /\ \/ inv'[p] = inv[p] /\ ~(row[t].status = "running" /\ e.seq = row[t].step + 1)
         \/ inv'[p].task = t /\ inv'[p].pc = "claim" /\ inv'[p].want = row[t].step + 1
  <2>1. CASE row[t].status = "running" /\ e.seq = row[t].step + 1
    <3>1. Idle \in Invocation
      BY IdleType DEF GoodInvocation
    <3>2. /\ inv'[p] = [Idle EXCEPT !.pc = "claim", !.task = t, !.want = e.seq,
                                    !.retried = e.retried, !.snap = row[t]]
          /\ \A q \in Procs \ {p} : inv'[q] = inv[q]
      BY <1>1, <2>1 DEF Good, StepReceived
    <3> QED BY <2>1, <3>1, <3>2 DEF Invocation
  <2>2. CASE ~(row[t].status = "running" /\ e.seq = row[t].step + 1)
    BY <1>1, <2>2 DEF StepReceived
  <2> QED BY <2>1, <2>2
<1>4. inv'[p].pc \in {"idle", "claim"}
  BY <1>2, <1>3
<1>5. Reviewed(t)'
  <2>1. \A d \in events : d.kind = "review" => d \in events'
    BY <1>2 DEF Waking
  <2> QED BY <1>2, <1>3, <2>1, ReviewStays DEF Moving
<1>6. ASSUME OneDrain PROVE Alone(t)' /\ Driven(t)'
  <2>1. Alone(t) /\ Driven(t)
    BY <1>6 DEF Moving
  <2>2. Alone(t)'
    BY <1>2, <1>3, <1>4, <2>1, AloneStays DEF Listing, Holds, Holding, Working, Sweeping
  <2>3. ASSUME inv'[p] = inv[p], ~(row[t].status = "running" /\ e.seq = row[t].step + 1)
        PROVE  Driven(t)'
    <3>1. row[t].status = "running" => \A d \in events : Following(d, t, row[t]) => d \in events'
      BY <1>2, <2>3 DEF Following
    <3>2. ~(inv[p].task = t /\ inv[p].pc \in Working \cup {"claim"})
      BY <1>2 DEF Working
    <3> QED BY <1>2, <1>3, <2>1, <3>1, <3>2, DriveStays
  <2>4. ASSUME inv'[p].task = t, inv'[p].pc = "claim", inv'[p].want = row[t].step + 1
        PROVE  Driven(t)'
    <3>1. Claims(inv'[p], t)
      BY <2>4 DEF Claims
    <3>2. CASE Worked(t)
      <4>1. PICK q \in Procs : inv[q].task = t /\ inv[q].pc \in Working
        BY <3>2 DEF Worked
      <4>2. inv'[q] = inv[q]
        BY <1>2, <1>3, <4>1 DEF Working
      <4> QED BY <4>1, <4>2 DEF Driven, Worked
    <3>3. CASE row[t].status # "running" \/ row[t].claimed <= row[t].step
      BY <1>2, <2>4, <3>1, <3>3 DEF Driven
    <3> QED BY <2>1, <3>2, <3>3 DEF Driven
  <2> QED BY <1>3, <2>2, <2>3, <2>4
<1>7. /\ inv'[p].pc \notin Sweeping /\ inv[p].pc # "judge"
      /\ \A d \in events : d \in events' \/ d.task = t
      /\ \A u \in Tasks \ {t} : row'[u] = row[u]
  BY <1>1, <1>2, <1>4 DEF Sweeping
<1> QED BY <1>2, <1>3, <1>5, <1>6, <1>7, Moved

LEMMA StepClaimedMoves ==
  ASSUME Good, Calmed, Moving, NEW p \in Procs, StepClaimed(p)
  PROVE  Moving'
<1>1. PICK t \in Tasks : t = T(p)
  BY ActorType
<1>2. Claims(inv[p], t) /\ Now(p) = row[t] /\ row[t] \in Row /\ Claims(inv[p], T(p))
  BY <1>1, ActorType DEF StepClaimed, At, Claims, T, Now
<1>3. inv'[p].pc = "check" /\ inv'[p].task = t /\ \A q \in Procs \ {p} : inv'[q] = inv[q]
  BY <1>1, GotoGoes DEF StepClaimed, Goes, T
<1>4. row[t].status \notin {"absent", "queued"} /\ Fits(env, inv[p], row[t])
  BY <1>2, HolderKnows
<1>5. PICK m \in Nat : m = inv[p].want
  BY ActorType
<1>6. Snap(p).step \in Nat /\ inv[p].want = Snap(p).step + 1
  BY <1>2, <1>4, ActorType, RowFields DEF Claims, Fits, Snap
<1>7. /\ CanClaim(row[t], m - 1)
      /\ row'[t] = [Touch(row[t]) EXCEPT !.claimed = m, !.claimedAt = "fresh"]
      /\ \A u \in Tasks \ {t} : row'[u] = row[u]
  <2>1. CanClaim(row[t], m - 1) /\ Put(t, [Touch(row[t]) EXCEPT !.claimed = m - 1 + 1, !.claimedAt = "fresh"])
    BY <1>1, <1>4, <1>5 DEF StepClaimed, ClaimTaskStep, CanPromote
  <2>2. m - 1 + 1 = m
    OBVIOUS
  <2> QED BY <2>1, <2>2, PutDoes
<1>8. row'[t].status = row[t].status /\ row[t].status = "running"
  BY <1>2, <1>7, ClaimSays DEF Says, CanClaim
<1>9. env' = env /\ events' = events /\ inv[p].pc = "claim"
  BY DEF StepClaimed, At
<1>10. Reviewed(t)'
  BY <1>8 DEF Reviewed
<1>11. ASSUME OneDrain PROVE Alone(t)' /\ Driven(t)'
  <2>1. Alone(t) /\ Driven(t)
    BY <1>11 DEF Moving
  <2>2. "check" \in Working /\ "check" \notin Listing
    BY DEF Working, Listing
  <2>3. Alone(t)'
    BY <1>3, <1>8, <2>1, <2>2, AloneStays
  <2> QED BY <1>3, <2>1, <2>2, <2>3, DriveStays
<1>12. inv'[p].pc \notin Sweeping
  BY <1>3 DEF Sweeping
<1> QED BY <1>3, <1>7, <1>9, <1>10, <1>11, <1>12, Moved

(* The claim of the step that comes next, when nobody has it, is not refused. *)
LEMMA StepRefusedMoves ==
  ASSUME Good, Moving, NEW p \in Procs, StepRefused(p)
  PROVE  Moving'
<1>1. PICK t \in Tasks : t = T(p)
  BY ActorType
<1>2. /\ inv[p].pc = "claim" /\ inv[p].task = t /\ row[t] \in Row /\ inv[p].want \in Nat
      /\ ~CanClaim(row[t], inv[p].want - 1) /\ UNCHANGED <<env, row, events>>
  BY <1>1, ActorType DEF StepRefused, At, T, Now
<1>3. inv'[p].pc = "idle" /\ \A q \in Procs \ {p} : inv'[q] = inv[q]
  BY EndIdles DEF StepRefused
<1>4. Reviewed(t)'
  BY <1>2, <1>3, ReviewStays DEF Moving
<1>5. ASSUME OneDrain PROVE Alone(t)' /\ Driven(t)'
  <2>1. Alone(t) /\ Driven(t)
    BY <1>5 DEF Moving
  <2>2. Alone(t)'
    BY <1>2, <1>3, <2>1, AloneStays DEF Listing, Holds, Holding, Working, Sweeping
  <2>3. \A q \in Procs : inv[q].task = t /\ inv[q].pc \in Working => inv'[q] = inv[q]
    BY <1>2, <1>3 DEF Working
  <2>4. ASSUME row[t].status = "running", row[t].claimed <= row[t].step
        PROVE  ~(inv[p].want = row[t].step + 1)
    BY <1>2, <2>4, RowFields DEF CanClaim
  <2>5. \A q \in Procs : inv[q].task = t /\ inv[q].pc = "claim" => q = p \/ inv'[q] = inv[q]
    BY <1>3
  <2>6. Driven(t)'
    BY <1>2, <2>1, <2>3, <2>4, <2>5 DEF Driven, Worked, Following, Claims
  <2> QED BY <2>2, <2>6
<1>6. inv'[p].pc \notin Sweeping
  BY <1>3 DEF Sweeping
<1> QED BY <1>2, <1>3, <1>4, <1>5, <1>6, Moved

(* A worker that ends with a row nobody need drive. *)
LEMMA WorkerEnds ==
  ASSUME Good, Moving, NEW p \in Procs, inv[p].pc \in Working, End(p),
         UNCHANGED <<env, row>>, events \subseteq events', Now(p).status # "running"
  PROVE  Moving'
<1>1. PICK t \in Tasks : t = T(p)
  BY ActorType
<1>2. inv'[p].pc = "idle" /\ \A q \in Procs \ {p} : inv'[q] = inv[q]
  BY EndIdles
<1>3. inv[p].pc \notin {"judge", "claim"} /\ inv'[p].pc \notin Listing \cup Sweeping \cup Holding
  BY <1>2 DEF Working, Listing, Sweeping, Holding
<1> QED BY <1>1, <1>2, <1>3, OthersGo

LEMMA StepOverBudgetMoves ==
  ASSUME Good, Calmed, Moving, NEW p \in Procs, StepOverBudget(p)
  PROVE  Moving'
<1>1. Holds(inv[p], T(p)) /\ Snap(p) \in Row
  BY WorkerKnows, ActorType DEF StepOverBudget, At
<1>2. Fail(Snap(p)).status = "failed"
  BY <1>1, FailSays DEF Says
<1> QED BY <1>1, <1>2, HolderPuts DEF StepOverBudget

LEMMA RequeueMoves ==
  ASSUME Good, Calmed, Moving, NEW p \in Procs, inv[p].pc \in {"check", "loop"},
         RequeueForBudget(T(p), inv[p].want), End(p), env' = env, events' = events
  PROVE  Moving'
<1>1. Holds(inv[p], T(p)) /\ inv[p].pc \in Working
  BY DEF Holds, T, Holding, Working
<1>2. CASE Now(p).status = "running"
  <2>1. AtWork(inv[p], Now(p)) /\ Now(p) \in Row /\ Now(p).step \in Nat
    BY WorkerKnows, ActorType, RowFields
  <2>2. PICK r : r = [ReleaseStepClaim(Now(p), Now(p).step + 1) EXCEPT !.status = "queued"]
    OBVIOUS
  <2>3. Put(T(p), r)
    BY <1>2, <2>1, <2>2 DEF RequeueForBudget, Now, AtWork
  <2>4. r.status = "queued"
    BY <2>1, <2>2, RequeueSays DEF Says
  <2> QED BY <1>1, <2>3, <2>4, HolderPuts
<1>3. CASE Now(p).status # "running"
  BY <1>1, <1>3, WorkerEnds DEF RequeueForBudget, Now
<1> QED BY <1>2, <1>3

LEMMA RunStepMoves ==
  ASSUME Good, Calmed, Moving, NEW p \in Procs, RunStep(p)
  PROVE  Moving'
<1>1. CASE StepParkedForBudget(p)
  BY <1>1, RequeueMoves DEF StepParkedForBudget, At
<1>2. CASE StepStarts(p)
  <2>1. Goes(p, "loop") /\ inv[p].pc \in Working /\ "loop" \in Working
    BY <1>2, ForgetGoes DEF StepStarts, BackToLoop, At, Working
  <2> QED BY <1>2, <2>1, WorkerGoesOn DEF StepStarts
<1> QED BY <1>1, <1>2, StepClaimedMoves, StepRefusedMoves, StepOverBudgetMoves DEF RunStep

-----------------------------------------------------------------------------
(* The tool loop. *)

LEMMA NoteReadsMoves ==
  ASSUME Good, Moving, NEW p \in Procs, NoteReads(p)
  PROVE  Moving'
<1>1. inv[p] \in Invocation
  BY ActorType DEF GoodInvocation
<1>2. /\ inv'[p] = [inv[p] EXCEPT !.pc = "note", !.noted = TRUE, !.snap = Now(p)]
      /\ \A q \in Procs \ {p} : inv'[q] = inv[q]
  BY DEF Good, NoteReads
<1>3. Goes(p, "note")
  BY <1>1, <1>2 DEF Goes, Invocation
<1>4. inv[p].pc \in Working /\ "note" \in Working
  BY DEF NoteReads, At, Working
<1> QED BY <1>3, <1>4, WorkerGoesOn DEF NoteReads

LEMMA NoteWritesMoves ==
  ASSUME Good, Calmed, Moving, NEW p \in Procs, NoteWrites(p)
  PROVE  Moving'
<1>1. inv[p].pc = "note" /\ Reads(inv[p]) /\ Snap(p) \in Row
  BY WorkerKnows, ActorType DEF NoteWrites, At
<1>2. Touch(Snap(p)).status = "running"
  BY <1>1, TouchSays DEF Says, Reads, Snap
<1>3. Goes(p, "loop") /\ inv[p].pc \in Working /\ "loop" \in Working
  BY <1>1, ForgetGoes DEF NoteWrites, BackToLoop, Working
<1> QED BY <1>2, <1>3, WorkerGoesOn DEF NoteWrites

LEMMA AskMoves ==
  ASSUME Good, Moving, NEW p \in Procs, Ask(p)
  PROVE  Moving'
<1>1. inv[p] \in Invocation
  BY ActorType DEF GoodInvocation
<1>2. inv'[p] = [inv[p] EXCEPT !.asked = TRUE] /\ \A q \in Procs \ {p} : inv'[q] = inv[q]
  BY DEF Good, Ask
<1>3. PICK pc \in Working : pc = inv[p].pc
  BY DEF Ask, At, Working
<1>4. Goes(p, pc)
  BY <1>1, <1>2, <1>3 DEF Goes, Invocation
<1> QED BY <1>3, <1>4, WorkerGoesOn DEF Ask

LEMMA FinishMoves ==
  ASSUME Good, Moving, NEW p \in Procs, At(p, "finish"), NEW x \in {"review", "needs_owner"},
         Put(T(p), Finished(Snap(p), x)), LastCalls(p), env' = env, events \subseteq events',
         x = "review" => ReviewEvent(T(p)) \in events'
  PROVE  Moving'
<1>1. Snap(p) \in Row /\ x \in Statuses
  BY ActorType DEF Statuses
<1>2. Finished(Snap(p), x).status = x
  BY <1>1, FinishedSays DEF Says
<1>3. Goes(p, "finished") /\ inv[p].pc \in Working /\ "finished" \in Working
  BY ForgetGoes DEF LastCalls, At, Working
<1> QED BY <1>2, <1>3, WorkerGoesOn

LEMMA ToolLoopMoves ==
  ASSUME Good, Calmed, OnlyDelays, Moving, NEW p \in Procs, ToolLoop(p)
  PROVE  Moving'
<1>1. CASE FinishReads(p)
  <2>1. Goes(p, "finish") /\ inv[p].pc \in Working /\ "finish" \in Working
    BY <1>1, ReadsGoes DEF FinishReads, ReadAs, At, Working
  <2> QED BY <1>1, <2>1, WorkerGoesOn DEF FinishReads
<1>2. CASE FinishSubmits(p)
  BY <1>2, Sends, FinishMoves DEF FinishSubmits
<1>3. CASE FinishBlocked(p)
  BY <1>3, FinishMoves DEF FinishBlocked
<1>4. CASE FinishInvokeFails(p)
  BY <1>4 DEF FinishInvokeFails, OnlyDelays
<1> QED BY <1>1, <1>2, <1>3, <1>4, NoteReadsMoves, NoteWritesMoves, AskMoves DEF ToolLoop

-----------------------------------------------------------------------------
(* _on_step_exception *)

LEMMA LoopErrorRetriedMoves ==
  ASSUME Good, Calmed, OnlyDelays, Moving, NEW p \in Procs, LoopErrorRetried(p)
  PROVE  Moving'
<1>1. /\ Holds(inv[p], T(p)) /\ AtWork(inv[p], Now(p))
      /\ Now(p) \in Row /\ Now(p).step \in Nat /\ Now(p).status = "running"
  BY WorkerKnows, ActorType, RowFields DEF LoopErrorRetried, At
<1>2. PICK r : r = ReleaseStepClaim(Now(p), Now(p).step + 1)
  OBVIOUS
<1>3. Says(r, "running", Now(p).step, Now(p).step, "none", Now(p).attempt)
  BY <1>1, <1>2, ReleaseSays
<1>4. PICK e : e = RetriedEvent(T(p), inv[p].want)
  OBVIOUS
<1>5. e \in events' /\ events \subseteq events'
  BY <1>4, Sends DEF LoopErrorRetried
<1>6. e.seq = Now(p).step + 1 /\ Waking(e, T(p))
  BY <1>1, <1>4 DEF RetriedEvent, Waking, AtWork
<1>7. r.status = "running" /\ r.claimed <= r.step /\ Following(e, T(p), r)
  BY <1>1, <1>3, <1>6 DEF Says, Following
<1>8. Put(T(p), r) /\ End(p) /\ env' = env
  BY <1>1, <1>2 DEF LoopErrorRetried, AtWork
<1> QED BY <1>1, <1>5, <1>7, <1>8, HolderPuts

LEMMA OnStepExceptionMoves ==
  ASSUME Good, Calmed, OnlyDelays, Moving, NEW p \in Procs, OnStepException(p)
  PROVE  Moving'
<1>1. CASE LoopErrorOnMovedRow(p)
  <2>1. inv[p].pc \in Working
    BY <1>1 DEF LoopErrorOnMovedRow, At, Working
  <2> QED BY <1>1, <2>1, WorkerEnds DEF LoopErrorOnMovedRow
<1>2. CASE LoopCreditError(p)
  BY <1>2, RequeueMoves DEF LoopCreditError, At
<1>3. CASE LoopErrorFinal(p)
  <2>1. Holds(inv[p], T(p)) /\ Now(p) \in Row
    BY <1>3, WorkerKnows, ActorType DEF LoopErrorFinal, At
  <2>2. Fail(Now(p)).status = "failed"
    BY <2>1, FailSays DEF Says
  <2> QED BY <1>3, <2>1, <2>2, HolderPuts DEF LoopErrorFinal
<1> QED BY <1>1, <1>2, <1>3, LoopErrorRetriedMoves DEF OnStepException

-----------------------------------------------------------------------------
(* _complete_step *)

LEMMA LoopEndsMoves ==
  ASSUME Good, Moving, NEW p \in Procs, LoopEnds(p)
  PROVE  Moving'
<1>1. inv[p].pc \in Working
  BY DEF LoopEnds, At, Working
<1>2. CASE Now(p).status \notin Completable
  BY <1>1, <1>2, WorkerEnds DEF LoopEnds, Completable
<1>3. CASE Now(p).status \in Completable
  <2>1. Goes(p, "complete") /\ "complete" \in Working
    BY <1>3, ReadsGoes DEF LoopEnds, ReadAs, Working
  <2> QED BY <1>1, <2>1, WorkerGoesOn DEF LoopEnds
<1> QED BY <1>2, <1>3

LEMMA ParkMoves ==
  ASSUME Good, Calmed, Moving, NEW p \in Procs, ParkWaitingApproval(p)
  PROVE  Moving'
<1>1. Holds(inv[p], T(p)) /\ inv[p].pc \in Working /\ Stepped(p) \in Row
  BY CompletingKnows DEF ParkWaitingApproval, At, Working
<1>2. CASE Now(p).status \in {"running", "review"}
  <2>1. PICK r : r = [Align(Stepped(p)) EXCEPT !.status = "waiting_approval", !.idle = 0]
    OBVIOUS
  <2>2. r.status = "waiting_approval"
    BY <1>1, <2>1, ParkSays DEF Says, Statuses
  <2> QED BY <1>1, <1>2, <2>1, <2>2, HolderPuts DEF ParkWaitingApproval
<1>3. CASE Now(p).status \notin {"running", "review"}
  BY <1>1, <1>3, WorkerEnds DEF ParkWaitingApproval
<1> QED BY <1>2, <1>3

LEMMA CompleteMovedRowMoves ==
  ASSUME Good, Calmed, Moving, NEW p \in Procs, CompleteMovedRow(p)
  PROVE  Moving'
<1>1. /\ Holds(inv[p], T(p)) /\ inv[p].pc = "complete" /\ inv[p].pc \in Working /\ Now(p) \in Row
      /\ Snap(p).step \in Nat
      /\ Stepped(p).step = Snap(p).step
      /\ Snap(p).status \in {"review", "needs_owner"} /\ Now(p).status \in {Snap(p).status, "cancelled"}
  BY CompletingKnows DEF CompleteMovedRow, At, Working, Says
<1>2. CASE Now(p).status = Snap(p).status
  <2>1. PICK n \in Nat : n = Stepped(p).step
    BY <1>1
  <2>2. PICK r : r = [Touch(Now(p)) EXCEPT !.step = n, !.idle = 0, !.stuckRetried = FALSE]
    OBVIOUS
  <2>3. r.status = Now(p).status
    BY <1>1, <2>2, MovedSays DEF Says
  <2>4. Put(T(p), r) /\ End(p) /\ env' = env /\ events' = events
    BY <1>2, <2>1, <2>2 DEF CompleteMovedRow
  <2> QED BY <1>1, <1>2, <2>3, <2>4, HolderPuts
<1>3. CASE Now(p).status # Snap(p).status
  BY <1>1, <1>3, WorkerEnds DEF CompleteMovedRow
<1> QED BY <1>2, <1>3

LEMMA CountingMoves ==
  ASSUME Good, Calmed, OnlyDelays, Moving, NEW p \in Procs, At(p, "complete"), Snap(p).status = "running",
         NEW n \in Nat, NEW r, r = [Stepped(p) EXCEPT !.idle = n],
         Salvage(T(p), r) \/ GiveUp(T(p), r) \/ Proceed(p, r),
         End(p), env' = env
  PROVE  Moving'
<1>1. /\ Stepped(p) \in Row /\ Snap(p).step \in Nat /\ Holds(inv[p], T(p))
      /\ Says(Stepped(p), "running", Snap(p).step + 1, Snap(p).step + 1, Snap(p).claimedAt, Snap(p).attempt)
  BY CompletingKnows
<1>2. /\ r \in Row
      /\ Says(r, "running", Snap(p).step + 1, Snap(p).step + 1, Snap(p).claimedAt, Snap(p).attempt)
  BY <1>1, IdleSays DEF Says
<1>3. CASE GiveUp(T(p), r)
  <2>1. Fail(r).status = "failed"
    BY <1>2, FailSays DEF Says
  <2> QED BY <1>1, <1>3, <2>1, HolderPuts DEF GiveUp
<1>4. CASE Salvage(T(p), r)
  <2>1. PICK x \in {"review", "needs_owner"} :
          /\ Put(T(p), [Align(r) EXCEPT !.status = x, !.idle = 0])
          /\ events \subseteq events' /\ (x = "review" => ReviewEvent(T(p)) \in events')
    BY <1>4, Sends DEF Salvage
  <2>2. PICK s : s = [Align(r) EXCEPT !.status = x, !.idle = 0]
    OBVIOUS
  <2>3. s.status = x
    BY <1>2, <2>2, ParkSays DEF Says, Statuses
  <2> QED BY <1>1, <2>1, <2>2, <2>3, HolderPuts
<1>5. CASE Put(T(p), r) /\ Invoke(StepEvent(T(p), Seq(p) + 1))
  <2>1. PICK e : e = StepEvent(T(p), Seq(p) + 1)
    OBVIOUS
  <2>2. e \in events' /\ events \subseteq events'
    BY <1>5, <2>1, Sends
  <2>3. Seq(p) = Snap(p).step + 1
    <3>1. Fits(env, inv[p], Now(p)) /\ inv[p].pc = "complete"
      BY <1>1, HolderKnows DEF At
    <3>2. inv[p].want = Snap(p).step + 1
      BY <3>1 DEF Fits, Completes, Reads, AtWork, Snap
    <3> QED BY <1>1, <3>2 DEF Seq
  <2>4. Following(e, T(p), r) /\ r.claimed <= r.step
    BY <1>1, <1>2, <2>1, <2>3, EventSays DEF Says, Following, Waking
  <2>5. r.status = "running"
    BY <1>2 DEF Says
  <2> QED BY <1>1, <1>5, <2>2, <2>4, <2>5, HolderPuts
<1> QED BY <1>3, <1>4, <1>5 DEF Proceed

LEMMA CompleteStepMoves ==
  ASSUME Good, Calmed, OnlyDelays, Moving, NEW p \in Procs, CompleteStep(p)
  PROVE  Moving'
<1>1. CASE CompleteProductive(p)
  <2>1. Proceed(p, [Stepped(p) EXCEPT !.idle = 0])
    BY <1>1 DEF CompleteProductive
  <2> QED BY <1>1, <2>1, CountingMoves, 0 \in Nat DEF CompleteProductive
<1>2. CASE CompleteIdle(p)
  <2>1. PICK n \in Nat : n = Stepped(p).idle + 1
    BY SteppedType, ActorType, RowFields
  <2>2. PICK r : r = [Stepped(p) EXCEPT !.idle = n]
    OBVIOUS
  <2>3. Salvage(T(p), r) \/ GiveUp(T(p), r) \/ Proceed(p, r)
    BY <1>2, <2>1, <2>2 DEF CompleteIdle
  <2> QED BY <1>2, <2>2, <2>3, CountingMoves DEF CompleteIdle
<1> QED BY <1>1, <1>2, LoopEndsMoves, ParkMoves, CompleteMovedRowMoves DEF CompleteStep

-----------------------------------------------------------------------------
(* The manager, the founder and the approvals. *)

LEMMA ReviewReceivedMoves ==
  ASSUME Good, Calmed, Moving, NEW p \in Procs, NEW e \in events, ReviewReceived(p, e)
  PROVE  Moving'
<1>1. PICK t \in Tasks : t = e.task
  BY DEF Good, Events
<1>2. /\ inv[p].pc = "idle" /\ e.kind = "review" /\ env' = env /\ row' = row
      /\ \A d \in events : d \in events' \/ d = e
  BY DEF ReviewReceived, At, Consume
<1>3. /\ \A q \in Procs \ {p} : inv'[q] = inv[q]
      /\ \/ row[t].status # "review" /\ inv'[p] = inv[p]
         \/ row[t].status = "review" /\ inv'[p].task = t /\ inv'[p].pc = "judge"
  <2>1. CASE row[t].status = "review"
    <3>1. Begin(p, "judge", t)
      BY <1>1, <2>1 DEF ReviewReceived, Begin
    <3> QED BY <2>1, <3>1, BeginDoes
  <2>2. CASE row[t].status # "review"
    BY <1>1, <2>2 DEF ReviewReceived
  <2> QED BY <2>1, <2>2
<1>4. Reviewed(t)'
  BY <1>2, <1>3, ReviewStays DEF Moving
<1>5. ASSUME OneDrain PROVE Alone(t)' /\ Driven(t)'
  <2>1. Alone(t) /\ Driven(t)
    BY <1>5 DEF Moving
  <2>2. inv'[p].pc \notin Listing /\ ~Holds(inv[p], t) /\ ~(inv[p].pc \in Working \cup {"claim"})
    BY <1>2, <1>3 DEF Listing, Holds, Holding, Working, Sweeping
  <2>3. Holds(inv'[p], t) => row[t].status \notin {"queued", "cancelled"}
    BY <1>3, <2>2
  <2>4. Alone(t)'
    BY <1>2, <1>3, <2>1, <2>2, <2>3, AloneStays
  <2>5. \A d \in events : Following(d, t, row[t]) => d \in events'
    BY <1>2 DEF Following, Waking
  <2>6. Driven(t)'
    BY <1>2, <1>3, <2>1, <2>2, <2>5, DriveStays
  <2> QED BY <2>4, <2>6
<1>6. /\ inv'[p].pc \notin Sweeping /\ inv[p].pc # "judge"
      /\ \A d \in events : d \in events' \/ d.task = t
      /\ \A u \in Tasks \ {t} : row'[u] = row[u]
  BY <1>1, <1>2, <1>3 DEF Sweeping
<1> QED BY <1>2, <1>3, <1>4, <1>5, <1>6, Moved

LEMMA ReviewMoves ==
  ASSUME Good, Calmed, OnlyDelays, Moving, NEW p \in Procs, Review(p)
  PROVE  Moving'
<1>1. /\ Holds(inv[p], T(p)) /\ Snap(p) \in Row /\ Snap(p).step \in Nat
      /\ "running" \in Statuses /\ "needs_owner" \in Statuses /\ "delivered" \in Statuses
  BY ReaderKnows DEF Review, ReviewAccepts, ReviewReturns, At, Statuses
<1>2. ASSUME NEW x \in {"delivered", "needs_owner"}, Put(T(p), [Touch(Snap(p)) EXCEPT !.status = x]),
             End(p), env' = env, events' = events
      PROVE  Moving'
  <2>1. [Touch(Snap(p)) EXCEPT !.status = x].status = x
    BY <1>1, StatusSays DEF Says
  <2> QED BY <1>1, <1>2, <2>1, HolderPuts
<1>3. ASSUME Put(T(p), [Align(Snap(p)) EXCEPT !.status = "running", !.revisions = @ + 1, !.idle = 0]),
             Invoke(StepEvent(T(p), Snap(p).step + 1)), End(p), env' = env
      PROVE  Moving'
  <2>1. PICK r : r = [Align(Snap(p)) EXCEPT !.status = "running", !.revisions = @ + 1, !.idle = 0]
    OBVIOUS
  <2>2. Says(r, "running", Snap(p).step, Snap(p).step, "none", Snap(p).attempt)
    BY <1>1, <2>1, ReturnSays
  <2>3. PICK e : e = StepEvent(T(p), Snap(p).step + 1)
    OBVIOUS
  <2>4. e \in events' /\ events \subseteq events'
    BY <1>3, <2>3, Sends
  <2>5. r.status = "running" /\ r.claimed <= r.step /\ Following(e, T(p), r)
    BY <1>1, <2>2, <2>3, EventSays DEF Says, Following, Waking
  <2> QED BY <1>1, <1>3, <2>1, <2>4, <2>5, HolderPuts
<1> QED BY <1>2, <1>3 DEF Review, ReviewAccepts, ReviewReturns, Return

LEMMA RetryReadsMoves ==
  ASSUME Good, Moving, NEW p \in Procs, NEW t \in Tasks, RetryReads(p, t)
  PROVE  Moving'
<1>1. inv'[p].pc = "retry" /\ inv'[p].task = t /\ \A q \in Procs \ {p} : inv'[q] = inv[q]
  BY BeginDoes DEF RetryReads
<1>2. inv[p].pc = "idle" /\ row[t].status \notin {"queued", "cancelled"}
  BY DEF RetryReads, Begin, At
<1>3. inv[p].pc \notin Working /\ inv'[p].pc \notin Listing \cup Sweeping
  BY <1>1, <1>2 DEF Working, Listing, Sweeping
<1> QED BY <1>1, <1>2, <1>3, OthersGo DEF RetryReads

(* The founder's retry drains the queue on its own: nobody listed the task it queues. *)
LEMMA RetryWritesMoves ==
  ASSUME Good, Calmed, Moving, NEW p \in Procs, RetryWrites(p)
  PROVE  Moving'
<1>1. PICK t \in Tasks : t = T(p)
  BY ActorType
<1>2. /\ inv[p].pc = "retry" /\ Holds(inv[p], t) /\ Calm(t) /\ env' = env /\ events' = events
  BY <1>1, ReaderKnows DEF RetryWrites, At, Calmed
<1>3. inv'[p].pc = "drainList" /\ \A q \in Procs \ {p} : inv'[q] = inv[q]
  BY DEF RetryWrites, Good, Draining, Idle
<1>4. row'[t].status = "queued" /\ \A u \in Tasks \ {t} : row'[u] = row[u]
  <2>1. PICK n \in Nat : n = Snap(p).attempt + 1
    BY ActorType, RowFields
  <2>2. row'[t] = [NewRow("queued") EXCEPT !.attempt = n] /\ \A u \in Tasks \ {t} : row'[u] = row[u]
    BY <1>1, <2>1, PutDoes DEF RetryWrites
  <2> QED BY <2>2, RetrySays DEF Says
<1>5. Reviewed(t)' /\ Driven(t)'
  BY <1>4 DEF Reviewed, Driven
<1>6. \A q \in Procs : ~Holds(inv'[q], t)
  <2>1. \A q \in Procs \ {p} : ~Holds(inv[q], t)
    BY <1>2 DEF Calm, OneHolder
  <2>2. ~Holds(inv'[p], t)
    BY <1>3 DEF Holds, Holding, Working, Sweeping
  <2> QED BY <1>3, <2>1, <2>2
<1>7. ASSUME OneDrain PROVE Alone(t)'
  <2>1. \A q \in Procs : inv[q].pc \notin Listing
    BY <1>2, <1>7 DEF Moving, Alone
  <2> QED BY <1>3, <1>4, <1>6, <2>1 DEF Alone
<1>8. inv'[p].pc \notin Sweeping /\ inv[p].pc # "judge" /\ \A e \in events : e \in events'
  BY <1>2, <1>3 DEF Sweeping
<1> QED BY <1>2, <1>3, <1>4, <1>5, <1>7, <1>8, Moved

LEMMA DecideMoves ==
  ASSUME Good, Moving, NEW p \in Procs, NEW t \in Tasks, Decide(p, t)
  PROVE  Moving'
<1>1. inv'[p].pc = "decided" /\ \A q \in Procs \ {p} : inv'[q] = inv[q]
  BY BeginDoes DEF Decide
<1>2. inv[p].pc = "idle"
  BY DEF Decide, Begin, At
<1>3. inv[p].pc \notin Working /\ inv'[p].pc \notin Listing \cup Sweeping \cup Holding
  BY <1>1, <1>2 DEF Working, Listing, Sweeping, Holding
<1> QED BY <1>1, <1>2, <1>3, OthersGo DEF Decide

LEMMA ResumeReadsMoves ==
  ASSUME Good, Moving, NEW p \in Procs, ResumeReads(p)
  PROVE  Moving'
<1>1. PICK t \in Tasks : t = T(p)
  BY ActorType
<1>2. inv[p].pc = "decided" /\ UNCHANGED <<env, row, events>> /\ Now(p) = row[t] /\ inv[p].task = t
  BY <1>1 DEF ResumeReads, At, Now, T
<1>3. CASE End(p)
  <2>1. inv'[p].pc = "idle" /\ \A q \in Procs \ {p} : inv'[q] = inv[q]
    BY <1>3, EndIdles
  <2>2. inv[p].pc \notin Working /\ inv'[p].pc \notin Listing \cup Sweeping \cup Holding
    BY <1>2, <2>1 DEF Working, Listing, Sweeping, Holding
  <2> QED BY <1>2, <2>1, <2>2, OthersGo
<1>4. CASE Now(p).status = "waiting_approval" /\ ReadAs(p, "resume")
  <2>1. Goes(p, "resume")
    BY <1>4, ReadsGoes DEF ReadAs
  <2>2. inv'[p].pc = "resume" /\ inv'[p].task = t /\ \A q \in Procs \ {p} : inv'[q] = inv[q]
    BY <1>2, <2>1 DEF Goes
  <2>3. inv[p].pc \notin Working /\ inv'[p].pc \notin Listing \cup Sweeping
    BY <1>2, <2>2 DEF Working, Listing, Sweeping
  <2> QED BY <1>2, <1>4, <2>2, <2>3, OthersGo
<1> QED BY <1>3, <1>4 DEF ResumeReads

LEMMA ResumeMoves ==
  ASSUME Good, Calmed, OnlyDelays, Moving, NEW p \in Procs, Resume(p)
  PROVE  Moving'
<1>1. CASE StaysParked(p)
  <2>1. Holds(inv[p], T(p)) /\ Snap(p) \in Row /\ Snap(p).status = "waiting_approval"
    BY <1>1, ReaderKnows DEF StaysParked, At
  <2>2. Touch(Snap(p)).status = "waiting_approval"
    BY <2>1, TouchSays DEF Says
  <2> QED BY <1>1, <2>1, <2>2, HolderPuts DEF StaysParked
<1>2. CASE Resumes(p)
  <2>1. Holds(inv[p], T(p)) /\ Snap(p) \in Row /\ Snap(p).step \in Nat /\ "running" \in Statuses
    BY <1>2, ReaderKnows DEF Resumes, At, Statuses
  <2>2. PICK r : r = [Align(Snap(p)) EXCEPT !.status = "running"]
    OBVIOUS
  <2>3. Says(r, "running", Snap(p).step, Snap(p).step, "none", Snap(p).attempt)
    BY <2>1, <2>2, ResumeSays
  <2>4. PICK e : e = StepEvent(T(p), Snap(p).step + 1)
    OBVIOUS
  <2>5. e \in events' /\ events \subseteq events'
    BY <1>2, <2>4, Sends DEF Resumes
  <2>6. r.status = "running" /\ r.claimed <= r.step /\ Following(e, T(p), r)
    BY <2>1, <2>3, <2>4, EventSays DEF Says, Following, Waking
  <2> QED BY <1>2, <2>1, <2>2, <2>5, <2>6, HolderPuts DEF Resumes
<1> QED BY <1>1, <1>2, ResumeReadsMoves DEF Resume

-----------------------------------------------------------------------------
(* The sweep: where one drain empties the queue, it finds nothing stuck. *)

LEMMA SweepListsMoves ==
  ASSUME Good, Calmed, Moving, NEW p \in Procs, NEW t \in Tasks, SweepLists(p, t)
  PROVE  Moving'
<1>1. inv'[p].pc = "sweep" /\ inv'[p].task = t /\ \A q \in Procs \ {p} : inv'[q] = inv[q]
  BY BeginDoes DEF SweepLists
<1>2. Calm(t) /\ Stuck(row[t])
  BY DEF SweepLists, Calmed
<1>3. /\ row[t].updated # 0 /\ row[t].status \in {"running", "review"}
      /\ row[t].status = "review" => row[t].updated = 2
  <2>1. row[t].status = "running" /\ ClaimIsStale(row[t]) => row[t].updated # 0
    BY <1>2, RowFields DEF Calm, Fresh, ClaimIsStale, Good, GoodRow, Row
  <2>2. NeverStarted(row[t]) => row[t].updated # 0
    BY DEF NeverStarted
  <2> QED BY <1>2, <2>1, <2>2 DEF Stuck
<1>4. /\ \A e \in events : e.task # t
      /\ \A q \in Procs : inv[q].task = t => inv[q].pc \notin Working \cup {"claim"}
      /\ row[t].updated = 2 => \A q \in Procs : inv[q].task = t => inv[q].pc # "judge"
  BY <1>2, <1>3 DEF Calm, Aged
<1>5. ~OneDrain
  <2>1. ASSUME OneDrain, row[t].status = "running" PROVE FALSE
    <3>1. ~Worked(t)
      BY <1>4 DEF Worked
    <3> QED BY <1>4, <2>1, <3>1 DEF Moving, Driven, Following, Waking, Claims
  <2>2. ASSUME row[t].status = "review" PROVE FALSE
    BY <1>3, <1>4, <2>2 DEF Moving, Reviewed
  <2> QED BY <1>3, <2>1, <2>2
<1>6. inv[p].pc = "idle" /\ UNCHANGED <<env, row, events>>
  BY DEF SweepLists, Begin, At
<1>7. /\ inv[p].pc \notin Working /\ row[t].status \notin {"queued", "cancelled"}
      /\ inv'[p].pc \notin Listing
  BY <1>1, <1>3, <1>6 DEF Working, Listing
<1> QED BY <1>1, <1>5, <1>6, <1>7, OthersGo

LEMMA SweepMoves ==
  ASSUME Good, Calmed, OnlyDelays, Moving, NEW p \in Procs, Sweep(p)
  PROVE  Moving'
<1>1. inv[p].pc \in Sweeping /\ Holds(inv[p], T(p)) /\ inv[p].pc # "judge"
  BY DEF Sweep, SweepReleases, SweepReinvokes, SweepFails, SweepReview, At, Sweeping, Holds, T, Holding
<1>2. ~OneDrain
  BY <1>1 DEF Moving, Unswept
<1>3. Snap(p) \in Row /\ Now(p) \in Row /\ Snap(p).step \in Nat
  BY ActorType, RowFields
<1>4. CASE SweepReleases(p)
  <2>1. PICK t \in Tasks : t = T(p)
    BY ActorType
  <2>2. PICK n \in Nat : n = Snap(p).step
    BY <1>3
  <2>3. PICK r : r = ReleaseStepClaim(Now(p), n + 1)
    OBVIOUS
  <2>4. r.status = Now(p).status
    BY <1>3, <2>3, ReleaseSays DEF Says
  <2>5. row'[t] = r /\ \A u \in Tasks \ {t} : row'[u] = row[u]
    BY <1>4, <2>1, <2>2, <2>3, PutDoes DEF SweepReleases
  <2>6. inv'[p].pc = "sweepRetry" /\ \A q \in Procs \ {p} : inv'[q] = inv[q]
    <3>1. inv[p] \in Invocation
      BY ActorType DEF GoodInvocation
    <3>2. /\ inv'[p] = [inv[p] EXCEPT !.pc = "sweepRetry", !.want = Snap(p).step + 1, !.snap = NewRow("absent")]
          /\ \A q \in Procs \ {p} : inv'[q] = inv[q]
      BY <1>4 DEF Good, SweepReleases
    <3> QED BY <3>1, <3>2 DEF Invocation
  <2>7. env' = env /\ (\A e \in events : e \in events') /\ row'[t].status = row[t].status
    BY <1>4, <2>1, <2>4, <2>5 DEF SweepReleases, Now
  <2>8. Reviewed(t)'
    BY <1>1, <2>6, <2>7, ReviewStays DEF Moving
  <2> QED BY <1>1, <1>2, <2>5, <2>6, <2>7, <2>8, Moved
<1>5. CASE SweepReinvokes(p)
  <2>1. [Touch(Now(p)) EXCEPT !.stuckRetried = TRUE].status = Now(p).status
    BY <1>3, RetriedSays DEF Says
  <2>2. events \subseteq events'
    BY <1>5 DEF SweepReinvokes, Invoke
  <2> QED BY <1>1, <1>2, <1>5, <2>1, <2>2, HolderPuts DEF SweepReinvokes
<1>6. CASE SweepFails(p)
  <2>1. Fail(Snap(p)).status = "failed"
    BY <1>3, FailSays DEF Says
  <2> QED BY <1>1, <1>2, <1>6, <2>1, HolderPuts DEF SweepFails
<1>7. CASE SweepReview(p)
  <2>1. PICK r : /\ Put(T(p), r) /\ events \subseteq events'
                 /\ r.status = "review" => ReviewEvent(T(p)) \in events'
    <3>1. CASE Snap(p).reviewRetried
      <4>1. [Touch(Snap(p)) EXCEPT !.status = "needs_owner"].status = "needs_owner"
        BY <1>3, StatusSays DEF Says, Statuses
      <4> QED BY <1>7, <3>1, <4>1 DEF SweepReview
    <3>2. CASE ~Snap(p).reviewRetried
      BY <1>7, <3>2, Sends DEF SweepReview
    <3> QED BY <3>1, <3>2
  <2> QED BY <1>1, <1>2, <1>7, <2>1, HolderPuts DEF SweepReview
<1> QED BY <1>4, <1>5, <1>6, <1>7 DEF Sweep

-----------------------------------------------------------------------------
(* The whole next-state relation. *)

LEMMA ContinueMoves ==
  ASSUME Good, Calmed, OnlyDelays, Moving, NEW p \in Procs, Continue(p)
  PROVE  Moving'
<1>1. CASE Drain(p)
  <2>1. CASE RequeueUnstarted(p)
    BY <2>1 DEF RequeueUnstarted, At, Calmed, Possible
  <2>2. ASSUME NEW t \in Tasks, DrainInvokeFails(p, t) PROVE Moving'
    BY <2>2 DEF DrainInvokeFails, OnlyDelays
  <2> QED BY <1>1, <2>1, <2>2, DrainListMoves, DrainClaimMoves DEF Drain
<1>2. CASE Owner(p)
  BY <1>2, RetryWritesMoves DEF Owner, OwnerAccepts, OwnerReturns, At, Calmed, Possible
<1> QED BY <1>1, <1>2, RunStepMoves, ToolLoopMoves, OnStepExceptionMoves, CompleteStepMoves,
           ReviewMoves, ResumeMoves, SweepMoves DEF Continue

LEMMA StartMoves ==
  ASSUME Good, Calmed, OnlyDelays, Moving, NEW p \in Procs, Start(p)
  PROVE  Moving'
<1>1. ASSUME NEW t \in Tasks, OwnerReviewReads(p, t) PROVE Moving'
  BY <1>1 DEF OwnerReviewReads, OnlyDelays
<1>2. ASSUME NEW e \in events, Deliver(p, e) PROVE Moving'
  BY <1>2, StepReceivedMoves, ReviewReceivedMoves DEF Deliver
<1> QED BY <1>1, <1>2, TickDrainMoves, CreateTaskMoves, RetryReadsMoves, DecideMoves, SweepListsMoves DEF Start

LEMMA EnvironmentMoves ==
  ASSUME Good, Calmed, OnlyDelays, Moving, Environment
  PROVE  Moving'
<1>1. CASE BudgetExhausts \/ BudgetResets
  BY <1>1, NobodyActs DEF BudgetExhausts, BudgetResets
<1>2. ASSUME NEW p \in Procs, Crash(p) PROVE Moving'
  BY <1>2 DEF Crash, OnlyDelays
<1>3. ASSUME NEW p \in Procs, DeadIsGone(p) PROVE Moving'
  <2>1. PICK t \in Tasks : t = T(p)
    BY ActorType
  <2>2. inv[p].pc = "dead" /\ UNCHANGED <<env, row, events>>
    BY <1>3 DEF DeadIsGone, At
  <2>3. inv'[p].pc = "idle" /\ \A q \in Procs \ {p} : inv'[q] = inv[q]
    BY <1>3, EndIdles DEF DeadIsGone
  <2>4. inv[p].pc \notin Working /\ inv'[p].pc \notin Listing \cup Sweeping \cup Holding
    BY <2>2, <2>3 DEF Working, Listing, Sweeping, Holding
  <2> QED BY <2>1, <2>2, <2>3, <2>4, OthersGo
<1>4. ASSUME NEW t \in Tasks, NEW r, Put(t, r), UNCHANGED <<env, inv>>, events' = events,
             r.status \in {row[t].status, "cancelled"},
             r.status = row[t].status => r.step = row[t].step /\ r.claimed = row[t].claimed
      PROVE  Moving'
  <2>1. row'[t] = r /\ \A u \in Tasks \ {t} : row'[u] = row[u]
    BY <1>4, PutDoes
  <2> QED BY <1>4, <2>1, NobodyActs
<1>5. ASSUME NEW t \in Tasks, CancelTask(t) PROVE Moving'
  <2>1. PICK r : r = [Touch(row[t]) EXCEPT !.status = "cancelled"]
    OBVIOUS
  <2>2. r.status = "cancelled"
    BY <2>1, StatusSays DEF Says, Good, GoodRow, Statuses
  <2> QED BY <1>4, <1>5, <2>1, <2>2 DEF CancelTask
<1>6. ASSUME NEW t \in Tasks, PastClaimCut(t) PROVE Moving'
  <2>1. PICK r : /\ Put(t, r)
                 /\ r.status = row[t].status /\ r.step = row[t].step /\ r.claimed = row[t].claimed
    <3>1. row[t] \in Row
      BY DEF Good, GoodRow
    <3>2. PICK at : at = IF row[t].claimedAt = "none" THEN "none" ELSE "stale"
      OBVIOUS
    <3>3. PICK r : r = [row[t] EXCEPT !.updated = 1, !.claimedAt = at]
      OBVIOUS
    <3>4. r.status = row[t].status /\ r.step = row[t].step /\ r.claimed = row[t].claimed
      BY <3>1, <3>3 DEF Row
    <3>5. Put(t, r)
      BY <1>6, <3>2, <3>3 DEF PastClaimCut
    <3> QED BY <3>4, <3>5
  <2> QED BY <1>4, <1>6, <2>1 DEF PastClaimCut
<1>7. ASSUME NEW t \in Tasks, PastStuckCut(t) PROVE Moving'
  <2>1. PICK r : /\ Put(t, r)
                 /\ r.status = row[t].status /\ r.step = row[t].step /\ r.claimed = row[t].claimed
    <3>1. row[t] \in Row
      BY DEF Good, GoodRow
    <3> QED BY <1>7, <3>1 DEF PastStuckCut, Row
  <2>2. events' = events
    BY <1>7 DEF PastStuckCut, Calmed, Calm, Aged
  <2> QED BY <1>4, <1>7, <2>1, <2>2 DEF PastStuckCut
<1> QED BY <1>1, <1>2, <1>3, <1>5, <1>6, <1>7 DEF Environment

LEMMA InitDInv == Init => DInv
<1> SUFFICES ASSUME Init PROVE DInv
  OBVIOUS
<1>1. \A p \in Procs : inv[p].pc = "idle"
  BY DEF Init, Idle
<1>2. \A t \in Tasks : row[t].status = "absent"
  BY DEF Init, NewRow
<1>3. \A t \in Tasks : Reviewed(t) /\ Driven(t) /\ Alone(t)
  BY <1>1, <1>2 DEF Reviewed, Driven, Alone, Listing
<1>4. Unswept
  BY <1>1 DEF Unswept, Sweeping
<1> QED BY <1>3, <1>4, InitIInv DEF DInv, Moving

LEMMA NextDInv == DInv /\ [Next]_vars => DInv'
<1> SUFFICES ASSUME DInv, [Next]_vars PROVE DInv'
  OBVIOUS
<1>1. IInv' /\ env' = env
  BY NextIInv, EnvStays DEF DInv
<1>2. CASE Orderly /\ OnlyDelays
  <2>1. Good /\ Calmed /\ OnlyDelays /\ Moving
    BY <1>2 DEF DInv, IInv, Calmed
  <2>2. ASSUME UNCHANGED vars PROVE Moving'
    BY <2>1, <2>2, NobodyActs DEF vars
  <2>3. Moving'
    BY <2>1, <2>2, ContinueMoves, StartMoves, EnvironmentMoves DEF Next
  <2> QED BY <1>1, <2>3 DEF DInv
<1>3. CASE ~(Orderly /\ OnlyDelays)
  <2>1. ~(Orderly /\ OnlyDelays)'
    BY <1>1, <1>3 DEF Orderly, OnlyDelays
  <2> QED BY <1>1, <2>1 DEF DInv
<1> QED BY <1>2, <1>3

LEMMA AlwaysDInv == Spec => []DInv
BY InitDInv, NextDInv, PTL DEF Spec

(***************************************************************************)
(* The engine never leaves a submitted deliverable waiting for the tick:   *)
(* as long as nothing is lost, crashes or raises and the owner gives no    *)
(* verdict, every task in review has its review event on the way or a      *)
(* manager who read it, however steps, retries, approvals, cancels and     *)
(* the tick's own sweep interleave with it.                                *)
(***************************************************************************)
THEOREM ReviewsAreDriven == Spec => [](Orderly => ReviewIsDriven)
<1>1. DInv => (Orderly => ReviewIsDriven)
  BY DEF DInv, Moving, Reviewed, ReviewIsDriven, T
<1> QED BY <1>1, AlwaysDInv, PTL

(***************************************************************************)
(* Nor a running task: where one drain empties the queue, its next step's  *)
(* event is on the way, or an invocation that will write it is at work.    *)
(***************************************************************************)
THEOREM RunningTasksAreDriven == Spec => [](Orderly => RunningIsDriven)
<1>1. DInv => (Orderly => RunningIsDriven)
  <2> SUFFICES ASSUME DInv, Orderly, OnlyDelays, OneDrain, NEW t \in Tasks, row[t].status = "running"
               PROVE  \/ \E e \in events : e.kind = "step" /\ e.task = t /\ e.seq = row[t].step + 1
                      \/ \E p \in Procs : T(p) = t /\ inv[p].pc \in Working \cup {"claim", "drainUndo", "sweepRetry"}
    BY DEF RunningIsDriven
  <2>1. Driven(t)
    BY DEF DInv, Moving
  <2> QED BY <2>1 DEF Driven, Worked, Following, Waking, Claims, T
<1> QED BY <1>1, AlwaysDInv, PTL
=============================================================================

-------------------------- MODULE BoardWritesProofs --------------------------
(***************************************************************************)
(* Theorems about BoardWrites for any number of holds, approvals and       *)
(* invocations: the operation of a write runs at most once, an approval    *)
(* resumes its task at most once, and a row tells whether its operation    *)
(* ran.  The argument: whoever wins the claim of a row owns it until its   *)
(* last put of it; nobody owns a waiting row, nobody owns a row twice, and *)
(* nothing but the refresh of a decided approval, which the hypothesis     *)
(* excludes, makes a row wait again.                                       *)
(* The second part is about BulkImport, the imports that holds start: the  *)
(* two modules have no name in common.                                     *)
(***************************************************************************)
EXTENDS BoardWrites, BulkImport, FiniteSetTheorems, TLAPS

(* Where an invocation owns the row it is about. *)
OwnerPcs == {"holdExpiredOn", "holdExpiredOff", "holdClaimed", "holdRan",
             "approvalExpired", "closing", "rejected", "approved", "approvalRan"}

(* What an owner knows of its row. *)
OwnerKnows(p) ==
  LET w == inv[p].w
  IN  /\ inv[p].pc \in {"holdExpiredOn", "holdExpiredOff"} =>
           hold[w].status \in {"expired", "vetoed"} /\ runs[w] = 0
      /\ inv[p].pc = "holdClaimed" => hold[w].status \in {"executing", "vetoed"} /\ runs[w] = 0
      /\ inv[p].pc = "holdRan" => hold[w].status \in {"executing", "vetoed"} /\ runs[w] = 1
      /\ inv[p].pc \in {"approvalExpired", "closing", "rejected"} =>
           approval[w].status = "rejected" /\ runs[w] = 0 /\ resumes[w] = 0
      /\ inv[p].pc = "approved" =>
           approval[w].status = "approved" /\ runs[w] = 0 /\ resumes[w] = 0
      /\ inv[p].pc = "approvalRan" =>
           approval[w].status = "approved" /\ runs[w] = 1 /\ resumes[w] = 0

OneOwner == \A p, q \in Procs :
  p # q /\ inv[p].pc \in OwnerPcs /\ inv[q].pc \in OwnerPcs => inv[p].w # inv[q].w

HoldGood(h) ==
  /\ runs[h] \in {0, 1}
  /\ hold[h].status \in {"absent", "scheduled", "expired"} => runs[h] = 0
  /\ hold[h].status = "executed" => runs[h] = 1

ApprovalGood(a) ==
  /\ runs[a] \in {0, 1}
  /\ resumes[a] \in {0, 1}
  /\ approval[a].status \in {"absent", "pending"} => runs[a] = 0 /\ resumes[a] = 0
  /\ approval[a].status = "rejected" => runs[a] = 0
  /\ approval[a].status = "executed" => runs[a] = 1

(* The inductive invariant. *)
Good ==
  /\ TypeOK
  /\ \A p \in Procs : OwnerKnows(p)
  /\ OneOwner
  /\ \A h \in Holds : HoldGood(h)
  /\ \A a \in Approvals : ApprovalGood(a)

-----------------------------------------------------------------------------
(* What the building blocks of the actions do. *)

LEMMA GotoDoes ==
  ASSUME TypeOK, NEW p \in Procs, NEW pc, NEW w, Goto(p, pc, w),
         \/ pc \in FreePcs /\ w = None
         \/ pc \in HoldPcs /\ w \in Holds
         \/ pc \in ApprovalPcs /\ w \in Approvals
  PROVE  /\ inv' \in [Procs -> Invocation]
         /\ inv'[p].pc = pc
         /\ inv'[p].w = w
         /\ \A q \in Procs \ {p} : inv'[q] = inv[q]
<1> DEFINE i == [pc |-> pc, w |-> w, listed |-> {}]
<1>1. i \in Invocation
  BY DEF Invocation
<1>2. inv \in [Procs -> Invocation]
  BY DEF TypeOK
<1>3. inv' = [inv EXCEPT ![p] = i]
  BY DEF Goto
<1>4. i.pc = pc /\ i.w = w
  OBVIOUS
<1> HIDE DEF i
<1> QED
  BY <1>1, <1>2, <1>3, <1>4

LEMMA PutHoldDoes ==
  ASSUME TypeOK, NEW h \in Holds, NEW s \in HoldStatuses, PutHold(h, s)
  PROVE  /\ hold' \in [Holds -> HoldRow]
         /\ hold'[h].status = s
         /\ \A g \in Holds \ {h} : hold'[g] = hold[g]
<1> DEFINE r == [hold[h] EXCEPT !.status = s]
<1>1. hold \in [Holds -> HoldRow] /\ hold[h] \in HoldRow
  BY DEF TypeOK
<1>2. r \in HoldRow /\ r.status = s
  BY <1>1 DEF HoldRow
<1>3. hold' = [hold EXCEPT ![h] = r]
  BY DEF PutHold
<1> HIDE DEF r
<1> QED
  BY <1>1, <1>2, <1>3

LEMMA PutApprovalDoes ==
  ASSUME TypeOK, NEW a \in Approvals, NEW s \in ApprovalStatuses, PutApproval(a, s)
  PROVE  /\ approval' \in [Approvals -> ApprovalRow]
         /\ approval'[a].status = s
         /\ \A b \in Approvals \ {a} : approval'[b] = approval[b]
<1> DEFINE r == [approval[a] EXCEPT !.status = s]
<1>1. approval \in [Approvals -> ApprovalRow] /\ approval[a] \in ApprovalRow
  BY DEF TypeOK
<1>2. r \in ApprovalRow /\ r.status = s
  BY <1>1 DEF ApprovalRow
<1>3. approval' = [approval EXCEPT ![a] = r]
  BY DEF PutApproval
<1> HIDE DEF r
<1> QED
  BY <1>1, <1>2, <1>3

LEMMA RunDoes ==
  ASSUME TypeOK, NEW w \in Writes, Run(w)
  PROVE  /\ runs' \in [Writes -> Nat]
         /\ runs'[w] = runs[w] + 1
         /\ \A v \in Writes \ {w} : runs'[v] = runs[v]
  BY DEF TypeOK, Run

LEMMA ResumeDoes ==
  ASSUME TypeOK, NEW a \in Approvals, ResumeWaitingStaff(a)
  PROVE  /\ resumes' \in [Approvals -> Nat]
         /\ resumes'[a] = resumes[a] + 1
         /\ \A b \in Approvals \ {a} : resumes'[b] = resumes[b]
  BY DEF TypeOK, ResumeWaitingStaff

(* An invocation is about a hold, an approval or nothing, as its pc says. *)
LEMMA About ==
  ASSUME TypeOK, NEW p \in Procs
  PROVE  /\ inv[p].pc \in FreePcs \cup HoldPcs \cup ApprovalPcs
         /\ inv[p].pc \in HoldPcs => inv[p].w \in Holds
         /\ inv[p].pc \in ApprovalPcs => inv[p].w \in Approvals
<1>1. inv[p] \in Invocation
  BY DEF TypeOK
<1> QED
  BY <1>1 DEF Invocation, FreePcs, HoldPcs, ApprovalPcs

-----------------------------------------------------------------------------
LEMMA InitGood == ASSUME Init PROVE Good
  BY WritesAssumption DEF Init, Good, TypeOK, OwnerKnows, OneOwner, OwnerPcs, HoldGood, ApprovalGood,
     HoldRow, HoldStatuses, ApprovalRow, ApprovalStatuses, Invocation, FreePcs, HoldPcs, ApprovalPcs, Writes

(* An invocation that owns nothing, or gives up what it owns, moves on and writes no row. *)
LEMMA MoveGood ==
  ASSUME Good, NEW p \in Procs, NEW pc, NEW w, Goto(p, pc, w),
         \/ pc \in FreePcs /\ w = None
         \/ pc = "veto" /\ w \in Holds
         \/ pc = "decide" /\ w \in Approvals,
         UNCHANGED <<hold, approval, runs, resumes, staffOn>>
  PROVE  Good'
<1>1. TypeOK /\ pc \notin OwnerPcs
  BY DEF Good, FreePcs, OwnerPcs
<1>2. /\ inv' \in [Procs -> Invocation]
      /\ inv'[p].pc = pc /\ inv'[p].w = w
      /\ \A q \in Procs \ {p} : inv'[q] = inv[q]
  BY <1>1, GotoDoes DEF HoldPcs, ApprovalPcs
<1>3. TypeOK'
  BY <1>1, <1>2 DEF TypeOK
<1>4. \A q \in Procs : OwnerKnows(q)'
  BY <1>1, <1>2 DEF Good, OwnerKnows, OwnerPcs
<1>5. OneOwner'
  BY <1>1, <1>2 DEF Good, OneOwner
<1>6. (\A h \in Holds : HoldGood(h)') /\ (\A a \in Approvals : ApprovalGood(a)')
  BY DEF Good, HoldGood, ApprovalGood
<1> QED
  BY <1>3, <1>4, <1>5, <1>6 DEF Good

(* An invocation that wins the claim of a hold becomes its one owner. *)
LEMMA ClaimHoldGood ==
  ASSUME Good, NEW p \in Procs, NEW h \in Holds, NEW s, NEW pc, ClaimHold(h, s), Goto(p, pc, h),
         \/ s = "expired" /\ pc \in {"holdExpiredOn", "holdExpiredOff"}
         \/ s = "executing" /\ pc = "holdClaimed",
         UNCHANGED <<approval, runs, resumes, staffOn>>
  PROVE  Good'
<1>1. TypeOK /\ hold[h].status = "scheduled" /\ runs[h] = 0
  BY DEF Good, HoldGood, ClaimHold
<1>2. /\ inv' \in [Procs -> Invocation]
      /\ inv'[p].pc = pc /\ inv'[p].w = h
      /\ \A q \in Procs \ {p} : inv'[q] = inv[q]
  BY <1>1, GotoDoes DEF HoldPcs
<1>3. /\ hold' \in [Holds -> HoldRow]
      /\ hold'[h].status = s
      /\ \A g \in Holds \ {h} : hold'[g] = hold[g]
  BY <1>1, PutHoldDoes DEF ClaimHold, HoldStatuses
<1>4. \A q \in Procs : inv[q].pc \in OwnerPcs => inv[q].w # h
  <2> SUFFICES ASSUME NEW q \in Procs, inv[q].pc \in OwnerPcs, inv[q].w = h PROVE FALSE
    OBVIOUS
  <2>1. inv[q].pc \notin ApprovalPcs
    BY <1>1, About, WritesAssumption
  <2> QED
    BY <1>1, <2>1 DEF Good, OwnerKnows, OwnerPcs, ApprovalPcs
<1>5. TypeOK'
  BY <1>1, <1>2, <1>3 DEF TypeOK
<1>6. \A q \in Procs : OwnerKnows(q)'
  <2> TAKE q \in Procs
  <2>1. CASE q = p
    BY <1>1, <1>2, <1>3, <2>1 DEF OwnerKnows
  <2>2. CASE q # p
    <3>1. inv'[q] = inv[q] /\ OwnerKnows(q)
      BY <1>2, <2>2 DEF Good
    <3>2. CASE inv[q].pc \in HoldPcs /\ inv[q].pc \in OwnerPcs
      <4>1. inv[q].w \in Holds \ {h}
        BY <1>1, <1>4, <3>2, About
      <4> QED
        BY <1>3, <3>1, <4>1 DEF OwnerKnows
    <3>3. CASE inv[q].pc \notin HoldPcs \/ inv[q].pc \notin OwnerPcs
      BY <3>1, <3>3 DEF OwnerKnows, HoldPcs, OwnerPcs
    <3> QED
      BY <3>2, <3>3
  <2> QED
    BY <2>1, <2>2
<1>7. OneOwner'
  BY <1>2, <1>4 DEF Good, OneOwner
<1>8. \A g \in Holds : HoldGood(g)'
  BY <1>1, <1>3 DEF Good, HoldGood
<1>9. \A a \in Approvals : ApprovalGood(a)'
  BY DEF Good, ApprovalGood
<1> QED
  BY <1>5, <1>6, <1>7, <1>8, <1>9 DEF Good

(* The same for an approval. *)
LEMMA ClaimApprovalGood ==
  ASSUME Good, NEW p \in Procs, NEW a \in Approvals, NEW s, NEW pc,
         ClaimApprovalDecision(a, s), Goto(p, pc, a),
         \/ s = "rejected" /\ pc \in {"approvalExpired", "closing", "rejected"}
         \/ s = "approved" /\ pc = "approved",
         UNCHANGED <<hold, runs, resumes, staffOn>>
  PROVE  Good'
<1>1. TypeOK /\ approval[a].status = "pending" /\ runs[a] = 0 /\ resumes[a] = 0
  BY DEF Good, ApprovalGood, ClaimApprovalDecision
<1>2. /\ inv' \in [Procs -> Invocation]
      /\ inv'[p].pc = pc /\ inv'[p].w = a
      /\ \A q \in Procs \ {p} : inv'[q] = inv[q]
  BY <1>1, GotoDoes DEF ApprovalPcs
<1>3. /\ approval' \in [Approvals -> ApprovalRow]
      /\ approval'[a].status = s
      /\ \A b \in Approvals \ {a} : approval'[b] = approval[b]
  BY <1>1, PutApprovalDoes DEF ClaimApprovalDecision, ApprovalStatuses
<1>4. \A q \in Procs : inv[q].pc \in OwnerPcs => inv[q].w # a
  <2> SUFFICES ASSUME NEW q \in Procs, inv[q].pc \in OwnerPcs, inv[q].w = a PROVE FALSE
    OBVIOUS
  <2>1. inv[q].pc \notin HoldPcs
    BY <1>1, About, WritesAssumption
  <2> QED
    BY <1>1, <2>1 DEF Good, OwnerKnows, OwnerPcs, HoldPcs
<1>5. TypeOK'
  BY <1>1, <1>2, <1>3 DEF TypeOK
<1>6. \A q \in Procs : OwnerKnows(q)'
  <2> TAKE q \in Procs
  <2>1. CASE q = p
    BY <1>1, <1>2, <1>3, <2>1 DEF OwnerKnows
  <2>2. CASE q # p
    <3>1. inv'[q] = inv[q] /\ OwnerKnows(q)
      BY <1>2, <2>2 DEF Good
    <3>2. CASE inv[q].pc \in ApprovalPcs /\ inv[q].pc \in OwnerPcs
      <4>1. inv[q].w \in Approvals \ {a}
        BY <1>1, <1>4, <3>2, About
      <4> QED
        BY <1>3, <3>1, <4>1 DEF OwnerKnows
    <3>3. CASE inv[q].pc \notin ApprovalPcs \/ inv[q].pc \notin OwnerPcs
      BY <3>1, <3>3 DEF OwnerKnows, ApprovalPcs, OwnerPcs
    <3> QED
      BY <3>2, <3>3
  <2> QED
    BY <2>1, <2>2
<1>7. OneOwner'
  BY <1>2, <1>4 DEF Good, OneOwner
<1>8. \A b \in Approvals : ApprovalGood(b)'
  BY <1>1, <1>3 DEF Good, ApprovalGood
<1>9. \A h \in Holds : HoldGood(h)'
  BY DEF Good, HoldGood
<1> QED
  BY <1>5, <1>6, <1>7, <1>8, <1>9 DEF Good

(* The owner of a hold writes its outcome and gives it up. *)
LEMMA FinishHoldGood ==
  ASSUME Good, NEW p \in Procs, NEW s, NEW pc, PutHold(inv[p].w, s), Goto(p, pc, None),
         pc \in FreePcs,
         \/ s = "expired" /\ inv[p].pc \in {"holdExpiredOn", "holdExpiredOff"}
         \/ s = "failed" /\ inv[p].pc \in {"holdClaimed", "holdRan"}
         \/ s = "executed" /\ inv[p].pc = "holdRan",
         UNCHANGED <<approval, runs, resumes, staffOn>>
  PROVE  Good'
<1>1. TypeOK /\ OwnerKnows(p) /\ inv[p].pc \in HoldPcs /\ inv[p].pc \in OwnerPcs /\ pc \notin OwnerPcs
  BY DEF Good, HoldPcs, OwnerPcs, FreePcs
<1>2. PICK h \in Holds : h = inv[p].w
  BY <1>1, About
<1>3. /\ inv' \in [Procs -> Invocation]
      /\ inv'[p].pc = pc
      /\ \A q \in Procs \ {p} : inv'[q] = inv[q]
  BY <1>1, GotoDoes
<1>4. /\ hold' \in [Holds -> HoldRow]
      /\ hold'[h].status = s
      /\ \A g \in Holds \ {h} : hold'[g] = hold[g]
  BY <1>1, <1>2, PutHoldDoes DEF HoldStatuses
<1>5. TypeOK'
  BY <1>1, <1>3, <1>4 DEF TypeOK
<1>6. HoldGood(h)'
  BY <1>1, <1>2, <1>4 DEF Good, HoldGood, OwnerKnows
<1>7. \A q \in Procs : OwnerKnows(q)'
  <2> TAKE q \in Procs
  <2>1. CASE q = p
    BY <1>1, <1>3, <2>1 DEF OwnerKnows, OwnerPcs
  <2>2. CASE q # p
    <3>1. inv'[q] = inv[q] /\ OwnerKnows(q)
      BY <1>3, <2>2 DEF Good
    <3>2. CASE inv[q].pc \in HoldPcs /\ inv[q].pc \in OwnerPcs
      <4>1. inv[q].w \in Holds \ {h}
        BY <1>1, <1>2, <2>2, <3>2, About DEF Good, OneOwner
      <4> QED
        BY <1>4, <3>1, <4>1 DEF OwnerKnows
    <3>3. CASE inv[q].pc \notin HoldPcs \/ inv[q].pc \notin OwnerPcs
      BY <3>1, <3>3 DEF OwnerKnows, HoldPcs, OwnerPcs
    <3> QED
      BY <3>2, <3>3
  <2> QED
    BY <2>1, <2>2
<1>8. OneOwner'
  BY <1>1, <1>3 DEF Good, OneOwner
<1>9. \A g \in Holds : HoldGood(g)'
  <2> TAKE g \in Holds
  <2>1. CASE g # h
    BY <1>4, <2>1 DEF Good, HoldGood
  <2> QED
    BY <1>6, <2>1
<1>10. \A a \in Approvals : ApprovalGood(a)'
  BY DEF Good, ApprovalGood
<1> QED
  BY <1>5, <1>7, <1>8, <1>9, <1>10 DEF Good

(* The owner of an approval writes its outcome, resumes the waiting task or not, and gives it up. *)
LEMMA FinishApprovalGood ==
  ASSUME Good, NEW p \in Procs, NEW s, NEW pc, PutApproval(inv[p].w, s), Goto(p, pc, None),
         pc \in FreePcs,
         \/ s = "rejected" /\ inv[p].pc \in {"approvalExpired", "closing", "rejected"}
         \/ s = "failed" /\ inv[p].pc \in {"approved", "approvalRan"}
         \/ s = "executed" /\ inv[p].pc = "approvalRan",
         ResumeWaitingStaff(inv[p].w) \/ UNCHANGED resumes,
         UNCHANGED <<hold, runs, staffOn>>
  PROVE  Good'
<1>1. /\ TypeOK /\ OwnerKnows(p) /\ inv[p].pc \in ApprovalPcs
      /\ inv[p].pc \in OwnerPcs /\ pc \notin OwnerPcs
  BY DEF Good, ApprovalPcs, OwnerPcs, FreePcs
<1>2. PICK a \in Approvals : a = inv[p].w
  BY <1>1, About
<1>3. /\ inv' \in [Procs -> Invocation]
      /\ inv'[p].pc = pc
      /\ \A q \in Procs \ {p} : inv'[q] = inv[q]
  BY <1>1, GotoDoes
<1>4. /\ approval' \in [Approvals -> ApprovalRow]
      /\ approval'[a].status = s
      /\ \A b \in Approvals \ {a} : approval'[b] = approval[b]
  BY <1>1, <1>2, PutApprovalDoes DEF ApprovalStatuses
<1>5. /\ resumes' \in [Approvals -> Nat]
      /\ resumes'[a] \in {resumes[a], resumes[a] + 1}
      /\ \A b \in Approvals \ {a} : resumes'[b] = resumes[b]
  BY <1>1, <1>2, ResumeDoes DEF TypeOK
<1>6. TypeOK'
  BY <1>1, <1>3, <1>4, <1>5 DEF TypeOK
<1>7. \A q \in Procs : OwnerKnows(q)'
  <2> TAKE q \in Procs
  <2>1. CASE q = p
    BY <1>1, <1>3, <2>1 DEF OwnerKnows, OwnerPcs
  <2>2. CASE q # p
    <3>1. inv'[q] = inv[q] /\ OwnerKnows(q)
      BY <1>3, <2>2 DEF Good
    <3>2. CASE inv[q].pc \in ApprovalPcs /\ inv[q].pc \in OwnerPcs
      <4>1. inv[q].w \in Approvals \ {a}
        BY <1>1, <1>2, <2>2, <3>2, About DEF Good, OneOwner
      <4> QED
        BY <1>4, <1>5, <3>1, <4>1 DEF OwnerKnows
    <3>3. CASE inv[q].pc \notin ApprovalPcs \/ inv[q].pc \notin OwnerPcs
      BY <3>1, <3>3 DEF OwnerKnows, ApprovalPcs, OwnerPcs
    <3> QED
      BY <3>2, <3>3
  <2> QED
    BY <2>1, <2>2
<1>8. OneOwner'
  BY <1>1, <1>3 DEF Good, OneOwner
<1>9. \A b \in Approvals : ApprovalGood(b)'
  <2> TAKE b \in Approvals
  <2>1. CASE b # a
    BY <1>4, <1>5, <2>1 DEF Good, ApprovalGood
  <2>2. CASE b = a
    <3>1. ApprovalGood(a) /\ resumes[a] = 0 /\ runs[a] \in {0, 1}
      BY <1>1, <1>2 DEF Good, ApprovalGood, OwnerKnows
    <3>2. s = "rejected" => runs[a] = 0
      BY <1>1, <1>2 DEF OwnerKnows
    <3>3. s = "executed" => runs[a] = 1
      BY <1>1, <1>2 DEF OwnerKnows
    <3> QED
      BY <1>4, <1>5, <2>2, <3>1, <3>2, <3>3 DEF ApprovalGood
  <2> QED
    BY <2>1, <2>2
<1>10. \A h \in Holds : HoldGood(h)'
  BY DEF Good, HoldGood
<1> QED
  BY <1>6, <1>7, <1>8, <1>9, <1>10 DEF Good

(* The owner of a row runs its operation, for the first time. *)
LEMMA RunGood ==
  ASSUME Good, NEW p \in Procs, NEW pc, Run(inv[p].w), Goto(p, pc, inv[p].w),
         \/ At(p, "holdClaimed") /\ pc = "holdRan"
         \/ At(p, "approved") /\ pc = "approvalRan",
         UNCHANGED <<hold, approval, resumes, staffOn>>
  PROVE  Good'
<1>1. TypeOK /\ OwnerKnows(p) /\ inv[p].pc \in OwnerPcs /\ pc \in OwnerPcs
  BY DEF Good, OwnerPcs, At
<1>2. /\ At(p, "holdClaimed") => inv[p].w \in Holds
      /\ At(p, "approved") => inv[p].w \in Approvals
  BY <1>1, About DEF At, HoldPcs, ApprovalPcs
<1>3. PICK w \in Writes : w = inv[p].w
  BY <1>2 DEF Writes
<1>4. /\ inv' \in [Procs -> Invocation]
      /\ inv'[p].pc = pc /\ inv'[p].w = w
      /\ \A q \in Procs \ {p} : inv'[q] = inv[q]
  BY <1>1, <1>2, <1>3, GotoDoes DEF HoldPcs, ApprovalPcs
<1>5. /\ runs' \in [Writes -> Nat]
      /\ runs'[w] = runs[w] + 1
      /\ \A v \in Writes \ {w} : runs'[v] = runs[v]
  BY <1>1, <1>3, RunDoes
<1>6. runs[w] = 0
  BY <1>1, <1>3 DEF OwnerKnows, At
<1>7. TypeOK'
  BY <1>1, <1>4, <1>5 DEF TypeOK
<1>8. \A q \in Procs : OwnerKnows(q)'
  <2> TAKE q \in Procs
  <2>1. CASE q = p
    BY <1>1, <1>3, <1>4, <1>5, <1>6, <2>1 DEF OwnerKnows, At
  <2>2. CASE q # p
    <3>1. inv'[q] = inv[q] /\ OwnerKnows(q)
      BY <1>4, <2>2 DEF Good
    <3>2. CASE inv[q].pc \in OwnerPcs
      <4>1. inv[q].w \in Writes \ {w}
        <5>1. inv[q].w # w
          BY <1>1, <1>3, <2>2, <3>2 DEF Good, OneOwner
        <5>2. inv[q].pc \in HoldPcs \cup ApprovalPcs
          BY <3>2 DEF OwnerPcs, HoldPcs, ApprovalPcs
        <5> QED
          BY <1>1, <5>1, <5>2, About DEF Writes
      <4> QED
        BY <1>5, <3>1, <4>1 DEF OwnerKnows
    <3>3. CASE inv[q].pc \notin OwnerPcs
      BY <3>1, <3>3 DEF OwnerKnows, OwnerPcs
    <3> QED
      BY <3>2, <3>3
  <2> QED
    BY <2>1, <2>2
<1>9. OneOwner'
  BY <1>1, <1>3, <1>4 DEF Good, OneOwner
<1>10. \A h \in Holds : HoldGood(h)'
  <2> TAKE h \in Holds
  <2>1. CASE h # w
    BY <1>5, <2>1 DEF Good, HoldGood, Writes
  <2>2. CASE h = w
    <3>1. hold[h].status \in {"executing", "vetoed"}
      BY <1>1, <1>2, <1>3, <2>2, WritesAssumption DEF OwnerKnows, At
    <3> QED
      BY <1>5, <1>6, <2>2, <3>1 DEF HoldGood
  <2> QED
    BY <2>1, <2>2
<1>11. \A a \in Approvals : ApprovalGood(a)'
  <2> TAKE a \in Approvals
  <2>1. CASE a # w
    BY <1>5, <2>1 DEF Good, ApprovalGood, Writes
  <2>2. CASE a = w
    <3>1. approval[a].status = "approved"
      BY <1>1, <1>2, <1>3, <2>2, WritesAssumption DEF OwnerKnows, At
    <3> QED
      BY <1>5, <1>6, <2>2, <3>1 DEF Good, ApprovalGood
  <2> QED
    BY <2>1, <2>2
<1> QED
  BY <1>7, <1>8, <1>9, <1>10, <1>11 DEF Good

(* A hold is created or vetoed: no owner of it minds. *)
LEMMA PutHoldGood ==
  ASSUME Good, NEW h \in Holds, NEW s, PutHold(h, s),
         (hold[h].status = "absent" /\ s = "scheduled") \/ s = "vetoed",
         UNCHANGED inv \/ \E p \in Procs : Goto(p, "idle", None),
         UNCHANGED <<approval, runs, resumes, staffOn>>
  PROVE  Good'
<1>1. /\ TypeOK
      /\ hold' \in [Holds -> HoldRow]
      /\ hold'[h].status = s
      /\ \A g \in Holds \ {h} : hold'[g] = hold[g]
  BY PutHoldDoes DEF Good, HoldStatuses
<1>2. /\ inv' \in [Procs -> Invocation]
      /\ \A q \in Procs : inv'[q] = inv[q] \/ inv'[q].pc = "idle"
  <2>1. CASE UNCHANGED inv
    BY <1>1, <2>1 DEF TypeOK
  <2>2. ASSUME NEW p \in Procs, Goto(p, "idle", None)
        PROVE  /\ inv' \in [Procs -> Invocation]
               /\ inv'[p].pc = "idle"
               /\ \A q \in Procs \ {p} : inv'[q] = inv[q]
    BY <1>1, <2>2, GotoDoes DEF FreePcs
  <2> QED
    BY <2>1, <2>2
<1>3. TypeOK'
  BY <1>1, <1>2 DEF TypeOK
<1>4. \A q \in Procs : OwnerKnows(q)'
  <2> TAKE q \in Procs
  <2>1. CASE inv'[q].pc = "idle"
    BY <2>1 DEF OwnerKnows
  <2>2. CASE inv'[q] = inv[q]
    <3>1. OwnerKnows(q)
      BY DEF Good
    <3>2. CASE inv[q].pc \in HoldPcs
      <4>1. inv[q].w \in Holds
        BY <1>1, <3>2, About
      <4> QED
        BY <1>1, <2>2, <3>1, <3>2, <4>1 DEF OwnerKnows, HoldPcs
    <3>3. CASE inv[q].pc \notin HoldPcs
      BY <2>2, <3>1, <3>3 DEF OwnerKnows, HoldPcs
    <3> QED
      BY <3>2, <3>3
  <2> QED
    BY <1>2, <2>1, <2>2
<1>5. OneOwner'
  BY <1>2 DEF Good, OneOwner, OwnerPcs
<1>6. \A g \in Holds : HoldGood(g)'
  BY <1>1 DEF Good, HoldGood
<1>7. \A a \in Approvals : ApprovalGood(a)'
  BY DEF Good, ApprovalGood
<1> QED
  BY <1>3, <1>4, <1>5, <1>6, <1>7 DEF Good

(* An approval is created, or refreshed while it is still pending. *)
LEMMA PutPendingGood ==
  ASSUME Good, NEW p \in Procs, NEW a \in Approvals, PutApproval(a, "pending"),
         approval[a].status \in {"absent", "pending"}, Goto(p, "idle", None),
         UNCHANGED <<hold, runs, resumes, staffOn>>
  PROVE  Good'
<1>1. /\ TypeOK
      /\ approval' \in [Approvals -> ApprovalRow]
      /\ approval'[a].status = "pending"
      /\ \A b \in Approvals \ {a} : approval'[b] = approval[b]
  BY PutApprovalDoes DEF Good, ApprovalStatuses
<1>2. /\ inv' \in [Procs -> Invocation]
      /\ inv'[p].pc = "idle"
      /\ \A q \in Procs \ {p} : inv'[q] = inv[q]
  BY <1>1, GotoDoes DEF FreePcs
<1>3. TypeOK'
  BY <1>1, <1>2 DEF TypeOK
<1>4. \A q \in Procs : OwnerKnows(q)'
  <2> TAKE q \in Procs
  <2>1. CASE q = p
    BY <1>2, <2>1 DEF OwnerKnows
  <2>2. CASE q # p
    <3>1. inv'[q] = inv[q] /\ OwnerKnows(q)
      BY <1>2, <2>2 DEF Good
    <3>2. CASE inv[q].pc \in ApprovalPcs
      <4>1. inv[q].w \in Approvals
        BY <1>1, <3>2, About
      <4> QED
        BY <1>1, <3>1, <3>2, <4>1 DEF OwnerKnows, ApprovalPcs
    <3>3. CASE inv[q].pc \notin ApprovalPcs
      BY <3>1, <3>3 DEF OwnerKnows, ApprovalPcs
    <3> QED
      BY <3>2, <3>3
  <2> QED
    BY <2>1, <2>2
<1>5. OneOwner'
  BY <1>2 DEF Good, OneOwner, OwnerPcs
<1>6. \A b \in Approvals : ApprovalGood(b)'
  BY <1>1 DEF Good, ApprovalGood
<1>7. \A h \in Holds : HoldGood(h)'
  BY DEF Good, HoldGood
<1> QED
  BY <1>3, <1>4, <1>5, <1>6, <1>7 DEF Good

LEMMA ProposeListsGood ==
  ASSUME Good, NEW p \in Procs, ProposeLists(p)
  PROVE  Good'
<1> DEFINE i == [pc |-> "propose", w |-> None,
                 listed |-> {a \in Approvals : approval[a].status = "pending"}]
<1>1. i \in Invocation /\ i.pc = "propose"
  BY DEF Invocation, FreePcs
<1>2. inv \in [Procs -> Invocation] /\ inv' = [inv EXCEPT ![p] = i]
  BY DEF Good, TypeOK, ProposeLists
<1>3. UNCHANGED <<hold, approval, runs, resumes, staffOn>>
  BY DEF ProposeLists
<1> HIDE DEF i
<1>4. /\ inv' \in [Procs -> Invocation]
      /\ inv'[p].pc = "propose"
      /\ \A q \in Procs \ {p} : inv'[q] = inv[q]
  BY <1>1, <1>2
<1>5. TypeOK'
  BY <1>3, <1>4 DEF Good, TypeOK
<1>6. \A q \in Procs : OwnerKnows(q)'
  BY <1>3, <1>4 DEF Good, OwnerKnows
<1>7. OneOwner'
  BY <1>4 DEF Good, OneOwner, OwnerPcs
<1>8. (\A h \in Holds : HoldGood(h)') /\ (\A a \in Approvals : ApprovalGood(a)')
  BY <1>3 DEF Good, HoldGood, ApprovalGood
<1> QED
  BY <1>5, <1>6, <1>7, <1>8 DEF Good

(* The clock and the switch change nothing an owner knows. *)
LEMMA AgesGood ==
  ASSUME Good,
         \/ \E h \in Holds : HoldAges(h)
         \/ \E a \in Approvals : ApprovalAges(a)
         \/ SwitchStaff
  PROVE  Good'
<1>1. TypeOK /\ UNCHANGED <<runs, resumes, inv>>
  BY DEF Good, HoldAges, ApprovalAges, SwitchStaff
<1>2. /\ hold' \in [Holds -> HoldRow]
      /\ \A h \in Holds : hold'[h].status = hold[h].status
  <2>1. ASSUME NEW h \in Holds, HoldAges(h)
        PROVE  hold' \in [Holds -> HoldRow] /\ \A g \in Holds : hold'[g].status = hold[g].status
    <3> DEFINE r == [hold[h] EXCEPT !.due = Later(hold[h].due)]
    <3>1. hold \in [Holds -> HoldRow] /\ hold[h] \in HoldRow
      BY <1>1 DEF TypeOK
    <3>2. r \in HoldRow /\ r.status = hold[h].status
      BY <3>1 DEF HoldRow, Later
    <3>3. hold' = [hold EXCEPT ![h] = r]
      BY <2>1 DEF HoldAges
    <3> HIDE DEF r
    <3> QED
      BY <3>1, <3>2, <3>3
  <2>2. CASE UNCHANGED hold
    BY <1>1, <2>2 DEF TypeOK
  <2> QED
    BY <2>1, <2>2 DEF ApprovalAges, SwitchStaff
<1>3. /\ approval' \in [Approvals -> ApprovalRow]
      /\ \A a \in Approvals : approval'[a].status = approval[a].status
  <2>1. ASSUME NEW a \in Approvals, ApprovalAges(a)
        PROVE  /\ approval' \in [Approvals -> ApprovalRow]
               /\ \A b \in Approvals : approval'[b].status = approval[b].status
    <3> DEFINE r == [approval[a] EXCEPT !.due = TRUE]
    <3>1. approval \in [Approvals -> ApprovalRow] /\ approval[a] \in ApprovalRow
      BY <1>1 DEF TypeOK
    <3>2. r \in ApprovalRow /\ r.status = approval[a].status
      BY <3>1 DEF ApprovalRow
    <3>3. approval' = [approval EXCEPT ![a] = r]
      BY <2>1 DEF ApprovalAges
    <3> HIDE DEF r
    <3> QED
      BY <3>1, <3>2, <3>3
  <2>2. CASE UNCHANGED approval
    BY <1>1, <2>2 DEF TypeOK
  <2> QED
    BY <2>1, <2>2 DEF HoldAges, SwitchStaff
<1>4. staffOn' \in BOOLEAN
  BY <1>1 DEF TypeOK, HoldAges, ApprovalAges, SwitchStaff
<1>5. TypeOK'
  BY <1>1, <1>2, <1>3, <1>4 DEF TypeOK
<1>6. \A q \in Procs : OwnerKnows(q)'
  <2> TAKE q \in Procs
  <2>1. OwnerKnows(q)
    BY DEF Good
  <2>2. CASE inv[q].pc \in HoldPcs
    BY <1>1, <1>2, <2>1, <2>2, About DEF OwnerKnows, HoldPcs
  <2>3. CASE inv[q].pc \in ApprovalPcs
    BY <1>1, <1>3, <2>1, <2>3, About DEF OwnerKnows, ApprovalPcs
  <2>4. CASE inv[q].pc \in FreePcs
    BY <1>1, <2>4 DEF OwnerKnows, FreePcs
  <2> QED
    BY <1>1, <2>2, <2>3, <2>4, About
<1>7. OneOwner'
  BY <1>1 DEF Good, OneOwner
<1>8. (\A h \in Holds : HoldGood(h)') /\ (\A a \in Approvals : ApprovalGood(a)')
  BY <1>1, <1>2, <1>3 DEF Good, HoldGood, ApprovalGood
<1> QED
  BY <1>5, <1>6, <1>7, <1>8 DEF Good

-----------------------------------------------------------------------------
LEMMA TickGood ==
  ASSUME Good, NEW p \in Procs, HandleTick(p)
  PROVE  Good'
<1>1. CASE ExpiredHoldWrites(p)
  BY <1>1, FinishHoldGood DEF ExpiredHoldWrites, FreePcs, At
<1>2. CASE TickGoesOn(p)
  BY <1>2, MoveGood DEF TickGoesOn, End, FreePcs
<1>3. CASE HoldRefused(p)
  BY <1>3, FinishHoldGood DEF HoldRefused, FreePcs, At
<1>4. CASE HoldRuns(p)
  BY <1>4, RunGood DEF HoldRuns
<1>5. CASE FinishHold(p)
  BY <1>5, FinishHoldGood DEF FinishHold, FreePcs, At
<1>6. CASE TickReachesApprovals(p) \/ TickEnds(p)
  BY <1>6, MoveGood DEF TickReachesApprovals, TickEnds, End, FreePcs
<1>7. ASSUME NEW h \in Holds, ExpireHold(p, h) \/ ExecuteDue(p, h)
      PROVE  Good'
  BY <1>7, ClaimHoldGood DEF ExpireHold, ExecuteDue
<1>8. ASSUME NEW a \in Approvals, ExpireApproval(p, a)
      PROVE  Good'
  BY <1>8, ClaimApprovalGood DEF ExpireApproval
<1> QED
  BY <1>1, <1>2, <1>3, <1>4, <1>5, <1>6, <1>7, <1>8 DEF HandleTick

LEMMA DecisionGood ==
  ASSUME Good, NEW p \in Procs, DecideApproval(p)
  PROVE  Good'
<1>1. CASE DecideClaims(p)
  <2>1. inv[p].w \in Approvals
    BY <1>1, About DEF Good, DecideClaims, At, ApprovalPcs
  <2> QED
    BY <1>1, <2>1, ClaimApprovalGood DEF DecideClaims
<1>2. CASE DecideRefused(p)
  BY <1>2, MoveGood DEF DecideRefused, End, FreePcs
<1>3. CASE RejectWrites(p)
  BY <1>3, FinishApprovalGood DEF RejectWrites, End, FreePcs, At
<1>4. CASE ApprovalRefused(p)
  BY <1>4, FinishApprovalGood DEF ApprovalRefused, End, FreePcs, At
<1>5. CASE ApprovalRuns(p)
  BY <1>5, RunGood DEF ApprovalRuns
<1>6. CASE ApprovalFinishes(p)
  BY <1>6, FinishApprovalGood DEF ApprovalFinishes, End, FreePcs, At
<1>7. CASE ApprovalCrashes(p)
  BY <1>7, FinishApprovalGood DEF ApprovalCrashes, End, FreePcs
<1> QED
  BY <1>1, <1>2, <1>3, <1>4, <1>5, <1>6, <1>7 DEF DecideApproval

LEMMA ProposeGood ==
  ASSUME Good, "staleRefresh" \notin Env, NEW p \in Procs, Propose(p)
  PROVE  Good'
<1>1. CASE ProposeWritesNothing(p)
  BY <1>1, MoveGood DEF ProposeWritesNothing, End, FreePcs
<1>2. ASSUME NEW a \in Approvals, RefreshPendingApproval(p, a) \/ CreateApproval(p, a)
      PROVE  Good'
  BY <1>2, PutPendingGood DEF RefreshPendingApproval, CreateApproval, End
<1> QED
  BY <1>1, <1>2 DEF Propose

LEMMA StartGood ==
  ASSUME Good, NEW p \in Procs, Start(p)
  PROVE  Good'
<1>1. CASE TickStarts(p)
  BY <1>1, MoveGood DEF TickStarts, FreePcs
<1>2. CASE ProposeLists(p)
  BY <1>2, ProposeListsGood
<1>3. ASSUME NEW h \in Holds, VetoReads(p, h)
      PROVE  Good'
  BY <1>3, MoveGood DEF VetoReads
<1>4. ASSUME NEW a \in Approvals, DecideReads(p, a)
      PROVE  Good'
  BY <1>4, MoveGood DEF DecideReads
<1>5. ASSUME NEW a \in Approvals, CloseRejects(p, a)
      PROVE  Good'
  BY <1>5, ClaimApprovalGood DEF CloseRejects
<1> QED
  BY <1>1, <1>2, <1>3, <1>4, <1>5 DEF Start

LEMMA EnvironmentGood ==
  ASSUME Good, Environment
  PROVE  Good'
<1>1. CASE \/ SwitchStaff
           \/ \E h \in Holds : HoldAges(h)
           \/ \E a \in Approvals : ApprovalAges(a)
  BY <1>1, AgesGood
<1>2. ASSUME NEW h \in Holds, MaybeHold(h) \/ CatalogDropsHold(h)
      PROVE  Good'
  BY <1>2, PutHoldGood DEF MaybeHold, CatalogDropsHold, ClaimHold
<1>3. ASSUME NEW p \in Procs, Crash(p) \/ DeadIsGone(p)
      PROVE  Good'
  BY <1>3, MoveGood DEF Crash, DeadIsGone, End, FreePcs
<1> QED
  BY <1>1, <1>2, <1>3 DEF Environment

LEMMA NextGood ==
  ASSUME Good, "staleRefresh" \notin Env, [Next]_vars
  PROVE  Good'
<1>1. CASE UNCHANGED vars
  BY <1>1 DEF vars, Good, TypeOK, OwnerKnows, OneOwner, HoldGood, ApprovalGood
<1>2. ASSUME NEW p \in Procs, VetoWrites(p)
      PROVE  Good'
  <2>1. inv[p].w \in Holds
    BY <1>2, About DEF Good, VetoWrites, At, HoldPcs
  <2> QED
    BY <1>2, <2>1, PutHoldGood DEF VetoWrites, End
<1>3. ASSUME NEW p \in Procs, WithdrawnWrites(p)
      PROVE  Good'
  BY <1>3, FinishApprovalGood DEF WithdrawnWrites, FreePcs
<1> QED
  BY <1>1, <1>2, <1>3, TickGood, DecisionGood, ProposeGood, StartGood, EnvironmentGood
     DEF Next, Continue

LEMMA AlwaysGood == ASSUME "staleRefresh" \notin Env PROVE Spec => []Good
<1>1. Init => Good
  BY InitGood
<1>2. Good /\ [Next]_vars => Good'
  BY NextGood
<1> QED
  BY <1>1, <1>2, PTL DEF Spec

(***************************************************************************)
(* However many ticks, requests, tool loops and crashes overlap, every     *)
(* hold and every approval runs its operation at most once (claim_hold,    *)
(* claim_approval_decision), as long as create_approval does not put back  *)
(* an approval that was decided since it listed it.                        *)
(***************************************************************************)
THEOREM RunsAtMostOnce == ASSUME "staleRefresh" \notin Env PROVE Spec => []RunsOnce
<1>1. Good => RunsOnce
  BY DEF Good, HoldGood, ApprovalGood, RunsOnce, Writes
<1> QED
  BY <1>1, AlwaysGood, PTL

(* Under the same hypothesis a decision resumes the waiting task at most once. *)
THEOREM ResumesAtMostOnce == ASSUME "staleRefresh" \notin Env PROVE Spec => []ResumesOnce
<1>1. Good => ResumesOnce
  BY DEF Good, ApprovalGood, ResumesOnce
<1> QED
  BY <1>1, AlwaysGood, PTL

(* And the row of a hold or an approval tells whether its operation ran. *)
THEOREM RowsTellOutcome == ASSUME "staleRefresh" \notin Env PROVE Spec => []RowTellsOutcome
<1>1. Good => RowTellsOutcome
  <2> SUFFICES ASSUME Good, NEW w \in Writes
               PROVE  /\ Row(w).status = "executed" => runs[w] = 1
                      /\ Row(w).status \in {"absent", "scheduled", "pending", "expired", "rejected"}
                           => runs[w] = 0
    BY DEF RowTellsOutcome
  <2>1. CASE w \in Holds
    <3>1. Row(w) = hold[w] /\ HoldGood(w) /\ hold[w].status \in HoldStatuses
      BY <2>1 DEF Row, Good, TypeOK, HoldRow
    <3> QED
      BY <3>1 DEF HoldGood, HoldStatuses
  <2>2. CASE w \notin Holds
    <3>1. w \in Approvals
      BY <2>2 DEF Writes
    <3>2. Row(w) = approval[w] /\ ApprovalGood(w) /\ approval[w].status \in ApprovalStatuses
      BY <2>2, <3>1 DEF Row, Good, TypeOK, ApprovalRow
    <3> QED
      BY <3>2 DEF ApprovalGood, ApprovalStatuses
  <2> QED
    BY <2>1, <2>2
<1> QED
  BY <1>1, AlwaysGood, PTL

-----------------------------------------------------------------------------
(* The shapes of the state, whatever the environment does. *)

LEMMA PcsAre ==
  /\ {"idle", "dead", "expireOn", "expireOff", "executeHolds", "expireApprovals", "propose"} = FreePcs
  /\ {"holdExpiredOn", "holdExpiredOff", "holdClaimed", "holdRan", "veto"} = HoldPcs
  /\ {"approvalExpired", "closing", "decide", "rejected", "approved", "approvalRan"} = ApprovalPcs
BY DEF FreePcs, HoldPcs, ApprovalPcs

(* Somewhere to go for an invocation. *)
GoesOn(p) == \E pc, w : /\ Goto(p, pc, w)
                        /\ \/ pc \in FreePcs /\ w = None
                           \/ pc \in HoldPcs /\ w \in Holds
                           \/ pc \in ApprovalPcs /\ w \in Approvals

HoldPut == \E h \in Holds, s \in HoldStatuses : PutHold(h, s)
ApprovalPut == \E a \in Approvals, s \in ApprovalStatuses : PutApproval(a, s)

LEMMA ShapesKept ==
  ASSUME TypeOK,
         inv' = inv \/ \E p \in Procs : GoesOn(p),
         hold' = hold \/ HoldPut, approval' = approval \/ ApprovalPut,
         runs' = runs \/ \E w \in Writes : Run(w),
         resumes' = resumes \/ \E a \in Approvals : ResumeWaitingStaff(a),
         staffOn' \in BOOLEAN
  PROVE  TypeOK'
<1>1. inv' \in [Procs -> Invocation]
  BY GotoDoes DEF GoesOn, TypeOK
<1>2. hold' \in [Holds -> HoldRow]
  BY PutHoldDoes DEF HoldPut, TypeOK
<1>3. approval' \in [Approvals -> ApprovalRow]
  BY PutApprovalDoes DEF ApprovalPut, TypeOK
<1>4. runs' \in [Writes -> Nat]
  BY RunDoes DEF TypeOK
<1>5. resumes' \in [Approvals -> Nat]
  BY ResumeDoes DEF TypeOK
<1> QED
  BY <1>1, <1>2, <1>3, <1>4, <1>5 DEF TypeOK

LEMMA TickTyped ==
  ASSUME TypeOK, NEW p \in Procs, HandleTick(p) \/ TickStarts(p)
  PROVE  TypeOK'
<1>w. /\ inv[p].pc \in HoldPcs => inv[p].w \in Holds /\ inv[p].w \in Writes
      /\ staffOn' \in BOOLEAN
  BY About DEF Writes, TypeOK, HandleTick, TickStarts, ExpiredHoldWrites, TickGoesOn, HoldRefused, HoldRuns,
               FinishHold, TickReachesApprovals, TickEnds, ExpireHold, ExecuteDue, ExpireApproval
<1>1. CASE \/ TickStarts(p) \/ TickGoesOn(p) \/ TickReachesApprovals(p) \/ TickEnds(p)
  <2>1. GoesOn(p)
    BY <1>1, PcsAre DEF TickStarts, TickGoesOn, TickReachesApprovals, TickEnds, GoesOn, End
  <2> QED
    BY <1>1, <1>w, <2>1, ShapesKept DEF TickStarts, TickGoesOn, TickReachesApprovals, TickEnds
<1>2. CASE ExpiredHoldWrites(p) \/ HoldRefused(p) \/ FinishHold(p)
  <2>1. GoesOn(p) /\ HoldPut
    BY <1>2, <1>w, PcsAre DEF ExpiredHoldWrites, HoldRefused, FinishHold, GoesOn, HoldPut, HoldStatuses, At
  <2> QED
    BY <1>2, <1>w, <2>1, ShapesKept DEF ExpiredHoldWrites, HoldRefused, FinishHold
<1>3. CASE HoldRuns(p)
  <2>1. GoesOn(p) /\ inv[p].w \in Writes
    BY <1>3, <1>w, PcsAre DEF HoldRuns, GoesOn, At
  <2> QED
    BY <1>3, <1>w, <2>1, ShapesKept DEF HoldRuns
<1>4. CASE \E h \in Holds : ExpireHold(p, h) \/ ExecuteDue(p, h)
  <2>1. GoesOn(p) /\ HoldPut
    BY <1>4, PcsAre DEF ExpireHold, ExecuteDue, ClaimHold, GoesOn, HoldPut, HoldStatuses
  <2> QED
    BY <1>4, <1>w, <2>1, ShapesKept DEF ExpireHold, ExecuteDue
<1>5. CASE \E a \in Approvals : ExpireApproval(p, a)
  <2>1. GoesOn(p) /\ ApprovalPut
    BY <1>5, PcsAre DEF ExpireApproval, ClaimApprovalDecision, GoesOn, ApprovalPut, ApprovalStatuses
  <2> QED
    BY <1>5, <1>w, <2>1, ShapesKept DEF ExpireApproval
<1> QED
  BY <1>1, <1>2, <1>3, <1>4, <1>5 DEF HandleTick

LEMMA DecisionTyped ==
  ASSUME TypeOK, NEW p \in Procs,
         DecideApproval(p) \/ VetoWrites(p) \/ WithdrawnWrites(p)
  PROVE  TypeOK'
<1>w. /\ inv[p].pc \in HoldPcs => inv[p].w \in Holds
      /\ inv[p].pc \in ApprovalPcs => inv[p].w \in Approvals /\ inv[p].w \in Writes
      /\ staffOn' \in BOOLEAN
  BY About DEF Writes, TypeOK, DecideApproval, DecideClaims, DecideRefused, RejectWrites, ApprovalRefused,
               ApprovalRuns, ApprovalFinishes, ApprovalCrashes, VetoWrites, WithdrawnWrites
<1>1. CASE DecideClaims(p) \/ ApprovalCrashes(p)
  <2>1. GoesOn(p) /\ ApprovalPut
    BY <1>1, <1>w, PcsAre DEF DecideClaims, ApprovalCrashes, ClaimApprovalDecision, GoesOn, ApprovalPut,
                              ApprovalStatuses, At, End
  <2> QED
    BY <1>1, <1>w, <2>1, ShapesKept DEF DecideClaims, ApprovalCrashes
<1>2. CASE RejectWrites(p) \/ ApprovalRefused(p) \/ ApprovalFinishes(p) \/ WithdrawnWrites(p)
  <2>1. inv[p].w \in Approvals
    BY <1>2, <1>w, PcsAre DEF RejectWrites, ApprovalRefused, ApprovalFinishes, WithdrawnWrites, At
  <2>2. GoesOn(p) /\ ApprovalPut
    BY <1>2, <2>1, PcsAre DEF RejectWrites, ApprovalRefused, ApprovalFinishes, WithdrawnWrites, GoesOn,
                              ApprovalPut, ApprovalStatuses, End
  <2> QED
    BY <1>2, <1>w, <2>1, <2>2, ShapesKept DEF RejectWrites, ApprovalRefused, ApprovalFinishes, WithdrawnWrites
<1>3. CASE ApprovalRuns(p)
  <2>1. GoesOn(p) /\ inv[p].w \in Writes
    BY <1>3, <1>w, PcsAre DEF ApprovalRuns, GoesOn, At
  <2> QED
    BY <1>3, <1>w, <2>1, ShapesKept DEF ApprovalRuns
<1>4. CASE DecideRefused(p)
  <2>1. GoesOn(p)
    BY <1>4, PcsAre DEF DecideRefused, GoesOn, End
  <2> QED
    BY <1>4, <1>w, <2>1, ShapesKept DEF DecideRefused
<1>5. CASE VetoWrites(p)
  <2>1. GoesOn(p) /\ HoldPut
    BY <1>5, <1>w, PcsAre DEF VetoWrites, GoesOn, HoldPut, HoldStatuses, End, At
  <2> QED
    BY <1>5, <1>w, <2>1, ShapesKept DEF VetoWrites
<1> QED
  BY <1>1, <1>2, <1>3, <1>4, <1>5 DEF DecideApproval

LEMMA OtherStepsTyped ==
  ASSUME TypeOK, NEW p \in Procs,
         \/ Propose(p) \/ ProposeLists(p)
         \/ \E h \in Holds : VetoReads(p, h)
         \/ \E a \in Approvals : DecideReads(p, a) \/ CloseRejects(p, a)
  PROVE  TypeOK'
<1>s. staffOn' \in BOOLEAN
  BY DEF TypeOK, Propose, ProposeWritesNothing, RefreshPendingApproval, CreateApproval, ProposeLists,
         VetoReads, DecideReads, CloseRejects
<1>1. CASE ProposeLists(p)
  <2> DEFINE i == [pc |-> "propose", w |-> None, listed |-> {a \in Approvals : approval[a].status = "pending"}]
  <2>1. i \in Invocation /\ inv' = [inv EXCEPT ![p] = i]
    BY <1>1 DEF ProposeLists, Invocation, FreePcs
  <2> HIDE DEF i
  <2>2. inv' \in [Procs -> Invocation]
    BY <2>1 DEF TypeOK
  <2> QED
    BY <1>1, <2>2 DEF ProposeLists, TypeOK
<1>2. CASE \/ ProposeWritesNothing(p)
           \/ \E h \in Holds : VetoReads(p, h)
           \/ \E a \in Approvals : DecideReads(p, a)
  <2>1. GoesOn(p)
    BY <1>2, PcsAre DEF ProposeWritesNothing, VetoReads, DecideReads, GoesOn, End
  <2> QED
    BY <1>2, <1>s, <2>1, ShapesKept DEF ProposeWritesNothing, VetoReads, DecideReads
<1>3. CASE \E a \in Approvals : RefreshPendingApproval(p, a) \/ CreateApproval(p, a) \/ CloseRejects(p, a)
  <2>1. GoesOn(p) /\ ApprovalPut
    BY <1>3, PcsAre DEF RefreshPendingApproval, CreateApproval, CloseRejects, ClaimApprovalDecision,
                        GoesOn, ApprovalPut, ApprovalStatuses, End
  <2> QED
    BY <1>3, <1>s, <2>1, ShapesKept DEF RefreshPendingApproval, CreateApproval, CloseRejects
<1> QED
  BY <1>1, <1>2, <1>3 DEF Propose

LEMMA EnvironmentTyped ==
  ASSUME TypeOK, Environment
  PROVE  TypeOK'
<1>1. CASE SwitchStaff
  BY <1>1, ShapesKept DEF SwitchStaff, TypeOK
<1>2. CASE \E h \in Holds : MaybeHold(h) \/ CatalogDropsHold(h)
  <2>1. HoldPut /\ staffOn' \in BOOLEAN
    BY <1>2 DEF MaybeHold, CatalogDropsHold, ClaimHold, HoldPut, HoldStatuses, TypeOK
  <2> QED
    BY <1>2, <2>1, ShapesKept DEF MaybeHold, CatalogDropsHold
<1>3. CASE \E h \in Holds : HoldAges(h)
  <2>1. PICK h \in Holds : HoldAges(h)
    BY <1>3
  <2> DEFINE r == [hold[h] EXCEPT !.due = Later(hold[h].due)]
  <2>2. r \in HoldRow
    BY DEF TypeOK, HoldRow, Later
  <2>3. hold' = [hold EXCEPT ![h] = r]
    BY <2>1 DEF HoldAges
  <2> HIDE DEF r
  <2> QED
    BY <2>1, <2>2, <2>3 DEF HoldAges, TypeOK
<1>4. CASE \E a \in Approvals : ApprovalAges(a)
  <2>1. PICK a \in Approvals : ApprovalAges(a)
    BY <1>4
  <2> DEFINE r == [approval[a] EXCEPT !.due = TRUE]
  <2>2. r \in ApprovalRow
    BY DEF TypeOK, ApprovalRow
  <2>3. approval' = [approval EXCEPT ![a] = r]
    BY <2>1 DEF ApprovalAges
  <2> HIDE DEF r
  <2> QED
    BY <2>1, <2>2, <2>3 DEF ApprovalAges, TypeOK
<1>5. CASE \E p \in Procs : Crash(p) \/ DeadIsGone(p)
  <2>1. (\E p \in Procs : GoesOn(p)) /\ staffOn' \in BOOLEAN
    BY <1>5, PcsAre DEF Crash, DeadIsGone, GoesOn, End, TypeOK
  <2> QED
    BY <1>5, <2>1, ShapesKept DEF Crash, DeadIsGone
<1> QED
  BY <1>1, <1>2, <1>3, <1>4, <1>5 DEF Environment

(* Rows, counters and invocations keep their shapes in every environment,    *)
(* the stale refresh of create_approval included.                            *)
THEOREM Typed == Spec => []TypeOK
<1>1. Init => TypeOK
  BY InitGood DEF Good
<1>2. TypeOK /\ [Next]_vars => TypeOK'
  <2>1. CASE UNCHANGED vars
    BY <2>1 DEF vars, TypeOK
  <2> QED
    BY <2>1, TickTyped, DecisionTyped, OtherStepsTyped, EnvironmentTyped DEF Next, Continue, Start
<1> QED
  BY <1>1, <1>2, PTL DEF Spec

-----------------------------------------------------------------------------
(***************************************************************************)
(* BulkImport, the imports that holds start; it shares no state with the   *)
(* rows above.  The argument: the importer neither goes down nor comes up  *)
(* while a run posts, so one success of the run shows that it is up, and a *)
(* batch that fails then has a row that breaks it; what a run remembers of *)
(* failures (known, failed) is true of the rows, and a row that fails      *)
(* alone is that row.                                                      *)
(***************************************************************************)

(* A batch that answered 500 while the importer is up has a row that breaks  *)
(* it.                                                                       *)
Spoilt(B) == up => B \cap (mode.bad \cup mode.sched) # {}

(* A frame known to fail, and the halves that failed, are spoilt; a row is   *)
(* posted without its schedules only next to a success.                      *)
SoundFrames(won) ==
  {f \in Frame : /\ f.known => Spoilt(f.rows)
                 /\ \A H \in f.failed : Spoilt(H)
                 /\ f.step = "plain" => won /\ \E r \in Rows : f.rows = {r}}

(* A run, and a row with its rejections unbounded.                           *)
Runs == [at : {"idle", "ingest", "import", "post", "end", "continued"}, ev : Event,
         todo : Seq(Frame), budget : 0..Budget, won : BOOLEAN, left : SUBSET Rows,
         dropped : BOOLEAN]

(* What succeeded in a run shows that the importer is up while it posts.     *)
SoundRuns ==
  {r \in Runs : /\ r.at \in {"ingest", "import"} => ~r.won
                /\ r.at = "post" => /\ r.won => up
                                    /\ r.todo \in Seq(SoundFrames(r.won))}

RowStates == [status : {"proposed", "approved", "imported", "closed"}, rejects : Nat]

ImportShapes ==
  /\ mode \in Modes
  /\ row \in [Rows -> RowStates]
  /\ noted \subseteq SUBSET Rows
  /\ paused \in BOOLEAN /\ up \in BOOLEAN
  /\ issue \in {"none", "pending", "rejected", "open", "closed"}
  /\ events \subseteq Event
  /\ trouble \in 0..MaxTroubles

ImportInv == ImportShapes /\ run \in [Workers -> SoundRuns] /\ ClosedIsBad

-----------------------------------------------------------------------------
(* The frames of a run.                                                      *)

LEMMA Popped ==
  ASSUME NEW S, NEW s \in Seq(S), s # << >>, NEW first \in Seq(S)
  PROVE  Head(s) \in S /\ Tail(s) \in Seq(S) /\ first \o Tail(s) \in Seq(S)
<1>1. Head(s) \in S /\ Tail(s) \in Seq(S)
  OBVIOUS
<1> QED
  BY <1>1

LEMMA Widened ==
  ASSUME NEW S, NEW T, S \subseteq T, NEW s \in Seq(S)
  PROVE  s \in Seq(T)
OBVIOUS

LEMMA One ==
  ASSUME NEW S, NEW f \in S, NEW g \in S
  PROVE  <<f>> \in Seq(S) /\ <<f, g>> \in Seq(S)
OBVIOUS

LEMMA Indexed ==
  ASSUME NEW S, NEW k \in Nat, NEW g \in [1..k -> S]
  PROVE  g \in Seq(S)
OBVIOUS

LEMMA Both ==
  ASSUME NEW S, NEW s \in Seq(S), NEW t \in Seq(S)
  PROVE  s \o t \in Seq(S)
OBVIOUS

LEMMA GroupSound ==
  ASSUME NEW B \in SUBSET Rows, NEW bis \in BOOLEAN, NEW known \in BOOLEAN,
         NEW won \in BOOLEAN, known => Spoilt(B)
  PROVE  Group(B, bis, known) \in SoundFrames(won)
<1>1. Group(B, bis, known) \in Frame
  BY DEF Group, Frame
<1> QED
  BY <1>1 DEF Group, SoundFrames

LEMMA ThenSound ==
  ASSUME NEW won \in BOOLEAN, NEW f \in SoundFrames(won),
         NEW step \in {"left", "right", "probe", "plain"},
         NEW failed \in SUBSET (SUBSET Rows), \A H \in failed : Spoilt(H),
         step = "plain" => won /\ \E r \in Rows : f.rows = {r}
  PROVE  Then(step, f, failed) \in SoundFrames(won)
<1>1. f \in Frame
  BY DEF SoundFrames
<1>2. Then(step, f, failed) \in Frame
  BY <1>1 DEF Then, Frame
<1>3. /\ Then(step, f, failed).step = step /\ Then(step, f, failed).failed = failed
      /\ Then(step, f, failed).rows = f.rows /\ Then(step, f, failed).known = f.known
  BY <1>1 DEF Then, Frame
<1> QED
  BY <1>2, <1>3 DEF SoundFrames

LEMMA SplitSound ==
  ASSUME NEW won \in BOOLEAN, NEW f \in SoundFrames(won)
  PROVE  Split(f, won) \in Seq(SoundFrames(won))
<1>1. f.rows \in SUBSET Rows /\ Lower(f.rows) \in SUBSET Rows
  BY DEF SoundFrames, Frame, Lower, Least
<1>2. Group(Lower(f.rows), TRUE, FALSE) \in SoundFrames(won)
  BY <1>1, GroupSound
<1>3. Group(f.rows \ Lower(f.rows), TRUE, FALSE) \in SoundFrames(won)
  BY <1>1, GroupSound
<1>4. Then("left", f, {}) \in SoundFrames(won)
  BY ThenSound
<1>5. CASE won
  <2>1. Split(f, won) = <<Group(Lower(f.rows), TRUE, FALSE), Group(f.rows \ Lower(f.rows), TRUE, FALSE)>>
    BY <1>5 DEF Split
  <2> QED
    BY <1>2, <1>3, <2>1, One
<1>6. CASE ~won
  <2>1. Split(f, won) = <<Then("left", f, {})>>
    BY <1>6 DEF Split
  <2> QED
    BY <1>4, <2>1, One
<1> QED
  BY <1>5, <1>6

LEMMA BatchesSound ==
  ASSUME mode \in Modes, NEW S \in SUBSET Rows, NEW bis \in BOOLEAN
  PROVE  Batches(S, bis) \in Seq(SoundFrames(FALSE))
<1> DEFINE last == (Cardinality(S) + mode.size - 1) \div mode.size
           rows(n) == {r \in S : Cardinality({q \in S : q < r}) \div mode.size = n - 1}
<1>1. Cardinality(S) \in Nat
  BY FS_Subset, FS_CardinalityType, BulkAssumption
<1>2. mode.size \in Nat \ {0}
  BY BulkAssumption DEF Mode
<1>3. last \in Nat
  <2>1. PICK c, m \in Nat : c = Cardinality(S) /\ m = mode.size /\ m # 0
    BY <1>1, <1>2
  <2>2. (c + m - 1) \div m \in Nat
    BY <2>1
  <2> QED
    BY <2>1, <2>2
<1> HIDE DEF last
<1>4. Batches(S, bis) = [n \in 1..last |-> Group(rows(n), bis, FALSE)]
  BY DEF Batches, last
<1>5. ASSUME NEW n \in 1..last
      PROVE  Group(rows(n), bis, FALSE) \in SoundFrames(FALSE)
  BY GroupSound
<1>6. Batches(S, bis) \in [1..last -> SoundFrames(FALSE)]
  BY <1>4, <1>5
<1> QED
  BY <1>3, <1>6, Indexed

LEMMA MoreFrames ==
  SoundFrames(FALSE) \subseteq SoundFrames(TRUE)
BY DEF SoundFrames

LEMMA TopSound ==
  ASSUME ImportInv, NEW w \in Workers, run[w].at = "post", run[w].todo # << >>
  PROVE  /\ run[w] \in SoundRuns /\ run[w].won \in BOOLEAN
         /\ Top(w) \in SoundFrames(run[w].won) /\ Top(w).rows \in SUBSET Rows
         /\ Tail(run[w].todo) \in Seq(SoundFrames(run[w].won))
         /\ \A first \in Seq(SoundFrames(run[w].won)) : Pop(w, first) \in Seq(SoundFrames(run[w].won))
<1>1. run[w] \in SoundRuns
  BY DEF ImportInv
<1>2. run[w].won \in BOOLEAN /\ run[w].todo \in Seq(SoundFrames(run[w].won))
  BY <1>1 DEF SoundRuns, Runs
<1>3. Top(w) \in SoundFrames(run[w].won) /\ Tail(run[w].todo) \in Seq(SoundFrames(run[w].won))
  BY <1>2, Popped DEF Top
<1>4. Top(w).rows \in SUBSET Rows
  BY <1>3 DEF SoundFrames, Frame
<1>5. ASSUME NEW first \in Seq(SoundFrames(run[w].won))
      PROVE  Pop(w, first) \in Seq(SoundFrames(run[w].won))
  BY <1>2, <1>5, Popped DEF Pop
<1> QED
  BY <1>1, <1>2, <1>3, <1>4, <1>5

-----------------------------------------------------------------------------
(* One step of a run.                                                        *)

Advances(w) ==
  /\ ImportShapes' /\ ClosedIsBad' /\ UNCHANGED <<mode, up>>
  /\ \E r \in SoundRuns : run' = [run EXCEPT ![w] = r]

LEMMA AdvancesKeeps ==
  ASSUME ImportInv, NEW w \in Workers, Advances(w)
  PROVE  ImportInv'
<1>1. PICK r \in SoundRuns : run' = [run EXCEPT ![w] = r]
  BY DEF Advances
<1>2. run' \in [Workers -> SoundRuns]
  BY <1>1 DEF ImportInv
<1>3. SoundRuns' = SoundRuns
  BY DEF Advances, SoundRuns, SoundFrames, Spoilt
<1> QED
  BY <1>2, <1>3 DEF ImportInv, Advances

(* What the importer answers.                                                *)
LEMMA AnswersMean ==
  ASSUME ImportInv, NEW B \in SUBSET Rows, NEW schedules \in BOOLEAN, NEW answer \in Answers(B, schedules)
  PROVE  /\ answer \in {"ok", "http500", "error"}
         /\ answer = "ok" => up
         /\ answer = "http500" => Spoilt(B)
         /\ answer = "http500" /\ ~schedules => (up => B \cap mode.bad # {})
         /\ answer = "error" => trouble < MaxTroubles
BY DEF Answers, Spoilt, Fault, ImportInv, ImportShapes

LEMMA AnsweredRows ==
  ASSUME ImportInv, NEW B \in SUBSET Rows, NEW answer, Answered(B, answer),
         answer = "error" => trouble < MaxTroubles, mode' = mode
  PROVE  row' \in [Rows -> RowStates] /\ trouble' \in 0..MaxTroubles /\ ClosedIsBad'
<1>1. ASSUME NEW r \in Rows
      PROVE  /\ Rejected(row[r]) \in RowStates
             /\ Rejected(row[r]).rejects >= row[r].rejects
             /\ Rejected(row[r]).status = "closed" =>
                  row[r].status = "closed" \/ Rejected(row[r]).rejects >= MaxRejects
  BY BulkAssumption DEF ImportInv, ImportShapes, RowStates, Rejected
<1>2. trouble' \in 0..MaxTroubles
  BY BulkAssumption DEF Answered, Calm, ImportInv, ImportShapes
<1>3. CASE answer # "ok"
  BY <1>2, <1>3 DEF Answered, ImportInv, ImportShapes, ClosedIsBad
<1>4. CASE answer = "ok"
  <2>1. row' = [r \in Rows |-> IF r \notin B THEN row[r]
                               ELSE IF r \in mode.reject THEN Rejected(row[r])
                               ELSE [row[r] EXCEPT !.status = "imported"]]
    BY <1>4 DEF Answered
  <2>2. ASSUME NEW r \in Rows
        PROVE  /\ row'[r] \in RowStates
               /\ row'[r].status = "closed" => r \in mode.bad \/ row'[r].rejects >= MaxRejects
    <3>1. CASE r \notin B
      BY <2>1, <3>1 DEF ImportInv, ImportShapes, ClosedIsBad
    <3>2. CASE r \in B /\ r \in mode.reject
      <4>1. row'[r] = Rejected(row[r])
        BY <2>1, <3>2
      <4>2. PICK n, m \in Nat : n = row[r].rejects /\ m = Rejected(row[r]).rejects
        BY <1>1 DEF ImportInv, ImportShapes, RowStates
      <4>3. MaxRejects \in Nat
        BY BulkAssumption
      <4>4. n >= MaxRejects => m >= MaxRejects
        BY <1>1, <4>2, <4>3
      <4> QED
        BY <1>1, <4>1, <4>2, <4>4 DEF ImportInv, ClosedIsBad
    <3>3. CASE r \in B /\ r \notin mode.reject
      <4>1. row'[r] = [row[r] EXCEPT !.status = "imported"] /\ row[r] \in RowStates
        BY <2>1, <3>3 DEF ImportInv, ImportShapes
      <4> QED
        BY <4>1 DEF RowStates
    <3> QED
      BY <3>1, <3>2, <3>3
  <2> QED
    BY <1>2, <2>1, <2>2 DEF ClosedIsBad
<1> QED
  BY <1>3, <1>4

-----------------------------------------------------------------------------
(* The rows, notes and bounds a step leaves alone.                           *)
LEMMA ImportShapesStay ==
  ASSUME ImportInv, UNCHANGED <<mode, row, up>>, noted' \subseteq SUBSET Rows, paused' \in BOOLEAN,
         issue' \in {"none", "pending", "rejected", "open", "closed"},
         events' \subseteq Event, Calm \/ \E f : Trouble(f)
  PROVE  ImportShapes' /\ ClosedIsBad'
<1>1. trouble' \in 0..MaxTroubles
  BY BulkAssumption DEF ImportInv, ImportShapes, Calm, Trouble
<1> QED
  BY <1>1 DEF ImportInv, ImportShapes, ClosedIsBad

LEMMA PausedIs ==
  ASSUME ImportInv PROVE IsPaused \in BOOLEAN
BY DEF IsPaused, ImportInv, ImportShapes

(* An event is accepted or refused.                                          *)
LEMMA Sent ==
  ASSUME ImportInv, NEW e \in Event, Accepted(e) \/ Refused
  PROVE  events' \subseteq Event /\ (Calm \/ \E f : Trouble(f))
BY DEF Accepted, Refused, ImportInv, ImportShapes

LEMMA IdleSound == Idle \in SoundRuns
<1>1. << >> \in Seq(Frame)
  OBVIOUS
<1>2. Idle \in Runs
  BY <1>1, BulkAssumption DEF Idle, Runs, Event
<1> QED
  BY <1>2 DEF SoundRuns, Idle

LEMMA IngestsAdvances ==
  ASSUME ImportInv, NEW w \in Workers, Ingests(w)
  PROVE  Advances(w)
<1>1. run[w] \in SoundRuns /\ run[w] \in Runs /\ run[w].at = "ingest"
  BY DEF Ingests, ImportInv, SoundRuns
<1>2. PICK e \in Event : e = run[w].ev
  BY <1>1 DEF Runs
<1>3. UNCHANGED <<mode, row, noted, paused, issue, up>>
  BY DEF Ingests
<1>4. ASSUME NEW e2 \in Event, Continues(w, e2)
      PROVE  Advances(w)
  <2>1. run' = [run EXCEPT ![w] = Idle] /\ (Accepted(e2) \/ Refused)
    BY <1>4 DEF Continues, Done
  <2>2. ImportShapes' /\ ClosedIsBad'
    BY <1>3, <2>1, Sent, ImportShapesStay DEF ImportInv, ImportShapes
  <2> QED
    BY <1>3, <2>1, <2>2, IdleSound DEF Advances
<1>5. CASE GoesTo(w, "import") /\ UNCHANGED <<job, events>> /\ Calm
  <2>1. ImportShapes' /\ ClosedIsBad'
    BY <1>3, <1>5, ImportShapesStay DEF ImportInv, ImportShapes
  <2>2. PICK r : r = [run[w] EXCEPT !.at = "import"]
    OBVIOUS
  <2>3. r \in Runs /\ r.at = "import" /\ r.won = run[w].won
    BY <1>1, <2>2 DEF Runs
  <2>4. r \in SoundRuns
    BY <1>1, <2>3 DEF SoundRuns
  <2>5. run' = [run EXCEPT ![w] = r]
    BY <1>5, <2>2 DEF GoesTo
  <2> QED
    BY <1>3, <2>1, <2>4, <2>5 DEF Advances
<1>6. [e EXCEPT !.offset = @ + 1] \in Event /\ [e EXCEPT !.offset = 0, !.ingested = TRUE] \in Event
  <2>1. \A n \in Nat : [e EXCEPT !.offset = n] \in Event
    BY DEF Event
  <2>2. e.offset + 1 \in Nat
    BY DEF Event
  <2>3. [e EXCEPT !.offset = 0, !.ingested = TRUE] \in Event
    BY DEF Event
  <2> QED
    BY <2>1, <2>2, <2>3
<1>7. \/ Continues(w, [e EXCEPT !.offset = @ + 1])
      \/ Continues(w, [e EXCEPT !.offset = 0, !.ingested = TRUE])
      \/ GoesTo(w, "import") /\ UNCHANGED <<job, events>> /\ Calm
  BY <1>2 DEF Ingests
<1> QED
  BY <1>4, <1>5, <1>6, <1>7

LEMMA ImportStartsAdvances ==
  ASSUME ImportInv, NEW w \in Workers, ImportStarts(w)
  PROVE  Advances(w)
<1>1. run[w] \in SoundRuns /\ run[w] \in Runs /\ run[w].at = "import" /\ ~run[w].won
  BY DEF ImportStarts, ImportInv, SoundRuns
<1>2. PICK e \in Event : e = run[w].ev
  BY <1>1 DEF Runs
<1>3. PICK S \in SUBSET Rows : S = IF e.only = {} THEN Approved ELSE Approved \cap e.only
  BY DEF Approved
<1>4. PICK todo : todo = Batches(S, e.bisect)
  OBVIOUS
<1>5. e.bisect \in BOOLEAN
  BY DEF Event
<1>6. todo \in Seq(SoundFrames(FALSE))
  BY <1>4, <1>5, BatchesSound DEF ImportInv, ImportShapes
<1>7. todo \in Seq(Frame)
  BY <1>6, Widened DEF SoundFrames
<1>8. ImportShapes' /\ ClosedIsBad'
  BY ImportShapesStay, PausedIs DEF ImportStarts, ImportInv, ImportShapes
<1>9. CASE IsPaused
  <2>1. PICK r : r = [run[w] EXCEPT !.at = "end"]
    OBVIOUS
  <2>2. r \in Runs /\ r.at = "end"
    BY <1>1, <2>1 DEF Runs
  <2>3. run' = [run EXCEPT ![w] = r]
    BY <1>9, <2>1 DEF ImportStarts
  <2> QED
    BY <1>8, <2>2, <2>3 DEF Advances, SoundRuns, ImportStarts
<1>10. CASE ~IsPaused
  <2>1. PICK r : r = [run[w] EXCEPT !.at = "post", !.budget = Budget, !.todo = todo]
    OBVIOUS
  <2>2. Budget \in 0..Budget
    BY BulkAssumption
  <2>3. r \in Runs /\ r.at = "post" /\ r.won = run[w].won /\ r.todo = todo
    BY <1>1, <1>7, <2>1, <2>2 DEF Runs
  <2>4. r.won = FALSE
    BY <1>1, <2>3 DEF Runs
  <2>5. r \in SoundRuns
    BY <1>6, <2>3, <2>4 DEF SoundRuns
  <2>6. run' = [run EXCEPT ![w] = r]
    BY <1>2, <1>3, <1>4, <1>10, <2>1 DEF ImportStarts
  <2> QED
    BY <1>8, <2>5, <2>6 DEF Advances, ImportStarts
<1> QED
  BY <1>9, <1>10

(* A run that posts as its fields are now.                                   *)
LEMMA Now ==
  ASSUME ImportInv, NEW w \in Workers, run[w].at = "post"
  PROVE  /\ run[w] \in Runs /\ run[w].won => up
         /\ run[w].budget \in 0..Budget /\ run[w].left \in SUBSET Rows
         /\ run[w].dropped \in BOOLEAN
         /\ run \in [Workers -> Runs]
BY DEF ImportInv, SoundRuns, Runs

LEMMA Reframed ==
  ASSUME ImportInv, NEW w \in Workers, run[w].at = "post", NEW todo \in Seq(SoundFrames(run[w].won))
  PROVE  [run[w] EXCEPT !.todo = todo] \in SoundRuns
<1>1. todo \in Seq(Frame)
  BY Widened DEF SoundFrames
<1>2. PICK r : r = [run[w] EXCEPT !.todo = todo]
  OBVIOUS
<1>3. r \in Runs /\ r.at = "post" /\ r.todo = todo /\ r.won = run[w].won
  BY <1>1, <1>2, Now DEF Runs
<1> QED
  BY <1>2, <1>3, Now DEF SoundRuns

LEMMA SplitsKnownAdvances ==
  ASSUME ImportInv, NEW w \in Workers, SplitsKnown(w)
  PROVE  Advances(w)
<1>1. run[w].at = "post" /\ run[w].todo # << >>
  BY DEF SplitsKnown, TopIs
<1>2. PICK todo : todo = Pop(w, Split(Top(w), run[w].won))
  OBVIOUS
<1>3. todo \in Seq(SoundFrames(run[w].won))
  BY <1>1, <1>2, TopSound, SplitSound
<1>4. PICK r : r = [run[w] EXCEPT !.todo = todo]
  OBVIOUS
<1>5. r \in SoundRuns
  BY <1>1, <1>3, <1>4, Reframed
<1>6. run' = [run EXCEPT ![w] = r]
  BY <1>2, <1>4 DEF SplitsKnown
<1>7. ImportShapes' /\ ClosedIsBad'
  BY ImportShapesStay DEF SplitsKnown, ImportInv, ImportShapes
<1> QED
  BY <1>5, <1>6, <1>7 DEF Advances, SplitsKnown

LEMMA KnownRowFailsAdvances ==
  ASSUME ImportInv, NEW w \in Workers, KnownRowFails(w)
  PROVE  Advances(w)
<1>1. run[w].at = "post" /\ run[w].todo # << >> /\ Top(w).known
  BY DEF KnownRowFails, TopIs
<1>2. PICK r \in Top(w).rows : RowFails(w, r)
  BY DEF KnownRowFails
<1>3. Top(w).rows = {r}
  <2>1. Cardinality(Top(w).rows) = 1 /\ IsFiniteSet(Top(w).rows)
    BY <1>1, TopSound, FS_Subset, BulkAssumption DEF KnownRowFails
  <2>2. \E x : Top(w).rows = {x}
    BY <2>1, FS_Singleton
  <2> QED
    BY <1>2, <2>2
<1>4. r \in Rows
  BY <1>1, <1>2, TopSound
<1>5. run[w].won => r \in mode.bad \cup mode.sched
  <2>1. Spoilt(Top(w).rows)
    BY <1>1, TopSound DEF SoundFrames
  <2> QED
    BY <1>1, <1>3, <2>1, Now DEF Spoilt
<1>6. /\ row' \in [Rows -> RowStates] /\ UNCHANGED <<mode, up, noted, paused, issue, events, trouble>>
      /\ ClosedIsBad'
  <2>1. CASE row' = row
    BY <2>1 DEF KnownRowFails, Calm, ImportInv, ImportShapes, ClosedIsBad
  <2>2. CASE row' = [row EXCEPT ![r].status = "closed"] /\ run[w].won /\ r \notin mode.sched
    BY <1>4, <1>5, <2>2 DEF KnownRowFails, Calm, ImportInv, ImportShapes, ClosedIsBad, RowStates
  <2> QED
    BY <1>2, <2>1, <2>2 DEF RowFails, MayClose
<1>7. PICK todo : todo = IF run[w].won /\ r \in mode.sched THEN Pop(w, <<Then("plain", Top(w), {})>>)
                         ELSE Tail(run[w].todo)
  OBVIOUS
<1>8. todo \in Seq(SoundFrames(run[w].won))
  <2>1. CASE run[w].won /\ r \in mode.sched
    <3>1. Then("plain", Top(w), {}) \in SoundFrames(run[w].won)
      BY <1>1, <1>3, <1>4, <2>1, TopSound, ThenSound
    <3>2. <<Then("plain", Top(w), {})>> \in Seq(SoundFrames(run[w].won))
      BY <3>1, One
    <3> QED
      BY <1>1, <1>7, <2>1, <3>2, TopSound
  <2>2. CASE ~(run[w].won /\ r \in mode.sched)
    BY <1>1, <1>7, <2>2, TopSound
  <2> QED
    BY <2>1, <2>2
<1>9. PICK q : q = [run[w] EXCEPT !.todo = todo]
  OBVIOUS
<1>10. q \in SoundRuns
  BY <1>1, <1>8, <1>9, Reframed
<1>11. run' = [run EXCEPT ![w] = q]
  BY <1>2, <1>7, <1>9 DEF RowFails, MayClose
<1>12. ImportShapes'
  BY <1>6 DEF ImportInv, ImportShapes
<1> QED
  BY <1>6, <1>10, <1>11, <1>12 DEF Advances

LEMMA OutOfBudgetAdvances ==
  ASSUME ImportInv, NEW w \in Workers, OutOfBudget(w)
  PROVE  Advances(w)
<1>1. run[w].at = "post" /\ run[w].todo # << >>
  BY DEF OutOfBudget, TopIs
<1>2. PICK todo, left : todo = Tail(run[w].todo) /\ left = run[w].left \cup Top(w).rows
  OBVIOUS
<1>3. todo \in Seq(SoundFrames(run[w].won)) /\ left \in SUBSET Rows
  BY <1>1, <1>2, TopSound, Now
<1>4. PICK r : r = [run[w] EXCEPT !.todo = todo, !.left = left]
  OBVIOUS
<1>5. r \in SoundRuns
  <2>1. todo \in Seq(Frame)
    BY <1>3, Widened DEF SoundFrames
  <2>2. r \in Runs /\ r.at = "post" /\ r.todo = todo /\ r.won = run[w].won
    BY <1>1, <1>3, <1>4, <2>1, Now DEF Runs
  <2> QED
    BY <1>1, <1>3, <2>2, Now DEF SoundRuns
<1>6. run' = [run EXCEPT ![w] = r]
  BY <1>1, <1>2, <1>4, Now DEF OutOfBudget, Runs
<1>7. ImportShapes' /\ ClosedIsBad'
  BY ImportShapesStay DEF OutOfBudget, ImportInv, ImportShapes
<1> QED
  BY <1>5, <1>6, <1>7 DEF Advances, OutOfBudget

(* The frames that still are to work on, after a success too.                *)
LEMMA TailSound ==
  ASSUME ImportInv, NEW w \in Workers, run[w].at = "post", run[w].todo # << >>, NEW won \in BOOLEAN,
         run[w].won => won, NEW first \in Seq(SoundFrames(won))
  PROVE  Tail(run[w].todo) \in Seq(SoundFrames(won)) /\ Pop(w, first) \in Seq(SoundFrames(won))
<1>1. SoundFrames(run[w].won) \subseteq SoundFrames(won)
  BY TopSound, MoreFrames
<1>2. Tail(run[w].todo) \in Seq(SoundFrames(won))
  <2>1. Tail(run[w].todo) \in Seq(SoundFrames(run[w].won))
    BY TopSound
  <2>2. \A S, T, t : S \subseteq T /\ t \in Seq(S) => t \in Seq(T)
    BY Widened
  <2>3. \A t : t \in Seq(SoundFrames(run[w].won)) => t \in Seq(SoundFrames(won))
    BY <1>1, <2>2, Zenon
  <2> QED
    BY <2>1, <2>3
<1>3. Pop(w, first) \in Seq(SoundFrames(won))
  BY <1>2, Both DEF Pop
<1> QED
  BY <1>2, <1>3

LEMMA PostsGroupAdvances ==
  ASSUME ImportInv, NEW w \in Workers, PostsGroup(w)
  PROVE  Advances(w)
<1> DEFINE f == Top(w)
           B == Top(w).rows
<1>1. run[w].at = "post" /\ run[w].todo # << >> /\ run[w].budget > 0
  BY DEF PostsGroup, TopIs
<1>2. /\ f \in SoundFrames(run[w].won) /\ B \in SUBSET Rows /\ run[w].won \in BOOLEAN
      /\ f \in Frame
  BY <1>1, TopSound DEF SoundFrames
<1>3. PICK answer \in Answers(B, TRUE) :
       \/ /\ answer # "http500"
          /\ Answered(B, answer)
          /\ noted' = Uncounted(B, answer)
          /\ run' = [run EXCEPT ![w].budget = @ - 1, ![w].todo = Tail(run[w].todo),
                                ![w].won = run[w].won \/ answer = "ok"]
       \/ /\ answer = "http500"
          /\ Notes(B)
          /\ run' = [run EXCEPT ![w].budget = @ - 1, ![w].todo = Tail(run[w].todo),
                                ![w].won = run[w].won]
          /\ UNCHANGED row /\ Calm
       \/ /\ answer = "http500"
          /\ run' = [run EXCEPT ![w].budget = @ - 1,
                                ![w].todo = IF Cardinality(B) = 1 THEN Pop(w, <<[f EXCEPT !.known = TRUE]>>)
                                            ELSE Pop(w, Split(f, run[w].won)),
                                ![w].won = run[w].won]
          /\ UNCHANGED <<row, noted>> /\ Calm
  BY DEF PostsGroup
<1>4. /\ answer \in {"ok", "http500", "error"}
      /\ answer = "ok" => up
      /\ answer = "http500" => Spoilt(B)
      /\ answer = "error" => trouble < MaxTroubles
  BY <1>2, AnswersMean
<1>5. UNCHANGED <<mode, paused, issue, up, job, events>>
  BY DEF PostsGroup
<1>6. PICK todo, won :
        /\ won = (run[w].won \/ answer = "ok")
        /\ todo \in Seq(SoundFrames(won))
        /\ run' = [run EXCEPT ![w].budget = @ - 1, ![w].todo = todo, ![w].won = won]
  <2>1. PICK won : won = (run[w].won \/ answer = "ok")
    OBVIOUS
  <2>2. won \in BOOLEAN /\ (run[w].won => won)
    BY <2>1
  <2>3. Tail(run[w].todo) \in Seq(SoundFrames(won))
    <3>1. << >> \in Seq(SoundFrames(won))
      OBVIOUS
    <3> QED
      BY <1>1, <2>2, <3>1, TailSound
  <2>4. answer = "http500" => won = run[w].won
    BY <1>2, <2>1
  <2>5. CASE answer = "http500" /\
             run' = [run EXCEPT ![w].budget = @ - 1,
                                ![w].todo = IF Cardinality(B) = 1 THEN Pop(w, <<[f EXCEPT !.known = TRUE]>>)
                                            ELSE Pop(w, Split(f, run[w].won)),
                                ![w].won = run[w].won]
    <3>1. CASE Cardinality(B) = 1
      <4>1. PICK g : g = [f EXCEPT !.known = TRUE]
        OBVIOUS
      <4>2. /\ g \in Frame /\ g.known = TRUE /\ g.rows = f.rows /\ g.failed = f.failed
            /\ g.step = f.step
        BY <1>2, <4>1 DEF Frame
      <4>3. g \in SoundFrames(won)
        BY <1>2, <1>4, <2>4, <2>5, <4>2 DEF SoundFrames
      <4>4. Pop(w, <<g>>) \in Seq(SoundFrames(won))
        BY <1>1, <2>2, <4>3, One, TailSound
      <4> QED
        BY <2>1, <2>4, <2>5, <3>1, <4>1, <4>4
    <3>2. CASE Cardinality(B) # 1
      <4>1. Split(f, run[w].won) \in Seq(SoundFrames(won))
        BY <1>2, <2>4, <2>5, SplitSound
      <4>2. Pop(w, Split(f, run[w].won)) \in Seq(SoundFrames(won))
        BY <1>1, <2>2, <4>1, TailSound
      <4> QED
        BY <2>1, <2>4, <2>5, <3>2, <4>2
    <3> QED
      BY <3>1, <3>2
  <2>6. CASE answer # "http500" /\
             run' = [run EXCEPT ![w].budget = @ - 1, ![w].todo = Tail(run[w].todo),
                                ![w].won = run[w].won \/ answer = "ok"]
    BY <2>1, <2>3, <2>6
  <2>7. CASE answer = "http500" /\
             run' = [run EXCEPT ![w].budget = @ - 1, ![w].todo = Tail(run[w].todo), ![w].won = run[w].won]
    BY <2>1, <2>3, <2>4, <2>7
  <2> QED
    BY <1>3, <2>5, <2>6, <2>7
<1>7. PICK r : r = [run[w] EXCEPT !.budget = run[w].budget - 1, !.todo = todo, !.won = won]
  OBVIOUS
<1>8. r \in SoundRuns
  <2>1. todo \in Seq(Frame)
    BY <1>6, Widened DEF SoundFrames
  <2>2. won \in BOOLEAN /\ (won => up)
    BY <1>1, <1>4, <1>6, Now
  <2>3. PICK n : n = run[w].budget - 1
    OBVIOUS
  <2>4. n \in 0..Budget
    BY <1>1, <2>3, Now, BulkAssumption
  <2>5. r \in Runs /\ r.at = "post" /\ r.todo = todo /\ r.won = won
    BY <1>1, <1>7, <2>1, <2>2, <2>3, <2>4, Now DEF Runs
  <2> QED
    BY <1>6, <2>2, <2>5 DEF SoundRuns
<1>9. run' = [run EXCEPT ![w] = r]
  BY <1>1, <1>6, <1>7, Now DEF Runs
<1>10. /\ row' \in [Rows -> RowStates] /\ trouble' \in 0..MaxTroubles /\ ClosedIsBad'
       /\ noted' \subseteq SUBSET Rows
  <2>1. CASE Answered(B, answer) /\ noted' = Uncounted(B, answer)
    BY <1>2, <1>4, <1>5, <2>1, AnsweredRows DEF Uncounted, ImportInv, ImportShapes
  <2>2. CASE Notes(B) /\ UNCHANGED row /\ Calm
    BY <1>2, <1>5, <2>2 DEF Notes, Calm, ImportInv, ImportShapes, ClosedIsBad
  <2>3. CASE UNCHANGED <<row, noted>> /\ Calm
    BY <1>5, <2>3 DEF Calm, ImportInv, ImportShapes, ClosedIsBad
  <2> QED
    BY <1>3, <2>1, <2>2, <2>3
<1>11. ImportShapes'
  BY <1>5, <1>10 DEF ImportInv, ImportShapes
<1> QED
  BY <1>5, <1>8, <1>9, <1>10, <1>11 DEF Advances

LEMMA PostsPlainAdvances ==
  ASSUME ImportInv, NEW w \in Workers, PostsPlain(w)
  PROVE  Advances(w)
<1> DEFINE B == Top(w).rows
<1>1. run[w].at = "post" /\ run[w].todo # << >> /\ run[w].budget > 0 /\ Top(w).step = "plain"
  BY DEF PostsPlain, TopIs
<1>2. PICK r \in Rows : B = {r}
  BY <1>1, TopSound DEF SoundFrames
<1>3. up
  <2>1. run[w].won
    BY <1>1, TopSound DEF SoundFrames
  <2> QED
    BY <1>1, <2>1, Now
<1>4. PICK answer \in Answers(B, FALSE) :
       /\ \/ answer # "http500" /\ Answered(B, answer)
          \/ /\ answer = "http500" /\ Calm
             /\ row' = [q \in Rows |-> IF q \in B THEN [row[q] EXCEPT !.status = "closed"] ELSE row[q]]
       /\ noted' = Uncounted(B, answer)
       /\ run' = [run EXCEPT ![w].budget = @ - 1, ![w].todo = Tail(@),
                             ![w].dropped = @ \/ answer = "ok"]
  BY DEF PostsPlain
<1>5. /\ answer = "http500" => r \in mode.bad
      /\ answer = "error" => trouble < MaxTroubles
  BY <1>2, <1>3, AnswersMean
<1>6. UNCHANGED <<mode, paused, issue, up, job, events>>
  BY DEF PostsPlain
<1>7. row' \in [Rows -> RowStates] /\ trouble' \in 0..MaxTroubles /\ ClosedIsBad'
  <2>1. CASE Answered(B, answer)
    BY <1>2, <1>5, <1>6, <2>1, AnsweredRows
  <2>2. CASE answer = "http500" /\ Calm /\
             row' = [q \in Rows |-> IF q \in B THEN [row[q] EXCEPT !.status = "closed"] ELSE row[q]]
    <3>1. ASSUME NEW q \in Rows
          PROVE  /\ row'[q] \in RowStates
                 /\ row'[q].status = "closed" => q \in mode.bad \/ row'[q].rejects >= MaxRejects
      <4>1. CASE q = r
        <5>1. row'[q] = [row[q] EXCEPT !.status = "closed"]
          BY <1>2, <2>2, <4>1
        <5> QED
          BY <1>5, <2>2, <4>1, <5>1 DEF ImportInv, ImportShapes, RowStates
      <4>2. CASE q # r
        BY <1>2, <2>2, <4>2 DEF ImportInv, ImportShapes, ClosedIsBad
      <4> QED
        BY <4>1, <4>2
    <3> QED
      BY <1>6, <2>2, <3>1 DEF Calm, ImportInv, ImportShapes, ClosedIsBad
  <2> QED
    BY <1>4, <2>1, <2>2
<1>8. noted' \subseteq SUBSET Rows
  BY <1>4 DEF Uncounted, ImportInv, ImportShapes
<1>9. PICK todo, n, dropped : /\ todo = Tail(run[w].todo) /\ n = run[w].budget - 1
                              /\ dropped = (run[w].dropped \/ answer = "ok")
  OBVIOUS
<1>10. PICK q : q = [run[w] EXCEPT !.budget = n, !.todo = todo, !.dropped = dropped]
  OBVIOUS
<1>11. q \in SoundRuns
  <2>1. todo \in Seq(SoundFrames(run[w].won))
    BY <1>1, <1>9, TopSound
  <2>2. todo \in Seq(Frame)
    BY <2>1, Widened DEF SoundFrames
  <2>3. n \in 0..Budget /\ dropped \in BOOLEAN
    BY <1>1, <1>9, Now, BulkAssumption
  <2>4. q \in Runs /\ q.at = "post" /\ q.todo = todo /\ q.won = run[w].won
    BY <1>1, <1>10, <2>2, <2>3, Now DEF Runs
  <2> QED
    BY <1>3, <2>1, <2>4 DEF SoundRuns
<1>12. run' = [run EXCEPT ![w] = q]
  BY <1>1, <1>4, <1>9, <1>10, Now DEF Runs
<1>13. ImportShapes'
  BY <1>6, <1>7, <1>8 DEF ImportInv, ImportShapes
<1> QED
  BY <1>6, <1>7, <1>11, <1>12, <1>13 DEF Advances

LEMMA PostsHalfAdvances ==
  ASSUME ImportInv, NEW w \in Workers, PostsHalf(w)
  PROVE  Advances(w)
<1> DEFINE f == Top(w)
           Part == IF f.step = "left" THEN Lower(f.rows) ELSE f.rows \ Lower(f.rows)
           After(answer, won) ==
             LET failed == f.failed \cup (IF answer = "http500" THEN {Part} ELSE {})
                 half(H) == IF H \in failed THEN <<Group(H, TRUE, TRUE)>> ELSE << >>
             IN  IF f.step = "left" THEN <<Then("right", f, failed)>>
                 ELSE IF won THEN half(Lower(f.rows)) \o half(f.rows \ Lower(f.rows))
                 ELSE <<Then("probe", f, failed)>>
<1>1. run[w].at = "post" /\ run[w].todo # << >> /\ f.step \in {"left", "right"}
  BY DEF PostsHalf, TopIs
<1>2. /\ f \in SoundFrames(run[w].won) /\ f \in Frame /\ f.rows \in SUBSET Rows
      /\ f.failed \in SUBSET (SUBSET Rows) /\ \A H \in f.failed : Spoilt(H)
      /\ run[w].won \in BOOLEAN
  BY <1>1, TopSound DEF SoundFrames, Frame
<1>3. PICK B \in SUBSET Rows : B = Part
  BY <1>2 DEF Lower, Least
<1>4. PICK answer \in Posts(w, Part) :
        /\ Answered(Part, answer)
        /\ noted' = Uncounted(Part, answer)
        /\ LET won == run[w].won \/ answer = "ok" IN
           run' = [run EXCEPT ![w].todo = Pop(w, After(answer, won)), ![w].won = won,
                              ![w].budget = IF answer = "budget" THEN @ ELSE @ - 1,
                              ![w].left = IF answer = "budget" THEN @ \cup Part ELSE @]
  BY DEF PostsHalf
<1>5. /\ answer \in Posts(w, B) /\ Answered(B, answer) /\ noted' = Uncounted(B, answer)
  BY <1>3, <1>4
<1> HIDE DEF Part
<1>6. UNCHANGED <<mode, paused, issue, up, job, events>>
  BY DEF PostsHalf
<1>7. /\ answer \in {"ok", "http500", "error", "budget"}
      /\ answer = "ok" => up
      /\ answer = "http500" => Spoilt(B)
      /\ answer = "error" => trouble < MaxTroubles
      /\ answer # "budget" => run[w].budget > 0
  <2>1. CASE run[w].budget = 0
    BY <2>1 DEF Posts
  <2>2. CASE run[w].budget # 0
    <3>1. answer \in Answers(B, TRUE)
      BY <1>5, <2>2 DEF Posts
    <3>2. run[w].budget > 0
      BY <1>1, <2>2, Now, BulkAssumption
    <3> QED
      BY <3>1, <3>2, AnswersMean
  <2> QED
    BY <2>1, <2>2
<1>8. PICK won, failed : /\ won = (run[w].won \/ answer = "ok")
                         /\ failed = f.failed \cup (IF answer = "http500" THEN {B} ELSE {})
  OBVIOUS
<1>9. won \in BOOLEAN /\ (won => up) /\ (run[w].won => won)
  BY <1>1, <1>7, <1>8, Now
<1>10. failed \in SUBSET (SUBSET Rows) /\ \A H \in failed : Spoilt(H)
  BY <1>2, <1>7, <1>8
<1>11. f \in SoundFrames(won)
  BY <1>2, <1>9, MoreFrames
<1> DEFINE half(H) == IF H \in failed THEN <<Group(H, TRUE, TRUE)>> ELSE << >>
<1>12. ASSUME NEW H \in SUBSET Rows
       PROVE  half(H) \in Seq(SoundFrames(won))
  <2>1. CASE H \in failed
    <3>1. Group(H, TRUE, TRUE) \in SoundFrames(won)
      BY <1>9, <1>10, <2>1, GroupSound
    <3> QED
      BY <2>1, <3>1, One
  <2>2. CASE H \notin failed
    BY <2>2
  <2> QED
    BY <2>1, <2>2
<1>13. PICK first : first = After(answer, won)
  OBVIOUS
<1>14. first \in Seq(SoundFrames(won))
  <2>1. Then("right", f, failed) \in SoundFrames(won) /\ Then("probe", f, failed) \in SoundFrames(won)
    BY <1>9, <1>10, <1>11, ThenSound
  <2>2. <<Then("right", f, failed)>> \in Seq(SoundFrames(won))
    BY <2>1, One
  <2>3. <<Then("probe", f, failed)>> \in Seq(SoundFrames(won))
    BY <2>1, One
  <2>4. Lower(f.rows) \in SUBSET Rows /\ f.rows \ Lower(f.rows) \in SUBSET Rows
    BY <1>2 DEF Lower, Least
  <2>5. PICK a, b : a = half(Lower(f.rows)) /\ b = half(f.rows \ Lower(f.rows))
    OBVIOUS
  <2>6. a \in Seq(SoundFrames(won)) /\ b \in Seq(SoundFrames(won))
    BY <1>12, <2>4, <2>5
  <2>7. a \o b \in Seq(SoundFrames(won))
    BY <2>6, Both
  <2>8. first = IF f.step = "left" THEN <<Then("right", f, failed)>>
                ELSE IF won THEN a \o b ELSE <<Then("probe", f, failed)>>
    BY <1>3, <1>8, <1>13, <2>5
  <2> QED
    BY <2>2, <2>3, <2>7, <2>8
<1>15. PICK todo, n, left : /\ todo = Pop(w, first)
                            /\ n = IF answer = "budget" THEN run[w].budget ELSE run[w].budget - 1
                            /\ left = IF answer = "budget" THEN run[w].left \cup B ELSE run[w].left
  OBVIOUS
<1>16. PICK r : r = [run[w] EXCEPT !.todo = todo, !.won = won, !.budget = n, !.left = left]
  OBVIOUS
<1>17. r \in SoundRuns
  <2>1. todo \in Seq(SoundFrames(won))
    BY <1>1, <1>9, <1>14, <1>15, TailSound
  <2>2. todo \in Seq(Frame)
    BY <2>1, Widened DEF SoundFrames
  <2>3. left \in SUBSET Rows
    BY <1>1, <1>3, <1>15, Now
  <2>4. n \in 0..Budget
    <3>1. PICK m \in 0..Budget : m = run[w].budget
      BY <1>1, Now
    <3> QED
      BY <1>7, <1>15, <3>1, BulkAssumption
  <2>5. r \in Runs /\ r.at = "post" /\ r.todo = todo /\ r.won = won
    BY <1>1, <1>9, <1>16, <2>2, <2>3, <2>4, Now DEF Runs
  <2> QED
    BY <1>9, <2>1, <2>5 DEF SoundRuns
<1>18. run' = [run EXCEPT ![w] = r]
  <2> HIDE DEF After
  <2>1. run' = [run EXCEPT ![w].todo = todo, ![w].won = won, ![w].budget = n, ![w].left = left]
    BY <1>1, <1>3, <1>4, <1>8, <1>13, <1>15, Now DEF Runs
  <2> QED
    BY <1>1, <1>16, <2>1, Now DEF Runs
<1>19. row' \in [Rows -> RowStates] /\ trouble' \in 0..MaxTroubles /\ ClosedIsBad'
  BY <1>5, <1>6, <1>7, AnsweredRows
<1>20. noted' \subseteq SUBSET Rows
  BY <1>5 DEF Uncounted, ImportInv, ImportShapes
<1>21. ImportShapes'
  BY <1>6, <1>19, <1>20 DEF ImportInv, ImportShapes
<1> QED
  BY <1>6, <1>17, <1>18, <1>19, <1>21 DEF Advances

LEMMA ProbesAdvances ==
  ASSUME ImportInv, NEW w \in Workers, Probes(w)
  PROVE  Advances(w)
<1>1. run[w].at = "post" /\ run[w].todo # << >>
  BY DEF Probes, TopIs
<1>2. Top(w).failed \in SUBSET (SUBSET Rows)
  BY <1>1, TopSound DEF SoundFrames, Frame
<1>3. PICK todo, n : /\ todo = Tail(run[w].todo)
                     /\ n = IF ~mode.other /\ run[w].budget > 0 THEN run[w].budget - 1 ELSE run[w].budget
  OBVIOUS
<1>4. PICK r : r = [run[w] EXCEPT !.todo = todo, !.budget = n]
  OBVIOUS
<1>5. r \in SoundRuns
  <2>1. todo \in Seq(SoundFrames(run[w].won))
    BY <1>1, <1>3, TopSound
  <2>2. todo \in Seq(Frame)
    BY <2>1, Widened DEF SoundFrames
  <2>3. n \in 0..Budget
    BY <1>1, <1>3, Now, BulkAssumption
  <2>4. r \in Runs /\ r.at = "post" /\ r.todo = todo /\ r.won = run[w].won
    BY <1>1, <1>4, <2>2, <2>3, Now DEF Runs
  <2> QED
    BY <1>1, <2>1, <2>4, Now DEF SoundRuns
<1>6. run' = [run EXCEPT ![w] = r]
  <2>1. run' = [run EXCEPT ![w].todo = todo, ![w].budget = n]
    BY <1>1, <1>3, Now DEF Probes, Runs
  <2> QED
    BY <1>1, <1>4, <2>1, Now DEF Runs
<1>7. /\ noted' \subseteq SUBSET Rows /\ paused' \in BOOLEAN
      /\ issue' \in {"none", "pending", "rejected", "open", "closed"}
  BY <1>2 DEF Probes, ImportInv, ImportShapes
<1>8. ImportShapes' /\ ClosedIsBad'
  BY <1>7, ImportShapesStay DEF Probes, ImportInv, ImportShapes
<1> QED
  BY <1>5, <1>6, <1>8 DEF Advances, Probes

LEMMA ImportEndsAdvances ==
  ASSUME ImportInv, NEW w \in Workers, ImportEnds(w)
  PROVE  Advances(w)
<1>1. run[w].at = "post"
  BY DEF ImportEnds
<1>2. PICK e : e = [offset |-> 0, ingested |-> TRUE, only |-> run[w].left, bisect |-> TRUE]
  OBVIOUS
<1>3. e \in Event
  BY <1>1, <1>2, Now DEF Event
<1>4. events' \subseteq Event /\ (Calm \/ \E f : Trouble(f))
  BY <1>2, <1>3, Sent DEF ImportEnds, ImportInv, ImportShapes
<1>5. ImportShapes' /\ ClosedIsBad'
  BY <1>4, ImportShapesStay, PausedIs DEF ImportEnds, ImportInv, ImportShapes
<1>6. PICK pc \in {"end", "continued"} : run' = [run EXCEPT ![w].at = pc]
  BY DEF ImportEnds, GoesTo
<1>7. PICK r : r = [run[w] EXCEPT !.at = pc]
  OBVIOUS
<1>8. r \in Runs /\ r.at = pc
  BY <1>1, <1>7, Now DEF Runs
<1>9. run' = [run EXCEPT ![w] = r]
  BY <1>6, <1>7
<1>10. r \in SoundRuns
  BY <1>8 DEF SoundRuns
<1> QED
  BY <1>5, <1>9, <1>10 DEF Advances, ImportEnds

LEMMA PutsJobAdvances ==
  ASSUME ImportInv, NEW w \in Workers, PutsJob(w)
  PROVE  Advances(w)
<1>1. ImportShapes' /\ ClosedIsBad'
  BY ImportShapesStay DEF PutsJob, ImportInv, ImportShapes
<1> QED
  BY <1>1, IdleSound DEF PutsJob, Done, Advances

-----------------------------------------------------------------------------
(* The invariant.                                                            *)

LEMMA ImportInitHolds == ImportInit => ImportInv
<1> SUFFICES ASSUME ImportInit PROVE ImportInv
  OBVIOUS
<1>1. row \in [Rows -> RowStates] /\ ClosedIsBad
  BY DEF ImportInit, RowStates, ClosedIsBad
<1>2. MaxTroubles \in Nat
  BY BulkAssumption
<1>3. ImportShapes
  <2>1. trouble \in 0..MaxTroubles
    BY <1>2 DEF ImportInit
  <2>2. noted \subseteq SUBSET Rows /\ events \subseteq Event
    BY DEF ImportInit
  <2> QED
    BY <1>1, <2>1, <2>2 DEF ImportInit, ImportShapes
<1> QED
  BY <1>1, <1>3, IdleSound DEF ImportInit, ImportInv

(* While nobody posts, the importer goes down or comes up.                   *)
LEMMA ImporterKeeps ==
  ASSUME ImportInv, ImporterGoesDown \/ ImporterComesUp
  PROVE  ImportInv'
<1>1. Posting = {} /\ UNCHANGED <<mode, row, noted, paused, issue, job, events, run>> /\ up' \in BOOLEAN
  BY DEF ImporterGoesDown, ImporterComesUp
<1>2. trouble' \in 0..MaxTroubles
  BY BulkAssumption DEF ImporterGoesDown, ImporterComesUp, Calm, Trouble, ImportInv, ImportShapes
<1>3. ASSUME NEW w \in Workers
      PROVE  run[w] \in SoundRuns'
  <2>1. run[w] \in Runs /\ run[w].at # "post" /\ (run[w].at \in {"ingest", "import"} => ~run[w].won)
    BY <1>1 DEF Posting, ImportInv, SoundRuns
  <2> QED
    BY <2>1 DEF SoundRuns
<1>4. run' \in [Workers -> SoundRuns']
  BY <1>1, <1>3 DEF ImportInv
<1> QED
  BY <1>1, <1>2, <1>4 DEF ImportInv, ImportShapes, ClosedIsBad

LEMMA JobStepKeeps ==
  ASSUME ImportInv, NEW w \in Workers, JobStep(w) \/ Dies(w)
  PROVE  ImportInv'
<1>1. ASSUME Dies(w)
      PROVE  Advances(w)
  <2>1. ImportShapes' /\ ClosedIsBad'
    BY <1>1, ImportShapesStay DEF Dies, ImportInv, ImportShapes
  <2> QED
    BY <1>1, <2>1, IdleSound DEF Dies, Advances
<1>2. Advances(w)
  BY <1>1, IngestsAdvances, ImportStartsAdvances, SplitsKnownAdvances, KnownRowFailsAdvances,
     OutOfBudgetAdvances, PostsGroupAdvances, PostsPlainAdvances, PostsHalfAdvances, ProbesAdvances,
     ImportEndsAdvances, PutsJobAdvances DEF JobStep
<1> QED
  BY <1>2, AdvancesKeeps

LEMMA BeginsKeeps ==
  ASSUME ImportInv, NEW w \in Workers, NEW e \in events, JobBegins(w, e)
  PROVE  ImportInv'
<1>1. e \in Event /\ events' \subseteq Event /\ (Calm \/ \E f : Trouble(f))
  BY DEF JobBegins, ImportInv, ImportShapes
<1>2. ImportShapes' /\ ClosedIsBad'
  BY <1>1, ImportShapesStay DEF JobBegins, ImportInv, ImportShapes
<1>3. PICK pc \in {"import", "ingest"} : pc = IF e.ingested THEN "import" ELSE "ingest"
  OBVIOUS
<1>4. PICK r : r = [Idle EXCEPT !.at = pc, !.ev = e]
  OBVIOUS
<1>5. r \in Runs /\ r.at = pc /\ r.won = FALSE
  <2>1. Idle \in Runs /\ Idle.won = FALSE
    BY IdleSound DEF SoundRuns, Idle
  <2> QED
    BY <1>1, <1>4, <2>1 DEF Runs
<1>6. r \in SoundRuns
  BY <1>5 DEF SoundRuns
<1>7. run' = [run EXCEPT ![w] = r]
  BY <1>3, <1>4 DEF JobBegins
<1> QED
  BY <1>2, <1>6, <1>7, AdvancesKeeps DEF Advances, JobBegins

LEMMA ImportNextKeeps ==
  ASSUME ImportInv, [ImportNext]_importVars
  PROVE  ImportInv'
<1>1. ASSUME NEW r \in Rows, Approve(r)
      PROVE  ImportInv'
  <2>1. row' \in [Rows -> RowStates] /\ ClosedIsBad'
    BY <1>1 DEF Approve, ImportInv, ImportShapes, RowStates, ClosedIsBad
  <2>2. ImportShapes'
    BY <1>1, <2>1 DEF Approve, Calm, ImportInv, ImportShapes
  <2>3. SoundRuns' = SoundRuns
    BY <1>1 DEF Approve, SoundRuns, SoundFrames, Spoilt
  <2> QED
    BY <1>1, <2>1, <2>2, <2>3 DEF Approve, ImportInv
<1>2. CASE ImporterGoesDown \/ ImporterComesUp
  BY <1>2, ImporterKeeps
<1>3. CASE IssueMoves \/ JobAges \/ Queue \/ \E e \in events : LoseEvent(e)
  <2>1. UNCHANGED <<mode, row, up, run>> /\ noted' = noted
    BY <1>3 DEF IssueMoves, JobAges, Queue, LoseEvent
  <2>2. [offset |-> 0, ingested |-> FALSE, only |-> {}, bisect |-> FALSE] \in Event
    BY DEF Event
  <2>3. events' \subseteq Event /\ (Calm \/ \E f : Trouble(f))
    BY <1>3, <2>2, Sent DEF IssueMoves, JobAges, Queue, LoseEvent, ImportInv, ImportShapes
  <2>4. paused' \in BOOLEAN /\ issue' \in {"none", "pending", "rejected", "open", "closed"}
    BY <1>3, PausedIs DEF IssueMoves, JobAges, Queue, LoseEvent, ImportInv, ImportShapes
  <2>5. ImportShapes' /\ ClosedIsBad'
    BY <2>1, <2>3, <2>4, ImportShapesStay DEF ImportInv, ImportShapes
  <2>6. SoundRuns' = SoundRuns
    BY <2>1 DEF SoundRuns, SoundFrames, Spoilt
  <2> QED
    BY <2>1, <2>5, <2>6 DEF ImportInv
<1>4. CASE \E w \in Workers : JobStep(w) \/ Dies(w)
  BY <1>4, JobStepKeeps
<1>5. CASE \E e \in events : \E w \in Workers : JobBegins(w, e)
  BY <1>5, BeginsKeeps
<1>6. CASE UNCHANGED importVars
  <2>1. SoundRuns' = SoundRuns
    BY <1>6 DEF importVars, SoundRuns, SoundFrames, Spoilt
  <2> QED
    BY <1>6, <2>1 DEF importVars, ImportInv, ImportShapes, ClosedIsBad
<1> QED
  BY <1>1, <1>2, <1>3, <1>4, <1>5, <1>6 DEF ImportNext

(* Whatever dies, is lost, refused or delivered twice or late: rows, notes,  *)
(* events and runs of the import keep their shape, and a run never calls the *)
(* importer more often than its budget.                                      *)
THEOREM ImportTyped == ImportSpec => []ImportTypeOK
<1>1. ImportInv => ImportTypeOK
  BY DEF ImportInv, ImportShapes, SoundRuns, Runs, RowStates, ImportTypeOK
<1> QED
  BY <1>1, ImportInitHolds, ImportNextKeeps, PTL DEF ImportSpec

(* For any rows, batch size, budget and number of overlapping invocations: a *)
(* row is closed only for what is wrong with it, and a 500 that another row  *)
(* or the importer being down caused closes no good row.                     *)
THEOREM ClosedIsBadAlways == ImportSpec => []ClosedIsBad
<1>1. ImportInv => ClosedIsBad
  BY DEF ImportInv
<1> QED
  BY <1>1, ImportInitHolds, ImportNextKeeps, PTL DEF ImportSpec
=============================================================================

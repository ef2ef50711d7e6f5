-------------------------- MODULE CodeRunnerProofs --------------------------
(***************************************************************************)
(* The engineering runner: what is merged was accepted, and no engineer    *)
(* fixes a head the architect has under review, for any number of tasks,   *)
(* branches, workflow runs and rounds, and any environment.                *)
(***************************************************************************)
EXTENDS CodeRunner, TLAPS

-----------------------------------------------------------------------------
(* The inductive invariant.                                                *)

(* The rows and tasks, with their counters unbounded.                        *)
AnyRun == [there : BOOLEAN, at : Nat, by : Tasks \cup {None}, rounds : Nat,
           ended : {"no", "ok", "failed"}, pr : BOOLEAN, gone : BOOLEAN, head : Nat, ci : CI,
           seen : BOOLEAN, reviews : Nat, fixes : Nat]

AnyPr == [state : {"none", "open", "closed", "merged"}, head : Nat, ci : CI]

Pcs == {"idle", "checked", "sent", "read", "stamp", "follow", "guarded"}

AnyTask == [kind : Kinds, status : {"none", "open", "delivered", "failed"}, pc : Pcs,
            branch : Tasks \cup {None}, head : Nat, verdict : {"none", "accept", "changes"},
            sent : BOOLEAN, prior : AnyRun]

Shapes ==
  /\ pr \in [Tasks -> AnyPr]
  /\ jobs \in [Tasks -> Seq({"running"} \cup JobEnd)]
  /\ run \in [Tasks -> AnyRun]
  /\ task \in [Tasks -> AnyTask]
  /\ \A t \in Tasks : task[t].kind # "implement" => task[t].branch \in Tasks
  /\ poll \in [pc : {"idle", "read", "decide"}, branch : Tasks \cup {None}, state : AnyRun]
  /\ poll.pc # "idle" => poll.branch \in Tasks

(* Only a review is read, stamped and followed up, the latter two delivered. *)
ReviewPcs ==
  \A t \in Tasks :
    /\ task[t].pc \in {"read", "stamp", "follow"} => task[t].kind \in Reviews
    /\ task[t].pc \in {"stamp", "follow"} => task[t].status = "delivered"

Accepted(b) ==
  \E t \in Tasks : /\ task[t].kind = "review" /\ task[t].branch = b
                   /\ task[t].status = "delivered" /\ task[t].verdict = "accept"

(* What a merge has got to: merged, dispatched, or through the guard.        *)
MergesAccepted ==
  /\ \A b \in Tasks : pr[b].state = "merged" => Accepted(b)
  /\ \A b \in merges : Accepted(b)
  /\ \A t \in Tasks : task[t].pc = "guarded" => Accepted(task[t].branch)

IInv == Shapes /\ ReviewPcs /\ FixOrReview /\ MergesAccepted

-----------------------------------------------------------------------------
(* What a step leaves of a task: its kind and branch, a delivery and its     *)
(* verdict, and, but for the stamp of a review, the head it is about.        *)
Steady(t) ==
  /\ task'[t].kind = task[t].kind /\ task'[t].branch = task[t].branch
  /\ task'[t].status = "open" => task[t].status = "open"
  /\ task[t].status = "delivered" => /\ task'[t].status = "delivered"
                                     /\ task'[t].verdict = task[t].verdict
  /\ task[t].pc # "stamp" => task'[t].head = task[t].head

LEMMA RecordsAreTyped ==
  /\ NoRun \in AnyRun /\ NoPr \in AnyPr /\ NoTask \in AnyTask
  /\ NotPolling \in [pc : {"idle", "read", "decide"}, branch : Tasks \cup {None}, state : AnyRun]
<1>1. NoRun \in AnyRun
  BY DEF NoRun, AnyRun, CI, None
<1>2. NoPr \in AnyPr
  BY DEF NoPr, AnyPr, CI
<1>3. NoTask \in AnyTask
  BY <1>1 DEF NoTask, AnyTask, Kinds, Pcs
<1> QED
  BY <1>1, <1>2, <1>3 DEF NotPolling

LEMMA OpenedIsTask ==
  ASSUME NEW t, NEW kind \in Kinds, NEW b \in Tasks \cup {None}, NEW head \in Nat
  PROVE  /\ Opened(t, kind, b, head) \in AnyTask
         /\ Opened(t, kind, b, head).kind = kind
         /\ Opened(t, kind, b, head).status = "open"
         /\ Opened(t, kind, b, head).pc = "idle"
         /\ Opened(t, kind, b, head).branch = b
         /\ Opened(t, kind, b, head).head = head
BY RecordsAreTyped DEF Opened, NoTask, AnyTask, Pcs

LEMMA CountedIsRun ==
  ASSUME NEW row \in AnyRun
  PROVE  /\ row.rounds \in Nat /\ row.reviews \in Nat /\ row.fixes \in Nat
         /\ [row EXCEPT !.reviews = row.reviews + 1] \in AnyRun
         /\ [row EXCEPT !.reviews = 0] \in AnyRun
         /\ [row EXCEPT !.seen = TRUE] \in AnyRun
<1>1. row.rounds \in Nat /\ row.reviews \in Nat /\ row.fixes \in Nat
  BY DEF AnyRun
<1>2. \A n \in Nat : [row EXCEPT !.reviews = n] \in AnyRun
  BY DEF AnyRun
<1>3. row.reviews + 1 \in Nat
  BY <1>1
<1>4. [row EXCEPT !.seen = TRUE] \in AnyRun
  BY DEF AnyRun
<1> QED
  BY <1>1, <1>2, <1>3, <1>4

LEMMA PutIsRun ==
  ASSUME NEW row \in AnyRun, NEW at \in Nat, NEW t \in Tasks, NEW rounds \in Nat, NEW fixes \in Nat
  PROVE  [row EXCEPT !.there = TRUE, !.at = at, !.by = t, !.rounds = rounds,
                     !.ended = "no", !.fixes = fixes] \in AnyRun
BY DEF AnyRun

(* A delivered accept stays one.                                             *)
LEMMA AcceptedStays ==
  ASSUME NEW b, Accepted(b),
         \A t \in Tasks : task[t].status = "delivered" => Steady(t)
  PROVE  Accepted(b)'
<1>1. PICK t \in Tasks : /\ task[t].kind = "review" /\ task[t].branch = b
                         /\ task[t].status = "delivered" /\ task[t].verdict = "accept"
  BY DEF Accepted
<1> QED
  BY <1>1 DEF Accepted, Steady

(* A step that opens no task.                                                *)
LEMMA EditKeeps ==
  ASSUME IInv, \A t \in Tasks : Steady(t), ReviewPcs'
  PROVE  FixOrReview'
<1> SUFFICES ASSUME NEW t \in Tasks, NEW u \in Tasks,
                    task'[t].kind = "ciFix", task'[u].kind = "ciFailReview",
                    task'[u].status = "open", task'[t].branch = task'[u].branch
             PROVE  task'[t].head # task'[u].head
  BY DEF FixOrReview
<1>1. /\ task[t].kind = "ciFix" /\ task[u].kind = "ciFailReview"
      /\ task[u].status = "open" /\ task[t].branch = task[u].branch
  BY DEF Steady
<1>2. task[t].pc # "stamp" /\ task[u].pc # "stamp"
  BY <1>1 DEF IInv, ReviewPcs, Reviews
<1> QED
  BY <1>1, <1>2 DEF IInv, FixOrReview, Steady

(* A step that opens one.                                                    *)
LEMMA OpenKeeps ==
  ASSUME IInv, NEW n \in Tasks, \A t \in Tasks \ {n} : Steady(t),
         task'[n].kind = "ciFix" => ~CiFailCovers(task'[n].branch, task'[n].head),
         task'[n].kind = "ciFailReview" => ~FixFound(task'[n].branch, task'[n].head)
  PROVE  FixOrReview'
<1> SUFFICES ASSUME NEW t \in Tasks, NEW u \in Tasks,
                    task'[t].kind = "ciFix", task'[u].kind = "ciFailReview",
                    task'[u].status = "open", task'[t].branch = task'[u].branch
             PROVE  task'[t].head # task'[u].head
  BY DEF FixOrReview
<1>1. t # u
  OBVIOUS
<1>2. \A v \in Tasks \ {n} : v \in {t, u} => task'[v].head = task[v].head
  BY DEF Steady, IInv, ReviewPcs, Reviews
<1>3. CASE t = n
  BY <1>1, <1>2, <1>3 DEF Steady, CiFailCovers
<1>4. CASE u = n
  BY <1>1, <1>2, <1>4 DEF Steady, FixFound
<1>5. CASE n \notin {t, u}
  <2>1. /\ task[t].kind = "ciFix" /\ task[u].kind = "ciFailReview"
        /\ task[u].status = "open" /\ task[t].branch = task[u].branch
    BY <1>5 DEF Steady
  <2> QED
    BY <1>2, <1>5, <2>1 DEF IInv, FixOrReview
<1> QED
  BY <1>3, <1>4, <1>5

(* A step that merges nothing and lets no merge through.                     *)
LEMMA MergesKeep ==
  ASSUME IInv, \A t \in Tasks : task[t].status = "delivered" => Steady(t),
         \A b \in Tasks : pr'[b].state = "merged" => pr[b].state = "merged",
         merges' \subseteq merges,
         \A t \in Tasks : task'[t].pc = "guarded" =>
                            task[t].pc = "guarded" /\ task'[t].branch = task[t].branch
  PROVE  MergesAccepted'
BY AcceptedStays DEF IInv, MergesAccepted

LEMMA TaskKept ==
  ASSUME IInv, Shapes', UNCHANGED task, merges' \subseteq merges,
         \A b \in Tasks : pr'[b].state = "merged" => pr[b].state = "merged"
  PROVE  IInv'
<1>1. ReviewPcs' /\ \A t \in Tasks : Steady(t)
  BY DEF IInv, ReviewPcs, Steady
<1>2. MergesAccepted'
  BY <1>1, MergesKeep
<1> QED
  BY <1>1, <1>2, EditKeeps DEF IInv

LEMMA TaskEdited ==
  ASSUME IInv, NEW t \in Tasks, NEW new \in AnyTask, task' = [task EXCEPT ![t] = new],
         new.kind = task[t].kind, new.branch = task[t].branch,
         new.status = "open" => task[t].status = "open",
         task[t].status = "delivered" => new.status = "delivered" /\ new.verdict = task[t].verdict,
         task[t].pc # "stamp" => new.head = task[t].head,
         new.pc \in {"read", "stamp", "follow"} => new.kind \in Reviews,
         new.pc \in {"stamp", "follow"} => new.status = "delivered",
         new.pc # "guarded",
         UNCHANGED <<pr, poll>>, merges' \subseteq merges, run' \in [Tasks -> AnyRun],
         jobs' \in [Tasks -> Seq({"running"} \cup JobEnd)]
  PROVE  IInv'
<1>1. \A v \in Tasks : task'[v] = IF v = t THEN new ELSE task[v]
  BY DEF IInv, Shapes
<1>2. task' \in [Tasks -> AnyTask]
  BY DEF IInv, Shapes
<1>3. Shapes'
  BY <1>1, <1>2 DEF IInv, Shapes
<1>4. \A v \in Tasks : Steady(v)
  BY <1>1 DEF Steady
<1>5. ReviewPcs'
  BY <1>1 DEF IInv, ReviewPcs
<1>6. MergesAccepted'
  BY <1>1, <1>4, MergesKeep
<1> QED
  BY <1>3, <1>4, <1>5, <1>6, EditKeeps DEF IInv

(* A task is opened for the first time, and perhaps the one whose verdict    *)
(* asks for it put down.                                                     *)
LEMMA TaskOpened ==
  ASSUME IInv, NEW n \in Tasks, task[n].status = "none",
         NEW kind \in Kinds, NEW b \in Tasks \cup {None}, NEW head \in Nat,
         task' \in [Tasks -> AnyTask], task'[n] = Opened(n, kind, b, head),
         \A t \in Tasks \ {n} :
           \/ task'[t] = task[t]
           \/ task'[t] = [task[t] EXCEPT !.pc = "idle", !.prior = NoRun],
         kind # "implement" => b \in Tasks,
         kind = "ciFix" => ~CiFailCovers(b, head),
         kind = "ciFailReview" => ~FixFound(b, head),
         UNCHANGED <<pr, jobs, merges>>, run' \in [Tasks -> AnyRun],
         poll' \in [pc : {"idle", "read", "decide"}, branch : Tasks \cup {None}, state : AnyRun],
         poll'.pc # "idle" => poll'.branch \in Tasks
  PROVE  IInv'
<1>1. /\ task'[n].kind = kind /\ task'[n].status = "open" /\ task'[n].pc = "idle"
      /\ task'[n].branch = b /\ task'[n].head = head
  <2> DEFINE opened == Opened(n, kind, b, head)
  <2>1. /\ opened.kind = kind /\ opened.status = "open" /\ opened.pc = "idle"
        /\ opened.branch = b /\ opened.head = head
    BY DEF Opened, NoTask
  <2>2. task'[n] = opened
    OBVIOUS
  <2> HIDE DEF opened
  <2> QED
    BY <2>1, <2>2
<1>2. \A t \in Tasks \ {n} :
        /\ Steady(t)
        /\ task'[t].status = task[t].status /\ task'[t].kind = task[t].kind
        /\ task'[t].pc \in {"idle", task[t].pc}
  <2> TAKE t \in Tasks \ {n}
  <2>1. task[t] \in AnyTask
    BY DEF IInv, Shapes
  <2>2. CASE task'[t] = task[t]
    BY <2>2 DEF Steady
  <2>3. CASE task'[t] = [task[t] EXCEPT !.pc = "idle", !.prior = NoRun]
    BY <2>1, <2>3 DEF Steady, AnyTask
  <2> QED
    BY <2>2, <2>3
<1>3. ReviewPcs'
  BY <1>1, <1>2 DEF IInv, ReviewPcs
<1>4. FixOrReview'
  BY <1>1, <1>2, OpenKeeps
<1>5. MergesAccepted'
  <2>1. \A t \in Tasks : task[t].status = "delivered" => Steady(t)
    BY <1>2
  <2>2. \A t \in Tasks : task'[t].pc = "guarded" =>
                           task[t].pc = "guarded" /\ task'[t].branch = task[t].branch
    BY <1>1, <1>2 DEF Steady
  <2> QED
    BY <2>1, <2>2, MergesKeep
<1>6. Shapes'
  <2>1. \A t \in Tasks : task'[t].kind # "implement" => task'[t].branch \in Tasks
    BY <1>1, <1>2 DEF IInv, Shapes, Steady
  <2> QED
    BY <2>1 DEF IInv, Shapes
<1> QED
  BY <1>3, <1>4, <1>5, <1>6 DEF IInv

-----------------------------------------------------------------------------
(* The engineers.                                                          *)

LEMMA EngineerKeeps ==
  ASSUME IInv, NEW t \in Tasks,
         EngineerStep(t) \/ RunTaskRefused(t) \/ EngineerEnds(t) \/ EngineerOrReviewDies(t)
  PROVE  IInv'
<1>t. /\ task \in [Tasks -> AnyTask] /\ task[t] \in AnyTask
      /\ run \in [Tasks -> AnyRun] /\ task[t].prior \in AnyRun
      /\ jobs \in [Tasks -> Seq({"running"} \cup JobEnd)]
  BY DEF IInv, Shapes, AnyTask
<1>1. CASE RunTaskChecks(t)
  <2> DEFINE new == [task[t] EXCEPT !.pc = "checked", !.prior = run[Branch(t)]]
  <2>1. run[Branch(t)] \in AnyRun
    <3>1. Branch(t) \in Tasks
      BY DEF Branch, IInv, Shapes
    <3> QED
      BY <3>1, <1>t
  <2>2. task' = [task EXCEPT ![t] = new]
    BY <1>1, <1>t DEF RunTaskChecks
  <2>3. UNCHANGED <<pr, jobs, merges, run, poll>>
    BY <1>1 DEF RunTaskChecks
  <2>e. /\ new \in AnyTask /\ new.kind = task[t].kind /\ new.branch = task[t].branch
        /\ new.status = task[t].status /\ new.verdict = task[t].verdict
        /\ new.head = task[t].head /\ new.pc = "checked"
    BY <2>1, <1>t, RecordsAreTyped DEF AnyTask, Pcs
  <2> HIDE DEF new
  <2> QED
    BY <2>2, <2>3, <2>e, <1>t, TaskEdited
<1>2. CASE RunTaskDispatches(t)
  <2>1. jobs' = [jobs EXCEPT ![Branch(t)] = Append(@, "running")]
    BY <1>2 DEF RunTaskDispatches
  <2>2. jobs' \in [Tasks -> Seq({"running"} \cup JobEnd)]
    <3>1. \A js \in Seq({"running"} \cup JobEnd) :
            Append(js, "running") \in Seq({"running"} \cup JobEnd)
      OBVIOUS
    <3>2. Branch(t) \in Tasks
      BY DEF Branch, IInv, Shapes
    <3> QED
      BY <2>1, <3>1, <3>2, <1>t
  <2> DEFINE new == [task[t] EXCEPT !.pc = "sent"]
  <2>3. task' = [task EXCEPT ![t] = new] /\ UNCHANGED <<pr, merges, run, poll>>
    BY <1>2, <1>t DEF RunTaskDispatches, Goes
  <2>e. /\ new \in AnyTask /\ new.kind = task[t].kind /\ new.branch = task[t].branch
        /\ new.status = task[t].status /\ new.verdict = task[t].verdict
        /\ new.head = task[t].head /\ new.pc = "sent"
    BY <1>t, RecordsAreTyped DEF AnyTask, Pcs
  <2> HIDE DEF new
  <2> QED
    BY <2>2, <2>3, <2>e, <1>t, TaskEdited
<1>3. CASE RunTaskPuts(t)
  <2> DEFINE new == [task[t] EXCEPT !.pc = "idle", !.prior = NoRun, !.sent = TRUE]
             row == task[t].prior
             put == [row EXCEPT !.there = TRUE, !.at = Len(jobs[Branch(t)]), !.by = t,
                                !.rounds = RoundsOf(t, row) + 1, !.ended = "no",
                                !.fixes = IF task[t].kind = "ciFix" THEN @ + 1 ELSE @]
  <2>1. /\ task' = [task EXCEPT ![t] = new] /\ run' = [run EXCEPT ![Branch(t)] = put]
        /\ UNCHANGED <<pr, jobs, merges, poll>>
    BY <1>3, <1>t DEF RunTaskPuts
  <2>2. Len(jobs[Branch(t)]) \in Nat /\ RoundsOf(t, row) + 1 \in Nat
    <3>1. Branch(t) \in Tasks
      BY DEF Branch, IInv, Shapes
    <3>2. RoundsOf(t, row) \in Nat
      BY <1>t DEF RoundsOf, AnyRun
    <3> QED
      BY <3>1, <3>2, <1>t
  <2>3. put \in AnyRun
    <3> DEFINE fixes == IF task[t].kind = "ciFix" THEN row.fixes + 1 ELSE row.fixes
    <3>1. fixes \in Nat
      <4>1. row.fixes \in Nat
        BY <1>t, CountedIsRun
      <4> QED
        BY <4>1
    <3>2. [row EXCEPT !.there = TRUE, !.at = Len(jobs[Branch(t)]), !.by = t,
                      !.rounds = RoundsOf(t, row) + 1, !.ended = "no",
                      !.fixes = fixes] \in AnyRun
      <4> HIDE DEF fixes
      <4> QED
        BY <3>1, <2>2, <1>t, PutIsRun
    <3> QED
      BY <3>2
  <2> HIDE DEF put
  <2>4. run' \in [Tasks -> AnyRun]
    BY <2>1, <2>3, <1>t
  <2>e. /\ new \in AnyTask /\ new.kind = task[t].kind /\ new.branch = task[t].branch
        /\ new.status = task[t].status /\ new.verdict = task[t].verdict
        /\ new.head = task[t].head /\ new.pc = "idle"
    BY <1>t, RecordsAreTyped DEF AnyTask, Pcs
  <2> HIDE DEF new
  <2> QED
    BY <2>1, <2>4, <2>e, <1>t, TaskEdited
<1>4. CASE RunTaskRefused(t)
  <2> DEFINE new == [task[t] EXCEPT !.pc = "idle"]
  <2>1. task' = [task EXCEPT ![t] = new] /\ UNCHANGED <<pr, jobs, merges, run, poll>>
    BY <1>4, <1>t DEF RunTaskRefused, Goes
  <2>e. /\ new \in AnyTask /\ new.kind = task[t].kind /\ new.branch = task[t].branch
        /\ new.status = task[t].status /\ new.verdict = task[t].verdict
        /\ new.head = task[t].head /\ new.pc = "idle"
    BY <1>t, RecordsAreTyped DEF AnyTask, Pcs
  <2> HIDE DEF new
  <2> QED
    BY <2>1, <2>e, <1>t, TaskEdited
<1>5. CASE EngineerEnds(t)
  <2> DEFINE end == IF task[t].sent THEN "delivered" ELSE "failed"
             new == [task[t] EXCEPT !.status = end]
  <2>1. task' = [task EXCEPT ![t] = new] /\ UNCHANGED <<pr, jobs, merges, run, poll>>
    BY <1>5, <1>t DEF EngineerEnds
  <2>2. task[t].status = "open" /\ task[t].pc = "idle" /\ end \in {"delivered", "failed"}
    BY <1>5 DEF EngineerEnds, At, Open
  <2> HIDE DEF end
  <2>e. /\ new \in AnyTask /\ new.kind = task[t].kind /\ new.branch = task[t].branch
        /\ new.status = end /\ new.verdict = task[t].verdict
        /\ new.head = task[t].head /\ new.pc = "idle"
    BY <2>2, <1>t, RecordsAreTyped DEF AnyTask, Pcs
  <2> HIDE DEF new
  <2> QED
    BY <2>1, <2>2, <2>e, <1>t, TaskEdited
<1>6. CASE EngineerOrReviewDies(t)
  <2> DEFINE new == [task[t] EXCEPT !.pc = "idle", !.prior = NoRun]
  <2>1. task' = [task EXCEPT ![t] = new] /\ UNCHANGED <<pr, jobs, merges, run, poll>>
    BY <1>6, <1>t DEF EngineerOrReviewDies
  <2>e. /\ new \in AnyTask /\ new.kind = task[t].kind /\ new.branch = task[t].branch
        /\ new.status = task[t].status /\ new.verdict = task[t].verdict
        /\ new.head = task[t].head /\ new.pc = "idle"
    BY <1>t, RecordsAreTyped DEF AnyTask, Pcs
  <2> HIDE DEF new
  <2> QED
    BY <2>1, <2>e, <1>t, TaskEdited
<1> QED
  BY <1>1, <1>2, <1>3, <1>4, <1>5, <1>6 DEF EngineerStep

-----------------------------------------------------------------------------
(* The architect's review and what follows it, and the merge.              *)

LEMMA ReviewKeeps ==
  ASSUME IInv, NEW t \in Tasks, ReviewStep(t) \/ FollowNothing(t)
  PROVE  IInv'
<1>t. /\ task \in [Tasks -> AnyTask] /\ task[t] \in AnyTask
      /\ run \in [Tasks -> AnyRun] /\ task[t].prior \in AnyRun
      /\ jobs \in [Tasks -> Seq({"running"} \cup JobEnd)]
      /\ poll \in [pc : {"idle", "read", "decide"}, branch : Tasks \cup {None}, state : AnyRun]
      /\ poll.pc # "idle" => poll.branch \in Tasks
  BY DEF IInv, Shapes, AnyTask
<1>r. /\ task[t].pc \in {"read", "stamp", "follow"} =>
           task[t].kind \in Reviews /\ task[t].branch \in Tasks
      /\ task[t].pc \in {"stamp", "follow"} => task[t].status = "delivered"
  BY DEF IInv, Shapes, ReviewPcs, Reviews
<1>1. CASE ReviewReads(t)
  <2> DEFINE new == [task[t] EXCEPT !.pc = "read"]
  <2>1. /\ task' = [task EXCEPT ![t] = new] /\ UNCHANGED <<pr, jobs, merges, run, poll>>
        /\ task[t].kind \in Reviews
    BY <1>1, <1>t DEF ReviewReads
  <2>e. /\ new \in AnyTask /\ new.kind = task[t].kind /\ new.branch = task[t].branch
        /\ new.status = task[t].status /\ new.verdict = task[t].verdict
        /\ new.head = task[t].head /\ new.pc = "read"
    BY <1>t, RecordsAreTyped DEF AnyTask, Pcs
  <2> HIDE DEF new
  <2> QED
    BY <2>1, <2>e, <1>t, TaskEdited
<1>2. ASSUME NEW verdict \in {"accept", "changes"}, ReviewDelivered(t, verdict)
      PROVE  IInv'
  <2> DEFINE new == [task[t] EXCEPT !.status = "delivered", !.pc = "stamp", !.verdict = verdict,
                                    !.prior = run[task[t].branch]]
  <2>1. /\ task' = [task EXCEPT ![t] = new] /\ UNCHANGED <<pr, jobs, merges, run, poll>>
        /\ task[t].pc = "read" /\ task[t].status = "open"
    BY <1>2, <1>t DEF ReviewDelivered, At, Open
  <2>2. run[task[t].branch] \in AnyRun /\ task[t].kind \in Reviews
    BY <2>1, <1>t, <1>r
  <2>e. /\ new \in AnyTask /\ new.kind = task[t].kind /\ new.branch = task[t].branch
        /\ new.status = "delivered" /\ new.verdict = verdict
        /\ new.head = task[t].head /\ new.pc = "stamp"
    BY <2>2, <1>t, RecordsAreTyped DEF AnyTask, Pcs
  <2> HIDE DEF new
  <2> QED
    BY <2>1, <2>2, <2>e, <1>t, TaskEdited
<1>3. CASE ReviewStamps(t)
  <2> DEFINE new == [task[t] EXCEPT !.pc = "follow", !.head = pr[task[t].branch].head]
  <2>1. /\ task' = [task EXCEPT ![t] = new] /\ UNCHANGED <<pr, jobs, merges, run, poll>>
        /\ task[t].pc = "stamp"
    BY <1>3, <1>t DEF ReviewStamps
  <2>2. pr[task[t].branch].head \in Nat
    BY <2>1, <1>r DEF IInv, Shapes, AnyPr
  <2>e. /\ new \in AnyTask /\ new.kind = task[t].kind /\ new.branch = task[t].branch
        /\ new.status = task[t].status /\ new.verdict = task[t].verdict
        /\ new.head = pr[task[t].branch].head /\ new.pc = "follow"
    BY <2>2, <1>t, RecordsAreTyped DEF AnyTask, Pcs
  <2> HIDE DEF new
  <2> QED
    BY <2>1, <1>r, <2>e, <1>t, TaskEdited
<1>4. CASE FollowNothing(t)
  <2> DEFINE new == [task[t] EXCEPT !.pc = "idle", !.prior = NoRun]
  <2>1. /\ task' = [task EXCEPT ![t] = new] /\ UNCHANGED <<pr, jobs, merges, run, poll>>
    BY <1>4, <1>t DEF FollowNothing
  <2>e. /\ new \in AnyTask /\ new.kind = task[t].kind /\ new.branch = task[t].branch
        /\ new.status = task[t].status /\ new.verdict = task[t].verdict
        /\ new.head = task[t].head /\ new.pc = "idle"
    BY <1>t, RecordsAreTyped DEF AnyTask, Pcs
  <2> HIDE DEF new
  <2> QED
    BY <2>1, <2>e, <1>t, TaskEdited
<1>5. ASSUME NEW u \in Tasks, NEW kind \in {"revise", "merge"}, FollowDone(t, u, kind),
             task[t].pc = "follow", UNCHANGED <<pr, jobs, merges, poll>>,
             run' \in [Tasks -> AnyRun]
      PROVE  IInv'
  <2>1. task[u].status = "none" /\ t # u
    BY <1>5, <1>r DEF FollowDone, Free
  <2>2. /\ task'[u] = Opened(u, kind, task[t].branch, 0)
        /\ task'[t] = [task[t] EXCEPT !.pc = "idle", !.prior = NoRun]
        /\ \A v \in Tasks \ {t, u} : task'[v] = task[v]
    BY <2>1, <1>5, <1>t DEF FollowDone
  <2>3. kind \in Kinds /\ kind \notin {"implement", "ciFix", "ciFailReview"}
    BY DEF Kinds
  <2>4. task' \in [Tasks -> AnyTask]
    <3>1. task'[u] \in AnyTask
      BY <2>2, <2>3, <1>5, <1>r, OpenedIsTask
    <3>2. task'[t] \in AnyTask
      BY <2>2, <1>t, RecordsAreTyped DEF AnyTask, Pcs
    <3> QED
      BY <3>1, <3>2, <2>2, <1>5, <1>t DEF FollowDone
  <2>5. task[t].branch \in Tasks
    BY <1>5, <1>r
  <2>6. \A v \in Tasks \ {u} : \/ task'[v] = task[v]
                               \/ task'[v] = [task[v] EXCEPT !.pc = "idle", !.prior = NoRun]
    BY <2>2
  <2> QED
    BY <2>1, <2>2, <2>3, <2>4, <2>5, <2>6, <1>5, <1>t, TaskOpened
<1>6. ASSUME NEW u \in Tasks, FollowRevise(t, u)
      PROVE  IInv'
  <2>1. [task[t].prior EXCEPT !.reviews = @ + 1] \in AnyRun
    BY <1>t, CountedIsRun
  <2>2. run' \in [Tasks -> AnyRun]
    BY <2>1, <1>6, <1>t DEF FollowRevise
  <2> QED
    BY <2>2, <1>5, <1>6 DEF FollowRevise
<1>7. ASSUME NEW u \in Tasks, FollowMerge(t, u)
      PROVE  IInv'
  BY <1>5, <1>7, <1>t DEF FollowMerge
<1> QED
  BY <1>1, <1>2, <1>3, <1>4, <1>6, <1>7 DEF ReviewStep

LEMMA MergeKeeps ==
  ASSUME IInv, NEW t \in Tasks, MergeStep(t) \/ MergeEnds(t)
  PROVE  IInv'
<1>t. /\ task \in [Tasks -> AnyTask] /\ task[t] \in AnyTask /\ run \in [Tasks -> AnyRun]
      /\ jobs \in [Tasks -> Seq({"running"} \cup JobEnd)]
  BY DEF IInv, Shapes
<1>1. CASE MergeEnds(t)
  <2> DEFINE new == [task[t] EXCEPT !.status = "failed"]
  <2>1. /\ task' = [task EXCEPT ![t] = new] /\ UNCHANGED <<pr, jobs, merges, run, poll>>
        /\ task[t].status = "open" /\ task[t].pc = "idle"
    BY <1>1, <1>t DEF MergeEnds, At, Open
  <2>e. /\ new \in AnyTask /\ new.kind = task[t].kind /\ new.branch = task[t].branch
        /\ new.status = "failed" /\ new.verdict = task[t].verdict
        /\ new.head = task[t].head /\ new.pc = "idle"
    BY <2>1, <1>t, RecordsAreTyped DEF AnyTask, Pcs
  <2> HIDE DEF new
  <2> QED
    BY <2>1, <2>e, <1>t, TaskEdited
<1>2. CASE MergeChecks(t)
  <2> DEFINE new == [task[t] EXCEPT !.pc = "guarded"]
  <2>1. /\ task' = [task EXCEPT ![t] = new] /\ UNCHANGED <<pr, jobs, merges, run, poll>>
        /\ MergeGuard(task[t].branch)
    BY <1>2, <1>t DEF MergeChecks, Goes
  <2>2. \A v \in Tasks : task'[v] = IF v = t THEN new ELSE task[v]
    BY <2>1, <1>t
  <2>e. /\ new \in AnyTask /\ new.kind = task[t].kind /\ new.branch = task[t].branch
        /\ new.status = task[t].status /\ new.verdict = task[t].verdict
        /\ new.head = task[t].head /\ new.pc = "guarded"
    BY <1>t DEF AnyTask, Pcs
  <2> HIDE DEF new
  <2>3. Accepted(task[t].branch)
    BY <2>1 DEF MergeGuard, ArchitectAccepted, Accepted
  <2>4. \A v \in Tasks : Steady(v) /\ (task'[v].pc # "guarded" => task'[v].pc = task[v].pc)
    BY <2>2, <2>e DEF Steady
  <2>5. Shapes'
    BY <2>1, <2>2, <2>e, <1>t DEF IInv, Shapes
  <2>6. ReviewPcs'
    BY <2>2, <2>e DEF IInv, ReviewPcs
  <2>7. \A b : Accepted(b) => Accepted(b)'
    BY <2>4, AcceptedStays
  <2>8. \A v \in Tasks : task'[v].pc = "guarded" => Accepted(task[v].branch)
    BY <2>2, <2>3 DEF IInv, MergesAccepted
  <2>9. MergesAccepted'
    BY <2>1, <2>4, <2>7, <2>8 DEF IInv, MergesAccepted, Steady
  <2> QED
    BY <2>4, <2>5, <2>6, <2>9, EditKeeps DEF IInv
<1>3. CASE MergeDispatches(t)
  <2> DEFINE new == [task[t] EXCEPT !.status = "delivered", !.pc = "idle"]
  <2>1. /\ task' = [task EXCEPT ![t] = new] /\ UNCHANGED <<pr, jobs, run, poll>>
        /\ merges' = merges \cup {task[t].branch}
        /\ task[t].pc = "guarded" /\ task[t].status = "open"
    BY <1>3, <1>t DEF MergeDispatches, At, Open
  <2>2. \A v \in Tasks : task'[v] = IF v = t THEN new ELSE task[v]
    BY <2>1, <1>t
  <2>e. /\ new \in AnyTask /\ new.kind = task[t].kind /\ new.branch = task[t].branch
        /\ new.status = "delivered" /\ new.head = task[t].head /\ new.pc = "idle"
    BY <1>t DEF AnyTask, Pcs
  <2> HIDE DEF new
  <2>3. \A v \in Tasks : Steady(v)
    BY <2>1, <2>2, <2>e DEF Steady
  <2>4. Shapes'
    BY <2>1, <2>2, <2>e, <1>t DEF IInv, Shapes
  <2>5. ReviewPcs'
    BY <2>2, <2>e DEF IInv, ReviewPcs
  <2>6. \A b : Accepted(b) => Accepted(b)'
    BY <2>3, AcceptedStays
  <2>7. \A v \in Tasks : task'[v].pc = "guarded" => Accepted(task'[v].branch)
    BY <2>2, <2>e DEF IInv, MergesAccepted
  <2>8. MergesAccepted'
    <3>1. \A b \in Tasks : pr'[b].state = "merged" => Accepted(b)
      BY <2>1 DEF IInv, MergesAccepted
    <3>2. \A b \in merges' : Accepted(b)
      BY <2>1 DEF IInv, MergesAccepted
    <3> QED
      BY <3>1, <3>2, <2>6, <2>7 DEF MergesAccepted
  <2> QED
    BY <2>3, <2>4, <2>5, <2>8, EditKeeps DEF IInv
<1> QED
  BY <1>1, <1>2, <1>3 DEF MergeStep

-----------------------------------------------------------------------------
(* The staff tick and the founder.                                         *)

LEMMA PolledIsRun ==
  ASSUME Shapes, NEW b \in Tasks
  PROVE  Polled(b) \in AnyRun
<1> DEFINE last == jobs[b][Len(jobs[b])]
           end  == IF jobs[b] # <<>> /\ last # "running" THEN last ELSE run[b].ended
           row  == [run[b] EXCEPT !.ended = end, !.pr = @ \/ pr[b].state # "none"]
<1>1. run[b] \in AnyRun /\ pr[b] \in AnyPr /\ jobs[b] \in Seq({"running"} \cup JobEnd)
  BY DEF Shapes
<1>2. end \in {"no", "ok", "failed"}
  <2>1. CASE jobs[b] # <<>> /\ last # "running"
    <3>1. last \in {"running"} \cup JobEnd
      BY <1>1, <2>1
    <3> QED
      BY <2>1, <3>1 DEF JobEnd
  <2>2. CASE ~(jobs[b] # <<>> /\ last # "running")
    <3>1. run[b].ended \in {"no", "ok", "failed"}
      BY <1>1 DEF AnyRun
    <3> QED
      BY <2>2, <3>1
  <2> QED
    BY <2>1, <2>2
<1>3. row \in AnyRun
  <2> HIDE DEF end
  <2>1. (run[b].pr \/ pr[b].state # "none") \in BOOLEAN
    OBVIOUS
  <2> QED
    BY <1>1, <1>2, <2>1 DEF AnyRun
<1>4. Polled(b) = IF pr[b].state = "none" THEN row
                  ELSE [row EXCEPT !.gone = pr[b].state # "open", !.head = pr[b].head,
                                   !.ci = pr[b].ci, !.seen = @ /\ run[b].head = pr[b].head]
  BY DEF Polled
<1> HIDE DEF row
<1>5. ASSUME NEW gone \in BOOLEAN, NEW seen \in BOOLEAN
      PROVE  [row EXCEPT !.gone = gone, !.head = pr[b].head, !.ci = pr[b].ci,
                         !.seen = seen] \in AnyRun
  BY <1>1, <1>3 DEF AnyRun, AnyPr
<1>6. (pr[b].state # "open") \in BOOLEAN /\ (row.seen /\ run[b].head = pr[b].head) \in BOOLEAN
  OBVIOUS
<1> QED
  BY <1>3, <1>4, <1>5, <1>6

LEMMA PollKeeps ==
  ASSUME IInv, PollPuts \/ PollDies \/ PollNothing \/ \E b \in Tasks : PollReads(b)
  PROVE  IInv'
<1>1. UNCHANGED <<pr, jobs, merges, task>>
  BY DEF PollPuts, PollDies, PollNothing, PollReads
<1>2. /\ run' \in [Tasks -> AnyRun]
      /\ poll' \in [pc : {"idle", "read", "decide"}, branch : Tasks \cup {None}, state : AnyRun]
      /\ poll'.pc # "idle" => poll'.branch \in Tasks
  <2>1. CASE PollPuts
    BY <2>1 DEF PollPuts, IInv, Shapes
  <2>2. CASE PollDies \/ PollNothing
    BY <2>2, RecordsAreTyped DEF PollDies, PollNothing, NotPolling, IInv, Shapes
  <2>3. ASSUME NEW b \in Tasks, PollReads(b)
        PROVE  /\ run' = run /\ poll'.branch \in Tasks
               /\ poll' \in [pc : {"idle", "read", "decide"}, branch : Tasks \cup {None},
                             state : AnyRun]
    BY <2>3, PolledIsRun DEF PollReads, IInv
  <2> QED
    BY <2>1, <2>2, <2>3 DEF IInv, Shapes
<1>3. Shapes'
  BY <1>1, <1>2 DEF IInv, Shapes
<1> QED
  BY <1>1, <1>3, TaskKept

(* create_task, by the tick or by the founder.                               *)
LEMMA CreateKeeps ==
  ASSUME IInv, NEW n \in Tasks, NEW kind \in Kinds, NEW b \in Tasks \cup {None}, NEW head \in Nat,
         Create(n, kind, b, head),
         kind # "implement" => b \in Tasks,
         kind = "ciFix" => ~CiFailCovers(b, head),
         kind = "ciFailReview" => ~FixFound(b, head),
         UNCHANGED <<pr, jobs, merges>>, run' \in [Tasks -> AnyRun],
         poll' = poll \/ poll' = NotPolling
  PROVE  IInv'
<1>1. task' = [task EXCEPT ![n] = Opened(n, kind, b, head)] /\ task[n].status = "none"
  BY DEF Create, Free
<1>2. Opened(n, kind, b, head) \in AnyTask
  BY OpenedIsTask
<1>3. /\ task' \in [Tasks -> AnyTask] /\ task'[n] = Opened(n, kind, b, head)
      /\ \A t \in Tasks \ {n} : task'[t] = task[t]
  BY <1>1, <1>2 DEF IInv, Shapes
<1>4. /\ poll' \in [pc : {"idle", "read", "decide"}, branch : Tasks \cup {None}, state : AnyRun]
      /\ poll'.pc # "idle" => poll'.branch \in Tasks
  BY RecordsAreTyped DEF NotPolling, IInv, Shapes
<1> QED
  BY <1>1, <1>3, <1>4, TaskOpened

LEMMA TickOpensKeeps ==
  ASSUME IInv, NEW n \in Tasks, PollFix(n) \/ PollReview(n) \/ AssignIssue(n)
  PROVE  IInv'
<1>r. run \in [Tasks -> AnyRun]
  BY DEF IInv, Shapes
<1>p. poll.pc = "decide" => /\ poll.branch \in Tasks /\ poll.branch \in Tasks \cup {None}
                            /\ poll.state.head \in Nat
  BY DEF IInv, Shapes, AnyRun
<1>1. CASE PollFix(n)
  <2>1. /\ Create(n, "ciFix", poll.branch, poll.state.head)
        /\ ~CiFailCovers(poll.branch, poll.state.head)
        /\ poll.pc = "decide" /\ poll' = NotPolling /\ UNCHANGED <<pr, jobs, merges, run>>
    BY <1>1 DEF PollFix
  <2>2. "ciFix" \in Kinds /\ "ciFix" \notin {"ciFailReview", "implement"}
    BY DEF Kinds
  <2> QED
    BY <2>1, <2>2, <1>r, <1>p, CreateKeeps
<1>2. CASE PollReview(n)
  <2>1. PICK kind \in Wanted(poll.branch, poll.state) :
          Create(n, kind, poll.branch, poll.state.head)
    BY <1>2 DEF PollReview
  <2>2. poll.pc = "decide" /\ poll' = NotPolling /\ UNCHANGED <<pr, jobs, merges, run>>
    BY <1>2 DEF PollReview
  <2>3. /\ kind \in Kinds /\ kind \notin {"ciFix", "implement"}
        /\ kind = "ciFailReview" => ~FixFound(poll.branch, poll.state.head)
    BY <2>1 DEF Wanted, Kinds, Reviews
  <2> QED
    BY <2>1, <2>2, <2>3, <1>r, <1>p, CreateKeeps
<1>3. CASE AssignIssue(n)
  <2>1. Create(n, "implement", None, 0) /\ UNCHANGED <<pr, jobs, merges, run, poll>>
    BY <1>3 DEF AssignIssue
  <2>2. "implement" \in Kinds
    BY DEF Kinds
  <2> QED
    BY <2>1, <2>2, <1>r, CreateKeeps
<1> QED
  BY <1>1, <1>2, <1>3

LEMMA OwnerKeeps ==
  ASSUME IInv, NEW n \in Tasks, NEW b \in Tasks, OwnerReopens(n, b)
  PROVE  IInv'
<1>1. /\ Create(n, "revise", b, 0) /\ UNCHANGED <<pr, jobs, merges, poll>>
      /\ run' = [run EXCEPT ![b] = [run[b] EXCEPT !.reviews = 0]]
  BY DEF OwnerReopens
<1>2. run' \in [Tasks -> AnyRun]
  <2>1. [run[b] EXCEPT !.reviews = 0] \in AnyRun
    BY CountedIsRun DEF IInv, Shapes
  <2> QED
    BY <1>1, <2>1 DEF IInv, Shapes
<1>3. "revise" \in Kinds
  BY DEF Kinds
<1> QED
  BY <1>1, <1>2, <1>3, CreateKeeps

-----------------------------------------------------------------------------
(* GitHub and the clock.                                                   *)

LEMMA GitHubKeeps ==
  ASSUME IInv, NEW b \in Tasks,
         \/ ClosePr(b) \/ CoolDown(b) \/ GraceOver(b)
         \/ \E i \in DOMAIN jobs[b], end \in JobEnd : JobEnds(b, i, end)
         \/ \E ci \in {"green", "red", "policy"} : CiEnds(b, ci)
  PROVE  IInv'
<1>t. /\ pr \in [Tasks -> AnyPr] /\ pr[b] \in AnyPr /\ run \in [Tasks -> AnyRun]
      /\ jobs \in [Tasks -> Seq({"running"} \cup JobEnd)]
  BY DEF IInv, Shapes
<1>1. CASE ClosePr(b)
  <2>1. pr' = [pr EXCEPT ![b].state = "closed"] /\ UNCHANGED <<jobs, merges, run, task, poll>>
    BY <1>1 DEF ClosePr
  <2>2. Shapes'
    BY <2>1, <1>t DEF IInv, Shapes, AnyPr
  <2>3. \A c \in Tasks : pr'[c].state = "merged" => pr[c].state = "merged"
    BY <2>1, <1>t DEF AnyPr
  <2> QED
    BY <2>1, <2>2, <2>3, TaskKept
<1>2. CASE CoolDown(b)
  <2>1. UNCHANGED <<pr, jobs, merges, run, task, poll>>
    BY <1>2 DEF CoolDown
  <2> QED
    BY <2>1, TaskKept DEF IInv, Shapes
<1>3. CASE GraceOver(b)
  <2>1. run' = [run EXCEPT ![b].seen = TRUE] /\ UNCHANGED <<pr, jobs, merges, task, poll>>
    BY <1>3 DEF GraceOver
  <2>2. [run[b] EXCEPT !.seen = TRUE] \in AnyRun
    BY <1>t, CountedIsRun
  <2>3. Shapes'
    BY <2>1, <2>2, <1>t DEF IInv, Shapes
  <2> QED
    BY <2>1, <2>3, TaskKept
<1>4. ASSUME NEW i \in DOMAIN jobs[b], NEW end \in JobEnd, JobEnds(b, i, end)
      PROVE  IInv'
  <2>1. /\ jobs' = [jobs EXCEPT ![b] = [jobs[b] EXCEPT ![i] = end]]
        /\ UNCHANGED <<merges, run, task, poll>>
        /\ pr' = pr \/ pr' = [pr EXCEPT ![b] = [state |-> "open", head |-> @.head + 1, ci |-> "pending"]]
    BY <1>4 DEF JobEnds
  <2>2. [jobs[b] EXCEPT ![i] = end] \in Seq({"running"} \cup JobEnd)
    BY <1>t
  <2>3. jobs' \in [Tasks -> Seq({"running"} \cup JobEnd)]
    BY <2>1, <2>2, <1>t
  <2>4. [state |-> "open", head |-> pr[b].head + 1, ci |-> "pending"] \in AnyPr
    BY <1>t DEF AnyPr, CI
  <2> DEFINE moved == [state |-> "open", head |-> pr[b].head + 1, ci |-> "pending"]
  <2>m. moved \in AnyPr /\ moved.state = "open"
    BY <2>4
  <2>n. pr' = pr \/ pr' = [pr EXCEPT ![b] = moved]
    BY <2>1
  <2> HIDE DEF moved
  <2>5. /\ pr' \in [Tasks -> AnyPr]
        /\ \A c \in Tasks : pr'[c].state = "merged" => pr[c].state = "merged"
    BY <2>m, <2>n, <1>t
  <2>6. Shapes'
    BY <2>1, <2>3, <2>5 DEF IInv, Shapes
  <2> QED
    BY <2>1, <2>5, <2>6, TaskKept
<1>5. ASSUME NEW ci \in {"green", "red", "policy"}, CiEnds(b, ci)
      PROVE  IInv'
  <2>1. pr' = [pr EXCEPT ![b].ci = ci] /\ UNCHANGED <<jobs, merges, run, task, poll>>
    BY <1>5 DEF CiEnds
  <2>2. Shapes'
    BY <2>1, <1>t DEF IInv, Shapes, AnyPr, CI
  <2>3. \A c \in Tasks : pr'[c].state = "merged" => pr[c].state = "merged"
    BY <2>1, <1>t DEF AnyPr
  <2> QED
    BY <2>1, <2>2, <2>3, TaskKept
<1> QED
  BY <1>1, <1>2, <1>3, <1>4, <1>5

(* What the merge workflow merges had been through the guard.                *)
LEMMA MergeRunsKeeps ==
  ASSUME IInv, NEW b \in Tasks, MergeRuns(b)
  PROVE  IInv'
<1>t. pr \in [Tasks -> AnyPr]
  BY DEF IInv, Shapes
<1>1. /\ pr' = pr \/ pr' = [pr EXCEPT ![b].state = "merged"]
      /\ b \in merges /\ merges' \subseteq merges
      /\ UNCHANGED <<jobs, run, task, poll>>
  BY DEF MergeRuns
<1>2. pr' \in [Tasks -> AnyPr] /\ \A c \in Tasks \ {b} : pr'[c] = pr[c]
  BY <1>1, <1>t DEF AnyPr
<1>3. Shapes' /\ ReviewPcs' /\ FixOrReview'
  BY <1>1, <1>2 DEF IInv, Shapes, ReviewPcs, FixOrReview
<1>4. \A c : Accepted(c)' = Accepted(c)
  BY <1>1 DEF Accepted
<1>5. MergesAccepted'
  BY <1>1, <1>2, <1>4 DEF IInv, MergesAccepted
<1> QED
  BY <1>3, <1>5 DEF IInv

-----------------------------------------------------------------------------
(* The theorems.                                                           *)

LEMMA InitKeeps ==
  ASSUME Init
  PROVE  IInv
<1>1. /\ \A t \in Tasks : task[t] = NoTask
      /\ \A b \in Tasks : pr[b] = NoPr
      /\ merges = {}
  BY DEF Init
<1>2. NoTask.kind = "implement" /\ NoTask.pc = "idle" /\ NoPr.state = "none"
  BY DEF NoTask, NoPr
<1>3. Shapes
  <2>1. jobs \in [Tasks -> Seq({"running"} \cup JobEnd)]
    BY DEF Init
  <2>2. poll.pc = "idle"
    BY DEF Init, NotPolling
  <2> QED
    BY <1>1, <1>2, <2>1, <2>2, RecordsAreTyped DEF Init, Shapes
<1>4. ReviewPcs /\ FixOrReview /\ MergesAccepted
  BY <1>1, <1>2 DEF ReviewPcs, FixOrReview, MergesAccepted
<1> QED
  BY <1>3, <1>4 DEF IInv

(* The strengthened invariant, of every dispatch, webhook, sweep, review, fix *)
(* and merge.                                                                 *)
THEOREM IInvAlways == Spec => []IInv
<1>1. Init => IInv
  BY InitKeeps
<1>2. IInv /\ [Next]_vars => IInv'
  <2> SUFFICES ASSUME IInv, [Next]_vars
               PROVE  IInv'
    OBVIOUS
  <2>1. CASE UNCHANGED vars
    BY <2>1 DEF vars, IInv, Shapes, ReviewPcs, FixOrReview, MergesAccepted, Accepted
  <2>2. CASE RunnerPatched
    <3>1. UNCHANGED <<pr, jobs, merges, run, task, poll>>
      BY <2>2 DEF RunnerPatched
    <3> QED
      BY <3>1, TaskKept DEF IInv, Shapes
  <2>3. CASE Next /\ ~RunnerPatched
    BY <2>3, EngineerKeeps, ReviewKeeps, MergeKeeps, PollKeeps, TickOpensKeeps, OwnerKeeps,
       GitHubKeeps, MergeRunsKeeps DEF Next, PollDecides
  <2> QED
    BY <2>1, <2>2, <2>3
<1> QED
  BY <1>1, <1>2, PTL DEF Spec

(* A pull request is merged for the board only after an architect accepted   *)
(* it in a review of a green run, whatever else is dispatched, redelivered,  *)
(* closed or dies meanwhile.                                                 *)
THEOREM MergedWasAcceptedAlways == Spec => []MergedWasAccepted
<1>1. IInv => MergedWasAccepted
  BY DEF IInv, MergesAccepted, Accepted, MergedWasAccepted
<1> QED
  BY <1>1, IInvAlways, PTL

(* The architect's open review of a failing head and an engineer's ci-fix    *)
(* never share a head.                                                       *)
THEOREM FixOrReviewAlways == Spec => []FixOrReview
<1>1. IInv => FixOrReview
  BY DEF IInv
<1> QED
  BY <1>1, IInvAlways, PTL
=============================================================================

------------------------------ MODULE BulkImport ------------------------------
(***************************************************************************)
(* The catalogue's bulk import of one source (board_catalog_bulk.py).  A   *)
(* job ingests the source in chunks, one invocation each, and then posts   *)
(* the approved rows to the importer in batches.  The importer answers a   *)
(* whole batch with 500 when one row breaks it, so the job looks for the   *)
(* row: it notes a failed batch, splits a batch that failed before, and    *)
(* closes a row that fails alone while others succeed.  A run posts no     *)
(* more than Budget times and continues in another invocation.  When both  *)
(* halves fail although the importer is up, it proposes a GitHub issue and *)
(* pauses the source until the founder has decided and the issue is closed.*)
(***************************************************************************)
EXTENDS Naturals, FiniteSets, Sequences

CONSTANTS
  Rows,        \* candidates of the source, numbered in queue order
  Workers,     \* invocations of handle_job
  Budget,      \* _BISECT_MAX_CALLS (8 in the code)
  MaxRejects,  \* _BULK_ROW_MAX_REJECTS
  MaxTroubles, \* bound: faults of a behaviour
  Modes        \* the environments to check, a set of Mode

(* outage: while no run posts the importer goes down; error: a post fails   *)
(* otherwise; crash: an invocation dies; lost, duplicate, delay: its event   *)
(* is not delivered, twice, or late; refused: Lambda does not accept it.     *)
Faults == {"outage", "error", "crash", "lost", "duplicate", "delay", "refused"}

(* bad rows break every batch, sched rows only with their schedules, a       *)
(* reject row is refused alone; late rows are approved later; size is        *)
(* BOARD_CATALOG_MAX_ORGS_PER_BULK_IMPORT, chunks how many ingest takes and  *)
(* other whether another source was imported in the last 24 hours.           *)
Mode == [bad : SUBSET Rows, sched : SUBSET Rows, reject : SUBSET Rows, late : SUBSET Rows,
         size : Nat \ {0}, chunks : Nat \ {0}, other : BOOLEAN, faults : SUBSET Faults]

ASSUME BulkAssumption ==
  /\ Rows \subseteq Nat /\ IsFiniteSet(Rows)
  /\ {Budget, MaxTroubles} \subseteq Nat
  /\ MaxRejects \in Nat \ {0}
  /\ Modes \subseteq Mode

VARIABLES
  mode,     \* the environment of this behaviour; never changes
  row,      \* row[r]: its status and how often the importer rejected it
  noted,    \* the batches that have answered 500 (http500 counts)
  paused,   \* whether the pause record is there
  issue,    \* the importer issue: its approval, then the issue itself
  up,       \* whether the importer answers
  job,      \* the job's row
  events,   \* events still to be delivered
  run,      \* run[w]: an invocation
  trouble   \* faults so far

importVars == <<mode, row, noted, paused, issue, up, job, events, run, trouble>>

-----------------------------------------------------------------------------
Event == [offset : Nat, ingested : BOOLEAN, only : SUBSET Rows, bisect : BOOLEAN]

(* A frame of _import_group: a batch to import, or a half of one whose       *)
(* other half has been posted (left), the probe after two failures, or a row *)
(* to post without its schedules; failed holds the halves that answered 500. *)
Frame == [step : {"group", "left", "right", "probe", "plain"}, rows : SUBSET Rows,
          bisect : BOOLEAN, known : BOOLEAN, failed : SUBSET (SUBSET Rows)]

Group(B, bis, known) ==
  [step |-> "group", rows |-> B, bisect |-> bis, known |-> known, failed |-> {}]
Then(step, f, failed) == [f EXCEPT !.step = step, !.failed = failed]

Idle == [at |-> "idle", ev |-> [offset |-> 0, ingested |-> FALSE, only |-> {}, bisect |-> FALSE],
         todo |-> << >>, budget |-> 0, won |-> FALSE, left |-> {}, dropped |-> FALSE]

Fault(f)  == f \in mode.faults
Trouble(f) == Fault(f) /\ trouble < MaxTroubles /\ trouble' = trouble + 1
Calm      == UNCHANGED trouble

Approved  == {r \in Rows : row[r].status = "approved"}
Active    == job.phase \in {"queued", "running"} /\ ~job.stale
Working   == {w \in Workers : run[w].at # "idle"}
Posting   == {w \in Workers : run[w].at = "post"}

(* source_pause_info: a rejected approval or a closed issue ends the pause.  *)
IsPaused == paused /\ issue \notin {"rejected", "closed"}

ImportInit ==
  /\ mode \in Modes
  /\ row = [r \in Rows |-> [status |-> IF r \in mode.late THEN "proposed" ELSE "approved",
                            rejects |-> 0]]
  /\ noted = {}
  /\ paused = FALSE
  /\ issue = "none"
  /\ up = TRUE
  /\ job = [phase |-> "none", stale |-> FALSE]
  /\ events = {}
  /\ run = [w \in Workers |-> Idle]
  /\ trouble = 0

-----------------------------------------------------------------------------
(* The environment.                                                        *)

Approve(r) ==
  /\ row[r].status = "proposed"
  /\ row' = [row EXCEPT ![r].status = "approved"]
  /\ UNCHANGED <<mode, noted, paused, issue, up, job, events, run>> /\ Calm

ImporterGoesDown ==
  /\ Posting = {} /\ up /\ Trouble("outage")
  /\ up' = FALSE
  /\ UNCHANGED <<mode, row, noted, paused, issue, job, events, run>>

ImporterComesUp ==
  /\ Posting = {} /\ ~up
  /\ up' = TRUE
  /\ UNCHANGED <<mode, row, noted, paused, issue, job, events, run>> /\ Calm

(* The founder decides; an approval opens the issue, which is closed later   *)
(* (board_catalog_bulk caches its state for an hour), fixed or not.          *)
IssueMoves ==
  /\ \/ issue = "pending" /\ issue' \in {"rejected", "open"}
     \/ issue = "open" /\ issue' = "closed"
  /\ UNCHANGED <<mode, row, noted, paused, up, job, events, run>> /\ Calm

(* A job that nobody has written for 360 seconds; a run is over by then.     *)
JobAges ==
  /\ Active /\ Working = {}
  /\ IF events = {} THEN Calm ELSE Trouble("delay")
  /\ job' = [job EXCEPT !.stale = TRUE]
  /\ UNCHANGED <<mode, row, noted, paused, issue, up, events, run>>

LoseEvent(e) ==
  /\ e \in events /\ Trouble("lost")
  /\ events' = events \ {e}
  /\ UNCHANGED <<mode, row, noted, paused, issue, up, job, run>>

Dies(w) ==
  /\ w \in Working /\ Trouble("crash")
  /\ run' = [run EXCEPT ![w] = Idle]
  /\ UNCHANGED <<mode, row, noted, paused, issue, up, job, events>>

-----------------------------------------------------------------------------
(* The job's row and its events.                                           *)

Phase(p) == job' = [phase |-> p, stale |-> FALSE]

(* try_invoke_event: Lambda accepts the event or the call fails.             *)
Accepted(e) == events' = events \cup {e} /\ Calm
Refused     == Trouble("refused") /\ UNCHANGED events

(* queue_action, by the tick, a hold that is due, or the owner.  A source    *)
(* that is paused is not queued by the tick, and runs into the pause if      *)
(* anyone else does.                                                         *)
Queue ==
  /\ ~Active /\ Approved # {}
  /\ Phase("queued")
  /\ Accepted([offset |-> 0, ingested |-> FALSE, only |-> {}, bisect |-> FALSE]) \/ Refused
  /\ paused' = IsPaused
  /\ UNCHANGED <<mode, row, noted, issue, up, run>>

JobBegins(w, e) ==
  /\ run[w].at = "idle" /\ e \in events
  /\ \/ events' = events \ {e} /\ Calm
     \/ events' = events /\ Trouble("duplicate")
  /\ Phase("running")
  /\ run' = [run EXCEPT ![w] = [Idle EXCEPT !.at = IF e.ingested THEN "import" ELSE "ingest", !.ev = e]]
  /\ UNCHANGED <<mode, row, noted, paused, issue, up>>

GoesTo(w, pc) == run' = [run EXCEPT ![w].at = pc]
Done(w)     == run' = [run EXCEPT ![w] = Idle]

(* _continue_job: the next invocation, or the job ends with an error.        *)
Continues(w, e) ==
  /\ Done(w)
  /\ \/ Accepted(e) /\ Phase("running")
     \/ Refused /\ Phase("error")

(* One chunk of ingest_source.  The chunk that ends a long ingest leaves the *)
(* import to an invocation of its own.                                       *)
Ingests(w) ==
  LET e == run[w].ev IN
  /\ run[w].at = "ingest"
  /\ \/ /\ e.offset + 1 < mode.chunks
        /\ Continues(w, [e EXCEPT !.offset = @ + 1])
     \/ /\ e.offset + 1 = mode.chunks /\ e.offset > 0
        /\ Continues(w, [e EXCEPT !.offset = 0, !.ingested = TRUE])
     \/ /\ mode.chunks = 1
        /\ GoesTo(w, "import")
        /\ UNCHANGED <<job, events>> /\ Calm
  /\ UNCHANGED <<mode, row, noted, paused, issue, up>>

-----------------------------------------------------------------------------
(* import_source: the batches, in queue order.                             *)

Least(S, n) == {r \in S : Cardinality({q \in S : q < r}) < n}

Batches(S, bisect) ==
  LET Before(r) == Cardinality({q \in S : q < r}) IN
  [n \in 1..((Cardinality(S) + mode.size - 1) \div mode.size) |->
     Group({r \in S : Before(r) \div mode.size = n - 1}, bisect, FALSE)]

ImportStarts(w) ==
  LET e    == run[w].ev
      todo == Batches(IF e.only = {} THEN Approved ELSE Approved \cap e.only, e.bisect)
  IN
  /\ run[w].at = "import"
  /\ paused' = IsPaused
  /\ run' = [run EXCEPT ![w] =
       IF IsPaused THEN [@ EXCEPT !.at = "end"]
       ELSE [@ EXCEPT !.at = "post", !.budget = Budget, !.todo = todo]]
  /\ UNCHANGED <<mode, row, noted, issue, up, job, events>> /\ Calm

Top(w)         == Head(run[w].todo)
TopIs(w, step) == run[w].at = "post" /\ run[w].todo # << >> /\ Top(w).step = step
Pop(w, first)  == first \o Tail(run[w].todo)

(* _call_import: what the importer answers, and what is done about it.       *)
Answers(B, schedules) ==
  (IF up /\ B \cap mode.bad = {} /\ (schedules => B \cap mode.sched = {}) THEN {"ok"} ELSE {"http500"})
    \cup (IF Fault("error") /\ trouble < MaxTroubles THEN {"error"} ELSE {})

Rejected(old) ==
  LET n == old.rejects + 1
  IN  [status |-> IF n >= MaxRejects /\ old.status = "approved" THEN "closed" ELSE old.status, rejects |-> n]

Answered(B, answer) ==
  /\ row' = IF answer = "ok"
            THEN [r \in Rows |-> IF r \notin B THEN row[r]
                                 ELSE IF r \in mode.reject THEN Rejected(row[r])
                                 ELSE [row[r] EXCEPT !.status = "imported"]]
            ELSE row
  /\ IF answer = "error" THEN trouble' = trouble + 1 ELSE Calm

Uncounted(B, answer) == IF answer = "ok" THEN noted \ {B} ELSE noted

(* What a run has left to do when a batch has failed as it had before.       *)
Lower(B) == Least(B, Cardinality(B) \div 2)

Split(f, won) ==
  IF won THEN <<Group(Lower(f.rows), TRUE, FALSE), Group(f.rows \ Lower(f.rows), TRUE, FALSE)>>
  ELSE <<Then("left", f, {})>>

(* A known batch is not posted again but split.                              *)
Known(f) == f.known \/ (f.rows \in noted /\ Cardinality(f.rows) > 1)

SplitsKnown(w) ==
  /\ TopIs(w, "group") /\ Known(Top(w)) /\ Cardinality(Top(w).rows) > 1
  /\ run' = [run EXCEPT ![w].todo = Pop(w, Split(Top(w), run[w].won))]
  /\ UNCHANGED <<mode, row, noted, paused, issue, up, job, events>> /\ Calm

(* Mutant: a row that fails alone is closed whether or not others succeed.   *)
ClosesAnyway(won) == TRUE

(* Only next to a batch that succeeded is a failure a row's own.             *)
MayClose(won) == won

RowFails(w, r) ==
  /\ IF MayClose(run[w].won) /\ r \in mode.sched
     THEN run' = [run EXCEPT ![w].todo = Pop(w, <<Then("plain", Top(w), {})>>)]
     ELSE run' = [run EXCEPT ![w].todo = Tail(@)]
  /\ row' = IF MayClose(run[w].won) /\ r \notin mode.sched THEN [row EXCEPT ![r].status = "closed"] ELSE row

KnownRowFails(w) ==
  /\ TopIs(w, "group") /\ Top(w).known /\ Cardinality(Top(w).rows) = 1
  /\ \E r \in Top(w).rows : RowFails(w, r)
  /\ UNCHANGED <<mode, noted, paused, issue, up, job, events>> /\ Calm

(* No call is left: the rows wait for the next invocation.                   *)
OutOfBudget(w) ==
  /\ TopIs(w, "group") \/ TopIs(w, "plain")
  /\ ~Known(Top(w)) \/ TopIs(w, "plain")
  /\ run[w].budget = 0
  /\ run' = [run EXCEPT ![w].todo = Tail(@), ![w].left = @ \cup Top(w).rows]
  /\ UNCHANGED <<mode, row, noted, paused, issue, up, job, events>> /\ Calm

(* Mutant: a batch that fails for the first time is not noted.               *)
NotesNothing(B) == UNCHANGED noted

Notes(B) == noted' = noted \cup {B}

PostsGroup(w) ==
  LET f == Top(w)
      B == f.rows
      Moves(todo, won) == run' = [run EXCEPT ![w].budget = @ - 1, ![w].todo = todo, ![w].won = won]
  IN
  /\ TopIs(w, "group") /\ ~Known(f) /\ run[w].budget > 0
  /\ \E answer \in Answers(B, TRUE) :
       \/ /\ answer # "http500"
          /\ Answered(B, answer)
          /\ noted' = Uncounted(B, answer)
          /\ Moves(Tail(run[w].todo), run[w].won \/ answer = "ok")
       \/ /\ answer = "http500" /\ ~f.bisect /\ B \notin noted
          /\ Notes(B)
          /\ Moves(Tail(run[w].todo), run[w].won)
          /\ UNCHANGED row /\ Calm
       \/ /\ answer = "http500" /\ (f.bisect \/ B \in noted)
          /\ Moves(IF Cardinality(B) = 1 THEN Pop(w, <<[f EXCEPT !.known = TRUE]>>)
                   ELSE Pop(w, Split(f, run[w].won)), run[w].won)
          /\ UNCHANGED <<row, noted>> /\ Calm
  /\ UNCHANGED <<mode, paused, issue, up, job, events>>

(* A row is posted again without its schedules; if that works, the founder   *)
(* is asked to open the importer issue when the run is over.                 *)
PostsPlain(w) ==
  LET B == Top(w).rows IN
  /\ TopIs(w, "plain") /\ run[w].budget > 0
  /\ \E answer \in Answers(B, FALSE) :
       /\ \/ answer # "http500" /\ Answered(B, answer)
          \/ /\ answer = "http500" /\ Calm
             /\ row' = [r \in Rows |-> IF r \in B THEN [row[r] EXCEPT !.status = "closed"] ELSE row[r]]
       /\ noted' = Uncounted(B, answer)
       /\ run' = [run EXCEPT ![w].budget = @ - 1, ![w].todo = Tail(@),
                             ![w].dropped = @ \/ answer = "ok"]
  /\ UNCHANGED <<mode, paused, issue, up, job, events>>

(* Mutant: a half is posted when no call is left.                            *)
PostsUnbudgeted(w, B) == Answers(B, TRUE)

(* Nothing has succeeded yet: the halves are posted, noted or not, and the   *)
(* run goes into those that fail, or probes when nothing succeeds.           *)
Posts(w, B) ==
  IF run[w].budget = 0 THEN {"budget"} ELSE Answers(B, TRUE)

PostsHalf(w) ==
  LET f      == Top(w)
      B      == IF f.step = "left" THEN Lower(f.rows) ELSE f.rows \ Lower(f.rows)
      After(answer, won) ==
        LET failed == f.failed \cup (IF answer = "http500" THEN {B} ELSE {})
            half(H) == IF H \in failed THEN <<Group(H, TRUE, TRUE)>> ELSE << >>
        IN  IF f.step = "left" THEN <<Then("right", f, failed)>>
            ELSE IF won THEN half(Lower(f.rows)) \o half(f.rows \ Lower(f.rows))
            ELSE <<Then("probe", f, failed)>>
  IN
  /\ TopIs(w, "left") \/ TopIs(w, "right")
  /\ \E answer \in Posts(w, B) :
       /\ Answered(B, answer)
       /\ noted' = Uncounted(B, answer)
       /\ LET won == run[w].won \/ answer = "ok" IN
          run' = [run EXCEPT ![w].todo = Pop(w, After(answer, won)), ![w].won = won,
                             ![w].budget = IF answer = "budget" THEN @ ELSE @ - 1,
                             ![w].left = IF answer = "budget" THEN @ \cup B ELSE @]
  /\ UNCHANGED <<mode, paused, issue, up, job, events>>

(* _importer_server_up, _propose_systematic_500_issue: the dry run is a post *)
(* of its own and does not break on a row.                                   *)
Probes(w) ==
  LET f     == Top(w)
      posts == ~mode.other /\ run[w].budget > 0
  IN
  /\ TopIs(w, "probe")
  /\ run' = [run EXCEPT ![w].todo = Tail(@), ![w].budget = IF posts THEN @ - 1 ELSE @]
  /\ IF mode.other \/ (posts /\ up)
     THEN /\ noted' = noted \cup f.failed
          /\ issue' = IF issue = "none" THEN "pending" ELSE issue
          /\ paused' = (paused \/ issue \in {"none", "pending", "open"})
     ELSE UNCHANGED <<noted, issue, paused>>
  /\ UNCHANGED <<mode, row, up, job, events>> /\ Calm

(* The run is over.  Rows it had no call for are imported by an invocation   *)
(* that starts bisecting; its event is sent before the job is put.           *)
ImportEnds(w) ==
  /\ run[w].at = "post" /\ run[w].todo = << >>
  /\ issue' = IF run[w].dropped /\ issue = "none" THEN "pending" ELSE issue
  /\ paused' = IsPaused
  /\ \/ /\ run[w].left = {} \/ IsPaused
        /\ GoesTo(w, "end")
        /\ UNCHANGED events /\ Calm
     \/ /\ run[w].left # {} /\ ~IsPaused
        /\ Accepted([offset |-> 0, ingested |-> TRUE, only |-> run[w].left, bisect |-> TRUE])
        /\ GoesTo(w, "continued")
     \/ /\ run[w].left # {} /\ ~IsPaused
        /\ Refused /\ GoesTo(w, "end")
  /\ UNCHANGED <<mode, row, noted, up, job>>

PutsJob(w) ==
  /\ \/ run[w].at = "end" /\ Phase("done")
     \/ run[w].at = "continued" /\ Phase("running")
  /\ Done(w)
  /\ UNCHANGED <<mode, row, noted, paused, issue, up, events>> /\ Calm

-----------------------------------------------------------------------------
JobStep(w) ==
  \/ Ingests(w) \/ ImportStarts(w)
  \/ SplitsKnown(w) \/ KnownRowFails(w) \/ OutOfBudget(w)
  \/ PostsGroup(w) \/ PostsPlain(w) \/ PostsHalf(w) \/ Probes(w)
  \/ ImportEnds(w) \/ PutsJob(w)

ImportNext ==
  \/ \E r \in Rows : Approve(r)
  \/ ImporterGoesDown \/ ImporterComesUp \/ IssueMoves \/ JobAges
  \/ \E e \in events : LoseEvent(e) \/ \E w \in Workers : JobBegins(w, e)
  \/ Queue
  \/ \E w \in Workers : JobStep(w) \/ Dies(w)

Continuing(e) == e.offset > 0 \/ e.ingested
Delivers(w, continuing) ==
  \E e \in events : Continuing(e) = continuing /\ JobBegins(w, e)

(* The ticks queue, events are delivered and invocations go on; the importer *)
(* comes up again and the founder decides.                                   *)
ImportFairness ==
  /\ WF_importVars(Queue) /\ WF_importVars(JobAges)
  /\ SF_importVars(ImporterComesUp) /\ WF_importVars(IssueMoves)
  /\ SF_importVars(\E w \in Workers : Delivers(w, FALSE))
  /\ SF_importVars(\E w \in Workers : Delivers(w, TRUE))
  /\ \A w \in Workers : WF_importVars(JobStep(w))

ImportSpec == ImportInit /\ [][ImportNext]_importVars
ImportFairSpec == ImportSpec /\ ImportFairness

-----------------------------------------------------------------------------
(* Properties                                                              *)

ImportTypeOK ==
  /\ mode \in Modes
  /\ row \in [Rows -> [status : {"proposed", "approved", "imported", "closed"}, rejects : Nat]]
  /\ noted \subseteq SUBSET Rows
  /\ paused \in BOOLEAN /\ up \in BOOLEAN
  /\ issue \in {"none", "pending", "rejected", "open", "closed"}
  /\ events \subseteq Event
  /\ trouble \in 0..MaxTroubles
  /\ \A w \in Workers : /\ run[w].budget \in 0..Budget
                        /\ run[w].left \subseteq Rows
                        /\ run[w].todo \in Seq(Frame)

(* A row is closed only for what is wrong with it: however runs, splits,     *)
(* continuations and outages follow each other, a 500 that another row or    *)
(* the importer caused closes no good row.                                   *)
ClosedIsBad ==
  \A r \in Rows : row[r].status = "closed" => r \in mode.bad \/ row[r].rejects >= MaxRejects

(* One row that breaks every batch it is in keeps no other row out of the    *)
(* catalogue: every good row that is approved is imported in the end,        *)
(* whatever is lost, dies or is down meanwhile.                              *)
GoodRowsGetIn ==
  \A r \in Rows :
    (/\ row[r].status = "approved"
     /\ r \notin mode.bad \cup mode.sched \cup mode.reject
     /\ Cardinality(mode.bad) <= 1)
      ~> (row[r].status = "imported")
=============================================================================

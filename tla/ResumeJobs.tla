------------------------------ MODULE ResumeJobs ------------------------------
(***************************************************************************)
(* Resume jobs and the month's spend (resume.py, resume_spend.py).  A job  *)
(* is one row.  A worker invocation reserves an estimate in the month's    *)
(* ledger, makes its model calls and books each on the row, and settles:   *)
(* it replaces the estimate by the cost.  The ledger is a row every job    *)
(* writes, by compare and swap; the job's own row is put unconditionally,  *)
(* from the copy the worker holds.  The page polls the job, and the poll   *)
(* settles and fails a job that is still open after 280 seconds.           *)
(***************************************************************************)
EXTENDS Naturals, Integers, FiniteSets, FiniteSetsExt

CONSTANTS
  Jobs,       \* job ids
  Workers,    \* worker invocations
  Polls,      \* polls of a job's row
  None,       \* no job
  Estimate,   \* ESTIMATE_USD
  Costs,      \* what a model call may cost
  MaxCalls,   \* bound: model calls of a worker
  Attempts,   \* how often a ledger write is tried (5 in the code)
  MaxCrashes, \* bound: invocations that die
  Modes       \* the environments to check, a set of Mode

(* crash: an invocation ends between two steps; lost: a job's event is not   *)
(* delivered; duplicate: it is delivered twice; slow: a worker may be alive  *)
(* when its job turns 280 seconds old; polls: two polls of a job overlap;    *)
(* error: the work fails, or the resume feature is found turned off.         *)
Faults == {"crash", "lost", "duplicate", "slow", "polls", "error"}

(* cap is maxUsdPerMonth; bound is how many jobs are queued.                 *)
Mode == [faults : SUBSET Faults, cap : Nat, bound : Nat]

ASSUME ResumeAssumption ==
  /\ None \notin Jobs
  /\ IsFiniteSet(Jobs)
  /\ Workers \cap Polls = {}
  /\ Costs \cup {MaxCalls, MaxCrashes} \subseteq Nat
  /\ Estimate \in Nat \ {0}
  /\ Attempts \in Nat \ {0}
  /\ Modes \subseteq Mode

VARIABLES
  mode,     \* the environment of this behaviour; never changes
  job,      \* job[j]: its row
  age,      \* age[j]: of startedAt, or of createdAt before it is started
  events,   \* events[j]: how often its event is still to be delivered
  spend,    \* the month's ledger, in units of money
  cost,     \* cost[j]: what the model calls made for it cost
  settles,  \* settles[j]: how often its settlement was written to the ledger
  proc,     \* proc[i]: an invocation, its next step and what it holds
  crashes   \* how many invocations have died

vars == <<mode, job, age, events, spend, cost, settles, proc, crashes>>

-----------------------------------------------------------------------------
Procs    == Workers \cup Polls
Statuses == {"absent", "queued", "running", "done", "failed"}
Open     == {"queued", "running"}
Ages     == {"young", "late", "stale"}  \* late: no time is left for a call

Row == [status : Statuses, started : BOOLEAN, reserved : Nat, actual : Nat, settled : BOOLEAN]

NoRow == [status |-> "absent", started |-> FALSE, reserved |-> 0, actual |-> 0, settled |-> FALSE]

Pcs == {"idle", "start", "reserve", "reserveCas", "reserved", "work", "book", "settle",
        "adjust", "adjustCas", "settled", "check", "end"}

(* doc is the row it works on, seen the ledger it read and fresh whether no  *)
(* one has written it since (spendToken); ending is the status it will put   *)
(* and again whether it settles once more before it does.                    *)
Rest == [at |-> "idle", job |-> None, doc |-> NoRow, seen |-> 0, fresh |-> FALSE,
         tries |-> 0, calls |-> 0, ending |-> "done", again |-> FALSE]

Fault(f)   == f \in mode.faults
Ready(i, pc) == proc[i].at = pc
Put(i, doc) == job' = [job EXCEPT ![proc[i].job] = doc]

Init ==
  /\ mode \in Modes
  /\ job = [j \in Jobs |-> NoRow]
  /\ age = [j \in Jobs |-> "young"]
  /\ events = [j \in Jobs |-> 0]
  /\ spend = 0
  /\ cost = [j \in Jobs |-> 0]
  /\ settles = [j \in Jobs |-> 0]
  /\ proc = [i \in Procs |-> Rest]
  /\ crashes = 0

-----------------------------------------------------------------------------
(* The request and the clock.                                              *)

(* _queue puts the row and invokes the worker; Lambda may not accept it.     *)
Queue(j) ==
  /\ job[j].status = "absent"
  /\ Cardinality({k \in Jobs : job[k].status # "absent"}) < mode.bound
  /\ \E n \in 0..(IF Fault("duplicate") THEN 2 ELSE 1) :
       /\ job' = [job EXCEPT ![j].status = IF n > 0 THEN "queued" ELSE "failed"]
       /\ events' = [events EXCEPT ![j] = n]
  /\ UNCHANGED <<mode, age, spend, cost, settles, proc, crashes>>

LoseEvent(j) ==
  /\ Fault("lost") /\ events[j] > 0
  /\ events' = [events EXCEPT ![j] = @ - 1]
  /\ UNCHANGED <<mode, job, age, spend, cost, settles, proc, crashes>>

WorkersOf(j) == {w \in Workers : proc[w].job = j}

(* A worker ends in time unless it is slow: no call is made that could       *)
(* return after 220 seconds.                                                 *)
JobAges(j) ==
  /\ job[j].status \in Open
  /\ \/ age[j] = "young" /\ age' = [age EXCEPT ![j] = "late"]
     \/ /\ age[j] = "late" /\ age' = [age EXCEPT ![j] = "stale"]
        /\ WorkersOf(j) = {} \/ Fault("slow")
  /\ UNCHANGED <<mode, job, events, spend, cost, settles, proc, crashes>>

-----------------------------------------------------------------------------
(* _run_worker.                                                            *)

Set(i, rec)  == proc' = [proc EXCEPT ![i] = rec]
Goto(i, pc)  == Set(i, [proc[i] EXCEPT !.at = pc])
Fails(i)     == Set(i, [proc[i] EXCEPT !.at = "settle", !.ending = "failed",
                                       !.again = proc[i].at = "work"])
KeepsLedger  == UNCHANGED <<spend, settles, crashes>>

(* The event is delivered; a job that is over is left alone, one that is     *)
(* already too old is finalized like by a poll.                              *)
WorkerBegins(w, j) ==
  /\ Ready(w, "idle") /\ events[j] > 0
  /\ events' = [events EXCEPT ![j] = @ - 1]
  /\ IF job[j].status \in Open
     THEN Set(w, [Rest EXCEPT !.job = j, !.doc = job[j],
                    !.at = IF age[j] = "stale" THEN "settle" ELSE "start",
                    !.ending = IF age[j] = "stale" THEN "failed" ELSE "done"])
     ELSE UNCHANGED proc
  /\ UNCHANGED <<mode, job, age, cost>> /\ KeepsLedger

Started(doc) == [doc EXCEPT !.status = "running", !.started = TRUE]

WorkerStarts(w) ==
  /\ Ready(w, "start")
  /\ Put(w, Started(proc[w].doc))
  /\ age' = IF proc[w].doc.started THEN age ELSE [age EXCEPT ![proc[w].job] = "young"]
  /\ Set(w, [proc[w] EXCEPT !.at = "reserve", !.doc = Started(@)])
  /\ UNCHANGED <<mode, events, cost>> /\ KeepsLedger

WorkerTurnedOff(w) ==
  /\ Ready(w, "start") /\ Fault("error")
  /\ Put(w, [proc[w].doc EXCEPT !.status = "failed"])
  /\ Set(w, Rest)
  /\ UNCHANGED <<mode, age, events, cost>> /\ KeepsLedger

(* reserve_job: a job that has its estimate keeps it.                        *)
HasReserved(doc) == doc.settled \/ doc.reserved > 0

(* Mutant: an estimate is reserved above the cap. *)
ReserveUncapped(w) ==
  /\ Ready(w, "reserve")
  /\ IF HasReserved(proc[w].doc) THEN Goto(w, "work")
     ELSE IF proc[w].tries = Attempts THEN Fails(w)
     ELSE Set(w, [proc[w] EXCEPT !.at = "reserveCas", !.seen = spend, !.fresh = TRUE])
  /\ UNCHANGED <<mode, job, age, events, cost>> /\ KeepsLedger

ReserveReads(w) ==
  /\ Ready(w, "reserve")
  /\ IF HasReserved(proc[w].doc) THEN Goto(w, "work")
     ELSE IF spend + Estimate > mode.cap \/ proc[w].tries = Attempts THEN Fails(w)
     ELSE Set(w, [proc[w] EXCEPT !.at = "reserveCas", !.seen = spend, !.fresh = TRUE])
  /\ UNCHANGED <<mode, job, age, events, cost>> /\ KeepsLedger

(* _put_spend: written only if nobody has written since the read.            *)
Written(i, usd, rec) ==
  IF proc[i].fresh
  THEN /\ spend' = usd
       /\ proc' = [k \in Procs |-> IF k = i THEN rec ELSE [proc[k] EXCEPT !.fresh = FALSE]]
  ELSE UNCHANGED spend

(* Mutant: the ledger is written without the condition. *)
ReserveBlindly(w) ==
  /\ Ready(w, "reserveCas")
  /\ spend' = proc[w].seen + Estimate
  /\ proc' = [k \in Procs |-> IF k = w THEN [proc[k] EXCEPT !.at = "reserved", !.tries = 0]
                               ELSE [proc[k] EXCEPT !.fresh = FALSE]]
  /\ UNCHANGED <<mode, job, age, events, cost, settles, crashes>>

ReserveWrites(w) ==
  /\ Ready(w, "reserveCas")
  /\ Written(w, proc[w].seen + Estimate, [proc[w] EXCEPT !.at = "reserved", !.fresh = FALSE, !.tries = 0])
  /\ ~proc[w].fresh => Set(w, [proc[w] EXCEPT !.at = "reserve", !.tries = @ + 1])
  /\ UNCHANGED <<mode, job, age, events, cost, settles, crashes>>

ReservePersists(w) ==
  LET doc == [proc[w].doc EXCEPT !.reserved = Estimate, !.settled = FALSE] IN
  /\ Ready(w, "reserved")
  /\ Put(w, doc)
  /\ Set(w, [proc[w] EXCEPT !.at = "work", !.doc = doc])
  /\ UNCHANGED <<mode, age, events, cost>> /\ KeepsLedger

(* A model call, if there is time for it; its cost is added to the row.      *)
Calls(w) ==
  /\ Ready(w, "work")
  /\ proc[w].calls < MaxCalls
  /\ IF age[proc[w].job] # "young"
     THEN Fails(w) /\ UNCHANGED cost
     ELSE \E c \in Costs :
            /\ cost' = [cost EXCEPT ![proc[w].job] = @ + c]
            /\ Set(w, [proc[w] EXCEPT !.at = "book", !.calls = @ + 1, !.doc.actual = @ + c])
  /\ UNCHANGED <<mode, job, age, events>> /\ KeepsLedger

CallBooked(w) ==
  /\ Ready(w, "book")
  /\ Put(w, proc[w].doc)
  /\ Goto(w, "work")
  /\ UNCHANGED <<mode, age, events, cost>> /\ KeepsLedger

(* The runner returns or raises; either way its finally settles, and after   *)
(* an error _run_worker settles again.                                       *)
WorkEnds(w) ==
  /\ Ready(w, "work")
  /\ \/ Goto(w, "settle")
     \/ Fault("error") /\ Fails(w)
  /\ UNCHANGED <<mode, job, age, events, cost>> /\ KeepsLedger

-----------------------------------------------------------------------------
(* settle_job, of a worker and of a poll.                                  *)

Settled(rec) ==
  IF rec.ending = "done" THEN [rec EXCEPT !.at = "check"]
  ELSE IF rec.again THEN [rec EXCEPT !.at = "settle", !.again = FALSE]
  ELSE [rec EXCEPT !.at = "end"]

SettleReads(i) ==
  LET stored == job[proc[i].job]
      doc    == IF stored.settled THEN [proc[i].doc EXCEPT !.settled = TRUE]
                ELSE [proc[i].doc EXCEPT !.actual = stored.actual, !.reserved = stored.reserved]
  IN
  /\ Ready(i, "settle")
  /\ Set(i, IF doc.settled \/ (doc.reserved = 0 /\ doc.actual = 0)
            THEN Settled([proc[i] EXCEPT !.doc = doc])
            ELSE [proc[i] EXCEPT !.at = "adjust", !.doc = doc, !.tries = 0])
  /\ UNCHANGED <<mode, job, age, events, cost>> /\ KeepsLedger

(* adjust_spend gives up after its attempts and says nothing.                *)
AdjustReads(i) ==
  /\ Ready(i, "adjust")
  /\ Set(i, IF proc[i].tries = Attempts THEN [proc[i] EXCEPT !.at = "settled"]
            ELSE [proc[i] EXCEPT !.at = "adjustCas", !.seen = spend, !.fresh = TRUE])
  /\ UNCHANGED <<mode, job, age, events, cost>> /\ KeepsLedger

(* Mutant: the ledger is not kept from falling below zero. *)
AdjustedBelowZero(seen, doc) == seen + doc.actual - doc.reserved

Adjusted(seen, doc) == Max({0, seen + doc.actual - doc.reserved})

AdjustWrites(i) ==
  /\ Ready(i, "adjustCas")
  /\ Written(i, Adjusted(proc[i].seen, proc[i].doc), [proc[i] EXCEPT !.at = "settled", !.fresh = FALSE])
  /\ settles' = IF proc[i].fresh THEN [settles EXCEPT ![proc[i].job] = @ + 1] ELSE settles
  /\ ~proc[i].fresh => Set(i, [proc[i] EXCEPT !.at = "adjust", !.tries = @ + 1])
  /\ UNCHANGED <<mode, job, age, events, cost, crashes>>

(* Mutant: the row does not say that it is settled. *)
SettleForgotten(i) ==
  LET doc == proc[i].doc IN
  /\ Ready(i, "settled")
  /\ Put(i, doc)
  /\ Set(i, Settled([proc[i] EXCEPT !.doc = doc]))
  /\ UNCHANGED <<mode, age, events, cost>> /\ KeepsLedger

SettlePersists(i) ==
  LET doc == [proc[i].doc EXCEPT !.settled = TRUE] IN
  /\ Ready(i, "settled")
  /\ Put(i, doc)
  /\ Set(i, Settled([proc[i] EXCEPT !.doc = doc]))
  /\ UNCHANGED <<mode, age, events, cost>> /\ KeepsLedger

(* A worker that finds its job failed by a poll leaves it so.                *)
ChecksStatus(w) ==
  /\ Ready(w, "check")
  /\ IF job[proc[w].job].status = "failed" THEN Set(w, Rest) ELSE Goto(w, "end")
  /\ UNCHANGED <<mode, job, age, events, cost>> /\ KeepsLedger

Ends(i) ==
  /\ Ready(i, "end")
  /\ Put(i, [proc[i].doc EXCEPT !.status = proc[i].ending])
  /\ Set(i, Rest)
  /\ UNCHANGED <<mode, age, events, cost>> /\ KeepsLedger

(* Mutant: a job whose event was lost is not taken to be stale. *)
PollsRunning(q, j) ==
  /\ Ready(q, "idle")
  /\ job[j].status = "running" /\ age[j] = "stale"
  /\ (\A k \in Polls : proc[k].job # j) \/ Fault("polls")
  /\ Set(q, [Rest EXCEPT !.job = j, !.doc = job[j], !.at = "settle", !.ending = "failed"])
  /\ UNCHANGED <<mode, job, age, events, cost>> /\ KeepsLedger

(* The poll: finalize_stale.                                                 *)
Poll(q, j) ==
  /\ Ready(q, "idle")
  /\ job[j].status \in Open /\ age[j] = "stale"
  /\ (\A k \in Polls : proc[k].job # j) \/ Fault("polls")
  /\ Set(q, [Rest EXCEPT !.job = j, !.doc = job[j], !.at = "settle", !.ending = "failed"])
  /\ UNCHANGED <<mode, job, age, events, cost>> /\ KeepsLedger

Dies(i) ==
  /\ Fault("crash") /\ ~Ready(i, "idle") /\ crashes < MaxCrashes
  /\ crashes' = crashes + 1
  /\ Set(i, Rest)
  /\ UNCHANGED <<mode, job, age, events, spend, cost, settles>>

-----------------------------------------------------------------------------
WorkerStep(w) ==
  \/ WorkerStarts(w) \/ WorkerTurnedOff(w)
  \/ ReserveReads(w) \/ ReserveWrites(w) \/ ReservePersists(w)
  \/ Calls(w) \/ CallBooked(w) \/ WorkEnds(w)
  \/ ChecksStatus(w)

SettleStep(i) ==
  \/ SettleReads(i) \/ AdjustReads(i) \/ AdjustWrites(i) \/ SettlePersists(i)
  \/ Ends(i)

Next ==
  \/ \E j \in Jobs : Queue(j) \/ LoseEvent(j) \/ JobAges(j)
  \/ \E w \in Workers, j \in Jobs : WorkerBegins(w, j)
  \/ \E w \in Workers : WorkerStep(w)
  \/ \E i \in Procs : SettleStep(i) \/ Dies(i)
  \/ \E q \in Polls, j \in Jobs : Poll(q, j)

(* Finished invocations and the clock go on; the page polls until its job is *)
(* over.                                                                     *)
Fairness ==
  /\ \A j \in Jobs : WF_vars(JobAges(j))
  /\ \A w \in Workers : WF_vars(WorkerStep(w))
  /\ \A i \in Procs : WF_vars(SettleStep(i))
  /\ \A j \in Jobs : SF_vars(\E q \in Polls : Poll(q, j))

Spec == Init /\ [][Next]_vars
FairSpec == Spec /\ Fairness

-----------------------------------------------------------------------------
(* Properties                                                              *)

TypeOK ==
  /\ mode \in Modes
  /\ job \in [Jobs -> Row]
  /\ age \in [Jobs -> Ages]
  /\ events \in [Jobs -> 0..2]
  /\ crashes \in 0..MaxCrashes
  /\ spend \in Nat
  /\ cost \in [Jobs -> Nat]
  /\ settles \in [Jobs -> Nat]
  /\ \A i \in Procs : /\ proc[i].at \in Pcs
                      /\ proc[i].job \in Jobs \cup {None}
                      /\ proc[i].doc \in Row
                      /\ proc[i].tries \in 0..Attempts
                      /\ proc[i].calls \in 0..MaxCalls

Quiet == \A i \in Procs : Ready(i, "idle")

(* Nothing dies, runs twice or runs late: invocations may still overlap, be  *)
(* lost or fail.                                                             *)
InOrder == mode.faults \cap {"crash", "duplicate", "slow"} = {}

SumOver(f) == FoldSet(LAMBDA j, n : f[j] + n, 0, Jobs)

(* However the jobs' reads and writes of the ledger interleave, when nothing *)
(* is under way it holds what the settled jobs cost and the estimate of the  *)
(* others: no compare and swap is lost and no reservation leaks.  When all   *)
(* jobs are over that is what the model calls really cost, also those of the *)
(* jobs that failed half-way.                                                *)
Balanced ==
  InOrder /\ Quiet =>
    /\ spend = SumOver([j \in Jobs |-> IF job[j].settled THEN job[j].actual ELSE job[j].reserved])
    /\ (\A j \in Jobs : job[j].status \notin Open) => spend = SumOver(cost)

(* The month's cap is exceeded by no more than jobs cost above their         *)
(* estimate, whatever other jobs reserve or settle in between.               *)
CapHeld ==
  InOrder => spend <= mode.cap + SumOver([j \in Jobs |-> Max({0, cost[j] - Estimate})])

(* A job is settled at most once, by its worker's finally, its error handler *)
(* or a poll.                                                                *)
SettledOnce == InOrder => \A j \in Jobs : settles[j] <= 1

(* A job that is queued or runs comes to an end whatever is lost, dies, runs *)
(* twice or runs late: the page's poll sees to it.                           *)
EveryJobEnds == \A j \in Jobs : (job[j].status \in Open) ~> (job[j].status \notin Open)
=============================================================================

--------------------------- MODULE ResumeJobsProofs ---------------------------
(***************************************************************************)
(* Theorems about ResumeJobs for any number of jobs, workers and polls:    *)
(* its state keeps its shape in every environment, and where invocations   *)
(* neither die, run twice nor run late a job is settled at most once, the  *)
(* cap holds, and the ledger balances.                                     *)
(***************************************************************************)
EXTENDS ResumeJobs, FiniteSetTheorems, WellFoundedInduction, TLAPS

-----------------------------------------------------------------------------
(* What the state is made of.                                              *)

CasPcs == {"reserveCas", "adjustCas"}

Invocation == [at : Pcs, job : Jobs \cup {None}, doc : Row, seen : Nat, fresh : BOOLEAN,
               tries : 0..Attempts, calls : 0..MaxCalls, ending : {"done", "failed"},
               again : BOOLEAN]

(* An invocation works on a job unless it is idle, tries a write it has      *)
(* attempts left for, and wins it only from the ledger as it is.             *)
Sound(i) ==
  /\ proc[i].at = "idle" <=> proc[i].job = None
  /\ proc[i].at \in CasPcs => proc[i].tries < Attempts
  /\ proc[i].fresh => proc[i].seen = spend /\ proc[i].at \in CasPcs

Shapes ==
  /\ mode \in Modes
  /\ job \in [Jobs -> Row]
  /\ age \in [Jobs -> Ages]
  /\ events \in [Jobs -> 0..2]
  /\ crashes \in 0..MaxCrashes
  /\ spend \in Nat
  /\ cost \in [Jobs -> Nat]
  /\ settles \in [Jobs -> Nat]
  /\ proc \in [Procs -> Invocation]
  /\ \A i \in Procs : Sound(i)

(* What a step of one invocation leaves of the others: if it wrote the       *)
(* ledger, what they have read of it is not fresh any more.                  *)
Like(k) ==
  /\ proc'[k].at = proc[k].at /\ proc'[k].job = proc[k].job /\ proc'[k].doc = proc[k].doc
  /\ proc'[k].seen = proc[k].seen /\ proc'[k].tries = proc[k].tries
  /\ proc'[k].calls = proc[k].calls /\ proc'[k].ending = proc[k].ending
  /\ proc'[k].again = proc[k].again
  /\ proc'[k].fresh => proc[k].fresh /\ spend' = spend

Moves(i) ==
  /\ proc' \in [Procs -> Invocation]
  /\ \A k \in Procs \ {i} : Like(k)

LEMMA RowsAreTyped ==
  ASSUME NEW doc \in Row
  PROVE  /\ NoRow \in Row /\ Started(doc) \in Row
         /\ Started(doc).reserved = doc.reserved /\ Started(doc).actual = doc.actual
         /\ Started(doc).settled = doc.settled /\ Started(doc).status = "running"
BY DEF NoRow, Row, Started, Statuses

LEMMA RestIsTyped ==
  /\ Rest \in Invocation /\ Rest.at = "idle" /\ Rest.job = None /\ Rest.doc = NoRow
  /\ Rest.ending = "done" /\ ~Rest.again /\ ~Rest.fresh /\ Rest.calls = 0 /\ Rest.tries = 0
<1>1. NoRow \in Row
  BY DEF NoRow, Row, Statuses
<1>2. 0 \in 0..Attempts /\ 0 \in 0..MaxCalls
  BY ResumeAssumption
<1> QED
  BY <1>1, <1>2 DEF Rest, Invocation, Pcs

LEMMA SetMoves ==
  ASSUME Shapes, NEW i \in Procs, NEW rec \in Invocation, Set(i, rec), spend' = spend
  PROVE  Moves(i) /\ proc'[i] = rec
BY DEF Shapes, Set, Moves, Like

LEMMA WrittenMoves ==
  ASSUME Shapes, NEW i \in Procs, NEW usd, NEW rec \in Invocation, proc[i].fresh, Written(i, usd, rec)
  PROVE  Moves(i) /\ proc'[i] = rec /\ spend' = usd /\ \A k \in Procs \ {i} : ~proc'[k].fresh
<1>1. spend' = usd /\ proc' = [k \in Procs |-> IF k = i THEN rec ELSE [proc[k] EXCEPT !.fresh = FALSE]]
  BY DEF Written
<1>2. \A k \in Procs \ {i} : /\ proc'[k] = [proc[k] EXCEPT !.fresh = FALSE]
                             /\ proc[k] \in Invocation
  BY <1>1 DEF Shapes
<1>3. ASSUME NEW k \in Procs \ {i}
      PROVE  proc'[k] \in Invocation /\ Like(k) /\ ~proc'[k].fresh
  <2>1. proc'[k] = [proc[k] EXCEPT !.fresh = FALSE] /\ proc[k] \in Invocation
    BY <1>2
  <2> QED
    BY <2>1 DEF Invocation, Like
<1>4. proc'[i] = rec
  BY <1>1
<1>5. proc' = [k \in Procs |-> proc'[k]]
  BY <1>1
<1> QED
  BY <1>1, <1>3, <1>4, <1>5 DEF Moves

LEMMA ShapesKept ==
  ASSUME Shapes, NEW i \in Procs, Moves(i),
         mode' = mode, job' \in [Jobs -> Row], age' \in [Jobs -> Ages], events' \in [Jobs -> 0..2],
         crashes' \in 0..MaxCrashes, spend' \in Nat, cost' \in [Jobs -> Nat],
         settles' \in [Jobs -> Nat], Sound(i)'
  PROVE  Shapes'
<1>1. ASSUME NEW k \in Procs
      PROVE  Sound(k)'
  BY <1>1 DEF Shapes, Sound, Moves, Like
<1> QED
  BY <1>1 DEF Shapes, Moves

LEMMA MaxIs ==
  ASSUME NEW n \in Int
  PROVE  Max({0, n}) = IF n > 0 THEN n ELSE 0
BY DEF Max

-----------------------------------------------------------------------------
(* The state keeps its shape.                                              *)

SoundRec(rec, usd) ==
  /\ rec \in Invocation
  /\ rec.at = "idle" <=> rec.job = None
  /\ rec.at \in CasPcs => rec.tries < Attempts
  /\ rec.fresh => rec.seen = usd /\ rec.at \in CasPcs

Kept(i) == Shapes' /\ Moves(i) /\ mode' = mode

LEMMA ConstantsAre ==
  /\ Estimate \in Nat /\ MaxCalls \in Nat /\ MaxCrashes \in Nat /\ Attempts \in Nat /\ Attempts # 0
  /\ \A c \in Costs : c \in Nat
  /\ None \notin Jobs
BY ResumeAssumption

LEMMA SetKeeps ==
  ASSUME Shapes, NEW i \in Procs, NEW rec, SoundRec(rec, spend), Set(i, rec), KeepsLedger,
         mode' = mode, job' \in [Jobs -> Row], age' \in [Jobs -> Ages],
         events' \in [Jobs -> 0..2], cost' \in [Jobs -> Nat]
  PROVE  Kept(i) /\ proc'[i] = rec
<1>1. Moves(i) /\ proc'[i] = rec
  BY SetMoves DEF SoundRec, KeepsLedger
<1>2. Sound(i)'
  BY <1>1 DEF Sound, SoundRec, KeepsLedger
<1> QED
  BY <1>1, <1>2, ShapesKept DEF Kept, Shapes, KeepsLedger

(* What is known of an invocation that is not idle. *)
LEMMA Busy ==
  ASSUME Shapes, NEW i \in Procs
  PROVE  /\ proc[i] \in Invocation /\ SoundRec(proc[i], spend)
         /\ proc[i].at # "idle" => proc[i].job \in Jobs /\ job[proc[i].job] \in Row
         /\ proc[i].doc \in Row
BY DEF Shapes, Sound, SoundRec, Invocation

LEMMA GotoKeeps ==
  ASSUME Shapes, NEW i \in Procs, NEW pc \in Pcs \ (CasPcs \cup {"idle"}), Goto(i, pc), KeepsLedger,
         proc[i].at \notin CasPcs \cup {"idle"},
         mode' = mode, job' \in [Jobs -> Row], age' \in [Jobs -> Ages],
         events' \in [Jobs -> 0..2], cost' \in [Jobs -> Nat]
  PROVE  /\ Kept(i) /\ proc'[i].at = pc /\ proc'[i].job = proc[i].job /\ proc'[i].doc = proc[i].doc
         /\ proc'[i].ending = proc[i].ending /\ proc'[i].again = proc[i].again
         /\ proc'[i].fresh = proc[i].fresh
<1> DEFINE rec == [proc[i] EXCEPT !.at = pc]
<1>1. /\ rec \in Invocation /\ rec.at = pc /\ rec.job = proc[i].job /\ rec.doc = proc[i].doc
      /\ rec.ending = proc[i].ending /\ rec.again = proc[i].again /\ rec.fresh = proc[i].fresh
  BY Busy DEF Invocation
<1>2. SoundRec(rec, spend)
  BY <1>1, Busy DEF SoundRec
<1>3. Set(i, rec)
  BY DEF Goto
<1> QED
  BY <1>1, <1>2, <1>3, SetKeeps

LEMMA FailsKeeps ==
  ASSUME Shapes, NEW i \in Procs, Fails(i), KeepsLedger, proc[i].at \notin CasPcs \cup {"idle"},
         mode' = mode, job' \in [Jobs -> Row], age' \in [Jobs -> Ages],
         events' \in [Jobs -> 0..2], cost' \in [Jobs -> Nat]
  PROVE  /\ Kept(i) /\ proc'[i].at = "settle" /\ proc'[i].job = proc[i].job
         /\ proc'[i].doc = proc[i].doc /\ ~proc'[i].fresh
<1> DEFINE rec == [proc[i] EXCEPT !.at = "settle", !.ending = "failed", !.again = proc[i].at = "work"]
<1>1. /\ rec \in Invocation /\ rec.at = "settle" /\ rec.job = proc[i].job /\ rec.doc = proc[i].doc
      /\ rec.fresh = proc[i].fresh
  BY Busy DEF Invocation, Pcs
<1>2. SoundRec(rec, spend) /\ ~rec.fresh
  BY <1>1, Busy DEF SoundRec, CasPcs
<1>3. Set(i, rec)
  BY DEF Fails
<1> QED
  BY <1>1, <1>2, <1>3, SetKeeps

(* What a step of an invocation leaves alone: the other jobs, and of its own *)
(* job what is not named.                                                    *)
OthersSame(j) ==
  \A k \in Jobs \ {j} : /\ job'[k] = job[k] /\ age'[k] = age[k]
                        /\ settles'[k] = settles[k] /\ cost'[k] = cost[k]

LEMMA PutIs ==
  ASSUME Shapes, NEW i \in Procs, proc[i].at # "idle", NEW doc \in Row, Put(i, doc)
  PROVE  /\ job' \in [Jobs -> Row] /\ job'[proc[i].job] = doc
         /\ \A k \in Jobs \ {proc[i].job} : job'[k] = job[k]
<1>1. proc[i].job \in Jobs
  BY Busy
<1> QED
  BY <1>1 DEF Put, Shapes

LEMMA StartsDoes ==
  ASSUME Shapes, NEW w \in Workers, WorkerStarts(w)
  PROVE  /\ Kept(w) /\ OthersSame(proc[w].job)
         /\ proc'[w].at = "reserve" /\ proc'[w].job = proc[w].job
         /\ proc'[w].doc = Started(proc[w].doc) /\ ~proc'[w].fresh
         /\ job'[proc[w].job] = Started(proc[w].doc)
         /\ age'[proc[w].job] \in {"young", age[proc[w].job]}
<1> DEFINE rec == [proc[w] EXCEPT !.at = "reserve", !.doc = Started(@)]
<1>0. w \in Procs /\ proc[w].at = "start"
  BY DEF Procs, WorkerStarts, Ready
<1>1. Started(proc[w].doc) \in Row /\ proc[w].job \in Jobs
  BY <1>0, Busy, RowsAreTyped
<1>2. /\ rec \in Invocation /\ rec.at = "reserve" /\ rec.job = proc[w].job
      /\ rec.doc = Started(proc[w].doc) /\ rec.fresh = proc[w].fresh
  BY <1>0, <1>1, Busy DEF Invocation, Pcs
<1>3. SoundRec(rec, spend) /\ ~rec.fresh
  BY <1>0, <1>1, <1>2, Busy, ConstantsAre DEF SoundRec, CasPcs
<1>4. /\ job' \in [Jobs -> Row] /\ job'[proc[w].job] = Started(proc[w].doc)
      /\ \A k \in Jobs \ {proc[w].job} : job'[k] = job[k]
  BY <1>0, <1>1, PutIs DEF WorkerStarts
<1>5. /\ age' \in [Jobs -> Ages] /\ age'[proc[w].job] \in {"young", age[proc[w].job]}
      /\ \A k \in Jobs \ {proc[w].job} : age'[k] = age[k]
  BY <1>1 DEF WorkerStarts, Shapes, Ages
<1>6. Kept(w) /\ proc'[w] = rec
  BY <1>0, <1>3, <1>4, <1>5, SetKeeps DEF WorkerStarts, Shapes
<1> QED
  BY <1>2, <1>3, <1>4, <1>5, <1>6 DEF OthersSame, WorkerStarts, KeepsLedger

LEMMA TurnedOffDoes ==
  ASSUME Shapes, NEW w \in Workers, WorkerTurnedOff(w)
  PROVE  /\ Kept(w) /\ OthersSame(proc[w].job)
         /\ proc'[w] = Rest /\ UNCHANGED <<age, settles, cost>>
         /\ job'[proc[w].job] = [proc[w].doc EXCEPT !.status = "failed"]
<1>0. w \in Procs /\ proc[w].at = "start"
  BY DEF Procs, WorkerTurnedOff, Ready
<1>1. [proc[w].doc EXCEPT !.status = "failed"] \in Row /\ proc[w].job \in Jobs
  BY <1>0, Busy DEF Row, Statuses
<1>3. SoundRec(Rest, spend)
  BY RestIsTyped DEF SoundRec, CasPcs
<1>4. /\ job' \in [Jobs -> Row] /\ job'[proc[w].job] = [proc[w].doc EXCEPT !.status = "failed"]
      /\ \A k \in Jobs \ {proc[w].job} : job'[k] = job[k]
  BY <1>0, <1>1, PutIs DEF WorkerTurnedOff
<1>6. Kept(w) /\ proc'[w] = Rest
  BY <1>0, <1>3, <1>4, SetKeeps DEF WorkerTurnedOff, Shapes
<1> QED
  BY <1>4, <1>6 DEF OthersSame, WorkerTurnedOff, KeepsLedger

(* Where a read of the ledger leads. *)
LEMMA ReadKeeps ==
  ASSUME Shapes, NEW i \in Procs, NEW pc \in CasPcs, proc[i].at \notin CasPcs \cup {"idle"},
         proc[i].tries # Attempts,
         Set(i, [proc[i] EXCEPT !.at = pc, !.seen = spend, !.fresh = TRUE]), KeepsLedger,
         UNCHANGED <<mode, job, age, events, cost>>
  PROVE  /\ Kept(i) /\ proc'[i].at = pc /\ proc'[i].job = proc[i].job /\ proc'[i].doc = proc[i].doc
         /\ proc'[i].ending = proc[i].ending /\ proc'[i].again = proc[i].again
         /\ proc'[i].seen = spend
<1> DEFINE rec == [proc[i] EXCEPT !.at = pc, !.seen = spend, !.fresh = TRUE]
<1>1. /\ rec \in Invocation /\ rec.at = pc /\ rec.job = proc[i].job /\ rec.doc = proc[i].doc
      /\ rec.ending = proc[i].ending /\ rec.again = proc[i].again /\ rec.seen = spend
      /\ rec.tries = proc[i].tries
  BY Busy DEF Invocation, CasPcs, Pcs, Shapes
<1>2. proc[i].tries \in 0..Attempts
  BY Busy DEF Invocation
<1>3. SoundRec(rec, spend)
  BY <1>1, <1>2, Busy, ConstantsAre DEF SoundRec, CasPcs
<1> QED
  BY <1>1, <1>3, SetKeeps DEF Shapes

LEMMA ReserveReadsDoes ==
  ASSUME Shapes, NEW w \in Workers, ReserveReads(w)
  PROVE  /\ Kept(w) /\ UNCHANGED <<job, age, settles, cost, spend>>
         /\ proc'[w].job = proc[w].job /\ proc'[w].doc = proc[w].doc
         /\ \/ proc'[w].at = "work" /\ ~proc'[w].fresh /\ HasReserved(proc[w].doc)
            \/ proc'[w].at = "settle" /\ ~proc'[w].fresh
            \/ proc'[w].at = "reserveCas" /\ proc'[w].seen = spend /\ spend + Estimate <= mode.cap
<1>0. w \in Procs /\ proc[w].at = "reserve" /\ UNCHANGED <<mode, job, age, events, cost>> /\ KeepsLedger
  BY DEF Procs, ReserveReads, Ready
<1>1. proc[w].at \notin CasPcs \cup {"idle"} /\ ~proc[w].fresh
  BY <1>0, Busy DEF CasPcs, SoundRec
<1>2. UNCHANGED <<job, age, settles, cost, spend>>
  BY <1>0 DEF KeepsLedger
<1>3. CASE Goto(w, "work") /\ HasReserved(proc[w].doc)
  BY <1>0, <1>1, <1>2, <1>3, GotoKeeps DEF Shapes, Pcs, CasPcs
<1>4. CASE Fails(w)
  BY <1>0, <1>1, <1>2, <1>4, FailsKeeps DEF Shapes
<1>5. CASE /\ ~(spend + Estimate > mode.cap) /\ proc[w].tries # Attempts
           /\ Set(w, [proc[w] EXCEPT !.at = "reserveCas", !.seen = spend, !.fresh = TRUE])
  <2>1. spend + Estimate <= mode.cap
    BY <1>5, ConstantsAre, ResumeAssumption DEF Shapes, Mode
  <2> QED
    BY <1>0, <1>1, <1>2, <1>5, <2>1, ReadKeeps DEF CasPcs
<1> QED
  BY <1>3, <1>4, <1>5 DEF ReserveReads

(* A write of the ledger that somebody forestalled is tried again. *)
LEMMA RetryKeeps ==
  ASSUME Shapes, NEW i \in Procs, NEW pc \in Pcs \ (CasPcs \cup {"idle"}), proc[i].at \in CasPcs,
         ~proc[i].fresh, Set(i, [proc[i] EXCEPT !.at = pc, !.tries = @ + 1]),
         UNCHANGED <<mode, job, age, events, cost, spend, settles, crashes>>
  PROVE  /\ Kept(i) /\ proc'[i].at = pc /\ proc'[i].job = proc[i].job /\ proc'[i].doc = proc[i].doc
         /\ proc'[i].ending = proc[i].ending /\ proc'[i].again = proc[i].again /\ ~proc'[i].fresh
<1> DEFINE rec == [proc[i] EXCEPT !.at = pc, !.tries = @ + 1]
<1>0. proc[i].tries \in 0..Attempts /\ proc[i].tries < Attempts
  BY Busy DEF Invocation, SoundRec
<1>1. proc[i].tries + 1 \in 0..Attempts
  BY <1>0, ConstantsAre
<1>2. /\ rec \in Invocation /\ rec.at = pc /\ rec.job = proc[i].job /\ rec.doc = proc[i].doc
      /\ rec.ending = proc[i].ending /\ rec.again = proc[i].again /\ rec.fresh = proc[i].fresh
  BY <1>1, Busy DEF Invocation
<1>3. SoundRec(rec, spend)
  BY <1>2, Busy DEF SoundRec, CasPcs
<1> QED
  BY <1>2, <1>3, SetKeeps DEF Shapes, KeepsLedger

(* A write of the ledger that nobody forestalled. *)
LEMMA WrittenKeeps ==
  ASSUME Shapes, NEW i \in Procs, NEW usd \in Nat, NEW rec, SoundRec(rec, usd), proc[i].fresh,
         Written(i, usd, rec), UNCHANGED <<mode, job, age, events, cost, crashes>>,
         settles' \in [Jobs -> Nat]
  PROVE  /\ Kept(i) /\ proc'[i] = rec /\ spend' = usd
         /\ \A k \in Procs \ {i} : ~proc'[k].fresh
<1>1. /\ Moves(i) /\ proc'[i] = rec /\ spend' = usd
      /\ \A k \in Procs \ {i} : ~proc'[k].fresh
  BY WrittenMoves DEF SoundRec
<1>2. Sound(i)'
  BY <1>1 DEF Sound, SoundRec
<1> QED
  BY <1>1, <1>2, ShapesKept DEF Kept, Shapes

LEMMA ReserveWritesDoes ==
  ASSUME Shapes, NEW w \in Workers, ReserveWrites(w)
  PROVE  /\ Kept(w) /\ UNCHANGED <<job, age, settles, cost>>
         /\ proc'[w].job = proc[w].job /\ proc'[w].doc = proc[w].doc /\ ~proc'[w].fresh
         /\ \/ proc'[w].at = "reserve" /\ spend' = spend
            \/ proc'[w].at = "reserved" /\ proc[w].fresh /\ spend' = proc[w].seen + Estimate
         /\ spend' # spend => \A k \in Procs \ {w} : ~proc'[k].fresh
<1>0. /\ w \in Procs /\ proc[w].at = "reserveCas"
      /\ UNCHANGED <<mode, job, age, events, cost, settles, crashes>>
  BY DEF Procs, ReserveWrites, Ready
<1>1. CASE ~proc[w].fresh
  BY <1>0, <1>1, RetryKeeps DEF ReserveWrites, Written, Pcs, CasPcs
<1>2. CASE proc[w].fresh
  <2> DEFINE rec == [proc[w] EXCEPT !.at = "reserved", !.fresh = FALSE, !.tries = 0]
  <2>1. proc[w].seen \in Nat /\ proc[w].seen + Estimate \in Nat /\ 0 \in 0..Attempts
    BY <1>0, Busy, ConstantsAre DEF Invocation
  <2>2. /\ rec \in Invocation /\ rec.at = "reserved" /\ rec.job = proc[w].job
        /\ rec.doc = proc[w].doc /\ ~rec.fresh
    BY <1>0, <2>1, Busy DEF Invocation, Pcs
  <2>3. SoundRec(rec, proc[w].seen + Estimate)
    BY <1>0, <2>2, Busy DEF SoundRec, CasPcs
  <2>4. Written(w, proc[w].seen + Estimate, rec)
    BY DEF ReserveWrites
  <2>5. settles' \in [Jobs -> Nat]
    BY <1>0 DEF Shapes
  <2> QED
    BY <1>0, <1>2, <2>1, <2>2, <2>3, <2>4, <2>5, WrittenKeeps
<1> QED
  BY <1>1, <1>2

LEMMA PersistsDoes ==
  ASSUME Shapes, NEW w \in Workers, ReservePersists(w)
  PROVE  LET doc == [proc[w].doc EXCEPT !.reserved = Estimate, !.settled = FALSE] IN
         /\ Kept(w) /\ OthersSame(proc[w].job) /\ UNCHANGED <<age, settles, cost, spend>>
         /\ proc'[w].at = "work" /\ proc'[w].job = proc[w].job /\ proc'[w].doc = doc
         /\ ~proc'[w].fresh
         /\ job'[proc[w].job] = doc
<1> DEFINE doc == [proc[w].doc EXCEPT !.reserved = Estimate, !.settled = FALSE]
<1> DEFINE rec == [proc[w] EXCEPT !.at = "work", !.doc = doc]
<1>0. /\ w \in Procs /\ proc[w].at = "reserved" /\ Put(w, doc) /\ Set(w, rec)
      /\ UNCHANGED <<mode, age, events, cost>> /\ KeepsLedger
  BY DEF Procs, ReservePersists, Ready
<1>1. doc \in Row /\ proc[w].job \in Jobs
  BY <1>0, Busy, ConstantsAre DEF Row
<1> HIDE DEF doc
<1>2. /\ rec \in Invocation /\ rec.at = "work" /\ rec.job = proc[w].job
      /\ rec.doc = doc /\ rec.fresh = proc[w].fresh
  BY <1>0, <1>1, Busy DEF Invocation, Pcs
<1>3. SoundRec(rec, spend) /\ ~rec.fresh
  BY <1>0, <1>1, <1>2, Busy, ConstantsAre DEF SoundRec, CasPcs
<1>4. /\ job' \in [Jobs -> Row] /\ job'[proc[w].job] = doc
      /\ \A k \in Jobs \ {proc[w].job} : job'[k] = job[k]
  BY <1>0, <1>1, PutIs
<1> HIDE DEF rec
<1>5. Kept(w) /\ proc'[w] = rec
  BY <1>0, <1>3, <1>4, SetKeeps DEF Shapes
<1>6. OthersSame(proc[w].job) /\ UNCHANGED <<age, settles, cost, spend>>
  BY <1>0, <1>4 DEF OthersSame, KeepsLedger
<1> QED
  BY <1>2, <1>3, <1>4, <1>5, <1>6 DEF doc

LEMMA CallsDoes ==
  ASSUME Shapes, NEW w \in Workers, Calls(w)
  PROVE  /\ Kept(w) /\ OthersSame(proc[w].job) /\ UNCHANGED <<job, age, settles, spend>>
         /\ proc'[w].job = proc[w].job /\ ~proc'[w].fresh
         /\ \/ /\ proc'[w].at = "settle" /\ proc'[w].doc = proc[w].doc /\ cost' = cost
            \/ /\ proc'[w].at = "book"
               /\ \E c \in Nat : /\ cost'[proc[w].job] = cost[proc[w].job] + c
                                 /\ proc'[w].doc = [proc[w].doc EXCEPT !.actual = @ + c]
<1>0. /\ w \in Procs /\ proc[w].at = "work" /\ proc[w].calls < MaxCalls
      /\ UNCHANGED <<mode, job, age, events>> /\ KeepsLedger
  BY DEF Procs, Calls, Ready
<1>1. CASE Fails(w) /\ cost' = cost
  <2>1. Kept(w) /\ proc'[w].at = "settle" /\ proc'[w].job = proc[w].job
        /\ proc'[w].doc = proc[w].doc /\ ~proc'[w].fresh
    BY <1>0, <1>1, FailsKeeps DEF Shapes, CasPcs
  <2> QED
    BY <1>0, <1>1, <2>1 DEF OthersSame, KeepsLedger
<1>2. ASSUME NEW c \in Costs, cost' = [cost EXCEPT ![proc[w].job] = @ + c],
             Set(w, [proc[w] EXCEPT !.at = "book", !.calls = @ + 1, !.doc.actual = @ + c])
      PROVE  /\ Kept(w) /\ OthersSame(proc[w].job) /\ UNCHANGED <<job, age, settles, spend>>
             /\ proc'[w].job = proc[w].job /\ ~proc'[w].fresh /\ proc'[w].at = "book"
             /\ cost'[proc[w].job] = cost[proc[w].job] + c
             /\ proc'[w].doc = [proc[w].doc EXCEPT !.actual = @ + c]
  <2> DEFINE doc == [proc[w].doc EXCEPT !.actual = @ + c]
  <2> DEFINE rec == [proc[w] EXCEPT !.at = "book", !.calls = @ + 1, !.doc = doc]
  <2>1. proc[w].doc \in Row /\ c \in Nat /\ proc[w].calls + 1 \in 0..MaxCalls /\ proc[w].job \in Jobs
    BY <1>0, Busy, ConstantsAre DEF Invocation
  <2>2. doc \in Row
    BY <2>1 DEF Row
  <2>3. [proc[w] EXCEPT !.at = "book", !.calls = @ + 1, !.doc.actual = @ + c] = rec
    BY <1>0, Busy DEF Invocation
  <2> HIDE DEF doc
  <2>4. /\ rec \in Invocation /\ rec.at = "book" /\ rec.job = proc[w].job
        /\ rec.doc = doc /\ rec.fresh = proc[w].fresh
    BY <1>0, <2>1, <2>2, Busy DEF Invocation, Pcs
  <2>5. SoundRec(rec, spend) /\ ~rec.fresh
    BY <1>0, <2>1, <2>4, Busy, ConstantsAre DEF SoundRec, CasPcs
  <2>6. /\ cost' \in [Jobs -> Nat] /\ cost'[proc[w].job] = cost[proc[w].job] + c
        /\ \A k \in Jobs \ {proc[w].job} : cost'[k] = cost[k]
    BY <1>2, <2>1 DEF Shapes
  <2> HIDE DEF rec
  <2>7. Kept(w) /\ proc'[w] = rec
    BY <1>0, <1>2, <2>3, <2>5, <2>6, SetKeeps DEF Shapes
  <2>8. OthersSame(proc[w].job) /\ UNCHANGED <<job, age, settles, spend>>
    BY <1>0, <2>6 DEF OthersSame, KeepsLedger
  <2> QED
    BY <2>4, <2>5, <2>6, <2>7, <2>8 DEF doc
<1>3. \A c \in Costs : c \in Nat
  BY ConstantsAre
<1> QED
  BY <1>1, <1>2, <1>3 DEF Calls

LEMMA BookedDoes ==
  ASSUME Shapes, NEW w \in Workers, CallBooked(w)
  PROVE  /\ Kept(w) /\ OthersSame(proc[w].job) /\ UNCHANGED <<age, settles, cost, spend>>
         /\ proc[w].at = "book"
         /\ proc'[w].at = "work" /\ proc'[w].job = proc[w].job /\ proc'[w].doc = proc[w].doc
         /\ ~proc'[w].fresh
         /\ job'[proc[w].job] = proc[w].doc
<1>0. /\ w \in Procs /\ proc[w].at = "book" /\ Put(w, proc[w].doc) /\ Goto(w, "work")
      /\ UNCHANGED <<mode, age, events, cost>> /\ KeepsLedger
  BY DEF Procs, CallBooked, Ready
<1>1. /\ job' \in [Jobs -> Row] /\ job'[proc[w].job] = proc[w].doc
      /\ \A k \in Jobs \ {proc[w].job} : job'[k] = job[k]
  BY <1>0, Busy, PutIs
<1>2. ~proc[w].fresh
  BY <1>0, Busy DEF SoundRec, CasPcs
<1>3. /\ Kept(w) /\ proc'[w].at = "work" /\ proc'[w].job = proc[w].job /\ proc'[w].doc = proc[w].doc
      /\ ~proc'[w].fresh
  BY <1>0, <1>1, <1>2, GotoKeeps DEF Shapes, Pcs, CasPcs
<1> QED
  BY <1>0, <1>1, <1>3 DEF OthersSame, KeepsLedger

LEMMA WorkEndsDoes ==
  ASSUME Shapes, NEW w \in Workers, WorkEnds(w)
  PROVE  /\ Kept(w) /\ UNCHANGED <<job, age, settles, cost, spend>> /\ proc[w].at = "work"
         /\ proc'[w].at = "settle" /\ proc'[w].job = proc[w].job /\ proc'[w].doc = proc[w].doc
         /\ ~proc'[w].fresh
<1>0. /\ w \in Procs /\ proc[w].at = "work" /\ (Goto(w, "settle") \/ Fails(w))
      /\ UNCHANGED <<mode, job, age, events, cost>> /\ KeepsLedger
  BY DEF Procs, WorkEnds, Ready
<1>1. ~proc[w].fresh
  BY <1>0, Busy DEF SoundRec, CasPcs
<1>2. CASE Goto(w, "settle")
  BY <1>0, <1>1, <1>2, GotoKeeps DEF Shapes, Pcs, CasPcs, KeepsLedger
<1>3. CASE Fails(w)
  BY <1>0, <1>1, <1>3, FailsKeeps DEF Shapes, CasPcs, KeepsLedger
<1> QED
  BY <1>0, <1>2, <1>3

(* Where a settlement leads: to the check of a job that is done, to a second *)
(* settlement after an error, or to the end of a job that failed.            *)
Onward(i) ==
  /\ proc'[i].ending = proc[i].ending
  /\ \/ proc'[i].at = "check" /\ proc[i].ending = "done"
     \/ proc'[i].at = "settle" /\ proc[i].again /\ ~proc'[i].again
     \/ proc'[i].at = "end" /\ ~proc'[i].again

LEMMA SettledIs ==
  ASSUME Shapes, NEW i \in Procs, proc[i].at \notin CasPcs \cup {"idle"}, NEW doc \in Row
  PROVE  LET rec == Settled([proc[i] EXCEPT !.doc = doc]) IN
         /\ SoundRec(rec, spend) /\ rec.job = proc[i].job /\ rec.doc = doc /\ ~rec.fresh
         /\ rec.ending = proc[i].ending
         /\ \/ rec.at = "check" /\ proc[i].ending = "done"
            \/ rec.at = "settle" /\ proc[i].again /\ ~rec.again
            \/ rec.at = "end" /\ ~rec.again
<1> DEFINE r == [proc[i] EXCEPT !.doc = doc]
<1>1. /\ r \in Invocation /\ r.at = proc[i].at /\ r.job = proc[i].job /\ r.doc = doc
      /\ r.fresh = proc[i].fresh /\ r.ending = proc[i].ending /\ r.again = proc[i].again
  BY Busy DEF Invocation
<1>2. ~r.fresh /\ r.job # None
  BY <1>1, Busy DEF SoundRec
<1> HIDE DEF r
<1>3. CASE r.ending = "done"
  <2>1. Settled(r) = [r EXCEPT !.at = "check"]
    BY <1>3 DEF Settled
  <2> QED
    BY <1>1, <1>2, <1>3, <2>1 DEF SoundRec, Invocation, Pcs, CasPcs, r
<1>4. CASE r.ending # "done" /\ r.again
  <2>1. Settled(r) = [r EXCEPT !.at = "settle", !.again = FALSE]
    BY <1>4 DEF Settled
  <2> QED
    BY <1>1, <1>2, <1>4, <2>1 DEF SoundRec, Invocation, Pcs, CasPcs, r
<1>5. CASE r.ending # "done" /\ ~r.again
  <2>1. Settled(r) = [r EXCEPT !.at = "end"]
    BY <1>5 DEF Settled
  <2> QED
    BY <1>1, <1>2, <1>5, <2>1 DEF SoundRec, Invocation, Pcs, CasPcs, r
<1> QED
  BY <1>3, <1>4, <1>5

(* The copy a settlement works on. *)
Refreshed(i) ==
  LET stored == job[proc[i].job] IN
  IF stored.settled THEN [proc[i].doc EXCEPT !.settled = TRUE]
  ELSE [proc[i].doc EXCEPT !.actual = stored.actual, !.reserved = stored.reserved]

LEMMA RefreshedIs ==
  ASSUME Shapes, NEW i \in Procs, proc[i].at # "idle"
  PROVE  LET stored == job[proc[i].job] IN
         /\ Refreshed(i) \in Row
         /\ Refreshed(i).status = proc[i].doc.status
         /\ stored.settled => /\ Refreshed(i).settled
                              /\ Refreshed(i).actual = proc[i].doc.actual
                              /\ Refreshed(i).reserved = proc[i].doc.reserved
         /\ ~stored.settled => /\ Refreshed(i).settled = proc[i].doc.settled
                               /\ Refreshed(i).actual = stored.actual
                               /\ Refreshed(i).reserved = stored.reserved
BY Busy DEF Refreshed, Row

LEMMA SettleReadsDoes ==
  ASSUME Shapes, NEW i \in Procs, SettleReads(i)
  PROVE  /\ Kept(i) /\ UNCHANGED <<job, age, settles, cost, spend>>
         /\ proc[i].at = "settle" /\ proc'[i].job = proc[i].job /\ ~proc'[i].fresh
         /\ proc'[i].doc = Refreshed(i)
         /\ \/ Onward(i)
            \/ /\ proc'[i].at = "adjust" /\ proc'[i].ending = proc[i].ending
               /\ ~Refreshed(i).settled
               /\ ~(Refreshed(i).reserved = 0 /\ Refreshed(i).actual = 0)
<1> DEFINE doc == Refreshed(i)
<1>0. /\ proc[i].at = "settle"
      /\ UNCHANGED <<mode, job, age, events, cost>> /\ KeepsLedger
      /\ Set(i, IF doc.settled \/ (doc.reserved = 0 /\ doc.actual = 0)
                THEN Settled([proc[i] EXCEPT !.doc = doc])
                ELSE [proc[i] EXCEPT !.at = "adjust", !.doc = doc, !.tries = 0])
  BY DEF SettleReads, Ready, Refreshed
<1>1. doc \in Row
  BY <1>0, RefreshedIs
<1>2. UNCHANGED <<job, age, settles, cost, spend>>
  BY <1>0 DEF KeepsLedger
<1>3. proc[i].at \notin CasPcs \cup {"idle"} /\ ~proc[i].fresh
  BY <1>0, Busy DEF CasPcs, SoundRec
<1> HIDE DEF doc
<1>4. CASE doc.settled \/ (doc.reserved = 0 /\ doc.actual = 0)
  <2> DEFINE rec == Settled([proc[i] EXCEPT !.doc = doc])
  <2>1. /\ SoundRec(rec, spend) /\ rec.job = proc[i].job /\ rec.doc = doc /\ ~rec.fresh
        /\ rec.ending = proc[i].ending
        /\ \/ rec.at = "check" /\ proc[i].ending = "done"
           \/ rec.at = "settle" /\ proc[i].again /\ ~rec.again
           \/ rec.at = "end" /\ ~rec.again
    BY <1>1, <1>3, SettledIs
  <2>2. Set(i, rec)
    BY <1>0, <1>4
  <2> HIDE DEF rec
  <2>3. Kept(i) /\ proc'[i] = rec
    BY <1>0, <2>1, <2>2, SetKeeps DEF Shapes
  <2> QED
    BY <1>0, <1>2, <2>1, <2>3 DEF Onward, doc
<1>5. CASE ~(doc.settled \/ (doc.reserved = 0 /\ doc.actual = 0))
  <2> DEFINE rec == [proc[i] EXCEPT !.at = "adjust", !.doc = doc, !.tries = 0]
  <2>1. 0 \in 0..Attempts
    BY ConstantsAre
  <2>2. /\ rec \in Invocation /\ rec.at = "adjust" /\ rec.job = proc[i].job /\ rec.doc = doc
        /\ rec.fresh = proc[i].fresh /\ rec.ending = proc[i].ending
    BY <1>1, <2>1, Busy DEF Invocation, Pcs
  <2>3. SoundRec(rec, spend)
    BY <1>3, <2>2, Busy DEF SoundRec, CasPcs
  <2>4. Set(i, rec)
    BY <1>0, <1>5
  <2> HIDE DEF rec
  <2>5. Kept(i) /\ proc'[i] = rec
    BY <1>0, <2>3, <2>4, SetKeeps DEF Shapes
  <2> QED
    BY <1>0, <1>2, <1>3, <1>5, <2>2, <2>5 DEF doc
<1> QED
  BY <1>4, <1>5

LEMMA AdjustReadsDoes ==
  ASSUME Shapes, NEW i \in Procs, AdjustReads(i)
  PROVE  /\ Kept(i) /\ UNCHANGED <<job, age, settles, cost, spend>>
         /\ proc[i].at = "adjust" /\ proc'[i].job = proc[i].job /\ proc'[i].doc = proc[i].doc
         /\ proc'[i].at \in {"settled", "adjustCas"}
<1>0. /\ proc[i].at = "adjust" /\ UNCHANGED <<mode, job, age, events, cost>> /\ KeepsLedger
      /\ Set(i, IF proc[i].tries = Attempts THEN [proc[i] EXCEPT !.at = "settled"]
                ELSE [proc[i] EXCEPT !.at = "adjustCas", !.seen = spend, !.fresh = TRUE])
  BY DEF AdjustReads, Ready
<1>1. proc[i].at \notin CasPcs \cup {"idle"}
  BY <1>0 DEF CasPcs
<1>2. UNCHANGED <<job, age, settles, cost, spend>>
  BY <1>0 DEF KeepsLedger
<1>3. CASE proc[i].tries = Attempts
  <2>1. Goto(i, "settled")
    BY <1>0, <1>3 DEF Goto
  <2> QED
    BY <1>0, <1>1, <1>2, <2>1, GotoKeeps DEF Shapes, Pcs, CasPcs
<1>4. CASE proc[i].tries # Attempts
  <2>1. Set(i, [proc[i] EXCEPT !.at = "adjustCas", !.seen = spend, !.fresh = TRUE])
    BY <1>0, <1>4
  <2> QED
    BY <1>0, <1>1, <1>2, <1>4, <2>1, ReadKeeps DEF CasPcs
<1> QED
  BY <1>3, <1>4

LEMMA AdjustedIs ==
  ASSUME NEW seen \in Nat, NEW doc \in Row
  PROVE  /\ Adjusted(seen, doc) \in Nat
         /\ Adjusted(seen, doc) =
              IF seen + doc.actual - doc.reserved > 0 THEN seen + doc.actual - doc.reserved ELSE 0
<1>1. seen + doc.actual - doc.reserved \in Int
  BY DEF Row
<1> QED
  BY <1>1, MaxIs DEF Adjusted

LEMMA AdjustWritesDoes ==
  ASSUME Shapes, NEW i \in Procs, AdjustWrites(i)
  PROVE  /\ Kept(i) /\ OthersSame(proc[i].job) /\ UNCHANGED <<job, age, cost>>
         /\ proc[i].at = "adjustCas" /\ proc[i].job \in Jobs
         /\ proc'[i].job = proc[i].job /\ proc'[i].doc = proc[i].doc /\ ~proc'[i].fresh
         /\ \/ proc'[i].at = "adjust" /\ spend' = spend /\ settles' = settles
            \/ /\ proc'[i].at = "settled" /\ proc[i].fresh
               /\ spend' = Adjusted(spend, proc[i].doc)
               /\ settles' = [settles EXCEPT ![proc[i].job] = @ + 1]
               /\ \A k \in Procs \ {i} : ~proc'[k].fresh
<1>0. /\ proc[i].at = "adjustCas" /\ UNCHANGED <<mode, job, age, events, cost, crashes>>
      /\ settles' = IF proc[i].fresh THEN [settles EXCEPT ![proc[i].job] = @ + 1] ELSE settles
  BY DEF AdjustWrites, Ready
<1>1. proc[i].job \in Jobs
  BY <1>0, Busy
<1>2. settles' \in [Jobs -> Nat] /\ \A k \in Jobs \ {proc[i].job} : settles'[k] = settles[k]
  BY <1>0, <1>1 DEF Shapes
<1>3. OthersSame(proc[i].job)
  BY <1>0, <1>2 DEF OthersSame
<1>4. CASE ~proc[i].fresh
  <2>1. Set(i, [proc[i] EXCEPT !.at = "adjust", !.tries = @ + 1]) /\ spend' = spend
    BY <1>4 DEF AdjustWrites, Written
  <2> QED
    BY <1>0, <1>1, <1>3, <1>4, <2>1, RetryKeeps DEF Pcs, CasPcs
<1>5. CASE proc[i].fresh
  <2> DEFINE rec == [proc[i] EXCEPT !.at = "settled", !.fresh = FALSE]
             usd == Adjusted(proc[i].seen, proc[i].doc)
  <2>1. proc[i].seen = spend /\ spend \in Nat /\ usd \in Nat
    BY <1>0, <1>5, Busy, AdjustedIs DEF SoundRec, Shapes
  <2>2. /\ rec \in Invocation /\ rec.at = "settled" /\ rec.job = proc[i].job
        /\ rec.doc = proc[i].doc /\ ~rec.fresh
    BY Busy DEF Invocation, Pcs
  <2>3. SoundRec(rec, usd)
    BY <1>0, <2>2, Busy DEF SoundRec, CasPcs
  <2>4. Written(i, usd, rec)
    BY DEF AdjustWrites
  <2> HIDE DEF rec, usd
  <2>5. /\ Kept(i) /\ proc'[i] = rec /\ spend' = usd
        /\ \A k \in Procs \ {i} : ~proc'[k].fresh
    BY <1>0, <1>2, <1>5, <2>1, <2>3, <2>4, WrittenKeeps
  <2> QED
    BY <1>0, <1>1, <1>3, <1>5, <2>1, <2>2, <2>5 DEF usd
<1> QED
  BY <1>4, <1>5

LEMMA SettlePersistsDoes ==
  ASSUME Shapes, NEW i \in Procs, SettlePersists(i)
  PROVE  LET doc == [proc[i].doc EXCEPT !.settled = TRUE] IN
         /\ Kept(i) /\ OthersSame(proc[i].job) /\ UNCHANGED <<age, settles, cost, spend>>
         /\ proc[i].at = "settled" /\ proc'[i].job = proc[i].job /\ ~proc'[i].fresh
         /\ proc'[i].doc = doc /\ job'[proc[i].job] = doc
         /\ Onward(i)
<1> DEFINE doc == [proc[i].doc EXCEPT !.settled = TRUE]
           rec == Settled([proc[i] EXCEPT !.doc = doc])
<1>0. /\ proc[i].at = "settled" /\ Put(i, doc) /\ Set(i, rec)
      /\ UNCHANGED <<mode, age, events, cost>> /\ KeepsLedger
  BY DEF SettlePersists, Ready
<1>1. doc \in Row
  BY Busy DEF Row
<1> HIDE DEF doc
<1>2. /\ job' \in [Jobs -> Row] /\ job'[proc[i].job] = doc
      /\ \A k \in Jobs \ {proc[i].job} : job'[k] = job[k]
  BY <1>0, <1>1, PutIs
<1>3. proc[i].at \notin CasPcs \cup {"idle"}
  BY <1>0 DEF CasPcs
<1>4. /\ SoundRec(rec, spend) /\ rec.job = proc[i].job /\ rec.doc = doc /\ ~rec.fresh
      /\ rec.ending = proc[i].ending
      /\ \/ rec.at = "check" /\ proc[i].ending = "done"
         \/ rec.at = "settle" /\ proc[i].again /\ ~rec.again
         \/ rec.at = "end" /\ ~rec.again
  BY <1>1, <1>3, SettledIs
<1> HIDE DEF rec
<1>5. Kept(i) /\ proc'[i] = rec
  BY <1>0, <1>2, <1>4, SetKeeps DEF Shapes
<1>6. OthersSame(proc[i].job) /\ UNCHANGED <<age, settles, cost, spend>>
  BY <1>0, <1>2 DEF OthersSame, KeepsLedger
<1> QED
  BY <1>0, <1>2, <1>4, <1>5, <1>6 DEF Onward, doc

LEMMA RestKeeps ==
  ASSUME Shapes, NEW i \in Procs, Set(i, Rest), UNCHANGED <<mode, spend, settles>>,
         job' \in [Jobs -> Row], age' = age, events' = events, cost' = cost, crashes' \in 0..MaxCrashes
  PROVE  Kept(i) /\ proc'[i] = Rest
<1>1. Moves(i) /\ proc'[i] = Rest
  BY RestIsTyped, SetMoves
<1>2. Sound(i)'
  BY <1>1, RestIsTyped DEF Sound, CasPcs
<1> QED
  BY <1>1, <1>2, ShapesKept DEF Kept, Shapes

LEMMA ChecksDoes ==
  ASSUME Shapes, NEW w \in Workers, ChecksStatus(w)
  PROVE  /\ Kept(w) /\ UNCHANGED <<job, age, settles, cost, spend>> /\ proc[w].at = "check"
         /\ \/ proc'[w] = Rest /\ job[proc[w].job].status = "failed"
            \/ /\ proc'[w].at = "end" /\ proc'[w].job = proc[w].job /\ proc'[w].doc = proc[w].doc
               /\ ~proc'[w].fresh
<1>0. /\ w \in Procs /\ proc[w].at = "check" /\ UNCHANGED <<mode, job, age, events, cost>>
      /\ KeepsLedger
  BY DEF Procs, ChecksStatus, Ready
<1>1. ~proc[w].fresh
  BY <1>0, Busy DEF SoundRec, CasPcs
<1>2. CASE job[proc[w].job].status = "failed" /\ Set(w, Rest)
  BY <1>0, <1>2, RestKeeps DEF Shapes, KeepsLedger
<1>3. CASE Goto(w, "end")
  BY <1>0, <1>1, <1>3, GotoKeeps DEF Shapes, Pcs, CasPcs, KeepsLedger
<1> QED
  BY <1>2, <1>3 DEF ChecksStatus

LEMMA EndsDoes ==
  ASSUME Shapes, NEW i \in Procs, Ends(i)
  PROVE  /\ Kept(i) /\ OthersSame(proc[i].job) /\ UNCHANGED <<age, settles, cost, spend>>
         /\ proc[i].at = "end" /\ proc'[i] = Rest
         /\ job'[proc[i].job] = [proc[i].doc EXCEPT !.status = proc[i].ending]
<1> DEFINE doc == [proc[i].doc EXCEPT !.status = proc[i].ending]
<1>0. /\ proc[i].at = "end" /\ Put(i, doc) /\ Set(i, Rest)
      /\ UNCHANGED <<mode, age, events, cost>> /\ KeepsLedger
  BY DEF Ends, Ready
<1>1. doc \in Row
  <2>1. proc[i].doc \in Row /\ proc[i].ending \in Statuses
    BY Busy DEF Invocation, Statuses
  <2> QED
    BY <2>1 DEF Row
<1> HIDE DEF doc
<1>2. /\ job' \in [Jobs -> Row] /\ job'[proc[i].job] = doc
      /\ \A k \in Jobs \ {proc[i].job} : job'[k] = job[k]
  BY <1>0, <1>1, PutIs
<1>3. Kept(i) /\ proc'[i] = Rest
  BY <1>0, <1>2, RestKeeps DEF Shapes, KeepsLedger
<1> QED
  BY <1>0, <1>2, <1>3 DEF OthersSame, KeepsLedger, doc

LEMMA DiesDoes ==
  ASSUME Shapes, NEW i \in Procs, Dies(i)
  PROVE  Kept(i) /\ Fault("crash")
<1>1. crashes' \in 0..MaxCrashes
  BY ConstantsAre DEF Dies, Shapes
<1> QED
  BY <1>1, RestKeeps DEF Dies, Shapes

(* An invocation takes up a job: it holds a copy of the row. *)
TakesUp(i, j) ==
  /\ proc'[i].job = j /\ proc'[i].doc = job[j] /\ ~proc'[i].again /\ ~proc'[i].fresh
  /\ \/ proc'[i].at = "start" /\ age[j] # "stale"
     \/ proc'[i].at = "settle" /\ age[j] = "stale" /\ proc'[i].ending = "failed"

LEMMA TakenUp ==
  ASSUME Shapes, NEW i \in Procs, NEW j \in Jobs, NEW pc \in {"start", "settle"},
         NEW ending \in {"done", "failed"},
         Set(i, [Rest EXCEPT !.job = j, !.doc = job[j], !.at = pc, !.ending = ending]), KeepsLedger,
         UNCHANGED <<mode, job, age, cost>>, events' \in [Jobs -> 0..2]
  PROVE  /\ Kept(i) /\ proc'[i].job = j /\ proc'[i].doc = job[j] /\ ~proc'[i].again
         /\ ~proc'[i].fresh /\ proc'[i].at = pc /\ proc'[i].ending = ending
<1> DEFINE rec == [Rest EXCEPT !.job = j, !.doc = job[j], !.at = pc, !.ending = ending]
<1>0. job[j] \in Row
  BY DEF Shapes
<1>1. /\ rec \in Invocation /\ rec.at = pc /\ rec.job = j /\ rec.doc = job[j] /\ ~rec.fresh
      /\ ~rec.again /\ rec.ending = ending
  BY <1>0, RestIsTyped DEF Invocation, Pcs
<1>2. SoundRec(rec, spend)
  BY <1>1, ConstantsAre DEF SoundRec, CasPcs
<1>3. Set(i, rec)
  OBVIOUS
<1> HIDE DEF rec
<1>4. Kept(i) /\ proc'[i] = rec
  BY <1>2, <1>3, SetKeeps DEF Shapes
<1> QED
  BY <1>1, <1>4

LEMMA BeginsDoes ==
  ASSUME Shapes, NEW w \in Workers, NEW j \in Jobs, WorkerBegins(w, j)
  PROVE  /\ Kept(w) /\ UNCHANGED <<job, age, settles, cost, spend>>
         /\ proc[w].at = "idle" /\ events[j] > 0 /\ events' = [events EXCEPT ![j] = @ - 1]
         /\ \/ proc' = proc
            \/ job[j].status \in Open /\ TakesUp(w, j)
<1>0. /\ w \in Procs /\ proc[w].at = "idle" /\ events[j] > 0
      /\ events' = [events EXCEPT ![j] = @ - 1]
      /\ UNCHANGED <<mode, job, age, cost>> /\ KeepsLedger
  BY DEF Procs, WorkerBegins, Ready
<1>1. events[j] \in 0..2
  BY DEF Shapes
<1>2. events[j] - 1 \in 0..2
  BY <1>0, <1>1
<1>3. events' \in [Jobs -> 0..2]
  BY <1>0, <1>2 DEF Shapes
<1>4. CASE job[j].status \in Open
  <2>1. CASE age[j] = "stale"
    <3>1. Set(w, [Rest EXCEPT !.job = j, !.doc = job[j], !.at = "settle", !.ending = "failed"])
      BY <1>4, <2>1 DEF WorkerBegins
    <3> QED
      BY <1>0, <1>3, <1>4, <2>1, <3>1, TakenUp DEF TakesUp, KeepsLedger
  <2>2. CASE age[j] # "stale"
    <3>1. Set(w, [Rest EXCEPT !.job = j, !.doc = job[j], !.at = "start", !.ending = "done"])
      BY <1>4, <2>2 DEF WorkerBegins
    <3> QED
      BY <1>0, <1>3, <1>4, <2>2, <3>1, TakenUp DEF TakesUp, KeepsLedger
  <2> QED
    BY <2>1, <2>2
<1>5. CASE job[j].status \notin Open
  <2>1. proc' = proc
    BY <1>5 DEF WorkerBegins
  <2>2. Moves(w) /\ Sound(w)'
    BY <1>0, <2>1 DEF Moves, Like, Sound, Shapes, KeepsLedger
  <2> QED
    BY <1>0, <1>3, <2>1, <2>2, ShapesKept DEF Kept, Shapes, KeepsLedger
<1> QED
  BY <1>4, <1>5

LEMMA PollDoes ==
  ASSUME Shapes, NEW q \in Polls, NEW j \in Jobs, Poll(q, j)
  PROVE  /\ Kept(q) /\ UNCHANGED <<job, age, events, settles, cost, spend>>
         /\ proc[q].at = "idle" /\ job[j].status \in Open /\ TakesUp(q, j)
<1>0. /\ q \in Procs /\ proc[q].at = "idle" /\ job[j].status \in Open /\ age[j] = "stale"
      /\ Set(q, [Rest EXCEPT !.job = j, !.doc = job[j], !.at = "settle", !.ending = "failed"])
      /\ UNCHANGED <<mode, job, age, events, cost>> /\ KeepsLedger
  BY DEF Procs, Poll, Ready
<1>1. events' \in [Jobs -> 0..2]
  BY <1>0 DEF Shapes
<1> QED
  BY <1>0, <1>1, TakenUp DEF TakesUp, KeepsLedger

(* The request and the clock touch no invocation and no money. *)
Quietly == UNCHANGED <<mode, proc, spend, cost, settles, crashes>>

LEMMA QuietKeeps ==
  ASSUME Shapes, Quietly, job' \in [Jobs -> Row], age' \in [Jobs -> Ages], events' \in [Jobs -> 0..2]
  PROVE  Shapes'
BY DEF Shapes, Quietly, Sound

LEMMA QueueDoes ==
  ASSUME Shapes, NEW j \in Jobs, Queue(j)
  PROVE  /\ Shapes' /\ Quietly /\ age' = age /\ job[j].status = "absent"
         /\ \E n \in 0..(IF Fault("duplicate") THEN 2 ELSE 1) :
              /\ job' = [job EXCEPT ![j].status = IF n > 0 THEN "queued" ELSE "failed"]
              /\ events' = [events EXCEPT ![j] = n]
<1>1. PICK n \in 0..(IF Fault("duplicate") THEN 2 ELSE 1) :
        /\ job' = [job EXCEPT ![j].status = IF n > 0 THEN "queued" ELSE "failed"]
        /\ events' = [events EXCEPT ![j] = n]
  BY DEF Queue
<1>2. n \in 0..2
  OBVIOUS
<1>3. events' \in [Jobs -> 0..2]
  BY <1>1, <1>2 DEF Shapes
<1>4. job' \in [Jobs -> Row]
  BY <1>1 DEF Shapes, Row, Statuses
<1>5. Quietly /\ age' = age /\ job[j].status = "absent"
  BY DEF Queue, Quietly
<1> QED
  BY <1>1, <1>3, <1>4, <1>5, QuietKeeps DEF Shapes

LEMMA LoseDoes ==
  ASSUME Shapes, NEW j \in Jobs, LoseEvent(j)
  PROVE  /\ Shapes' /\ Quietly /\ UNCHANGED <<job, age>>
         /\ events[j] > 0 /\ events' = [events EXCEPT ![j] = @ - 1]
<1>0. /\ Quietly /\ UNCHANGED <<job, age>> /\ events[j] > 0
      /\ events' = [events EXCEPT ![j] = @ - 1] /\ events[j] \in 0..2
  BY DEF LoseEvent, Quietly, Shapes
<1>1. events[j] - 1 \in 0..2
  BY <1>0
<1>2. events' \in [Jobs -> 0..2]
  BY <1>0, <1>1 DEF Shapes
<1> QED
  BY <1>0, <1>2, QuietKeeps DEF Shapes

LEMMA AgesDoes ==
  ASSUME Shapes, NEW j \in Jobs, JobAges(j)
  PROVE  /\ Shapes' /\ Quietly /\ UNCHANGED <<job, events>> /\ job[j].status \in Open
         /\ \/ age[j] = "young" /\ age' = [age EXCEPT ![j] = "late"]
            \/ /\ age[j] = "late" /\ age' = [age EXCEPT ![j] = "stale"]
               /\ WorkersOf(j) = {} \/ Fault("slow")
<1>1. age' \in [Jobs -> Ages]
  BY DEF JobAges, Shapes, Ages
<1> QED
  BY <1>1, QuietKeeps DEF JobAges, Quietly, Shapes

LEMMA InitShapes == Init => Shapes
<1> SUFFICES ASSUME Init PROVE Shapes
  OBVIOUS
<1>1. NoRow \in Row /\ "young" \in Ages /\ 0 \in 0..2 /\ 0 \in 0..MaxCrashes
  BY ConstantsAre DEF NoRow, Row, Statuses, Ages
<1>2. proc \in [Procs -> Invocation] /\ \A i \in Procs : Sound(i)
  BY RestIsTyped DEF Init, Sound, CasPcs
<1> QED
  BY <1>1, <1>2 DEF Init, Shapes

LEMMA NextShapes == Shapes /\ [Next]_vars => Shapes'
<1> SUFFICES ASSUME Shapes, [Next]_vars PROVE Shapes'
  OBVIOUS
<1>1. CASE UNCHANGED vars
  BY <1>1 DEF vars, Shapes, Sound
<1>2. CASE \E j \in Jobs : Queue(j) \/ LoseEvent(j) \/ JobAges(j)
  BY <1>2, QueueDoes, LoseDoes, AgesDoes
<1>3. CASE \E w \in Workers, j \in Jobs : WorkerBegins(w, j)
  BY <1>3, BeginsDoes DEF Kept
<1>4. ASSUME NEW w \in Workers, WorkerStep(w)
      PROVE  Shapes'
  BY <1>4, StartsDoes, TurnedOffDoes, ReserveReadsDoes, ReserveWritesDoes, PersistsDoes, CallsDoes,
     BookedDoes, WorkEndsDoes, ChecksDoes DEF WorkerStep, Kept
<1>5. ASSUME NEW i \in Procs, SettleStep(i) \/ Dies(i)
      PROVE  Shapes'
  BY <1>5, SettleReadsDoes, AdjustReadsDoes, AdjustWritesDoes, SettlePersistsDoes, EndsDoes, DiesDoes
     DEF SettleStep, Kept
<1>6. CASE \E q \in Polls, j \in Jobs : Poll(q, j)
  BY <1>6, PollDoes DEF Kept
<1> QED
  BY <1>1, <1>2, <1>3, <1>4, <1>5, <1>6 DEF Next

(* Rows, ledger and invocations keep their shape whatever dies, is lost,     *)
(* runs twice or runs late: the ledger never falls below zero, and no        *)
(* invocation attempts a write more often than it may.                       *)
THEOREM Typed == Spec => []TypeOK
<1>1. Shapes => TypeOK
  BY DEF Shapes, TypeOK, Invocation
<1> QED
  BY <1>1, InitShapes, NextShapes, PTL DEF Spec

-----------------------------------------------------------------------------
(* Settled once, where no invocation dies, runs twice or runs late.          *)

Untouched(j) == /\ job[j].reserved = 0 /\ job[j].actual = 0 /\ ~job[j].settled
                /\ settles[j] = 0

(* A job's event is delivered to one worker. *)
Delivered(j) ==
  /\ job[j].status = "absent" => events[j] = 0 /\ (\A i \in Procs : proc[i].job # j)
  /\ events[j] <= 1
  /\ events[j] > 0 => \A w \in Workers : proc[w].job # j
  /\ \A v, w \in Workers : proc[v].job = j /\ proc[w].job = j => v = w

(* A job no worker has is untouched until it is over, and so is a stale one, *)
(* which invocations only end; any other job is left to its worker.          *)
Unbegun(j) ==
  /\ job[j].status \in Open \cup {"absent"} /\ (\A w \in Workers : proc[w].job # j) => Untouched(j)
  /\ age[j] = "stale" => Untouched(j)
  /\ age[j] # "stale" => \A q \in Polls : proc[q].job # j

Finalizes(i) ==
  /\ proc[i].at \in {"settle", "end"} /\ proc[i].ending = "failed" /\ ~proc[i].again
  /\ proc[i].doc.reserved = 0 /\ proc[i].doc.actual = 0 /\ ~proc[i].doc.settled

BeforeSettled ==
  {"start", "reserve", "reserveCas", "reserved", "work", "book", "adjust", "adjustCas"}

(* A settlement that is tried again finds the row settled. *)
Works(w) ==
  LET j == proc[w].job IN
  /\ proc[w].at \in BeforeSettled => settles[j] = 0
  /\ proc[w].at = "settle" => settles[j] = 0 \/ job[j].settled

Does(i) ==
  proc[i].job \in Jobs =>
    /\ proc[i].doc.status # "absent"
    /\ age[proc[i].job] = "stale" => Finalizes(i)
    /\ age[proc[i].job] # "stale" => Works(i)

SettleInv ==
  /\ \A j \in Jobs : Delivered(j) /\ Unbegun(j) /\ settles[j] <= 1
  /\ \A i \in Procs : Does(i)

(* A step of the invocation i on its job j keeps all this if it does for j   *)
(* and i.                                                                    *)
LEMMA SettleKept ==
  ASSUME Shapes, Shapes', SettleInv, NEW i \in Procs, Moves(i), NEW j \in Jobs,
         proc[i].job = j, proc'[i].job \in {j, None}, OthersSame(j), events' = events,
         age'[j] = "stale" <=> age[j] = "stale",
         job'[j].status # "absent",
         age[j] = "stale" => Untouched(j)',
         settles'[j] <= 1,
         proc'[i].job = None => age[j] = "stale" \/ job'[j].status \notin Open,
         proc'[i].job = j => Does(i)'
  PROVE  SettleInv'
<1>0. None \notin Jobs
  BY ConstantsAre
<1>1. \A k \in Procs \ {i} : Like(k)
  BY DEF Moves
<1>2. ASSUME NEW k \in Jobs
      PROVE  Delivered(k)'
  <2>1. \A p \in Procs : proc'[p].job = k => proc[p].job = k
    BY <1>0, <1>1 DEF Like
  <2>2. CASE k = j
    BY <2>1, <2>2 DEF SettleInv, Delivered, Procs
  <2>3. CASE k # j
    <3>1. job'[k] = job[k] /\ events'[k] = events[k]
      BY <2>3 DEF OthersSame
    <3> QED
      BY <2>1, <3>1 DEF SettleInv, Delivered, Procs
  <2> QED
    BY <2>2, <2>3
<1>3. ASSUME NEW k \in Jobs
      PROVE  Unbegun(k)'
  <2>1. Unbegun(k) /\ Delivered(k)
    BY DEF SettleInv
  <2>2. \A p \in Procs : proc'[p].job = k => proc[p].job = k
    BY <1>0, <1>1 DEF Like
  <2>3. CASE k # j
    <3>1. /\ job'[k] = job[k] /\ age'[k] = age[k] /\ settles'[k] = settles[k]
          /\ \A p \in Procs : proc'[p].job = k <=> proc[p].job = k
      BY <1>0, <1>1, <2>3 DEF OthersSame, Like
    <3> QED
      BY <2>1, <3>1 DEF Unbegun, Untouched, Procs
  <2>4. CASE k = j /\ age[j] = "stale"
    BY <2>4 DEF Unbegun
  <2>5. CASE k = j /\ age[j] # "stale"
    <3>1. \A q \in Polls : proc'[q].job # j
      BY <2>1, <2>2, <2>5 DEF Unbegun, Procs
    <3>2. i \in Workers
      BY <2>1, <2>5 DEF Unbegun, Procs
    <3> QED
      BY <2>5, <3>1, <3>2 DEF Unbegun
  <2> QED
    BY <2>3, <2>4, <2>5
<1>4. ASSUME NEW k \in Jobs
      PROVE  settles'[k] <= 1
  BY DEF SettleInv, OthersSame
<1>5. ASSUME NEW k \in Procs, proc'[k].job \in Jobs
      PROVE  Does(k)'
  <2>1. CASE k = i
    BY <1>0, <1>5, <2>1
  <2>2. CASE k # i /\ proc[k].job # j
    <3> DEFINE h == proc[k].job
    <3>1. /\ proc'[k].at = proc[k].at /\ proc'[k].job = h /\ proc'[k].doc = proc[k].doc
          /\ proc'[k].ending = proc[k].ending /\ proc'[k].again = proc[k].again
      BY <1>1, <2>2 DEF Like
    <3>2. job'[h] = job[h] /\ age'[h] = age[h] /\ settles'[h] = settles[h]
      BY <1>5, <2>2, <3>1 DEF OthersSame
    <3>3. Does(k)
      BY DEF SettleInv
    <3> QED
      BY <1>5, <3>1, <3>2, <3>3 DEF Does, Finalizes, Works
  <2>3. CASE k # i /\ proc[k].job = j
    <3>1. /\ proc'[k].at = proc[k].at /\ proc'[k].job = j /\ proc'[k].doc = proc[k].doc
          /\ proc'[k].ending = proc[k].ending /\ proc'[k].again = proc[k].again
      BY <1>1, <2>3 DEF Like
    <3>2. Does(k) /\ Delivered(j) /\ Unbegun(j)
      BY DEF SettleInv
    <3>3. age[j] = "stale"
      BY <2>3, <3>2 DEF Delivered, Unbegun, Procs
    <3> QED
      BY <2>3, <3>1, <3>2, <3>3 DEF Does, Finalizes
  <2> QED
    BY <2>1, <2>2, <2>3
<1> QED
  BY <1>2, <1>3, <1>4, <1>5 DEF SettleInv, Does

LEMMA OnJob ==
  ASSUME Shapes, SettleInv, NEW i \in Procs, proc[i].at # "idle"
  PROVE  /\ proc[i].job \in Jobs /\ proc[i].job # None
         /\ proc[i].doc \in Row /\ proc[i].doc.status # "absent"
         /\ job[proc[i].job].status # "absent" /\ settles[proc[i].job] <= 1
         /\ settles[proc[i].job] \in Nat
         /\ age[proc[i].job] = "stale" => Finalizes(i) /\ Untouched(proc[i].job)
         /\ age[proc[i].job] # "stale" => Works(i)
         /\ proc[i].at \notin {"settle", "end"} => age[proc[i].job] # "stale"
<1>1. proc[i].job \in Jobs /\ proc[i].job # None /\ proc[i].doc \in Row
  BY Busy, ConstantsAre
<1>2. Does(i) /\ Delivered(proc[i].job) /\ Unbegun(proc[i].job) /\ settles[proc[i].job] <= 1
  BY <1>1 DEF SettleInv
<1> QED
  BY <1>1, <1>2 DEF Does, Delivered, Unbegun, Finalizes, Shapes

(* A step that leaves the rows, the clock and the settlements alone. *)
LEMMA SettleKeptAlone ==
  ASSUME Shapes, SettleInv, NEW i \in Procs, proc[i].at # "idle", Kept(i), events' = events,
         UNCHANGED <<job, age, settles>>,
         OthersSame(proc[i].job) \/ cost' = cost,
         proc'[i].job = proc[i].job \/ (proc'[i].job = None /\ job[proc[i].job].status \notin Open),
         proc'[i].job = proc[i].job => Does(i)'
  PROVE  SettleInv'
<1>1. OthersSame(proc[i].job)
  BY DEF OthersSame
<1> QED
  BY <1>1, OnJob, SettleKept DEF Kept, Untouched

(* A worker's step that leaves the clock and the settlements alone and may   *)
(* put the row. *)
LEMMA SettleKeptPut ==
  ASSUME Shapes, SettleInv, NEW i \in Procs, proc[i].at # "idle", Kept(i), events' = events,
         age[proc[i].job] # "stale", age'[proc[i].job] # "stale", settles' = settles,
         OthersSame(proc[i].job), proc'[i].job = proc[i].job,
         job'[proc[i].job].status # "absent",
         Does(i)'
  PROVE  SettleInv'
BY OnJob, SettleKept DEF Kept

LEMMA WorkerStepSettles ==
  ASSUME Shapes, SettleInv, NEW w \in Workers, WorkerStep(w)
  PROVE  SettleInv'
<1> DEFINE j == proc[w].job
<1>0. w \in Procs /\ events' = events
  BY DEF Procs, WorkerStep, WorkerStarts, WorkerTurnedOff, ReserveReads, ReserveWrites,
         ReservePersists, Calls, CallBooked, WorkEnds, ChecksStatus
<1>1. CASE WorkerStarts(w)
  <2>1. proc[w].at = "start"
    BY <1>1 DEF WorkerStarts, Ready
  <2>2. j \in Jobs /\ age[j] # "stale" /\ settles[j] = 0 /\ proc[w].doc \in Row
    BY <1>0, <2>1, OnJob DEF Works, BeforeSettled
  <2>3. /\ Kept(w) /\ OthersSame(j) /\ proc'[w].at = "reserve" /\ proc'[w].job = j
        /\ proc'[w].doc = Started(proc[w].doc) /\ job'[j] = Started(proc[w].doc)
        /\ age'[j] # "stale" /\ settles' = settles
    BY <1>1, <2>2, StartsDoes DEF WorkerStarts, KeepsLedger
  <2>4. Started(proc[w].doc).status = "running"
    BY <2>2, RowsAreTyped
  <2>5. Does(w)'
    BY <2>2, <2>3, <2>4 DEF Does, Works
  <2> QED
    BY <1>0, <2>1, <2>2, <2>3, <2>4, <2>5, SettleKeptPut
<1>2. CASE WorkerTurnedOff(w)
  <2>1. proc[w].at = "start"
    BY <1>2 DEF WorkerTurnedOff, Ready
  <2>2. /\ j \in Jobs /\ age[j] # "stale" /\ proc[w].doc \in Row /\ settles[j] <= 1
    BY <1>0, <2>1, OnJob
  <2>3. /\ Kept(w) /\ OthersSame(j) /\ proc'[w] = Rest
        /\ job'[j] = [proc[w].doc EXCEPT !.status = "failed"]
        /\ age' = age /\ settles' = settles
    BY <1>2, TurnedOffDoes
  <2>4. job'[j].status = "failed" /\ proc'[w].job = None
    BY <2>2, <2>3, RestIsTyped DEF Row
  <2> QED
    BY <1>0, <2>1, <2>2, <2>3, <2>4, OnJob, SettleKept DEF Kept, Open
<1>3. CASE ReserveReads(w)
  <2>1. proc[w].at = "reserve"
    BY <1>3 DEF ReserveReads, Ready
  <2>2. /\ j \in Jobs /\ age[j] # "stale" /\ settles[j] = 0 /\ proc[w].doc.status # "absent"
    BY <1>0, <2>1, OnJob DEF Works, BeforeSettled
  <2>3. /\ Kept(w) /\ UNCHANGED <<job, age, settles, cost>> /\ proc'[w].job = j
        /\ proc'[w].doc = proc[w].doc
    BY <1>3, ReserveReadsDoes
  <2>4. Does(w)'
    BY <2>2, <2>3 DEF Does, Works
  <2> QED
    BY <1>0, <2>1, <2>3, <2>4, SettleKeptAlone
<1>4. CASE ReserveWrites(w)
  <2>1. proc[w].at = "reserveCas"
    BY <1>4 DEF ReserveWrites, Ready
  <2>2. /\ j \in Jobs /\ age[j] # "stale" /\ settles[j] = 0 /\ proc[w].doc.status # "absent"
    BY <1>0, <2>1, OnJob DEF Works, BeforeSettled
  <2>3. /\ Kept(w) /\ UNCHANGED <<job, age, settles, cost>> /\ proc'[w].job = j
        /\ proc'[w].doc = proc[w].doc
    BY <1>4, ReserveWritesDoes
  <2>4. Does(w)'
    BY <2>2, <2>3 DEF Does, Works
  <2> QED
    BY <1>0, <2>1, <2>3, <2>4, SettleKeptAlone
<1>5. CASE ReservePersists(w)
  <2> DEFINE doc == [proc[w].doc EXCEPT !.reserved = Estimate, !.settled = FALSE]
  <2>1. proc[w].at = "reserved"
    BY <1>5 DEF ReservePersists, Ready
  <2>2. /\ j \in Jobs /\ age[j] # "stale" /\ settles[j] = 0 /\ proc[w].doc.status # "absent"
        /\ proc[w].doc \in Row
    BY <1>0, <2>1, OnJob DEF Works, BeforeSettled
  <2>3. doc.status # "absent"
    BY <2>2 DEF Row
  <2>4. /\ Kept(w) /\ OthersSame(j) /\ age' = age /\ settles' = settles /\ proc'[w].job = j
        /\ proc'[w].at = "work" /\ proc'[w].doc = doc /\ job'[j] = doc
    BY <1>5, PersistsDoes
  <2> HIDE DEF doc
  <2>5. Does(w)'
    BY <2>2, <2>3, <2>4 DEF Does, Works
  <2> QED
    BY <1>0, <2>1, <2>2, <2>3, <2>4, <2>5, SettleKeptPut
<1>6. CASE Calls(w)
  <2>1. proc[w].at = "work"
    BY <1>6 DEF Calls, Ready
  <2>2. /\ j \in Jobs /\ age[j] # "stale" /\ settles[j] = 0 /\ proc[w].doc.status # "absent"
        /\ proc[w].doc \in Row
    BY <1>0, <2>1, OnJob DEF Works, BeforeSettled
  <2>3. /\ Kept(w) /\ OthersSame(j) /\ UNCHANGED <<job, age, settles>> /\ proc'[w].job = j
        /\ \/ proc'[w].doc = proc[w].doc
           \/ \E c \in Nat : proc'[w].doc = [proc[w].doc EXCEPT !.actual = @ + c]
    BY <1>6, CallsDoes
  <2>4. proc'[w].doc.status # "absent"
    BY <2>2, <2>3 DEF Row
  <2>5. Does(w)'
    BY <2>2, <2>3, <2>4 DEF Does, Works
  <2> QED
    BY <1>0, <2>1, <2>3, <2>5, SettleKeptAlone
<1>7. CASE CallBooked(w)
  <2>1. /\ Kept(w) /\ OthersSame(j) /\ age' = age /\ settles' = settles /\ proc'[w].job = j
        /\ proc'[w].at = "work" /\ proc'[w].doc = proc[w].doc /\ job'[j] = proc[w].doc
        /\ proc[w].at = "book"
    BY <1>7, BookedDoes
  <2>2. /\ j \in Jobs /\ age[j] # "stale" /\ settles[j] = 0 /\ proc[w].doc.status # "absent"
    BY <1>0, <2>1, OnJob DEF Works, BeforeSettled
  <2>3. Does(w)'
    BY <2>1, <2>2 DEF Does, Works
  <2> QED
    BY <1>0, <2>1, <2>2, <2>3, SettleKeptPut
<1>8. CASE WorkEnds(w)
  <2>1. /\ Kept(w) /\ UNCHANGED <<job, age, settles, cost>> /\ proc'[w].job = j
        /\ proc'[w].doc = proc[w].doc /\ proc[w].at = "work"
    BY <1>8, WorkEndsDoes
  <2>2. /\ j \in Jobs /\ age[j] # "stale" /\ settles[j] = 0 /\ proc[w].doc.status # "absent"
    BY <1>0, <2>1, OnJob DEF Works, BeforeSettled
  <2>3. Does(w)'
    BY <2>1, <2>2 DEF Does, Works
  <2> QED
    BY <1>0, <2>1, <2>3, SettleKeptAlone
<1>9. CASE ChecksStatus(w)
  <2>1. /\ Kept(w) /\ UNCHANGED <<job, age, settles, cost>> /\ proc[w].at = "check"
        /\ \/ proc'[w] = Rest /\ job[j].status = "failed"
           \/ /\ proc'[w].at = "end" /\ proc'[w].job = j /\ proc'[w].doc = proc[w].doc
    BY <1>9, ChecksDoes
  <2>2. /\ j \in Jobs /\ age[j] # "stale" /\ proc[w].doc.status # "absent" /\ j # None
    BY <1>0, <2>1, OnJob
  <2>3. CASE proc'[w] = Rest /\ job[j].status = "failed"
    BY <1>0, <2>1, <2>2, <2>3, RestIsTyped, SettleKeptAlone DEF Open
  <2>4. CASE proc'[w].at = "end" /\ proc'[w].job = j /\ proc'[w].doc = proc[w].doc
    <3>1. Does(w)'
      BY <2>1, <2>2, <2>4 DEF Does, Works, BeforeSettled
    <3> QED
      BY <1>0, <2>1, <2>4, <3>1, SettleKeptAlone
  <2> QED
    BY <2>1, <2>3, <2>4
<1> QED
  BY <1>1, <1>2, <1>3, <1>4, <1>5, <1>6, <1>7, <1>8, <1>9 DEF WorkerStep

LEMMA SettleStepSettles ==
  ASSUME Shapes, SettleInv, NEW i \in Procs, SettleStep(i)
  PROVE  SettleInv'
<1> DEFINE j == proc[i].job
<1>0. events' = events
  BY DEF SettleStep, SettleReads, AdjustReads, AdjustWrites, SettlePersists, Ends
<1>1. CASE SettleReads(i)
  <2>1. /\ Kept(i) /\ UNCHANGED <<job, age, settles, cost>> /\ proc[i].at = "settle"
        /\ proc'[i].job = j /\ proc'[i].doc = Refreshed(i)
        /\ proc'[i].ending = proc[i].ending
        /\ \/ Onward(i)
           \/ /\ proc'[i].at = "adjust" /\ ~Refreshed(i).settled
              /\ ~(Refreshed(i).reserved = 0 /\ Refreshed(i).actual = 0)
    BY <1>1, SettleReadsDoes DEF Onward
  <2>2. /\ j \in Jobs /\ proc[i].doc.status # "absent"
        /\ age[j] = "stale" => Finalizes(i) /\ Untouched(j)
        /\ age[j] # "stale" => Works(i)
    BY <2>1, OnJob
  <2>3. /\ Refreshed(i).status # "absent"
        /\ job[j].settled => Refreshed(i).settled
        /\ ~job[j].settled => /\ Refreshed(i).settled = proc[i].doc.settled
                              /\ Refreshed(i).actual = job[j].actual
                              /\ Refreshed(i).reserved = job[j].reserved
    BY <2>1, <2>2, RefreshedIs
  <2>4. ASSUME age[j] = "stale"
        PROVE  Finalizes(i)'
    <3>1. /\ Refreshed(i).reserved = 0 /\ Refreshed(i).actual = 0 /\ ~Refreshed(i).settled
          /\ proc[i].ending = "failed" /\ ~proc[i].again
      BY <2>2, <2>3, <2>4 DEF Finalizes, Untouched
    <3>2. Onward(i)
      BY <2>1, <3>1
    <3> QED
      BY <2>1, <3>1, <3>2 DEF Finalizes, Onward
  <2>5. ASSUME age[j] # "stale"
        PROVE  Works(i)'
    <3>1. settles[j] = 0 \/ job[j].settled
      BY <2>1, <2>2, <2>5 DEF Works
    <3>2. CASE Onward(i)
      <4>1. proc'[i].at \notin BeforeSettled
        BY <3>2 DEF Onward, BeforeSettled
      <4> QED
        BY <2>1, <3>1, <4>1 DEF Works
    <3>3. CASE proc'[i].at = "adjust" /\ ~Refreshed(i).settled
      BY <2>1, <2>3, <3>1, <3>3 DEF Works
    <3> QED
      BY <2>1, <3>2, <3>3
  <2>6. Does(i)'
    BY <2>1, <2>3, <2>4, <2>5 DEF Does
  <2> QED
    BY <1>0, <2>1, <2>6, SettleKeptAlone
<1>2. CASE AdjustReads(i)
  <2>1. /\ Kept(i) /\ UNCHANGED <<job, age, settles, cost>> /\ proc[i].at = "adjust"
        /\ proc'[i].job = j /\ proc'[i].doc = proc[i].doc
        /\ proc'[i].at \in {"settled", "adjustCas"}
    BY <1>2, AdjustReadsDoes
  <2>2. /\ j \in Jobs /\ age[j] # "stale" /\ settles[j] = 0 /\ proc[i].doc.status # "absent"
    BY <2>1, OnJob DEF Works, BeforeSettled
  <2>3. Does(i)'
    BY <2>1, <2>2 DEF Does, Works
  <2> QED
    BY <1>0, <2>1, <2>3, SettleKeptAlone
<1>3. CASE AdjustWrites(i)
  <2>1. /\ Kept(i) /\ OthersSame(j) /\ UNCHANGED <<job, age, cost>> /\ proc[i].at = "adjustCas"
        /\ proc'[i].job = j /\ proc'[i].doc = proc[i].doc
        /\ \/ proc'[i].at = "adjust" /\ settles' = settles
           \/ /\ proc'[i].at = "settled"
              /\ settles' = [settles EXCEPT ![j] = @ + 1]
    BY <1>3, AdjustWritesDoes
  <2>2. /\ j \in Jobs /\ age[j] # "stale" /\ settles[j] = 0 /\ proc[i].doc.status # "absent"
        /\ job[j].status # "absent" /\ j # None
    BY <2>1, OnJob DEF Works, BeforeSettled
  <2>3. settles'[j] <= 1 /\ (proc'[i].at = "adjust" => settles'[j] = 0)
    BY <2>1, <2>2 DEF Shapes
  <2>4. Does(i)'
    BY <2>1, <2>2, <2>3 DEF Does, Works, BeforeSettled
  <2> QED
    BY <1>0, <2>1, <2>2, <2>3, <2>4, SettleKept DEF Kept
<1>4. CASE SettlePersists(i)
  <2> DEFINE doc == [proc[i].doc EXCEPT !.settled = TRUE]
  <2>1. /\ Kept(i) /\ OthersSame(j) /\ UNCHANGED <<age, settles>> /\ proc[i].at = "settled"
        /\ proc'[i].job = j /\ proc'[i].doc = doc /\ job'[j] = doc
        /\ Onward(i)
    BY <1>4, SettlePersistsDoes
  <2>2. /\ j \in Jobs /\ age[j] # "stale" /\ proc[i].doc.status # "absent"
        /\ proc[i].doc \in Row
    BY <2>1, OnJob
  <2>3. doc.status # "absent" /\ doc.settled
    BY <2>2 DEF Row
  <2> HIDE DEF doc
  <2>4. Does(i)'
    BY <2>1, <2>2, <2>3 DEF Does, Works, BeforeSettled, Onward
  <2> QED
    BY <1>0, <2>1, <2>2, <2>3, <2>4, SettleKeptPut
<1>5. CASE Ends(i)
  <2> DEFINE doc == [proc[i].doc EXCEPT !.status = proc[i].ending]
  <2>1. /\ Kept(i) /\ OthersSame(j) /\ UNCHANGED <<age, settles>> /\ proc[i].at = "end"
        /\ proc'[i] = Rest /\ job'[j] = doc
    BY <1>5, EndsDoes
  <2>2. /\ j \in Jobs /\ proc[i].doc \in Row /\ proc[i].ending \in {"done", "failed"}
        /\ settles[j] <= 1
        /\ age[j] = "stale" => Finalizes(i) /\ Untouched(j)
    BY <2>1, OnJob, Busy DEF Invocation
  <2>3. /\ doc.status \in {"done", "failed"} /\ doc.reserved = proc[i].doc.reserved
        /\ doc.actual = proc[i].doc.actual /\ doc.settled = proc[i].doc.settled
    BY <2>2 DEF Row
  <2> HIDE DEF doc
  <2>4. PICK h \in Jobs : h = j
    BY <2>2
  <2>5. age[h] = "stale" => Untouched(h)'
    BY <2>1, <2>2, <2>3, <2>4 DEF Finalizes, Untouched
  <2>6. proc'[i].job = None /\ None \notin Jobs
    BY <2>1, RestIsTyped, ConstantsAre
  <2> QED
    BY <1>0, <2>1, <2>2, <2>3, <2>4, <2>5, <2>6, OnJob, SettleKept DEF Kept, Open
<1> QED
  BY <1>1, <1>2, <1>3, <1>4, <1>5 DEF SettleStep

(* An invocation takes up a job: a worker whose event it got, or a poll. *)
LEMMA TakingSettles ==
  ASSUME Shapes, SettleInv, NEW i \in Procs, NEW j \in Jobs, proc[i].at = "idle", Kept(i),
         UNCHANGED <<job, age, settles>>, job[j].status \in Open, TakesUp(i, j),
         \/ /\ i \in Workers /\ events[j] > 0 /\ events' = [events EXCEPT ![j] = @ - 1]
         \/ i \in Polls /\ events' = events /\ age[j] = "stale"
  PROVE  SettleInv'
<1>0. None \notin Jobs /\ Workers \cap Polls = {}
  BY ResumeAssumption
<1>1. \A k \in Procs \ {i} : Like(k)
  BY DEF Kept, Moves
<1>2. /\ proc[i].job = None
      /\ proc'[i].job = j /\ proc'[i].doc = job[j] /\ ~proc'[i].again
      /\ \/ proc'[i].at = "start" /\ age[j] # "stale"
         \/ proc'[i].at = "settle" /\ age[j] = "stale" /\ proc'[i].ending = "failed"
  BY DEF TakesUp, Shapes, Sound
<1>3. Delivered(j) /\ Unbegun(j) /\ events[j] \in 0..2
  BY DEF SettleInv, Shapes
<1>4. job[j].status # "absent"
  BY DEF Open
<1>5. ASSUME NEW k \in Jobs
      PROVE  Delivered(k)'
  <2>1. Delivered(k) /\ events[k] \in 0..2
    BY DEF SettleInv, Shapes
  <2>2. CASE k # j
    <3>1. /\ \A p \in Procs : proc'[p].job = k <=> proc[p].job = k
          /\ events'[k] = events[k] /\ job'[k] = job[k]
      BY <1>0, <1>1, <1>2, <2>2 DEF Like, Shapes
    <3> QED
      BY <2>1, <3>1 DEF Delivered, Procs
  <2>3. CASE k = j /\ i \in Workers /\ events[j] > 0 /\ events' = [events EXCEPT ![j] = @ - 1]
    <3>1. \A w \in Workers : proc'[w].job = j => w = i
      BY <1>1, <1>3, <2>3 DEF Delivered, Like, Procs
    <3>2. events'[j] = 0
      BY <1>3, <2>3 DEF Delivered, Shapes
    <3> QED
      BY <1>4, <2>3, <3>1, <3>2 DEF Delivered
  <2>4. CASE k = j /\ i \in Polls /\ events' = events
    <3>1. \A w \in Workers : proc'[w].job = j <=> proc[w].job = j
      BY <1>0, <1>1, <2>4 DEF Like, Procs
    <3> QED
      BY <1>4, <2>1, <2>4, <3>1 DEF Delivered
  <2> QED
    BY <2>2, <2>3, <2>4
<1>6. ASSUME NEW k \in Jobs
      PROVE  Unbegun(k)'
  <2>1. Unbegun(k)
    BY DEF SettleInv
  <2>2. CASE k # j
    <3>1. \A p \in Procs : proc'[p].job = k <=> proc[p].job = k
      BY <1>0, <1>1, <1>2, <2>2 DEF Like
    <3> QED
      BY <2>1, <3>1 DEF Unbegun, Untouched, Procs
  <2>3. CASE k = j /\ age[j] = "stale"
    BY <2>1, <2>3 DEF Unbegun, Untouched
  <2>4. CASE k = j /\ age[j] # "stale"
    <3>1. i \in Workers /\ i \notin Polls
      BY <1>0, <2>4
    <3>2. \A q \in Polls : proc'[q].job # j
      BY <1>1, <2>1, <2>4, <3>1 DEF Unbegun, Like, Procs
    <3> QED
      BY <1>2, <2>4, <3>1, <3>2 DEF Unbegun
  <2> QED
    BY <2>2, <2>3, <2>4
<1>7. ASSUME NEW k \in Procs
      PROVE  Does(k)'
  <2>1. CASE k # i
    <3>1. Does(k)
      BY DEF SettleInv
    <3> QED
      BY <1>1, <2>1, <3>1 DEF Like, Does, Finalizes, Works
  <2>2. CASE k = i /\ age[j] = "stale"
    <3>1. Untouched(j)
      BY <1>3, <2>2 DEF Unbegun
    <3> QED
      BY <1>2, <1>4, <2>2, <3>1 DEF Does, Finalizes, Untouched
  <2>3. CASE k = i /\ age[j] # "stale"
    <3>1. i \in Workers /\ events[j] > 0
      BY <2>3
    <3>2. settles[j] = 0
      BY <1>3, <3>1 DEF Delivered, Unbegun, Untouched
    <3> QED
      BY <1>2, <1>4, <2>3, <3>2 DEF Does, Works
  <2> QED
    BY <2>1, <2>2, <2>3
<1>8. \A k \in Jobs : settles'[k] <= 1
  BY DEF SettleInv
<1> QED
  BY <1>5, <1>6, <1>7, <1>8 DEF SettleInv

LEMMA QuietSettles ==
  ASSUME Shapes, SettleInv, InOrder, NEW j \in Jobs, Queue(j) \/ LoseEvent(j) \/ JobAges(j)
  PROVE  SettleInv'
<1>0. ~Fault("duplicate") /\ ~Fault("slow")
  BY DEF InOrder, Fault
<1>1. Quietly
  BY QueueDoes, LoseDoes, AgesDoes
<1>2. Delivered(j) /\ Unbegun(j) /\ events[j] \in 0..2
  BY DEF SettleInv, Shapes
<1>3. /\ \A k \in Jobs \ {j} : job'[k] = job[k] /\ age'[k] = age[k] /\ events'[k] = events[k]
      /\ \A k \in Procs : proc'[k].job # j => Does(k)'
      /\ \A k \in Jobs : settles'[k] <= 1
  <2>1. \A k \in Jobs \ {j} : job'[k] = job[k] /\ age'[k] = age[k] /\ events'[k] = events[k]
    BY QueueDoes, LoseDoes, AgesDoes DEF Shapes
  <2>2. ASSUME NEW k \in Procs, proc'[k].job # j
        PROVE  Does(k)'
    <3>1. Does(k)
      BY DEF SettleInv
    <3> QED
      BY <1>1, <2>1, <2>2, <3>1 DEF Does, Finalizes, Works, Quietly
  <2> QED
    BY <1>1, <2>1, <2>2 DEF SettleInv, Quietly
<1>4. ASSUME NEW k \in Jobs \ {j}
      PROVE  Delivered(k)' /\ Unbegun(k)'
  BY <1>1, <1>3 DEF SettleInv, Delivered, Unbegun, Untouched, Quietly
<1>5. CASE Queue(j)
  <2>1. PICK n \in 0..(IF Fault("duplicate") THEN 2 ELSE 1) :
          /\ job' = [job EXCEPT ![j].status = IF n > 0 THEN "queued" ELSE "failed"]
          /\ events' = [events EXCEPT ![j] = n]
    BY <1>5, QueueDoes
  <2>2. /\ job[j].status = "absent" /\ age' = age
        /\ events[j] = 0 /\ \A k \in Procs : proc[k].job # j
    BY <1>2, <1>5, QueueDoes DEF Delivered
  <2>3. events'[j] <= 1 /\ job[j] \in Row
    BY <1>0, <2>1 DEF Shapes
  <2>4. /\ job'[j].status # "absent" /\ job'[j].reserved = job[j].reserved
        /\ job'[j].actual = job[j].actual /\ job'[j].settled = job[j].settled
    BY <2>1, <2>3 DEF Shapes, Row
  <2>5. Delivered(j)'
    BY <1>1, <2>2, <2>3, <2>4 DEF Delivered, Quietly, Procs
  <2>6. Untouched(j)
    BY <1>2, <2>2 DEF Unbegun, Procs
  <2>7. Unbegun(j)'
    BY <1>1, <1>2, <2>2, <2>4, <2>6 DEF Unbegun, Untouched, Quietly, Procs
  <2>8. \A k \in Procs : proc'[k].job # j
    BY <1>1, <2>2 DEF Quietly
  <2> QED
    BY <1>3, <1>4, <2>5, <2>7, <2>8 DEF SettleInv
<1>6. CASE LoseEvent(j)
  <2>1. /\ job' = job /\ age' = age /\ events[j] > 0 /\ events' = [events EXCEPT ![j] = @ - 1]
    BY <1>6, LoseDoes
  <2>2. events'[j] < events[j] /\ events'[j] \in Nat
    BY <1>2, <2>1 DEF Shapes
  <2>3. Delivered(j)' /\ Unbegun(j)'
    BY <1>1, <1>2, <2>1, <2>2 DEF Delivered, Unbegun, Untouched, Quietly
  <2>4. \A k \in Procs : Does(k)'
    BY <1>1, <2>1 DEF SettleInv, Does, Finalizes, Works, Quietly
  <2> QED
    BY <1>3, <1>4, <2>3, <2>4 DEF SettleInv
<1>7. CASE JobAges(j)
  <2>1. /\ job' = job /\ events' = events /\ job[j].status \in Open
        /\ \/ age[j] = "young" /\ age' = [age EXCEPT ![j] = "late"]
           \/ age[j] = "late" /\ age' = [age EXCEPT ![j] = "stale"] /\ WorkersOf(j) = {}
    BY <1>0, <1>7, AgesDoes
  <2>2. Delivered(j)'
    BY <1>1, <1>2, <2>1 DEF Delivered, Quietly
  <2>3. CASE age[j] = "young" /\ age'[j] = "late"
    <3>1. Unbegun(j)'
      BY <1>1, <1>2, <2>1, <2>3 DEF Unbegun, Untouched, Quietly
    <3>2. \A k \in Procs : proc'[k].job = j => Does(k)'
      BY <1>1, <2>1, <2>3 DEF SettleInv, Does, Works, Quietly
    <3> QED
      BY <1>3, <1>4, <2>2, <3>1, <3>2 DEF SettleInv
  <2>4. CASE age[j] = "late" /\ age'[j] = "stale" /\ WorkersOf(j) = {}
    <3>1. \A w \in Workers : proc[w].job # j
      BY <2>4 DEF WorkersOf
    <3>2. \A q \in Polls : proc[q].job # j
      BY <1>2, <2>4 DEF Unbegun
    <3>3. Unbegun(j)'
      BY <1>1, <1>2, <2>1, <2>4, <3>1 DEF Unbegun, Untouched, Quietly
    <3>4. \A k \in Procs : proc'[k].job # j
      BY <1>1, <3>1, <3>2 DEF Procs, Quietly
    <3> QED
      BY <1>3, <1>4, <2>2, <3>3, <3>4 DEF SettleInv
  <2> QED
    BY <2>1, <2>3, <2>4 DEF Shapes
<1> QED
  BY <1>5, <1>6, <1>7

LEMMA InitSettles == Init => SettleInv
<1> SUFFICES ASSUME Init PROVE SettleInv
  OBVIOUS
<1>1. \A i \in Procs : proc[i].job = None /\ None \notin Jobs
  BY RestIsTyped, ConstantsAre DEF Init
<1>2. ASSUME NEW j \in Jobs
      PROVE  Untouched(j) /\ job[j].status = "absent" /\ events[j] = 0 /\ age[j] = "young"
  BY DEF Init, Untouched, NoRow
<1>3. \A j \in Jobs : Delivered(j) /\ Unbegun(j) /\ settles[j] <= 1
  BY <1>1, <1>2 DEF Delivered, Unbegun, Untouched, Procs
<1>4. \A i \in Procs : Does(i)
  BY <1>1 DEF Does
<1> QED
  BY <1>3, <1>4 DEF SettleInv

LEMMA NextSettles == Shapes /\ SettleInv /\ InOrder /\ [Next]_vars => SettleInv'
<1> SUFFICES ASSUME Shapes, SettleInv, InOrder, [Next]_vars PROVE SettleInv'
  OBVIOUS
<1>1. CASE UNCHANGED vars
  BY <1>1 DEF vars, SettleInv, Delivered, Unbegun, Untouched, Does, Finalizes, Works
<1>2. CASE \E j \in Jobs : Queue(j) \/ LoseEvent(j) \/ JobAges(j)
  BY <1>2, QuietSettles
<1>3. ASSUME NEW w \in Workers, NEW j \in Jobs, WorkerBegins(w, j)
      PROVE  SettleInv'
  <2>1. /\ w \in Procs /\ Kept(w) /\ UNCHANGED <<job, age, settles, cost, spend>>
        /\ proc[w].at = "idle" /\ events[j] > 0 /\ events' = [events EXCEPT ![j] = @ - 1]
        /\ \/ proc' = proc
           \/ job[j].status \in Open /\ TakesUp(w, j)
    BY <1>3, BeginsDoes DEF Procs
  <2>2. CASE proc' = proc
    <3>1. \A k \in Jobs : events'[k] <= events[k] /\ events'[k] \in Nat /\ events[k] \in Nat
      BY <2>1 DEF Shapes
    <3>2. \A k \in Jobs : events'[k] <= 1 /\ (events'[k] > 0 => events[k] > 0)
                          /\ (events[k] = 0 => events'[k] = 0)
      BY <3>1 DEF SettleInv, Delivered
    <3>3. \A k \in Jobs : Delivered(k)'
      BY <2>1, <2>2, <3>2 DEF SettleInv, Delivered
    <3> QED
      BY <2>1, <2>2, <3>3 DEF SettleInv, Unbegun, Untouched, Does, Finalizes, Works
  <2> QED
    BY <2>1, <2>2, TakingSettles
<1>4. CASE \E w \in Workers : WorkerStep(w)
  BY <1>4, WorkerStepSettles
<1>5. CASE \E i \in Procs : SettleStep(i) \/ Dies(i)
  BY <1>5, SettleStepSettles, DiesDoes DEF InOrder, Fault
<1>6. ASSUME NEW q \in Polls, NEW j \in Jobs, Poll(q, j)
      PROVE  SettleInv'
  <2>1. age[j] = "stale" /\ q \in Procs
    BY <1>6 DEF Poll, Procs
  <2> QED
    BY <1>6, <2>1, PollDoes, TakingSettles
<1> QED
  BY <1>1, <1>2, <1>3, <1>4, <1>5, <1>6 DEF Next

LEMMA ModeStays == [Next]_vars => mode' = mode
BY DEF Next, vars, Queue, LoseEvent, JobAges, WorkerBegins, WorkerStep, WorkerStarts,
   WorkerTurnedOff, ReserveReads, ReserveWrites, ReservePersists, Calls, CallBooked, WorkEnds,
   ChecksStatus, SettleStep, SettleReads, AdjustReads, AdjustWrites, SettlePersists, Ends, Dies, Poll

(* A job's estimate is replaced by its cost at most once, whether its        *)
(* worker's finally, its error handler, an event for a stale job or any      *)
(* number of overlapping polls settle it.                                    *)
THEOREM SettledOnceAlways == Spec => []SettledOnce
<1> DEFINE IInv == Shapes /\ (InOrder => SettleInv)
<1>1. Init => IInv
  BY InitShapes, InitSettles
<1>2. IInv /\ [Next]_vars => IInv'
  BY NextShapes, NextSettles, ModeStays DEF InOrder
<1>3. IInv => SettledOnce
  BY DEF SettledOnce, SettleInv
<1> QED
  BY <1>1, <1>2, <1>3, PTL DEF Spec

-----------------------------------------------------------------------------
(* The sum over the jobs.  SumOver is a fold, a function on the sets of jobs *)
(* that takes them one by one; that there is such a function, and what it    *)
(* is, are proved by taking a smallest set of jobs for which it would fail.  *)

Pick(s) == CHOOSE x \in s : TRUE

Step(h, f, s) == IF s = {} THEN 0 ELSE f[Pick(s)] + h[s \ {Pick(s)}]

IsTotal(h, f) == h = [s \in SUBSET Jobs |-> Step(h, f, s)]

LEMMA Smallest ==
  ASSUME NEW T \in SUBSET (SUBSET Jobs), T # {}
  PROVE  \E s \in T : \A t \in T : t \subseteq s => t = s
<1>1. IsFiniteSet(Jobs)
  BY ResumeAssumption
<1>2. IsWellFoundedOn(StrictSubsetOrdering(Jobs), SUBSET Jobs)
  BY <1>1, FS_StrictSubsetOrderingWellFounded, FS_FiniteSubsetsOfFinite
<1>3. PICK s \in T : \A t \in T : <<t, s>> \notin StrictSubsetOrdering(Jobs)
  BY <1>2, WFMin
<1>4. \A t \in T : t \subseteq s => t = s
  BY <1>3 DEF StrictSubsetOrdering
<1> QED
  BY <1>4

LEMMA PickIs ==
  ASSUME NEW s \in SUBSET Jobs, s # {}
  PROVE  Pick(s) \in s /\ s \ {Pick(s)} \in SUBSET Jobs /\ s \ {Pick(s)} # s
BY DEF Pick

Level(n) == {s \in SUBSET Jobs : Cardinality(s) <= n}

TotalUpTo(h, f, n) == h \in [Level(n) -> Nat] /\ \A s \in Level(n) : h[s] = Step(h, f, s)

LEMMA LevelUp ==
  ASSUME NEW f \in [Jobs -> Nat], NEW n \in Nat, NEW h, TotalUpTo(h, f, n)
  PROVE  TotalUpTo([s \in Level(n + 1) |-> IF s \in Level(n) THEN h[s] ELSE Step(h, f, s)], f, n + 1)
<1> DEFINE g == [s \in Level(n + 1) |-> IF s \in Level(n) THEN h[s] ELSE Step(h, f, s)]
<1>1. ASSUME NEW s \in SUBSET Jobs
      PROVE  /\ Cardinality(s) \in Nat /\ (Cardinality(s) = 0 <=> s = {})
             /\ s # {} => Cardinality(s \ {Pick(s)}) = Cardinality(s) - 1
  <2>1. IsFiniteSet(s)
    BY ResumeAssumption, FS_Subset
  <2> QED
    BY <2>1, FS_CardinalityType, FS_EmptySet, FS_RemoveElement, PickIs
<1>2. \A s \in Level(n + 1) : s # {} => s \ {Pick(s)} \in Level(n) /\ Pick(s) \in Jobs
  BY <1>1, PickIs DEF Level
<1>3. ASSUME NEW s \in Level(n)
      PROVE  s \in Level(n + 1)
  <2>1. s \in SUBSET Jobs /\ Cardinality(s) <= n
    BY DEF Level
  <2>2. Cardinality(s) \in Nat
    BY <1>1, <2>1
  <2>3. Cardinality(s) <= n + 1
    BY <2>1, <2>2
  <2> QED
    BY <2>1, <2>3 DEF Level
<1>4. \A s \in Level(n) : h[s] \in Nat /\ h[s] = Step(h, f, s)
  BY DEF TotalUpTo
<1>5. ASSUME NEW s \in Level(n + 1)
      PROVE  Step(h, f, s) \in Nat /\ Step(g, f, s) = Step(h, f, s)
  <2>1. CASE s = {}
    BY <2>1 DEF Step
  <2>2. CASE s # {}
    <3> DEFINE t == s \ {Pick(s)}
    <3>1. t \in Level(n) /\ Pick(s) \in Jobs
      BY <1>2, <2>2
    <3>2. t \in Level(n + 1) /\ h[t] \in Nat /\ f[Pick(s)] \in Nat
      BY <1>3, <1>4, <3>1
    <3> HIDE DEF t
    <3>3. g[t] = h[t]
      BY <3>1, <3>2
    <3> HIDE DEF g
    <3>4. Step(h, f, s) = f[Pick(s)] + h[t] /\ Step(g, f, s) = f[Pick(s)] + g[t]
      BY <2>2 DEF Step, t
    <3> QED
      BY <3>2, <3>3, <3>4
  <2> QED
    BY <2>1, <2>2
<1>6. \A s \in Level(n + 1) : g[s] = Step(g, f, s) /\ g[s] \in Nat
  BY <1>4, <1>5
<1> QED
  BY <1>6 DEF TotalUpTo

LEMMA LevelsHaveTotals ==
  ASSUME NEW f \in [Jobs -> Nat]
  PROVE  \A n \in Nat : \E h : TotalUpTo(h, f, n)
<1> DEFINE T == {n \in Nat : ~ \E h : TotalUpTo(h, f, n)}
<1>1. SUFFICES ASSUME T # {} PROVE FALSE
  OBVIOUS
<1>2. PICK n \in T : \A m \in T : ~ (m < n)
  <2>1. T \subseteq Nat
    OBVIOUS
  <2> HIDE DEF T
  <2>2. PICK n \in T : \A m \in T : <<m, n>> \notin OpToRel(<, Nat)
    BY <1>1, <2>1, NatLessThanWellFounded, WFMin
  <2>3. \A m \in T : m < n => <<m, n>> \in OpToRel(<, Nat)
    BY <2>1 DEF OpToRel
  <2> QED
    BY <2>2, <2>3
<1>3. CASE n = 0
  <2> DEFINE h == [s \in Level(0) |-> 0]
  <2>1. ASSUME NEW s \in Level(0)
        PROVE  s = {}
    <3>1. s \in SUBSET Jobs /\ IsFiniteSet(s) /\ Cardinality(s) <= 0
      BY ResumeAssumption, FS_Subset DEF Level
    <3> QED
      BY <3>1, FS_CardinalityType, FS_EmptySet
  <2>2. TotalUpTo(h, f, 0)
    BY <2>1 DEF TotalUpTo, Step
  <2> QED
    BY <1>3, <2>2
<1>4. CASE n # 0
  <2>1. n \in Nat /\ n - 1 \in Nat /\ n - 1 < n /\ (n - 1) + 1 = n
    BY <1>4
  <2>2. PICK h : TotalUpTo(h, f, n - 1)
    BY <1>2, <2>1
  <2>3. \E g : TotalUpTo(g, f, (n - 1) + 1)
    BY <2>1, <2>2, LevelUp
  <2> QED
    BY <1>2, <2>1, <2>3
<1> QED
  BY <1>3, <1>4

(* The sum is the total of all jobs. *)
LEMMA SumIs ==
  ASSUME NEW f \in [Jobs -> Nat]
  PROVE  \E h \in [SUBSET Jobs -> Nat] : IsTotal(h, f) /\ SumOver(f) = h[Jobs]
<1> DEFINE N == Cardinality(Jobs)
           iter == CHOOSE h : IsTotal(h, f)
<1>1. IsFiniteSet(Jobs) /\ N \in Nat
  BY ResumeAssumption, FS_CardinalityType
<1>2. Level(N) = SUBSET Jobs
  <2>1. \A s \in SUBSET Jobs : Cardinality(s) <= N
    BY <1>1, FS_Subset
  <2> QED
    BY <2>1 DEF Level
<1>3. PICK h : TotalUpTo(h, f, N)
  BY <1>1, LevelsHaveTotals
<1>4. IsTotal(h, f)
  BY <1>2, <1>3 DEF TotalUpTo, IsTotal
<1>5. IsTotal(iter, f)
  BY <1>4
<1>6. SumOver(f) = iter[Jobs]
  BY DEF SumOver, FoldSet, MapThenFoldSet, Pick, IsTotal, Step
<1> HIDE DEF iter
<1>7. \A s \in SUBSET Jobs : iter[s] = Step(iter, f, s)
  BY <1>5 DEF IsTotal
<1> DEFINE T == {s \in SUBSET Jobs : iter[s] \notin Nat}
<1>8. ASSUME T # {} PROVE FALSE
  <2>0. T \in SUBSET (SUBSET Jobs)
    OBVIOUS
  <2>1. PICK s \in T : \A t \in T : t \subseteq s => t = s
    <3> HIDE DEF T
    <3> QED
      BY <1>8, <2>0, Smallest
  <2>2. s # {} /\ s \in SUBSET Jobs
    <3>1. s \in SUBSET Jobs /\ iter[s] \notin Nat
      BY <2>1
    <3>2. iter[s] = Step(iter, f, s)
      BY <1>7, <3>1
    <3> QED
      BY <3>1, <3>2 DEF Step
  <2>3. iter[s \ {Pick(s)}] \in Nat /\ Pick(s) \in Jobs
    BY <2>1, <2>2, PickIs
  <2>4. iter[s] \in Nat
    BY <1>7, <2>2, <2>3 DEF Step
  <2> QED
    BY <2>1, <2>4
<1>9. iter = [s \in SUBSET Jobs |-> Step(iter, f, s)]
  BY <1>5 DEF IsTotal
<1>10. iter \in [SUBSET Jobs -> Nat]
  BY <1>7, <1>8, <1>9
<1> QED
  BY <1>5, <1>6, <1>10

(* What is added to a job's amount is added to the sum. *)
LEMMA SumGrows ==
  ASSUME NEW f \in [Jobs -> Nat], NEW g \in [Jobs -> Nat], NEW j, NEW d \in Nat,
         \A k \in Jobs : f[k] <= g[k],
         j \in Jobs => f[j] + d <= g[j]
  PROVE  /\ SumOver(f) \in Nat /\ SumOver(g) \in Nat
         /\ SumOver(f) + (IF j \in Jobs THEN d ELSE 0) <= SumOver(g)
<1>1. PICK h \in [SUBSET Jobs -> Nat] : IsTotal(h, f) /\ SumOver(f) = h[Jobs]
  BY SumIs
<1>2. PICK i \in [SUBSET Jobs -> Nat] : IsTotal(i, g) /\ SumOver(g) = i[Jobs]
  BY SumIs
<1>3. \A s \in SUBSET Jobs : h[s] = Step(h, f, s) /\ i[s] = Step(i, g, s)
  BY <1>1, <1>2 DEF IsTotal
<1> DEFINE more(s) == IF j \in s THEN d ELSE 0
           T == {s \in SUBSET Jobs : ~ (h[s] + more(s) <= i[s])}
<1>4. ASSUME T # {} PROVE FALSE
  <2>0. T \in SUBSET (SUBSET Jobs)
    OBVIOUS
  <2>1. PICK s \in T : \A t \in T : t \subseteq s => t = s
    <3> HIDE DEF T
    <3> QED
      BY <1>4, <2>0, Smallest
  <2>2. s # {} /\ s \in SUBSET Jobs
    <3>1. s \in SUBSET Jobs /\ ~ (h[s] + more(s) <= i[s])
      BY <2>1
    <3>2. h[s] = Step(h, f, s) /\ i[s] = Step(i, g, s)
      BY <1>3, <3>1
    <3> QED
      BY <3>1, <3>2 DEF Step
  <2> DEFINE x == Pick(s)
             t == s \ {x}
  <2>3. x \in s /\ x \in Jobs /\ t \in SUBSET Jobs /\ t # s
    BY <2>2, PickIs
  <2>4. h[t] + more(t) <= i[t]
    BY <2>1, <2>3
  <2>5. h[s] = f[x] + h[t] /\ i[s] = g[x] + i[t]
    BY <1>3, <2>2 DEF Step
  <2>6. f[x] \in Nat /\ g[x] \in Nat /\ h[t] \in Nat /\ i[t] \in Nat /\ f[x] <= g[x]
    BY <2>3
  <2>7. CASE x = j
    <3>1. more(s) = d /\ more(t) = 0 /\ f[x] + d <= g[x]
      BY <2>3, <2>7
    <3>2. h[t] <= i[t]
      BY <2>4, <2>6, <3>1
    <3> HIDE DEF x, t, more
    <3>3. h[s] + more(s) <= i[s]
      BY <2>5, <2>6, <3>1, <3>2
    <3> QED
      BY <2>1, <3>3 DEF more
  <2>8. CASE x # j
    <3>1. more(s) = more(t) /\ more(s) \in Nat
      BY <2>3, <2>8
    <3> HIDE DEF x, t, more
    <3>2. h[s] + more(s) <= i[s]
      BY <2>4, <2>5, <2>6, <3>1
    <3> QED
      BY <2>1, <3>2 DEF more
  <2> QED
    BY <2>7, <2>8
<1>5. h[Jobs] + more(Jobs) <= i[Jobs]
  BY <1>4
<1> QED
  BY <1>1, <1>2, <1>5

(* Sums that differ in one job. *)
LEMMA SumMoves ==
  ASSUME NEW f \in [Jobs -> Nat], NEW g \in [Jobs -> Nat], NEW j \in Jobs,
         \A k \in Jobs \ {j} : g[k] = f[k]
  PROVE  /\ SumOver(f) \in Nat /\ SumOver(g) \in Nat
         /\ SumOver(g) + f[j] = SumOver(f) + g[j]
<1>1. PICK h \in [SUBSET Jobs -> Nat] : IsTotal(h, f) /\ SumOver(f) = h[Jobs]
  BY SumIs
<1>2. PICK i \in [SUBSET Jobs -> Nat] : IsTotal(i, g) /\ SumOver(g) = i[Jobs]
  BY SumIs
<1>3. \A s \in SUBSET Jobs : h[s] = Step(h, f, s) /\ i[s] = Step(i, g, s)
  BY <1>1, <1>2 DEF IsTotal
<1> DEFINE Agree(s) == IF j \in s THEN i[s] + f[j] = h[s] + g[j] ELSE i[s] = h[s]
           T == {s \in SUBSET Jobs : ~ Agree(s)}
<1>4. ASSUME T # {} PROVE FALSE
  <2>0. T \in SUBSET (SUBSET Jobs)
    OBVIOUS
  <2>1. PICK s \in T : \A t \in T : t \subseteq s => t = s
    <3> HIDE DEF T
    <3> QED
      BY <1>4, <2>0, Smallest
  <2>2. s # {} /\ s \in SUBSET Jobs /\ ~ Agree(s)
    <3>1. s \in SUBSET Jobs /\ ~ Agree(s)
      BY <2>1
    <3>2. h[s] = Step(h, f, s) /\ i[s] = Step(i, g, s)
      BY <1>3, <3>1
    <3> QED
      BY <3>1, <3>2 DEF Step
  <2> DEFINE x == Pick(s)
             t == s \ {x}
  <2>3. x \in s /\ x \in Jobs /\ t \in SUBSET Jobs /\ t # s
    BY <2>2, PickIs
  <2>4. Agree(t)
    BY <2>1, <2>3
  <2>5. h[s] = f[x] + h[t] /\ i[s] = g[x] + i[t]
    BY <1>3, <2>2 DEF Step
  <2>6. f[x] \in Nat /\ g[x] \in Nat /\ h[t] \in Nat /\ i[t] \in Nat /\ f[j] \in Nat /\ g[j] \in Nat
    BY <2>3
  <2>7. CASE x = j
    <3>1. i[t] = h[t] /\ j \in s
      BY <2>3, <2>4, <2>7
    <3> HIDE DEF x, t
    <3>2. Agree(s)
      BY <2>5, <2>6, <2>7, <3>1
    <3> QED
      BY <2>2, <3>2
  <2>8. CASE x # j
    <3>1. g[x] = f[x] /\ (j \in t <=> j \in s)
      BY <2>3, <2>8
    <3> HIDE DEF x, t
    <3>2. Agree(s)
      BY <2>4, <2>5, <2>6, <3>1
    <3> QED
      BY <2>2, <3>2
  <2> QED
    BY <2>7, <2>8
<1>5. Agree(Jobs)
  BY <1>4
<1> QED
  BY <1>1, <1>2, <1>5

(* A job's part is no more than the whole. *)
LEMMA SumHolds ==
  ASSUME NEW f \in [Jobs -> Nat], NEW j \in Jobs
  PROVE  SumOver(f) \in Nat /\ f[j] <= SumOver(f)
<1> DEFINE g == [f EXCEPT ![j] = 0]
<1>1. g \in [Jobs -> Nat] /\ g[j] = 0 /\ \A k \in Jobs \ {j} : g[k] = f[k]
  OBVIOUS
<1> HIDE DEF g
<1>2. SumOver(f) \in Nat /\ SumOver(g) \in Nat /\ SumOver(g) + f[j] = SumOver(f) + g[j]
  BY <1>1, SumMoves
<1>3. f[j] \in Nat
  OBVIOUS
<1> QED
  BY <1>1, <1>2, <1>3

(* What each of the others has is bounded, so is the sum. *)
LEMMA SumBound ==
  ASSUME NEW f \in [Jobs -> Nat], NEW j \in Jobs, f[j] = 0, NEW m \in Nat, \A k \in Jobs : f[k] <= m
  PROVE  SumOver(f) \in Nat /\ SumOver(f) <= m * (Cardinality(Jobs) - 1)
<1>1. PICK h \in [SUBSET Jobs -> Nat] : IsTotal(h, f) /\ SumOver(f) = h[Jobs]
  BY SumIs
<1>2. \A s \in SUBSET Jobs : h[s] = Step(h, f, s)
  BY <1>1 DEF IsTotal
<1>3. ASSUME NEW s \in SUBSET Jobs
      PROVE  /\ Cardinality(s \ {j}) \in Nat
             /\ j \in s => Cardinality(s \ {j}) = Cardinality(s) - 1 /\ Cardinality(s) \in Nat
  <2>1. IsFiniteSet(s) /\ IsFiniteSet(s \ {j})
    BY ResumeAssumption, FS_Subset
  <2>2. Cardinality(s \ {j}) \in Nat /\ Cardinality(s) \in Nat
    BY <2>1, FS_CardinalityType
  <2> QED
    BY <2>1, <2>2, FS_RemoveElement
<1>4. ASSUME NEW s \in SUBSET Jobs, NEW x \in s, x # j
      PROVE  Cardinality((s \ {x}) \ {j}) = Cardinality(s \ {j}) - 1
  <2>1. PICK u : u = s \ {j}
    OBVIOUS
  <2>2. IsFiniteSet(u) /\ x \in u
    BY <1>4, <2>1, ResumeAssumption, FS_Subset
  <2>3. Cardinality(u \ {x}) = Cardinality(u) - 1
    BY <2>2, FS_RemoveElement
  <2>4. u \ {x} = (s \ {x}) \ {j}
    BY <2>1
  <2> QED
    BY <2>1, <2>3, <2>4
<1> DEFINE Low(s) == h[s] <= m * Cardinality(s \ {j})
           T == {s \in SUBSET Jobs : ~ Low(s)}
<1>5. ASSUME T # {} PROVE FALSE
  <2>0. T \in SUBSET (SUBSET Jobs)
    OBVIOUS
  <2>1. PICK s \in T : \A t \in T : t \subseteq s => t = s
    <3> HIDE DEF T
    <3> QED
      BY <1>5, <2>0, Smallest
  <2>2. s \in SUBSET Jobs /\ ~ Low(s)
    BY <2>1
  <2>3. s # {}
    <3>1. SUFFICES ASSUME s = {} PROVE FALSE
      OBVIOUS
    <3>2. h[s] = 0
      BY <1>2, <2>2, <3>1 DEF Step
    <3>3. Cardinality(s \ {j}) = 0
      <4>1. s \ {j} = {}
        BY <3>1
      <4> QED
        BY <4>1, FS_EmptySet
    <3>4. m * 0 = 0
      OBVIOUS
    <3> QED
      BY <2>2, <3>2, <3>3, <3>4
  <2> DEFINE x == Pick(s)
             t == s \ {x}
  <2>4. x \in s /\ x \in Jobs /\ t \in SUBSET Jobs /\ t # s
    BY <2>2, <2>3, PickIs
  <2>5. Low(t)
    BY <2>1, <2>4
  <2>6. h[s] = f[x] + h[t]
    BY <1>2, <2>2, <2>3 DEF Step
  <2>7. PICK a \in Nat, b \in Nat, c \in Nat, d \in Nat :
          a = f[x] /\ b = h[t] /\ c = Cardinality(t \ {j}) /\ d = Cardinality(s \ {j})
    BY <1>3, <2>2, <2>4
  <2>8. a <= m /\ b <= m * c
    BY <2>4, <2>5, <2>7
  <2>9. CASE x = j
    <3>1. a = 0 /\ c = d
      <4>1. t \ {j} = s \ {j}
        BY <2>9
      <4> QED
        BY <2>7, <2>9, <4>1
    <3>2. h[s] <= m * d
      BY <2>6, <2>7, <2>8, <3>1
    <3> QED
      BY <2>2, <2>7, <3>2
  <2>10. CASE x # j
    <3>1. c = d - 1
      BY <1>4, <2>2, <2>4, <2>7, <2>10
    <3>2. m * d = m * c + m
      BY <3>1
    <3>3. m * c \in Nat
      OBVIOUS
    <3>4. a + b <= m * d
      BY <2>8, <3>2, <3>3
    <3> QED
      BY <2>2, <2>6, <2>7, <3>4
  <2> QED
    BY <2>9, <2>10
<1>6. h[Jobs] <= m * Cardinality(Jobs \ {j})
  BY <1>5
<1>7. Cardinality(Jobs \ {j}) = Cardinality(Jobs) - 1
  BY <1>3
<1> QED
  BY <1>1, <1>6, <1>7

LEMMA SumOfNothing == SumOver([j \in Jobs |-> 0]) = 0
<1> DEFINE f == [j \in Jobs |-> 0]
<1>1. f \in [Jobs -> Nat] /\ \A j \in Jobs : f[j] = 0
  OBVIOUS
<1> HIDE DEF f
<1>2. PICK h \in [SUBSET Jobs -> Nat] : IsTotal(h, f) /\ SumOver(f) = h[Jobs]
  BY <1>1, SumIs
<1>3. \A s \in SUBSET Jobs : h[s] = Step(h, f, s)
  BY <1>2 DEF IsTotal
<1> DEFINE T == {s \in SUBSET Jobs : h[s] # 0}
<1>4. ASSUME T # {} PROVE FALSE
  <2>0. T \in SUBSET (SUBSET Jobs)
    OBVIOUS
  <2>1. PICK s \in T : \A t \in T : t \subseteq s => t = s
    <3> HIDE DEF T
    <3> QED
      BY <1>4, <2>0, Smallest
  <2>2. s # {} /\ s \in SUBSET Jobs /\ h[s] # 0
    <3>1. s \in SUBSET Jobs /\ h[s] # 0 /\ h[s] = Step(h, f, s)
      BY <1>3, <2>1
    <3> QED
      BY <3>1 DEF Step
  <2>3. Pick(s) \in Jobs /\ h[s \ {Pick(s)}] = 0
    BY <2>1, <2>2, PickIs
  <2>4. h[s] = f[Pick(s)] + h[s \ {Pick(s)}]
    BY <1>3, <2>2 DEF Step
  <2> QED
    BY <1>1, <2>2, <2>3, <2>4
<1>5. h[Jobs] = 0
  BY <1>4
<1> QED
  BY <1>2, <1>5 DEF f

-----------------------------------------------------------------------------
(* The cap.  Until a job is settled the ledger holds no more for it than the *)
(* estimate that was found to fit; its settlement adds the excess.           *)

Estimated(doc, j) ==
  /\ doc.reserved = Estimate \/ (doc.reserved = 0 /\ doc.actual = 0)
  /\ doc.actual <= cost[j]

FitsCap(i) ==
  proc[i].at = "reserveCas" /\ proc[i].fresh => proc[i].seen + Estimate <= mode.cap

(* What a worker's copy of the row says, before it has reserved, while it    *)
(* works and when it settles.                                                *)
CopyFits(i) ==
  proc[i].job \in Jobs =>
    /\ Estimated(proc[i].doc, proc[i].job)
    /\ proc[i].at \in {"start", "reserve", "reserveCas", "reserved"} =>
         proc[i].doc.actual = 0 /\ ~proc[i].doc.settled
    /\ proc[i].at \in {"work", "book", "adjust", "adjustCas"} => proc[i].doc.reserved = Estimate

Over(j)   == Max({0, cost[j] - Estimate})
Excess(j) == IF settles[j] > 0 THEN Over(j) ELSE 0
Excesses  == [j \in Jobs |-> Excess(j)]

Booked == /\ \A j \in Jobs : Estimated(job[j], j)
          /\ \A i \in Procs : FitsCap(i) /\ CopyFits(i)

CapInv == Booked /\ spend <= mode.cap + SumOver(Excesses)

LEMMA ExcessIs ==
  ASSUME Shapes, NEW j \in Jobs
  PROVE  /\ Over(j) \in Nat /\ Over(j) = IF cost[j] > Estimate THEN cost[j] - Estimate ELSE 0
         /\ Excess(j) \in Nat /\ Excess(j) <= Over(j)
         /\ settles[j] = 0 => Excess(j) = 0
         /\ settles[j] > 0 => Excess(j) = Over(j)
<1>1. cost[j] \in Nat /\ Estimate \in Nat /\ cost[j] - Estimate \in Int
  BY ConstantsAre DEF Shapes
<1>2. /\ Over(j) \in Nat /\ Over(j) = IF cost[j] > Estimate THEN cost[j] - Estimate ELSE 0
  BY <1>1, MaxIs DEF Over
<1> QED
  BY <1>2 DEF Excess

LEMMA ExcessesAre ==
  ASSUME Shapes
  PROVE  Excesses \in [Jobs -> Nat] /\ SumOver(Excesses) \in Nat /\ mode.cap \in Nat /\ spend \in Nat
<1>1. Excesses \in [Jobs -> Nat]
  BY ExcessIs DEF Excesses
<1>2. SumOver(Excesses) \in Nat
  BY <1>1, SumIs
<1>3. mode.cap \in Nat
  BY ResumeAssumption DEF Shapes, Mode
<1> QED
  BY <1>1, <1>2, <1>3 DEF Shapes

(* A step that leaves the costs and the settlements alone. *)
LEMMA BoundKept ==
  ASSUME Shapes, Shapes', CapInv, mode' = mode, UNCHANGED <<cost, settles>>,
         spend' <= spend \/ spend' <= mode.cap
  PROVE  spend' <= mode'.cap + SumOver(Excesses')
<1>1. Excesses' = Excesses
  BY DEF Excesses, Excess, Over
<1> QED
  BY <1>1, ExcessesAre DEF CapInv, Shapes

LEMMA BookedKept ==
  ASSUME Shapes, Shapes', Booked, NEW i \in Procs, Moves(i), mode' = mode, NEW j \in Jobs,
         proc[i].job = j, OthersSame(j), cost[j] <= cost'[j],
         Estimated(job[j], j)', FitsCap(i)', CopyFits(i)'
  PROVE  Booked'
<1>1. \A k \in Procs \ {i} : Like(k)
  BY DEF Moves
<1>2. \A k \in Jobs : cost[k] \in Nat /\ cost'[k] \in Nat /\ cost[k] <= cost'[k]
  BY DEF OthersSame, Shapes
<1>3. ASSUME NEW k \in Jobs
      PROVE  Estimated(job[k], k)'
  BY DEF Booked, OthersSame, Estimated
<1>4. ASSUME NEW k \in Procs \ {i}
      PROVE  FitsCap(k)' /\ CopyFits(k)'
  <2>1. FitsCap(k) /\ CopyFits(k) /\ Like(k)
    BY <1>1 DEF Booked
  <2>2. FitsCap(k)'
    BY <2>1 DEF FitsCap, Like
  <2>3. ASSUME proc'[k].job \in Jobs
        PROVE  Estimated(proc[k].doc, proc[k].job)'
    <3>1. proc'[k].job = proc[k].job /\ proc'[k].doc = proc[k].doc /\ proc[k].doc \in Row
      BY <2>1, Busy DEF Like
    <3>2. cost[proc[k].job] <= cost'[proc[k].job] /\ cost[proc[k].job] \in Nat
          /\ cost'[proc[k].job] \in Nat /\ proc[k].doc.actual \in Nat
      BY <1>2, <2>3, <3>1 DEF Row
    <3>3. Estimated(proc[k].doc, proc[k].job)
      BY <2>1, <2>3, <3>1 DEF CopyFits
    <3> QED
      BY <3>1, <3>2, <3>3 DEF Estimated
  <2>4. CopyFits(k)'
    BY <2>1, <2>3 DEF CopyFits, Like
  <2> QED
    BY <2>2, <2>4
<1> QED
  BY <1>3, <1>4 DEF Booked

LEMMA InitCap == Init => CapInv
<1> SUFFICES ASSUME Init PROVE CapInv
  OBVIOUS
<1>1. Shapes
  BY InitShapes
<1>2. \A i \in Procs : proc[i].job = None /\ ~proc[i].fresh /\ None \notin Jobs
  BY RestIsTyped, ConstantsAre DEF Init
<1>3. \A j \in Jobs : Estimated(job[j], j)
  BY DEF Init, NoRow, Estimated
<1>4. spend <= mode.cap + SumOver(Excesses)
  BY <1>1, ExcessesAre DEF Init
<1> QED
  BY <1>2, <1>3, <1>4 DEF CapInv, Booked, FitsCap, CopyFits

(* What is known of the copy of a worker at work. *)
LEMMA CopyOnJob ==
  ASSUME Shapes, SettleInv, CapInv, NEW i \in Procs, proc[i].at # "idle"
  PROVE  /\ proc[i].job \in Jobs /\ proc[i].doc \in Row /\ job[proc[i].job] \in Row
         /\ Booked /\ Estimated(job[proc[i].job], proc[i].job) /\ FitsCap(i) /\ CopyFits(i)
         /\ cost[proc[i].job] \in Nat /\ spend \in Nat
BY Busy DEF CapInv, Booked, Shapes

(* A worker's step that puts its copy, or leaves the row. *)
LEMMA WorkerStepFits ==
  ASSUME Shapes, SettleInv, CapInv, NEW w \in Workers, WorkerStep(w)
  PROVE  CapInv'
<1> DEFINE j == proc[w].job
<1>0. w \in Procs /\ settles' = settles /\ mode' = mode /\ Shapes'
  <2>1. w \in Procs /\ settles' = settles /\ mode' = mode
    BY DEF Procs, WorkerStep, WorkerStarts, WorkerTurnedOff, ReserveReads, ReserveWrites,
           ReservePersists, Calls, CallBooked, WorkEnds, ChecksStatus, KeepsLedger
  <2> QED
    BY <2>1, NextShapes DEF Next
<1>1. CASE WorkerStarts(w)
  <2>1. proc[w].at = "start"
    BY <1>1 DEF WorkerStarts, Ready
  <2>2. /\ j \in Jobs /\ Booked /\ Estimated(proc[w].doc, j) /\ proc[w].doc \in Row
        /\ proc[w].doc.actual = 0 /\ ~proc[w].doc.settled
    BY <1>0, <2>1, CopyOnJob DEF CopyFits
  <2>3. /\ Kept(w) /\ OthersSame(j) /\ proc'[w].at = "reserve" /\ proc'[w].job = j
        /\ proc'[w].doc = Started(proc[w].doc) /\ job'[j] = Started(proc[w].doc)
        /\ cost' = cost /\ spend' = spend
    BY <1>1, StartsDoes DEF WorkerStarts, KeepsLedger
  <2>4. /\ Started(proc[w].doc).reserved = proc[w].doc.reserved
        /\ Started(proc[w].doc).actual = proc[w].doc.actual
        /\ Started(proc[w].doc).settled = proc[w].doc.settled
    BY <2>2, RowsAreTyped
  <2>5. PICK h \in Jobs : h = j
    BY <2>2
  <2>6. Estimated(job[h], h)' /\ FitsCap(w)' /\ CopyFits(w)'
    BY <2>2, <2>3, <2>4, <2>5 DEF Estimated, FitsCap, CopyFits
  <2>7. Booked'
    BY <1>0, <2>2, <2>3, <2>5, <2>6, BookedKept DEF Kept, Shapes
  <2> QED
    BY <1>0, <2>3, <2>7, BoundKept, ExcessesAre DEF CapInv
<1>2. CASE WorkerTurnedOff(w)
  <2>1. proc[w].at = "start"
    BY <1>2 DEF WorkerTurnedOff, Ready
  <2>2. /\ j \in Jobs /\ Booked /\ Estimated(proc[w].doc, j) /\ proc[w].doc \in Row
    BY <1>0, <2>1, CopyOnJob DEF CopyFits
  <2>3. /\ Kept(w) /\ OthersSame(j) /\ proc'[w] = Rest
        /\ job'[j] = [proc[w].doc EXCEPT !.status = "failed"]
        /\ cost' = cost /\ spend' = spend
    BY <1>2, TurnedOffDoes DEF WorkerTurnedOff, KeepsLedger
  <2>4. PICK h \in Jobs : h = j
    BY <2>2
  <2>5. Estimated(job[h], h)'
    BY <2>2, <2>3, <2>4 DEF Estimated, Row
  <2>6. FitsCap(w)' /\ CopyFits(w)'
    BY <2>3, RestIsTyped, ConstantsAre DEF FitsCap, CopyFits
  <2>7. Booked'
    BY <1>0, <2>2, <2>3, <2>4, <2>5, <2>6, BookedKept DEF Kept, Shapes
  <2> QED
    BY <1>0, <2>3, <2>7, BoundKept, ExcessesAre DEF CapInv
<1>3. CASE ReserveReads(w)
  <2>1. proc[w].at = "reserve"
    BY <1>3 DEF ReserveReads, Ready
  <2>2. /\ j \in Jobs /\ Booked /\ Estimated(proc[w].doc, j) /\ proc[w].doc \in Row
        /\ proc[w].doc.actual = 0 /\ ~proc[w].doc.settled /\ Estimated(job[j], j)
    BY <1>0, <2>1, CopyOnJob DEF CopyFits
  <2>3. /\ Kept(w) /\ UNCHANGED <<job, age, settles, cost, spend>>
        /\ proc'[w].job = j /\ proc'[w].doc = proc[w].doc
        /\ \/ proc'[w].at = "work" /\ ~proc'[w].fresh /\ HasReserved(proc[w].doc)
           \/ proc'[w].at = "settle" /\ ~proc'[w].fresh
           \/ proc'[w].at = "reserveCas" /\ proc'[w].seen = spend /\ spend + Estimate <= mode.cap
    BY <1>3, ReserveReadsDoes
  <2>4. HasReserved(proc[w].doc) => proc[w].doc.reserved = Estimate
    BY <2>2, ConstantsAre DEF HasReserved, Estimated, Row
  <2>5. PICK h \in Jobs : h = j
    BY <2>2
  <2>6. FitsCap(w)' /\ CopyFits(w)' /\ Estimated(job[h], h)'
    BY <1>0, <2>2, <2>3, <2>4, <2>5 DEF FitsCap, CopyFits, Estimated
  <2>7. Booked'
    BY <1>0, <2>2, <2>3, <2>5, <2>6, BookedKept DEF Kept, OthersSame, Shapes
  <2> QED
    BY <1>0, <2>3, <2>7, BoundKept, ExcessesAre DEF CapInv
<1>4. CASE ReserveWrites(w)
  <2>1. proc[w].at = "reserveCas"
    BY <1>4 DEF ReserveWrites, Ready
  <2>2. /\ j \in Jobs /\ Booked /\ Estimated(proc[w].doc, j) /\ proc[w].doc \in Row
        /\ proc[w].doc.actual = 0 /\ ~proc[w].doc.settled /\ Estimated(job[j], j) /\ FitsCap(w)
    BY <1>0, <2>1, CopyOnJob DEF CopyFits
  <2>3. /\ Kept(w) /\ UNCHANGED <<job, age, settles, cost>>
        /\ proc'[w].job = j /\ proc'[w].doc = proc[w].doc /\ ~proc'[w].fresh
        /\ \/ proc'[w].at = "reserve" /\ spend' = spend
           \/ proc'[w].at = "reserved" /\ proc[w].fresh /\ spend' = proc[w].seen + Estimate
    BY <1>4, ReserveWritesDoes
  <2>4. spend' = spend \/ spend' <= mode.cap
    BY <2>1, <2>2, <2>3 DEF FitsCap
  <2>5. PICK h \in Jobs : h = j
    BY <2>2
  <2>6. FitsCap(w)' /\ CopyFits(w)' /\ Estimated(job[h], h)'
    BY <1>0, <2>2, <2>3, <2>5 DEF FitsCap, CopyFits, Estimated
  <2>7. Booked'
    BY <1>0, <2>2, <2>3, <2>5, <2>6, BookedKept DEF Kept, OthersSame, Shapes
  <2> QED
    BY <1>0, <2>3, <2>4, <2>7, BoundKept, ExcessesAre DEF CapInv
<1>5. CASE ReservePersists(w)
  <2> DEFINE doc == [proc[w].doc EXCEPT !.reserved = Estimate, !.settled = FALSE]
  <2>1. proc[w].at = "reserved"
    BY <1>5 DEF ReservePersists, Ready
  <2>2. /\ j \in Jobs /\ Booked /\ Estimated(proc[w].doc, j) /\ proc[w].doc \in Row
        /\ proc[w].doc.actual = 0
    BY <1>0, <2>1, CopyOnJob DEF CopyFits
  <2>3. doc.reserved = Estimate /\ doc.actual = proc[w].doc.actual
    BY <2>2 DEF Row
  <2>4. /\ Kept(w) /\ OthersSame(j) /\ cost' = cost /\ spend' = spend /\ proc'[w].job = j
        /\ proc'[w].at = "work" /\ proc'[w].doc = doc /\ job'[j] = doc
    BY <1>5, PersistsDoes
  <2> HIDE DEF doc
  <2>5. PICK h \in Jobs : h = j
    BY <2>2
  <2>6. Estimated(job[h], h)' /\ FitsCap(w)' /\ CopyFits(w)'
    BY <2>2, <2>3, <2>4, <2>5 DEF Estimated, FitsCap, CopyFits
  <2>7. Booked'
    BY <1>0, <2>2, <2>4, <2>5, <2>6, BookedKept DEF Kept, Shapes
  <2> QED
    BY <1>0, <2>4, <2>7, BoundKept, ExcessesAre DEF CapInv
<1>6. CASE Calls(w)
  <2>1. proc[w].at = "work"
    BY <1>6 DEF Calls, Ready
  <2>2. /\ j \in Jobs /\ Booked /\ Estimated(proc[w].doc, j) /\ proc[w].doc \in Row
        /\ proc[w].doc.reserved = Estimate /\ Estimated(job[j], j) /\ job[j] \in Row
        /\ cost[j] \in Nat
    BY <1>0, <2>1, CopyOnJob DEF CopyFits
  <2>3. /\ Kept(w) /\ OthersSame(j) /\ UNCHANGED <<job, age, settles, spend>>
        /\ proc'[w].job = j /\ ~proc'[w].fresh
        /\ \/ /\ proc'[w].at = "settle" /\ proc'[w].doc = proc[w].doc /\ cost' = cost
           \/ /\ proc'[w].at = "book"
              /\ \E c \in Nat : /\ cost'[j] = cost[j] + c
                                /\ proc'[w].doc = [proc[w].doc EXCEPT !.actual = @ + c]
    BY <1>6, CallsDoes
  <2>4. /\ proc'[w].doc.reserved = Estimate /\ proc'[w].doc.actual <= cost'[j]
        /\ cost[j] <= cost'[j] /\ cost'[j] \in Nat
    <3>1. CASE proc'[w].doc = proc[w].doc /\ cost' = cost
      BY <2>2, <3>1 DEF Estimated
    <3>2. ASSUME NEW c \in Nat, cost'[j] = cost[j] + c,
                 proc'[w].doc = [proc[w].doc EXCEPT !.actual = @ + c]
          PROVE  /\ proc'[w].doc.reserved = Estimate /\ proc'[w].doc.actual <= cost'[j]
                 /\ cost[j] <= cost'[j] /\ cost'[j] \in Nat
      <4>1. /\ proc'[w].doc.reserved = Estimate /\ proc'[w].doc.actual = proc[w].doc.actual + c
            /\ proc[w].doc.actual \in Nat /\ proc[w].doc.actual <= cost[j]
        BY <2>2, <3>2 DEF Row, Estimated
      <4> QED
        BY <2>2, <3>2, <4>1
    <3> QED
      BY <2>3, <3>1, <3>2
  <2>5. PICK h \in Jobs : h = j
    BY <2>2
  <2>6. Estimated(job[h], h)'
    BY <2>2, <2>3, <2>4, <2>5 DEF Estimated, Row
  <2>7. FitsCap(w)' /\ CopyFits(w)'
    BY <2>3, <2>4 DEF Estimated, FitsCap, CopyFits
  <2>8. Booked'
    BY <1>0, <2>2, <2>3, <2>4, <2>5, <2>6, <2>7, BookedKept DEF Kept
  <2>9. settles[j] = 0
    BY <1>0, <2>1, OnJob DEF Works, BeforeSettled
  <2>10. ASSUME NEW k \in Jobs
         PROVE  Excess(k)' = Excess(k)
    <3>1. settles'[k] = settles[k]
      BY <1>0
    <3>2. k = j => ~(settles[k] > 0)
      BY <2>9
    <3>3. k # j => cost'[k] = cost[k]
      BY <2>3 DEF OthersSame
    <3> QED
      BY <3>1, <3>2, <3>3 DEF Excess, Over
  <2>11. Excesses' = Excesses
    BY <2>10 DEF Excesses
  <2> QED
    BY <1>0, <2>3, <2>8, <2>11 DEF CapInv
<1>7. CASE CallBooked(w)
  <2>1. /\ Kept(w) /\ OthersSame(j) /\ cost' = cost /\ spend' = spend /\ proc'[w].job = j
        /\ proc'[w].at = "work" /\ proc'[w].doc = proc[w].doc /\ job'[j] = proc[w].doc
        /\ proc[w].at = "book"
    BY <1>7, BookedDoes
  <2>2. /\ j \in Jobs /\ Booked /\ Estimated(proc[w].doc, j) /\ proc[w].doc \in Row
        /\ proc[w].doc.reserved = Estimate
    BY <1>0, <2>1, CopyOnJob DEF CopyFits
  <2>3. PICK h \in Jobs : h = j
    BY <2>2
  <2>4. Estimated(job[h], h)' /\ FitsCap(w)' /\ CopyFits(w)'
    BY <2>1, <2>2, <2>3 DEF Estimated, FitsCap, CopyFits
  <2>5. Booked'
    BY <1>0, <2>1, <2>2, <2>3, <2>4, BookedKept DEF Kept, Shapes
  <2> QED
    BY <1>0, <2>1, <2>5, BoundKept, ExcessesAre DEF CapInv
<1>8. CASE WorkEnds(w)
  <2>1. /\ Kept(w) /\ UNCHANGED <<job, age, settles, cost, spend>> /\ proc'[w].job = j
        /\ proc'[w].at = "settle" /\ proc'[w].doc = proc[w].doc /\ proc[w].at = "work"
    BY <1>8, WorkEndsDoes
  <2>2. /\ j \in Jobs /\ Booked /\ Estimated(proc[w].doc, j) /\ Estimated(job[j], j)
    BY <1>0, <2>1, CopyOnJob DEF CopyFits
  <2>3. PICK h \in Jobs : h = j
    BY <2>2
  <2>4. Estimated(job[h], h)' /\ FitsCap(w)' /\ CopyFits(w)'
    BY <2>1, <2>2, <2>3 DEF Estimated, FitsCap, CopyFits
  <2>5. Booked'
    BY <1>0, <2>1, <2>2, <2>3, <2>4, BookedKept DEF Kept, OthersSame, Shapes
  <2> QED
    BY <1>0, <2>1, <2>5, BoundKept, ExcessesAre DEF CapInv
<1>9. CASE ChecksStatus(w)
  <2>1. /\ Kept(w) /\ UNCHANGED <<job, age, settles, cost, spend>> /\ proc[w].at = "check"
        /\ \/ proc'[w] = Rest
           \/ /\ proc'[w].at = "end" /\ proc'[w].job = j /\ proc'[w].doc = proc[w].doc
    BY <1>9, ChecksDoes
  <2>2. /\ j \in Jobs /\ Booked /\ Estimated(proc[w].doc, j) /\ Estimated(job[j], j)
    BY <1>0, <2>1, CopyOnJob DEF CopyFits
  <2>3. PICK h \in Jobs : h = j
    BY <2>2
  <2>4. Estimated(job[h], h)' /\ FitsCap(w)' /\ CopyFits(w)'
    BY <2>1, <2>2, <2>3, RestIsTyped, ConstantsAre DEF Estimated, FitsCap, CopyFits
  <2>5. Booked'
    BY <1>0, <2>1, <2>2, <2>3, <2>4, BookedKept DEF Kept, OthersSame, Shapes
  <2> QED
    BY <1>0, <2>1, <2>5, BoundKept, ExcessesAre DEF CapInv
<1> QED
  BY <1>1, <1>2, <1>3, <1>4, <1>5, <1>6, <1>7, <1>8, <1>9 DEF WorkerStep

(* The settlement of a job adds to the ledger at most its excess. *)
LEMMA AdjustmentFits ==
  ASSUME Shapes, Shapes', CapInv, mode' = mode, cost' = cost, NEW j \in Jobs, settles[j] = 0,
         settles' = [settles EXCEPT ![j] = @ + 1], NEW doc \in Row, Estimated(doc, j),
         doc.reserved = Estimate, spend' = Adjusted(spend, doc)
  PROVE  spend' <= mode'.cap + SumOver(Excesses')
<1>0. Excesses' \in [Jobs -> Nat]
  <2>1. \A k \in Jobs : Excess(k)' \in Nat
    BY ExcessIs DEF Excess, Over
  <2> QED
    BY <2>1 DEF Excesses
<1>1. /\ Excesses \in [Jobs -> Nat] /\ SumOver(Excesses) \in Nat /\ mode.cap \in Nat /\ spend \in Nat
      /\ Excesses' \in [Jobs -> Nat] /\ Over(j) \in Nat /\ Estimate \in Nat /\ cost[j] \in Nat
      /\ doc.actual \in Nat
  BY <1>0, ExcessesAre, ExcessIs, ConstantsAre DEF Row, Shapes
<1>2. PICK d \in Nat : d = Over(j)
  BY <1>1
<1>3. Excesses[j] = 0 /\ Excesses'[j] = d
  <2>1. settles'[j] > 0
    BY DEF Shapes
  <2>2. Excess(j) = 0 /\ Excess(j)' = Over(j)
    BY <2>1, ExcessIs DEF Excess, Over
  <2> QED
    BY <1>2, <2>2 DEF Excesses
<1>4. \A k \in Jobs : Excesses[k] <= Excesses'[k]
  <2>1. ASSUME NEW k \in Jobs, k # j
        PROVE  Excesses'[k] = Excesses[k]
    BY <2>1 DEF Excesses, Excess, Over, Shapes
  <2> QED
    BY <1>1, <1>2, <1>3, <2>1
<1>5. SumOver(Excesses) + d <= SumOver(Excesses') /\ SumOver(Excesses') \in Nat
  <2> DEFINE f == Excesses
             g == Excesses'
  <2>1. f[j] + d <= g[j]
    BY <1>2, <1>3
  <2>2. f \in [Jobs -> Nat] /\ g \in [Jobs -> Nat] /\ \A k \in Jobs : f[k] <= g[k]
    BY <1>1, <1>4
  <2> HIDE DEF f, g
  <2>3. SumOver(f) + d <= SumOver(g) /\ SumOver(g) \in Nat
    BY <1>2, <2>1, <2>2, SumGrows
  <2> QED
    BY <2>3 DEF f, g
<1>6. spend' <= spend + d
  <2>1. doc.actual <= cost[j] /\ cost[j] - Estimate <= d
    BY <1>1, <1>2, ExcessIs DEF Estimated
  <2>2. spend' = IF spend + doc.actual - Estimate > 0 THEN spend + doc.actual - Estimate ELSE 0
    BY <1>1, AdjustedIs
  <2>3. spend + doc.actual - Estimate <= spend + d
    BY <1>1, <1>2, <2>1
  <2> QED
    BY <1>1, <1>2, <2>2, <2>3
<1>7. spend' \in Nat /\ spend <= mode.cap + SumOver(Excesses)
  BY DEF CapInv, Shapes
<1> QED
  BY <1>1, <1>2, <1>5, <1>6, <1>7

LEMMA SettleStepFits ==
  ASSUME Shapes, SettleInv, CapInv, NEW i \in Procs, SettleStep(i)
  PROVE  CapInv'
<1> DEFINE j == proc[i].job
<1>0. mode' = mode /\ Shapes'
  <2>1. mode' = mode
    BY DEF SettleStep, SettleReads, AdjustReads, AdjustWrites, SettlePersists, Ends
  <2> QED
    BY <2>1, NextShapes DEF Next
<1>1. CASE SettleReads(i)
  <2>1. /\ Kept(i) /\ UNCHANGED <<job, age, settles, cost, spend>> /\ proc[i].at = "settle"
        /\ proc'[i].job = j /\ ~proc'[i].fresh /\ proc'[i].doc = Refreshed(i)
        /\ \/ Onward(i)
           \/ /\ proc'[i].at = "adjust"
              /\ ~Refreshed(i).settled
              /\ ~(Refreshed(i).reserved = 0 /\ Refreshed(i).actual = 0)
    BY <1>1, SettleReadsDoes
  <2>2. /\ j \in Jobs /\ Booked /\ Estimated(proc[i].doc, j) /\ Estimated(job[j], j)
    BY <2>1, CopyOnJob DEF CopyFits
  <2>3. Estimated(Refreshed(i), j)
    BY <2>1, <2>2, RefreshedIs DEF Estimated
  <2>4. proc'[i].at = "adjust" => Refreshed(i).reserved = Estimate
    BY <2>1, <2>3 DEF Onward, Estimated
  <2>5. proc'[i].at \in {"check", "settle", "end", "adjust"}
    BY <2>1 DEF Onward
  <2>6. PICK h \in Jobs : h = j
    BY <2>2
  <2>7. Estimated(job[h], h)' /\ FitsCap(i)'
    BY <2>1, <2>2, <2>6 DEF Estimated, FitsCap
  <2>8. CopyFits(i)'
    BY <2>1, <2>3, <2>4, <2>5 DEF CopyFits, Estimated
  <2>9. Booked'
    BY <1>0, <2>1, <2>2, <2>6, <2>7, <2>8, BookedKept DEF Kept, OthersSame, Shapes
  <2> QED
    BY <1>0, <2>1, <2>9, BoundKept, ExcessesAre DEF CapInv
<1>2. CASE AdjustReads(i)
  <2>1. /\ Kept(i) /\ UNCHANGED <<job, age, settles, cost, spend>> /\ proc[i].at = "adjust"
        /\ proc'[i].job = j /\ proc'[i].doc = proc[i].doc
        /\ proc'[i].at \in {"settled", "adjustCas"}
    BY <1>2, AdjustReadsDoes
  <2>2. /\ j \in Jobs /\ Booked /\ Estimated(proc[i].doc, j) /\ Estimated(job[j], j)
        /\ proc[i].doc.reserved = Estimate
    BY <2>1, CopyOnJob DEF CopyFits
  <2>3. PICK h \in Jobs : h = j
    BY <2>2
  <2>4. Estimated(job[h], h)' /\ FitsCap(i)' /\ CopyFits(i)'
    BY <2>1, <2>2, <2>3 DEF Estimated, FitsCap, CopyFits
  <2>5. Booked'
    BY <1>0, <2>1, <2>2, <2>3, <2>4, BookedKept DEF Kept, OthersSame, Shapes
  <2> QED
    BY <1>0, <2>1, <2>5, BoundKept, ExcessesAre DEF CapInv
<1>3. CASE AdjustWrites(i)
  <2>1. /\ Kept(i) /\ OthersSame(j) /\ UNCHANGED <<job, age, cost>> /\ proc[i].at = "adjustCas"
        /\ proc'[i].job = j /\ proc'[i].doc = proc[i].doc /\ ~proc'[i].fresh
        /\ \/ proc'[i].at = "adjust" /\ spend' = spend /\ settles' = settles
           \/ /\ proc'[i].at = "settled"
              /\ spend' = Adjusted(spend, proc[i].doc)
              /\ settles' = [settles EXCEPT ![j] = @ + 1]
    BY <1>3, AdjustWritesDoes
  <2>2. /\ j \in Jobs /\ Booked /\ Estimated(proc[i].doc, j) /\ Estimated(job[j], j)
        /\ proc[i].doc.reserved = Estimate /\ proc[i].doc \in Row
    BY <2>1, CopyOnJob DEF CopyFits
  <2>3. PICK h \in Jobs : h = j
    BY <2>2
  <2>4. Estimated(job[h], h)' /\ FitsCap(i)' /\ CopyFits(i)'
    BY <2>1, <2>2, <2>3 DEF Estimated, FitsCap, CopyFits
  <2>5. Booked'
    BY <1>0, <2>1, <2>2, <2>3, <2>4, BookedKept DEF Kept, Shapes
  <2>6. settles[h] = 0
    BY <2>1, <2>3, OnJob DEF Works, BeforeSettled
  <2>7. CASE spend' = spend /\ settles' = settles
    BY <1>0, <2>1, <2>5, <2>7, BoundKept, ExcessesAre DEF CapInv
  <2>8. CASE spend' = Adjusted(spend, proc[i].doc) /\ settles' = [settles EXCEPT ![j] = @ + 1]
    <3>1. PICK doc \in Row : doc = proc[i].doc
      BY <2>2
    <3>2. spend' <= mode'.cap + SumOver(Excesses')
      BY <1>0, <2>1, <2>2, <2>3, <2>6, <2>8, <3>1, AdjustmentFits
    <3> QED
      BY <2>5, <3>2 DEF CapInv
  <2> QED
    BY <2>1, <2>7, <2>8
<1>4. CASE SettlePersists(i)
  <2> DEFINE doc == [proc[i].doc EXCEPT !.settled = TRUE]
  <2>1. /\ Kept(i) /\ OthersSame(j) /\ UNCHANGED <<age, settles, cost, spend>>
        /\ proc[i].at = "settled" /\ proc'[i].job = j /\ ~proc'[i].fresh /\ proc'[i].doc = doc
        /\ job'[j] = doc /\ Onward(i)
    BY <1>4, SettlePersistsDoes
  <2>2. /\ j \in Jobs /\ Booked /\ Estimated(proc[i].doc, j) /\ proc[i].doc \in Row
    BY <2>1, CopyOnJob DEF CopyFits
  <2>3. doc.reserved = proc[i].doc.reserved /\ doc.actual = proc[i].doc.actual
    BY <2>2 DEF Row
  <2> HIDE DEF doc
  <2>4. PICK h \in Jobs : h = j
    BY <2>2
  <2>5. Estimated(job[h], h)' /\ FitsCap(i)' /\ CopyFits(i)'
    BY <2>1, <2>2, <2>3, <2>4 DEF Estimated, FitsCap, CopyFits, Onward
  <2>6. Booked'
    BY <1>0, <2>1, <2>2, <2>4, <2>5, BookedKept DEF Kept, Shapes
  <2> QED
    BY <1>0, <2>1, <2>6, BoundKept, ExcessesAre DEF CapInv
<1>5. CASE Ends(i)
  <2> DEFINE doc == [proc[i].doc EXCEPT !.status = proc[i].ending]
  <2>1. /\ Kept(i) /\ OthersSame(j) /\ UNCHANGED <<age, settles, cost, spend>>
        /\ proc[i].at = "end" /\ proc'[i] = Rest /\ job'[j] = doc
    BY <1>5, EndsDoes
  <2>2. /\ j \in Jobs /\ Booked /\ Estimated(proc[i].doc, j) /\ proc[i].doc \in Row
    BY <2>1, CopyOnJob DEF CopyFits
  <2>3. doc.reserved = proc[i].doc.reserved /\ doc.actual = proc[i].doc.actual
    BY <2>2 DEF Row
  <2> HIDE DEF doc
  <2>4. PICK h \in Jobs : h = j
    BY <2>2
  <2>5. Estimated(job[h], h)' /\ FitsCap(i)' /\ CopyFits(i)'
    BY <2>1, <2>2, <2>3, <2>4, RestIsTyped, ConstantsAre DEF Estimated, FitsCap, CopyFits
  <2>6. Booked'
    BY <1>0, <2>1, <2>2, <2>4, <2>5, RestIsTyped, BookedKept DEF Kept, Shapes
  <2> QED
    BY <1>0, <2>1, <2>6, BoundKept, ExcessesAre DEF CapInv
<1> QED
  BY <1>1, <1>2, <1>3, <1>4, <1>5 DEF SettleStep

(* An invocation that takes up a job gets a copy that fits; the copy of a    *)
(* worker that starts has no money in it.                                    *)
LEMMA TakingFits ==
  ASSUME Shapes, Shapes', SettleInv, CapInv, NEW i \in Procs, NEW j \in Jobs, Kept(i),
         UNCHANGED <<job, age, settles, cost, spend>>, job[j].status \in Open, TakesUp(i, j),
         (i \in Workers /\ events[j] > 0) \/ age[j] = "stale"
  PROVE  CapInv'
<1>1. \A k \in Procs \ {i} : Like(k)
  BY DEF Kept, Moves
<1>2. proc'[i].at \in {"start", "settle"} /\ proc'[i].job = j /\ proc'[i].doc = job[j] /\ mode' = mode
  BY DEF TakesUp, Kept
<1>3. Untouched(j)
  BY DEF SettleInv, Delivered, Unbegun
<1>4. Estimated(job[j], j)
  BY DEF CapInv, Booked
<1>5. FitsCap(i)' /\ CopyFits(i)'
  BY <1>2, <1>3, <1>4 DEF FitsCap, CopyFits, Estimated, Untouched
<1>6. ASSUME NEW k \in Procs \ {i}
      PROVE  FitsCap(k)' /\ CopyFits(k)'
  BY <1>1, <1>2 DEF CapInv, Booked, FitsCap, CopyFits, Estimated, Like
<1>7. \A k \in Jobs : Estimated(job[k], k)'
  BY DEF CapInv, Booked, Estimated
<1>8. Booked'
  BY <1>5, <1>6, <1>7 DEF Booked
<1> QED
  BY <1>2, <1>8, BoundKept, ExcessesAre DEF CapInv

(* A step of the request or the clock changes no money. *)
LEMMA QuietFits ==
  ASSUME Shapes, CapInv, NEW j \in Jobs, Queue(j) \/ LoseEvent(j) \/ JobAges(j)
  PROVE  CapInv'
<1>1. Quietly /\ Shapes'
  BY QueueDoes, LoseDoes, AgesDoes
<1>2. ASSUME NEW k \in Jobs
      PROVE  job'[k].reserved = job[k].reserved /\ job'[k].actual = job[k].actual
  <2>1. job[k] \in Row
    BY DEF Shapes
  <2>2. CASE Queue(j)
    <3>1. PICK n : job' = [job EXCEPT ![j].status = IF n > 0 THEN "queued" ELSE "failed"]
      BY <2>2, QueueDoes
    <3> QED
      BY <2>1, <3>1 DEF Shapes, Row
  <2>3. CASE LoseEvent(j) \/ JobAges(j)
    BY <2>3, LoseDoes, AgesDoes
  <2> QED
    BY <2>2, <2>3
<1>3. \A k \in Jobs : Estimated(job[k], k)'
  BY <1>1, <1>2 DEF CapInv, Booked, Estimated, Quietly
<1>4. \A k \in Procs : FitsCap(k)' /\ CopyFits(k)'
  BY <1>1 DEF CapInv, Booked, FitsCap, CopyFits, Estimated, Quietly
<1> QED
  BY <1>1, <1>3, <1>4, BoundKept, ExcessesAre DEF CapInv, Booked, Quietly

LEMMA NextCap == Shapes /\ SettleInv /\ CapInv /\ InOrder /\ [Next]_vars => CapInv'
<1> SUFFICES ASSUME Shapes, SettleInv, CapInv, InOrder, [Next]_vars PROVE CapInv'
  OBVIOUS
<1>1. CASE UNCHANGED vars
  <2>1. Booked'
    BY <1>1 DEF vars, CapInv, Booked, Estimated, FitsCap, CopyFits
  <2> QED
    BY <1>1, <2>1, NextShapes, BoundKept, ExcessesAre DEF vars, CapInv
<1>2. CASE \E j \in Jobs : Queue(j) \/ LoseEvent(j) \/ JobAges(j)
  BY <1>2, QuietFits
<1>3. ASSUME NEW w \in Workers, NEW j \in Jobs, WorkerBegins(w, j)
      PROVE  CapInv'
  <2>1. /\ w \in Procs /\ Kept(w) /\ Shapes' /\ UNCHANGED <<job, age, settles, cost, spend>>
        /\ events[j] > 0
        /\ \/ proc' = proc
           \/ job[j].status \in Open /\ TakesUp(w, j)
    BY <1>3, BeginsDoes DEF Procs, Kept
  <2>2. CASE proc' = proc
    <3>1. mode' = mode
      BY <2>1 DEF Kept
    <3>2. Booked'
      BY <2>1, <2>2, <3>1 DEF CapInv, Booked, Estimated, FitsCap, CopyFits
    <3> QED
      BY <2>1, <3>1, <3>2, BoundKept, ExcessesAre DEF CapInv
  <2> QED
    BY <2>1, <2>2, TakingFits
<1>4. CASE \E w \in Workers : WorkerStep(w)
  BY <1>4, WorkerStepFits
<1>5. CASE \E i \in Procs : SettleStep(i) \/ Dies(i)
  BY <1>5, SettleStepFits, DiesDoes DEF InOrder, Fault
<1>6. ASSUME NEW q \in Polls, NEW j \in Jobs, Poll(q, j)
      PROVE  CapInv'
  <2>1. age[j] = "stale" /\ q \in Procs
    BY <1>6 DEF Poll, Procs
  <2> QED
    BY <1>6, <2>1, PollDoes, TakingFits DEF Kept
<1> QED
  BY <1>1, <1>2, <1>3, <1>4, <1>5, <1>6 DEF Next

(* The month's cap holds up to what jobs cost above their estimate, for any  *)
(* number of jobs that reserve and settle at the same time: no reservation   *)
(* is written that was found to fit a ledger others have written since.      *)
THEOREM CapHeldAlways == Spec => []CapHeld
<1> DEFINE IInv == Shapes /\ (InOrder => SettleInv /\ CapInv)
<1>1. Init => IInv
  BY InitShapes, InitSettles, InitCap
<1>2. IInv /\ [Next]_vars => IInv'
  BY NextShapes, NextSettles, NextCap, ModeStays DEF InOrder
<1>3. ASSUME IInv, InOrder
      PROVE  spend <= mode.cap + SumOver([j \in Jobs |-> Max({0, cost[j] - Estimate})])
  <2> DEFINE g == [j \in Jobs |-> Over(j)]
  <2>1. /\ Excesses \in [Jobs -> Nat] /\ g \in [Jobs -> Nat] /\ 0 \in Nat /\ None \notin Jobs
        /\ \A k \in Jobs : Excesses[k] <= g[k]
    BY <1>3, ExcessIs, ExcessesAre, ConstantsAre DEF Excesses
  <2>2. g = [j \in Jobs |-> Max({0, cost[j] - Estimate})]
    BY DEF Over
  <2> HIDE DEF g
  <2>3. /\ SumOver(Excesses) \in Nat /\ SumOver(g) \in Nat
        /\ SumOver(Excesses) + (IF None \in Jobs THEN 0 ELSE 0) <= SumOver(g)
    BY <2>1, SumGrows
  <2>4. SumOver(Excesses) <= SumOver(g)
    BY <2>3
  <2>5. mode.cap \in Nat /\ spend \in Nat /\ spend <= mode.cap + SumOver(Excesses)
    BY <1>3, ExcessesAre DEF CapInv
  <2>6. spend <= mode.cap + SumOver(g)
    BY <2>3, <2>4, <2>5
  <2> QED
    BY <2>2, <2>6
<1>4. IInv => CapHeld
  BY <1>3 DEF CapHeld
<1> QED
  BY <1>1, <1>2, <1>4, PTL DEF Spec

-----------------------------------------------------------------------------
(* The balance.  What the ledger holds for a job is its cost once it is      *)
(* settled, and until then the estimate that is on its row or, between the   *)
(* two writes of a reservation, held by its worker.                          *)

Holding(j) == \E i \in Procs : proc[i].job = j /\ proc[i].at = "reserved"

Share(j) == IF settles[j] > 0 THEN cost[j] ELSE IF Holding(j) THEN Estimate ELSE job[j].reserved

Shares == [j \in Jobs |-> Share(j)]

(* A row nobody works on is settled at what the job cost, or it cost nothing.*)
Squared(j) ==
  /\ job[j].actual = cost[j]
  /\ job[j].settled <=> settles[j] > 0
  /\ ~job[j].settled => job[j].reserved = 0 /\ cost[j] = 0

AtRest(j) == age[j] = "stale" \/ (\A w \in Workers : proc[w].job # j) => Squared(j)

(* What the row and the copy of the invocation that works on it say.         *)
Accounts(i) ==
  LET j == proc[i].job
      doc == proc[i].doc IN
  j \in Jobs =>
    /\ doc.actual = cost[j] /\ doc.reserved = job[j].reserved /\ doc.settled = job[j].settled
    /\ proc[i].at # "book" => job[j].actual = cost[j]
    /\ doc.reserved = Estimate \/ (doc.reserved = 0 /\ cost[j] = 0)
    /\ proc[i].at \in {"start", "reserve", "reserveCas", "reserved"} => doc.reserved = 0
    /\ proc[i].at \in {"work", "book", "adjust", "adjustCas", "settled"} => doc.reserved = Estimate
    /\ proc[i].at \in BeforeSettled \cup {"settled"} => ~doc.settled
    /\ proc[i].at \in {"settle", "check", "end"} => (doc.settled <=> settles[j] > 0)
    /\ proc[i].at \in {"check", "end"} => doc.settled \/ doc.reserved = 0
    /\ proc[i].at = "settled" => settles[j] > 0

Books == (\A j \in Jobs : AtRest(j)) /\ (\A i \in Procs : Accounts(i))

LedgerIs == spend = SumOver(Shares)

(* adjust_spend returns after its attempts without having written: the one   *)
(* way to settle a row whose cost the ledger never sees.                     *)
NobodyGivesUp == \A i \in Procs : Ready(i, "adjust") => proc[i].tries # Attempts

(* How often the ledger was written for a job.                               *)
Writes(j) == (IF Holding(j) \/ job[j].reserved > 0 THEN 1 ELSE 0) + settles[j]

(* A step that leaves the ledger as it is, for every job.                    *)
Unmoved == spend' = spend /\ \A k \in Jobs : Share(k)' = Share(k) /\ Writes(k)' = Writes(k)

(* A step that writes the ledger for the job j.                              *)
Moved(j) ==
  /\ spend' + Share(j) = spend + Share(j)'
  /\ Writes(j)' = Writes(j) + 1
  /\ \A k \in Jobs \ {j} : Share(k)' = Share(k) /\ Writes(k)' = Writes(k)

Leaves(i) == \A k \in Procs \ {i} : proc'[k] = proc[k]

LEMMA EstimateIs == Estimate \in Nat /\ Estimate > 0
BY ResumeAssumption

LEMMA ShareIs ==
  ASSUME Shapes
  PROVE  Shares \in [Jobs -> Nat] /\ \A j \in Jobs : Share(j) \in Nat /\ Shares[j] = Share(j)
<1>1. ASSUME NEW j \in Jobs
      PROVE  Share(j) \in Nat
  BY EstimateIs DEF Share, Shapes, Row
<1> QED
  BY <1>1 DEF Shares

LEMMA ShareIsNext ==
  ASSUME Shapes'
  PROVE  Shares' \in [Jobs -> Nat] /\ \A j \in Jobs : Share(j)' \in Nat /\ Shares'[j] = Share(j)'
<1>1. ASSUME NEW j \in Jobs
      PROVE  Share(j)' \in Nat
  BY EstimateIs DEF Share, Shapes, Row
<1> QED
  BY <1>1 DEF Shares

LEMMA LedgerStays ==
  ASSUME LedgerIs, Unmoved
  PROVE  LedgerIs'
<1>1. Shares' = Shares
  BY DEF Shares, Unmoved
<1> QED
  BY <1>1 DEF LedgerIs, Unmoved

LEMMA LedgerMoves ==
  ASSUME Shapes, Shapes', LedgerIs, NEW j \in Jobs, Moved(j)
  PROVE  LedgerIs'
<1> DEFINE f == Shares
           g == Shares'
<1>1. /\ f \in [Jobs -> Nat] /\ g \in [Jobs -> Nat] /\ \A k \in Jobs \ {j} : g[k] = f[k]
      /\ f[j] = Share(j) /\ g[j] = Share(j)' /\ Share(j) \in Nat /\ Share(j)' \in Nat
  BY ShareIs, ShareIsNext DEF Moved
<1>2. spend \in Nat /\ spend' \in Nat /\ spend' + Share(j) = spend + Share(j)' /\ spend = SumOver(f)
  BY DEF Shapes, Moved, LedgerIs
<1> HIDE DEF f, g
<1>3. SumOver(f) \in Nat /\ SumOver(g) \in Nat /\ SumOver(g) + f[j] = SumOver(f) + g[j]
  BY <1>1, SumMoves
<1>4. spend' = SumOver(g)
  <2>1. PICK a \in Nat, b \in Nat : a = Share(j) /\ b = Share(j)'
    BY <1>1
  <2>2. spend' + a = spend + b /\ SumOver(g) + a = SumOver(f) + b
    BY <1>1, <1>2, <1>3, <2>1
  <2> QED
    BY <1>2, <1>3, <2>1, <2>2
<1> QED
  BY <1>4 DEF LedgerIs, g

(* A job that is not stale has one invocation, a worker; those of a stale    *)
(* job hold no estimate.                                                     *)
LEMMA HeldBy ==
  ASSUME Shapes, SettleInv, NEW i \in Procs, NEW j \in Jobs, proc[i].job = j
  PROVE  /\ age[j] # "stale" => i \in Workers /\ \A k \in Procs \ {i} : proc[k].job # j
         /\ Holding(j) <=> proc[i].at = "reserved"
<1>1. ASSUME age[j] # "stale"
      PROVE  i \in Workers /\ \A k \in Procs \ {i} : proc[k].job # j
  <2>1. \A q \in Polls : proc[q].job # j
    BY <1>1 DEF SettleInv, Unbegun
  <2>2. \A v, w \in Workers : proc[v].job = j /\ proc[w].job = j => v = w
    BY DEF SettleInv, Delivered
  <2> QED
    BY <2>1, <2>2 DEF Procs
<1>2. ASSUME age[j] = "stale", NEW k \in Procs, proc[k].job = j
      PROVE  proc[k].at # "reserved"
  BY <1>2 DEF SettleInv, Does, Finalizes
<1> QED
  BY <1>1, <1>2 DEF Holding

(* A step of the invocation i on its job j keeps the books if it does for    *)
(* the row and for i's copy.                                                 *)
LEMMA BooksKept ==
  ASSUME Shapes, Shapes', SettleInv, Books, NEW i \in Procs, Moves(i), NEW j \in Jobs,
         proc[i].job = j, proc'[i].job \in {j, None}, OthersSame(j),
         age'[j] = "stale" <=> age[j] = "stale",
         age[j] = "stale" => Untouched(j)' /\ cost'[j] = cost[j],
         proc'[i].job = None => Squared(j)',
         proc'[i].job = j => Accounts(i)'
  PROVE  /\ Books'
         /\ Holding(j) <=> proc[i].at = "reserved"
         /\ Holding(j)' <=> proc'[i].at = "reserved" /\ proc'[i].job = j
         /\ \A k \in Jobs \ {j} : Share(k)' = Share(k) /\ Writes(k)' = Writes(k)
<1>0. None \notin Jobs
  BY ConstantsAre
<1>1. \A k \in Procs \ {i} : Like(k)
  BY DEF Moves
<1>2. /\ age[j] # "stale" => i \in Workers /\ \A k \in Procs \ {i} : proc[k].job # j
      /\ Holding(j) <=> proc[i].at = "reserved"
  BY HeldBy
<1>3. ASSUME age[j] = "stale"
      PROVE  Untouched(j) /\ cost[j] = 0 /\ cost'[j] = 0 /\ Squared(j)'
             /\ \A k \in Procs : proc[k].job = j => proc[k].at \in {"settle", "end"}
  <2>1. Untouched(j) /\ Squared(j)
    BY <1>3 DEF SettleInv, Unbegun, Books, AtRest
  <2>2. cost[j] = 0 /\ cost'[j] = 0
    BY <1>3, <2>1 DEF Untouched, Squared
  <2>3. Squared(j)'
    BY <1>3, <2>2 DEF Untouched, Squared
  <2>4. \A k \in Procs : proc[k].job = j => proc[k].at \in {"settle", "end"}
    BY <1>3 DEF SettleInv, Does, Finalizes
  <2> QED
    BY <2>1, <2>2, <2>3, <2>4
<1>4. Holding(j)' <=> proc'[i].at = "reserved" /\ proc'[i].job = j
  <2>1. ASSUME NEW k \in Procs \ {i}, proc'[k].job = j
        PROVE  proc'[k].at # "reserved"
    <3>1. proc[k].job = j /\ proc'[k].at = proc[k].at
      BY <1>1, <2>1 DEF Like
    <3> QED
      BY <1>2, <1>3, <3>1
  <2> QED
    BY <2>1 DEF Holding
<1>5. ASSUME NEW k \in Jobs \ {j}
      PROVE  /\ \A p \in Procs : /\ proc'[p].job = k <=> proc[p].job = k
                                 /\ proc[p].job = k => proc'[p].at = proc[p].at
             /\ job'[k] = job[k] /\ age'[k] = age[k] /\ settles'[k] = settles[k] /\ cost'[k] = cost[k]
  BY <1>0, <1>1 DEF Like, OthersSame
<1>6. ASSUME NEW k \in Jobs \ {j}
      PROVE  Share(k)' = Share(k) /\ Writes(k)' = Writes(k)
  <2>1. Holding(k)' <=> Holding(k)
    BY <1>5 DEF Holding
  <2>2. job'[k] = job[k] /\ settles'[k] = settles[k] /\ cost'[k] = cost[k]
    BY <1>5
  <2> QED
    BY <2>1, <2>2 DEF Share, Writes
<1>7. ASSUME NEW k \in Jobs
      PROVE  AtRest(k)'
  <2>1. CASE k # j
    <3>1. AtRest(k)
      BY DEF Books
    <3> QED
      BY <1>5, <2>1, <3>1 DEF AtRest, Squared, Procs
  <2>2. CASE k = j /\ age[j] = "stale"
    BY <1>3, <2>2 DEF AtRest
  <2>3. CASE k = j /\ age[j] # "stale"
    BY <1>2, <2>3 DEF AtRest
  <2> QED
    BY <2>1, <2>2, <2>3
<1>8. ASSUME NEW k \in Procs, proc'[k].job \in Jobs
      PROVE  Accounts(k)'
  <2>1. CASE k = i
    BY <1>0, <1>8, <2>1
  <2>2. CASE k # i /\ proc[k].job # j
    <3> DEFINE h == proc[k].job
    <3>1. /\ proc'[k].at = proc[k].at /\ proc'[k].job = h /\ proc'[k].doc = proc[k].doc
      BY <1>1, <2>2 DEF Like
    <3>2. job'[h] = job[h] /\ cost'[h] = cost[h] /\ settles'[h] = settles[h]
      BY <1>5, <1>8, <2>2, <3>1
    <3>3. Accounts(k)
      BY DEF Books
    <3> QED
      BY <1>8, <3>1, <3>2, <3>3 DEF Accounts
  <2>3. CASE k # i /\ proc[k].job = j
    <3>1. /\ proc'[k].at = proc[k].at /\ proc'[k].job = j /\ proc'[k].doc = proc[k].doc
      BY <1>1, <2>3 DEF Like
    <3>2. age[j] = "stale"
      BY <1>2, <2>3
    <3>3. /\ proc[k].at \in {"settle", "end"} /\ Accounts(k)
          /\ Untouched(j) /\ Untouched(j)' /\ cost[j] = 0 /\ cost'[j] = 0
      BY <1>3, <2>3, <3>2 DEF Books
    <3>4. /\ proc[k].doc.actual = 0 /\ proc[k].doc.reserved = 0 /\ ~proc[k].doc.settled
          /\ job'[j].actual = 0 /\ job'[j].reserved = 0 /\ ~job'[j].settled /\ ~(settles'[j] > 0)
      BY <2>3, <3>3 DEF Accounts, Untouched
    <3>5. job'[j].settled \in BOOLEAN /\ proc[k].doc.settled \in BOOLEAN
      BY Busy DEF Shapes, Row
    <3>6. proc'[k].doc.settled = job'[j].settled
      BY <3>1, <3>4, <3>5
    <3> QED
      BY <2>3, <3>1, <3>3, <3>4, <3>6 DEF Accounts, BeforeSettled
  <2> QED
    BY <2>1, <2>2, <2>3
<1>9. Books'
  <2>1. \A k \in Procs : Accounts(k)'
    BY <1>8 DEF Accounts
  <2> QED
    BY <1>7, <2>1 DEF Books
<1> QED
  BY <1>2, <1>4, <1>6, <1>9

(* A step that does not write the ledger. *)
LEMMA Stays ==
  ASSUME Shapes, SettleInv, Books, NEW i \in Procs, Kept(i), NEW j \in Jobs,
         proc[i].job = j, proc'[i].job \in {j, None}, OthersSame(j),
         age'[j] = "stale" <=> age[j] = "stale",
         age[j] = "stale" => Untouched(j)' /\ cost'[j] = cost[j],
         spend' = spend, settles' = settles, settles[j] = 0 \/ cost'[j] = cost[j],
         proc'[i].at # "reserved",
         job'[j].reserved = IF proc[i].at = "reserved" THEN Estimate ELSE job[j].reserved,
         proc'[i].job = None => Squared(j)',
         proc'[i].job = j => Accounts(i)'
  PROVE  Books' /\ Unmoved
<1>1. /\ Books'
      /\ Holding(j) <=> proc[i].at = "reserved"
      /\ ~Holding(j)'
      /\ \A k \in Jobs \ {j} : Share(k)' = Share(k) /\ Writes(k)' = Writes(k)
  BY BooksKept DEF Kept
<1>2. settles'[j] = settles[j] /\ settles[j] \in Nat
  BY DEF Shapes
<1>3. Share(j)' = Share(j) /\ Writes(j)' = Writes(j)
  BY <1>1, <1>2, EstimateIs DEF Share, Writes
<1> QED
  BY <1>1, <1>3 DEF Unmoved

LEMMA LeavesIs ==
  ASSUME Shapes, NEW i \in Procs, (i \in Workers /\ WorkerStep(i)) \/ SettleStep(i),
         ~(proc[i].at \in CasPcs /\ proc[i].fresh)
  PROVE  Leaves(i)
<1>1. \A rec : Set(i, rec) => Leaves(i)
  BY DEF Set, Leaves, Shapes
<1>2. \A pc : Goto(i, pc) => Leaves(i)
  BY <1>1 DEF Goto
<1>3. Fails(i) => Leaves(i)
  BY <1>1 DEF Fails
<1>4. CASE i \in Workers /\ WorkerStep(i)
  BY <1>1, <1>2, <1>3, <1>4 DEF WorkerStep, WorkerStarts, WorkerTurnedOff, ReserveReads, ReserveWrites,
     ReservePersists, Calls, CallBooked, WorkEnds, ChecksStatus, CasPcs, Ready
<1>5. CASE SettleStep(i)
  BY <1>1, <1>2, <1>3, <1>5 DEF SettleStep, SettleReads, AdjustReads, AdjustWrites, SettlePersists,
     Ends, CasPcs, Ready
<1> QED
  BY <1>4, <1>5

(* What is known of an invocation at work and of its row. *)
LEMMA OnBooks ==
  ASSUME Shapes, SettleInv, Books, NEW i \in Procs, proc[i].at # "idle"
  PROVE  LET j == proc[i].job
             doc == proc[i].doc IN
         /\ j \in Jobs /\ j # None /\ doc \in Row /\ job[j] \in Row
         /\ doc.actual \in Nat /\ cost[j] \in Nat /\ settles[j] \in Nat /\ doc.settled \in BOOLEAN
         /\ job[j].settled \in BOOLEAN
         /\ doc.actual = cost[j] /\ doc.reserved = job[j].reserved /\ doc.settled = job[j].settled
         /\ proc[i].at # "book" => job[j].actual = cost[j]
         /\ doc.reserved = Estimate \/ (doc.reserved = 0 /\ cost[j] = 0)
         /\ proc[i].at \in {"start", "reserve", "reserveCas", "reserved"} =>
              doc.reserved = 0 /\ cost[j] = 0
         /\ proc[i].at \in {"work", "book", "adjust", "adjustCas", "settled"} =>
              doc.reserved = Estimate
         /\ proc[i].at \in BeforeSettled => ~doc.settled /\ settles[j] = 0 /\ age[j] # "stale"
         /\ proc[i].at \in {"settle", "check", "end"} => (doc.settled <=> settles[j] > 0)
         /\ proc[i].at \in {"check", "end"} => doc.settled \/ (doc.reserved = 0 /\ cost[j] = 0)
         /\ proc[i].at = "settled" => settles[j] > 0 /\ ~doc.settled /\ age[j] # "stale"
<1>1. /\ proc[i].job \in Jobs /\ proc[i].job # None /\ proc[i].doc \in Row /\ job[proc[i].job] \in Row
      /\ settles[proc[i].job] \in Nat /\ cost[proc[i].job] \in Nat
  BY OnJob, Busy DEF Shapes
<1>2. proc[i].doc.actual \in Nat /\ proc[i].doc.settled \in BOOLEAN /\ job[proc[i].job].settled \in BOOLEAN
  BY <1>1 DEF Row
<1>3. Accounts(i)
  BY DEF Books
<1>4. proc[i].at \in BeforeSettled => settles[proc[i].job] = 0 /\ age[proc[i].job] # "stale"
  BY OnJob DEF Works, BeforeSettled
<1>5. proc[i].at = "settled" => age[proc[i].job] # "stale"
  BY OnJob
<1>6. Estimate # 0
  BY EstimateIs
<1> QED
  BY <1>1, <1>2, <1>3, <1>4, <1>5, <1>6 DEF Accounts

(* The row of a job is put as it was but for its status. *)
SameMoney(d, e) == d.reserved = e.reserved /\ d.actual = e.actual /\ d.settled = e.settled

LEMMA StartsBooks ==
  ASSUME Shapes, SettleInv, Books, NEW w \in Workers, WorkerStarts(w)
  PROVE  Books' /\ Unmoved
<1>0. w \in Procs /\ proc[w].at = "start"
  BY DEF Procs, WorkerStarts, Ready
<1>1. PICK j \in Jobs : proc[w].job = j
  BY <1>0, OnBooks
<1>2. /\ j # None /\ age[j] # "stale" /\ settles[j] = 0 /\ proc[w].doc \in Row /\ ~proc[w].doc.settled
      /\ proc[w].doc.actual = cost[j] /\ proc[w].doc.reserved = 0 /\ cost[j] = 0
      /\ job[j].reserved = 0
  BY <1>0, <1>1, OnBooks DEF BeforeSettled
<1>3. /\ Kept(w) /\ OthersSame(j) /\ proc'[w].at = "reserve" /\ proc'[w].job = j
      /\ proc'[w].doc = Started(proc[w].doc) /\ job'[j] = Started(proc[w].doc)
      /\ age'[j] # "stale" /\ settles' = settles /\ cost' = cost /\ spend' = spend
  BY <1>1, <1>2, StartsDoes DEF WorkerStarts, KeepsLedger
<1>4. PICK doc \in Row : doc = Started(proc[w].doc) /\ SameMoney(doc, proc[w].doc)
  BY <1>2, RowsAreTyped DEF SameMoney
<1>5. Accounts(w)'
  BY <1>2, <1>3, <1>4 DEF Accounts, SameMoney, BeforeSettled
<1>6. job'[j].reserved = 0
  BY <1>2, <1>3, <1>4 DEF SameMoney
<1> QED
  BY <1>0, <1>1, <1>2, <1>3, <1>5, <1>6, Stays

LEMMA TurnedOffBooks ==
  ASSUME Shapes, SettleInv, Books, NEW w \in Workers, WorkerTurnedOff(w)
  PROVE  Books' /\ Unmoved
<1>0. w \in Procs /\ proc[w].at = "start"
  BY DEF Procs, WorkerTurnedOff, Ready
<1>1. PICK j \in Jobs : proc[w].job = j
  BY <1>0, OnBooks
<1>2. /\ j # None /\ age[j] # "stale" /\ settles[j] = 0 /\ proc[w].doc \in Row /\ ~proc[w].doc.settled
      /\ proc[w].doc.actual = cost[j] /\ proc[w].doc.reserved = 0 /\ cost[j] = 0
      /\ job[j].reserved = 0
  BY <1>0, <1>1, OnBooks DEF BeforeSettled
<1>3. /\ Kept(w) /\ OthersSame(j) /\ proc'[w] = Rest
      /\ job'[j] = [proc[w].doc EXCEPT !.status = "failed"]
      /\ age' = age /\ settles' = settles /\ cost' = cost /\ spend' = spend
  BY <1>1, TurnedOffDoes DEF WorkerTurnedOff, KeepsLedger
<1>4. PICK doc : doc = [proc[w].doc EXCEPT !.status = "failed"] /\ SameMoney(doc, proc[w].doc)
  BY <1>2 DEF SameMoney, Row
<1>5. Squared(j)' /\ job'[j].reserved = 0
  BY <1>2, <1>3, <1>4 DEF Squared, SameMoney
<1>6. proc'[w].at = "idle" /\ proc'[w].job = None
  BY <1>3, RestIsTyped
<1> QED
  BY <1>0, <1>1, <1>2, <1>3, <1>5, <1>6, Stays

LEMMA ReserveReadsBooks ==
  ASSUME Shapes, SettleInv, Books, NEW w \in Workers, ReserveReads(w)
  PROVE  Books' /\ Unmoved
<1>0. w \in Procs /\ proc[w].at = "reserve"
  BY DEF Procs, ReserveReads, Ready
<1>1. PICK j \in Jobs : proc[w].job = j
  BY <1>0, OnBooks
<1>2. /\ j # None /\ age[j] # "stale" /\ settles[j] = 0 /\ proc[w].doc \in Row /\ ~proc[w].doc.settled
      /\ proc[w].doc.actual = cost[j] /\ proc[w].doc.reserved = 0 /\ cost[j] = 0
      /\ job[j].actual = cost[j]
      /\ proc[w].doc.reserved = job[j].reserved /\ proc[w].doc.settled = job[j].settled
  BY <1>0, <1>1, OnBooks DEF BeforeSettled
<1>3. ~HasReserved(proc[w].doc)
  BY <1>2 DEF HasReserved
<1>4. /\ Kept(w) /\ UNCHANGED <<job, age, settles, cost, spend>>
      /\ proc'[w].job = j /\ proc'[w].doc = proc[w].doc
      /\ proc'[w].at \in {"settle", "reserveCas"}
  BY <1>1, <1>3, ReserveReadsDoes
<1>5. Accounts(w)'
  BY <1>2, <1>4 DEF Accounts, BeforeSettled
<1>6. OthersSame(j)
  BY <1>4 DEF OthersSame
<1> QED
  BY <1>0, <1>1, <1>2, <1>4, <1>5, <1>6, Stays

(* The write of a reservation is tried again, or it adds the estimate. *)
LEMMA ReserveWritesBooks ==
  ASSUME Shapes, SettleInv, Books, NEW w \in Workers, ReserveWrites(w)
  PROVE  Books' /\ ((~proc[w].fresh /\ Unmoved) \/ Moved(proc[w].job))
<1>0. w \in Procs /\ proc[w].at = "reserveCas"
  BY DEF Procs, ReserveWrites, Ready
<1>1. PICK j \in Jobs : proc[w].job = j
  BY <1>0, OnBooks
<1>2. /\ j # None /\ age[j] # "stale" /\ settles[j] = 0 /\ proc[w].doc \in Row /\ ~proc[w].doc.settled
      /\ proc[w].doc.actual = cost[j] /\ proc[w].doc.reserved = 0 /\ cost[j] = 0
      /\ job[j].actual = cost[j]
      /\ proc[w].doc.reserved = job[j].reserved /\ proc[w].doc.settled = job[j].settled
  BY <1>0, <1>1, OnBooks DEF BeforeSettled
<1>3. /\ Kept(w) /\ UNCHANGED <<job, age, settles, cost>>
      /\ proc'[w].job = j /\ proc'[w].doc = proc[w].doc
  BY <1>1, ReserveWritesDoes
<1>4. OthersSame(j)
  BY <1>3 DEF OthersSame
<1>5. CASE ~proc[w].fresh
  <2>1. proc'[w].at = "reserve" /\ spend' = spend
    BY <1>5, ReserveWritesDoes
  <2>2. Accounts(w)'
    BY <1>2, <1>3, <2>1 DEF Accounts, BeforeSettled
  <2> QED
    BY <1>0, <1>1, <1>2, <1>3, <1>4, <1>5, <2>1, <2>2, Stays
<1>6. CASE proc[w].fresh
  <2>1. proc'[w].at = "reserved" /\ spend' = proc[w].seen + Estimate
    <3>1. proc'[w].at = "reserved" \/ (proc'[w].at = "reserve" /\ spend' = spend)
      BY ReserveWritesDoes
    <3>2. Written(w, proc[w].seen + Estimate, [proc[w] EXCEPT !.at = "reserved", !.fresh = FALSE, !.tries = 0])
      BY DEF ReserveWrites
    <3>3. proc'[w] = [proc[w] EXCEPT !.at = "reserved", !.fresh = FALSE, !.tries = 0]
          /\ spend' = proc[w].seen + Estimate
      BY <1>0, <1>6, <3>2 DEF Written
    <3> QED
      BY <1>0, <3>3, Busy DEF Invocation
  <2>2. proc[w].seen = spend /\ spend \in Nat
    BY <1>0, <1>6, Busy DEF SoundRec, Shapes
  <2>3. Accounts(w)'
    BY <1>2, <1>3, <2>1 DEF Accounts, BeforeSettled
  <2>4. /\ Books'
        /\ Holding(j) <=> proc[w].at = "reserved"
        /\ Holding(j)' <=> proc'[w].at = "reserved" /\ proc'[w].job = j
        /\ \A k \in Jobs \ {j} : Share(k)' = Share(k) /\ Writes(k)' = Writes(k)
    BY <1>0, <1>1, <1>2, <1>3, <1>4, <2>3, BooksKept DEF Kept
  <2>5. Share(j) = 0 /\ Share(j)' = Estimate /\ Writes(j) = 0 /\ Writes(j)' = 1
    BY <1>0, <1>2, <1>3, <2>1, <2>4 DEF Share, Writes
  <2>6. spend' + Share(j) = spend + Share(j)' /\ Writes(j)' = Writes(j) + 1
    BY <2>1, <2>2, <2>5, EstimateIs
  <2>7. Moved(j)
    BY <2>4, <2>6 DEF Moved
  <2> QED
    BY <1>1, <2>4, <2>7
<1> QED
  BY <1>5, <1>6

LEMMA PersistsBooks ==
  ASSUME Shapes, SettleInv, Books, NEW w \in Workers, ReservePersists(w)
  PROVE  Books' /\ Unmoved
<1>0. w \in Procs /\ proc[w].at = "reserved"
  BY DEF Procs, ReservePersists, Ready
<1>1. PICK j \in Jobs : proc[w].job = j
  BY <1>0, OnBooks
<1>2. /\ j # None /\ age[j] # "stale" /\ settles[j] = 0 /\ proc[w].doc \in Row /\ ~proc[w].doc.settled
      /\ proc[w].doc.actual = cost[j]
  BY <1>0, <1>1, OnBooks DEF BeforeSettled
<1>3. PICK doc : doc = [proc[w].doc EXCEPT !.reserved = Estimate, !.settled = FALSE]
  OBVIOUS
<1>4. /\ Kept(w) /\ OthersSame(j) /\ age' = age /\ settles' = settles /\ cost' = cost /\ spend' = spend
      /\ proc'[w].job = j /\ proc'[w].at = "work" /\ proc'[w].doc = doc /\ job'[j] = doc
  BY <1>1, <1>3, PersistsDoes
<1>5. doc.reserved = Estimate /\ doc.settled = FALSE /\ doc.actual = cost[j]
  BY <1>2, <1>3 DEF Row
<1>6. Accounts(w)' /\ job'[j].reserved = Estimate
  BY <1>2, <1>4, <1>5 DEF Accounts, BeforeSettled
<1> QED
  BY <1>0, <1>1, <1>2, <1>4, <1>6, Stays

LEMMA CallsBooks ==
  ASSUME Shapes, SettleInv, Books, NEW w \in Workers, Calls(w)
  PROVE  Books' /\ Unmoved
<1>0. w \in Procs /\ proc[w].at = "work"
  BY DEF Procs, Calls, Ready
<1>1. PICK j \in Jobs : proc[w].job = j
  BY <1>0, OnBooks
<1>2. /\ j # None /\ age[j] # "stale" /\ settles[j] = 0 /\ proc[w].doc \in Row /\ ~proc[w].doc.settled
      /\ proc[w].doc.actual = cost[j] /\ proc[w].doc.reserved = Estimate /\ cost[j] \in Nat
      /\ job[j].actual = cost[j]
      /\ proc[w].doc.reserved = job[j].reserved /\ proc[w].doc.settled = job[j].settled
  BY <1>0, <1>1, OnBooks DEF BeforeSettled
<1>3. /\ Kept(w) /\ OthersSame(j) /\ UNCHANGED <<job, age, settles, spend>>
      /\ proc'[w].job = j
  BY <1>1, CallsDoes
<1>4. CASE proc'[w].at = "settle" /\ proc'[w].doc = proc[w].doc /\ cost' = cost
  <2>1. Accounts(w)'
    BY <1>2, <1>3, <1>4 DEF Accounts, BeforeSettled
  <2> QED
    BY <1>0, <1>1, <1>2, <1>3, <1>4, <2>1, Stays
<1>5. ASSUME NEW c \in Nat, proc'[w].at = "book", cost'[j] = cost[j] + c,
             proc'[w].doc = [proc[w].doc EXCEPT !.actual = @ + c]
      PROVE  Books' /\ Unmoved
  <2>1. PICK doc : doc = [proc[w].doc EXCEPT !.actual = @ + c]
    OBVIOUS
  <2>2. /\ doc.reserved = proc[w].doc.reserved /\ doc.settled = proc[w].doc.settled
        /\ doc.actual = cost[j] + c
    BY <1>2, <2>1 DEF Row
  <2>3. Accounts(w)'
    BY <1>2, <1>3, <1>5, <2>1, <2>2 DEF Accounts, BeforeSettled
  <2> QED
    BY <1>0, <1>1, <1>2, <1>3, <1>5, <2>3, Stays
<1>6. \/ proc'[w].at = "settle" /\ proc'[w].doc = proc[w].doc /\ cost' = cost
      \/ /\ proc'[w].at = "book"
         /\ \E c \in Nat : /\ cost'[j] = cost[j] + c
                           /\ proc'[w].doc = [proc[w].doc EXCEPT !.actual = @ + c]
  BY <1>1, CallsDoes
<1> QED
  BY <1>4, <1>5, <1>6

LEMMA BookedBooks ==
  ASSUME Shapes, SettleInv, Books, NEW w \in Workers, CallBooked(w)
  PROVE  Books' /\ Unmoved
<1>0. w \in Procs /\ proc[w].at = "book"
  BY DEF Procs, CallBooked, Ready
<1>1. PICK j \in Jobs : proc[w].job = j
  BY <1>0, OnBooks
<1>2. /\ j # None /\ age[j] # "stale" /\ settles[j] = 0 /\ proc[w].doc \in Row /\ ~proc[w].doc.settled
      /\ proc[w].doc.actual = cost[j] /\ proc[w].doc.reserved = Estimate
      /\ proc[w].doc.reserved = job[j].reserved
  BY <1>0, <1>1, OnBooks DEF BeforeSettled
<1>3. /\ Kept(w) /\ OthersSame(j) /\ age' = age /\ settles' = settles /\ cost' = cost /\ spend' = spend
      /\ proc'[w].job = j /\ proc'[w].at = "work" /\ proc'[w].doc = proc[w].doc
      /\ job'[j] = proc[w].doc
  BY <1>1, BookedDoes
<1>4. Accounts(w)' /\ job'[j].reserved = job[j].reserved
  BY <1>2, <1>3 DEF Accounts, BeforeSettled
<1> QED
  BY <1>0, <1>1, <1>2, <1>3, <1>4, Stays

LEMMA WorkEndsBooks ==
  ASSUME Shapes, SettleInv, Books, NEW w \in Workers, WorkEnds(w)
  PROVE  Books' /\ Unmoved
<1>0. w \in Procs /\ proc[w].at = "work"
  BY DEF Procs, WorkEnds, Ready
<1>1. PICK j \in Jobs : proc[w].job = j
  BY <1>0, OnBooks
<1>2. /\ j # None /\ age[j] # "stale" /\ settles[j] = 0 /\ ~proc[w].doc.settled
      /\ proc[w].doc.actual = cost[j] /\ proc[w].doc.reserved = Estimate /\ job[j].actual = cost[j]
      /\ proc[w].doc.reserved = job[j].reserved /\ proc[w].doc.settled = job[j].settled
  BY <1>0, <1>1, OnBooks DEF BeforeSettled
<1>3. /\ Kept(w) /\ UNCHANGED <<job, age, settles, cost, spend>>
      /\ proc'[w].job = j /\ proc'[w].at = "settle" /\ proc'[w].doc = proc[w].doc
  BY <1>1, WorkEndsDoes
<1>4. Accounts(w)' /\ OthersSame(j)
  BY <1>2, <1>3 DEF Accounts, BeforeSettled, OthersSame
<1> QED
  BY <1>0, <1>1, <1>2, <1>3, <1>4, Stays

LEMMA ChecksBooks ==
  ASSUME Shapes, SettleInv, Books, NEW w \in Workers, ChecksStatus(w)
  PROVE  Books' /\ Unmoved
<1>0. w \in Procs /\ proc[w].at = "check"
  BY DEF Procs, ChecksStatus, Ready
<1>1. PICK j \in Jobs : proc[w].job = j
  BY <1>0, OnBooks
<1>2. /\ j # None /\ age[j] # "stale"
      /\ proc[w].doc.actual = cost[j] /\ job[j].actual = cost[j]
      /\ proc[w].doc.reserved = job[j].reserved /\ proc[w].doc.settled = job[j].settled
      /\ proc[w].doc.reserved = Estimate \/ (proc[w].doc.reserved = 0 /\ cost[j] = 0)
      /\ proc[w].doc.settled <=> settles[j] > 0
      /\ proc[w].doc.settled \/ (proc[w].doc.reserved = 0 /\ cost[j] = 0)
  BY <1>0, <1>1, OnBooks, OnJob
<1>3. /\ Kept(w) /\ UNCHANGED <<job, age, settles, cost, spend>>
      /\ \/ proc'[w] = Rest
         \/ proc'[w].at = "end" /\ proc'[w].job = j /\ proc'[w].doc = proc[w].doc
  BY <1>1, ChecksDoes
<1>4. OthersSame(j)
  BY <1>3 DEF OthersSame
<1>5. CASE proc'[w] = Rest
  <2>1. proc'[w].at = "idle" /\ proc'[w].job = None /\ Squared(j)'
    BY <1>2, <1>3, <1>5, RestIsTyped DEF Squared
  <2> QED
    BY <1>0, <1>1, <1>2, <1>3, <1>4, <2>1, Stays
<1>6. CASE proc'[w].at = "end" /\ proc'[w].job = j /\ proc'[w].doc = proc[w].doc
  <2>1. Accounts(w)'
    BY <1>2, <1>3, <1>6 DEF Accounts, BeforeSettled
  <2> QED
    BY <1>0, <1>1, <1>2, <1>3, <1>4, <1>6, <2>1, Stays
<1> QED
  BY <1>3, <1>5, <1>6

LEMMA SettleReadsBooks ==
  ASSUME Shapes, SettleInv, Books, NEW i \in Procs, SettleReads(i)
  PROVE  Books' /\ Unmoved
<1>0. proc[i].at = "settle"
  BY DEF SettleReads, Ready
<1>1. PICK j \in Jobs : proc[i].job = j
  BY <1>0, OnBooks
<1>2. /\ j # None /\ cost[j] \in Nat
      /\ proc[i].doc.actual = cost[j] /\ job[j].actual = cost[j]
      /\ proc[i].doc.reserved = job[j].reserved /\ proc[i].doc.settled = job[j].settled
      /\ proc[i].doc.reserved = Estimate \/ (proc[i].doc.reserved = 0 /\ cost[j] = 0)
      /\ proc[i].doc.settled <=> settles[j] > 0
      /\ proc[i].doc.settled \in BOOLEAN /\ settles[j] \in Nat
      /\ age[j] = "stale" => Untouched(j)
  BY <1>0, <1>1, OnBooks, OnJob
<1>3. /\ Kept(i) /\ UNCHANGED <<job, age, settles, cost, spend>>
      /\ proc'[i].job = j /\ proc'[i].doc = Refreshed(i)
      /\ \/ Onward(i)
         \/ /\ proc'[i].at = "adjust" /\ ~Refreshed(i).settled
            /\ ~(Refreshed(i).reserved = 0 /\ Refreshed(i).actual = 0)
  BY <1>1, SettleReadsDoes
<1>4. PICK doc : doc = Refreshed(i)
  OBVIOUS
<1>5. /\ doc.actual = cost[j] /\ doc.reserved = job[j].reserved /\ doc.settled = job[j].settled
  <2>1. /\ job[j].settled => /\ doc.settled /\ doc.actual = proc[i].doc.actual
                             /\ doc.reserved = proc[i].doc.reserved
        /\ ~job[j].settled => /\ doc.settled = proc[i].doc.settled
                              /\ doc.actual = job[j].actual /\ doc.reserved = job[j].reserved
        /\ doc \in Row
    BY <1>0, <1>1, <1>4, RefreshedIs
  <2>2. doc.settled \in BOOLEAN
    BY <2>1 DEF Row
  <2> QED
    BY <1>2, <2>1, <2>2
<1>6. Onward(i) => doc.settled \/ doc.reserved = 0 \/ proc'[i].at = "settle"
  <2>1. SettleReads(i) => \/ Refreshed(i).settled \/ (Refreshed(i).reserved = 0 /\ Refreshed(i).actual = 0)
                         \/ Set(i, [proc[i] EXCEPT !.at = "adjust", !.doc = Refreshed(i), !.tries = 0])
    BY DEF SettleReads, Refreshed
  <2>2. Set(i, [proc[i] EXCEPT !.at = "adjust", !.doc = Refreshed(i), !.tries = 0]) => proc'[i].at = "adjust"
    <3>1. proc[i] \in Invocation /\ proc \in [Procs -> Invocation]
      BY Busy DEF Shapes
    <3> QED
      BY <3>1 DEF Set, Invocation
  <2>3. Onward(i) => proc'[i].at # "adjust"
    BY DEF Onward
  <2> QED
    BY <1>4, <2>1, <2>2, <2>3
<1>7. Accounts(i)'
  <2>1. CASE Onward(i)
    <3>1. proc'[i].at \in {"check", "settle", "end"}
      BY <2>1 DEF Onward
    <3>2. proc'[i].doc = doc /\ proc'[i].job = j
      BY <1>3, <1>4
    <3> HIDE DEF Onward
    <3> QED
      BY <1>2, <1>3, <1>5, <1>6, <2>1, <3>1, <3>2 DEF Accounts, BeforeSettled
  <2>2. CASE /\ proc'[i].at = "adjust" /\ ~doc.settled /\ ~(doc.reserved = 0 /\ doc.actual = 0)
    BY <1>2, <1>3, <1>4, <1>5, <2>2 DEF Accounts, BeforeSettled
  <2> QED
    BY <1>3, <1>4, <2>1, <2>2
<1>8. OthersSame(j) /\ proc'[i].at # "reserved"
  BY <1>3 DEF OthersSame, Onward
<1>9. age[j] = "stale" => Untouched(j)'
  BY <1>2, <1>3 DEF Untouched
<1> QED
  BY <1>0, <1>1, <1>2, <1>3, <1>7, <1>8, <1>9, Stays

(* A settlement goes on to its write as long as it has attempts left.        *)
LEMMA AdjustReadsBooks ==
  ASSUME Shapes, SettleInv, Books, NEW i \in Procs, AdjustReads(i), proc[i].tries # Attempts
  PROVE  /\ Books' /\ Unmoved
         /\ proc'[i].at = "adjustCas" /\ proc'[i].fresh /\ proc'[i].tries = proc[i].tries
         /\ proc'[i].job = proc[i].job
<1>0. proc[i].at = "adjust"
  BY DEF AdjustReads, Ready
<1>1. PICK j \in Jobs : proc[i].job = j
  BY <1>0, OnBooks
<1>2. /\ j # None /\ age[j] # "stale" /\ settles[j] = 0 /\ ~proc[i].doc.settled
      /\ proc[i].doc.actual = cost[j] /\ proc[i].doc.reserved = Estimate /\ job[j].actual = cost[j]
      /\ proc[i].doc.reserved = job[j].reserved /\ proc[i].doc.settled = job[j].settled
  BY <1>0, <1>1, OnBooks DEF BeforeSettled
<1>3. /\ Kept(i) /\ UNCHANGED <<job, age, settles, cost, spend>>
      /\ proc'[i].job = j /\ proc'[i].doc = proc[i].doc
  BY <1>1, AdjustReadsDoes
<1>4. proc'[i].at = "adjustCas" /\ proc'[i].fresh /\ proc'[i].tries = proc[i].tries
  <2>1. Set(i, [proc[i] EXCEPT !.at = "adjustCas", !.seen = spend, !.fresh = TRUE])
    BY DEF AdjustReads
  <2>2. proc[i] \in Invocation /\ proc \in [Procs -> Invocation]
    BY Busy DEF Shapes
  <2> QED
    BY <2>1, <2>2 DEF Set, Invocation
<1>5. Accounts(i)' /\ OthersSame(j)
  BY <1>2, <1>3, <1>4 DEF Accounts, BeforeSettled, OthersSame
<1> QED
  BY <1>0, <1>1, <1>2, <1>3, <1>4, <1>5, Stays

(* The write of a settlement is tried again, or it puts the cost in the      *)
(* place of the estimate: the ledger holds the estimate, so it is not kept   *)
(* from falling below zero.                                                  *)
LEMMA AdjustWritesBooks ==
  ASSUME Shapes, SettleInv, Books, LedgerIs, NEW i \in Procs, AdjustWrites(i)
  PROVE  /\ Books'
         /\ \/ /\ ~proc[i].fresh /\ Unmoved
               /\ proc'[i].at = "adjust" /\ proc'[i].tries = proc[i].tries + 1
               /\ proc'[i].job = proc[i].job
            \/ Moved(proc[i].job) /\ proc'[i].at = "settled"
<1>0. proc[i].at = "adjustCas"
  BY DEF AdjustWrites, Ready
<1>1. PICK j \in Jobs : proc[i].job = j
  BY <1>0, OnBooks
<1>2. /\ j # None /\ age[j] # "stale" /\ settles[j] = 0 /\ ~proc[i].doc.settled /\ proc[i].doc \in Row
      /\ proc[i].doc.actual = cost[j] /\ proc[i].doc.reserved = Estimate /\ job[j].actual = cost[j]
      /\ proc[i].doc.reserved = job[j].reserved /\ proc[i].doc.settled = job[j].settled
      /\ cost[j] \in Nat
  BY <1>0, <1>1, OnBooks DEF BeforeSettled
<1>3. /\ Kept(i) /\ OthersSame(j) /\ UNCHANGED <<job, age, cost>>
      /\ proc'[i].job = j /\ proc'[i].doc = proc[i].doc
      /\ \/ proc'[i].at = "adjust" /\ spend' = spend /\ settles' = settles
         \/ /\ proc'[i].at = "settled" /\ proc[i].fresh
            /\ spend' = Adjusted(spend, proc[i].doc)
            /\ settles' = [settles EXCEPT ![j] = @ + 1]
  BY <1>1, AdjustWritesDoes
<1>4. CASE ~proc[i].fresh
  <2>1. Set(i, [proc[i] EXCEPT !.at = "adjust", !.tries = @ + 1])
    BY <1>4 DEF AdjustWrites
  <2>2. proc[i] \in Invocation /\ proc \in [Procs -> Invocation]
    BY Busy DEF Shapes
  <2>3. proc'[i].at = "adjust" /\ proc'[i].tries = proc[i].tries + 1
    BY <2>1, <2>2 DEF Set, Invocation
  <2>4. spend' = spend /\ settles' = settles
    BY <1>3, <1>4
  <2>5. Accounts(i)'
    BY <1>2, <1>3, <2>3, <2>4 DEF Accounts, BeforeSettled
  <2> QED
    BY <1>0, <1>1, <1>2, <1>3, <1>4, <2>3, <2>4, <2>5, Stays
<1>5. CASE proc[i].fresh
  <2>1. /\ proc'[i].at = "settled" /\ spend' = Adjusted(spend, proc[i].doc)
        /\ settles' = [settles EXCEPT ![j] = @ + 1]
    <3>1. settles' = [settles EXCEPT ![j] = @ + 1] /\ settles'[j] # settles[j]
      BY <1>1, <1>2, <1>5 DEF AdjustWrites, Shapes
    <3> QED
      BY <1>3, <3>1
  <2>2. settles'[j] = 1
    BY <1>2, <2>1 DEF Shapes
  <2>3. Accounts(i)'
    BY <1>2, <1>3, <2>1, <2>2 DEF Accounts, BeforeSettled
  <2>4. /\ Books'
        /\ Holding(j) <=> proc[i].at = "reserved"
        /\ Holding(j)' <=> proc'[i].at = "reserved" /\ proc'[i].job = j
        /\ \A k \in Jobs \ {j} : Share(k)' = Share(k) /\ Writes(k)' = Writes(k)
    BY <1>0, <1>1, <1>2, <1>3, <2>3, BooksKept DEF Kept
  <2>5. job[j].reserved = Estimate /\ job'[j].reserved = Estimate
    BY <1>2, <1>3
  <2>6. Share(j) = Estimate /\ Share(j)' = cost[j] /\ Writes(j) = 1 /\ Writes(j)' = 2
    BY <1>0, <1>2, <1>3, <2>1, <2>2, <2>4, <2>5, EstimateIs DEF Share, Writes
  <2>7. Estimate <= spend /\ spend \in Nat
    <3>1. Shares \in [Jobs -> Nat] /\ Shares[j] = Share(j)
      BY ShareIs
    <3>2. SumOver(Shares) \in Nat /\ Shares[j] <= SumOver(Shares)
      BY <3>1, SumHolds
    <3> QED
      BY <2>6, <3>1, <3>2 DEF LedgerIs
  <2>8. spend' = spend + cost[j] - Estimate
    <3>1. PICK doc \in Row : doc = proc[i].doc
      BY <1>2
    <3>2. spend' = IF spend + doc.actual - doc.reserved > 0 THEN spend + doc.actual - doc.reserved ELSE 0
      BY <2>1, <2>7, <3>1, AdjustedIs
    <3>3. spend' = IF spend + cost[j] - Estimate > 0 THEN spend + cost[j] - Estimate ELSE 0
      BY <1>2, <3>1, <3>2
    <3>4. PICK c \in Nat, n \in Nat, e \in Nat : c = cost[j] /\ n = spend /\ e = Estimate
      BY <1>2, <2>7, EstimateIs
    <3>5. n + c - e >= 0
      BY <2>7, <3>4
    <3>6. spend' = n + c - e
      BY <3>3, <3>4, <3>5
    <3> QED
      BY <3>4, <3>6
  <2>9. spend' + Share(j) = spend + Share(j)' /\ Writes(j)' = Writes(j) + 1
    BY <1>2, <2>6, <2>7, <2>8, EstimateIs
  <2>10. Moved(j)
    BY <2>4, <2>9 DEF Moved
  <2> QED
    BY <1>1, <2>1, <2>4, <2>10
<1> QED
  BY <1>4, <1>5

LEMMA SettlePersistsBooks ==
  ASSUME Shapes, SettleInv, Books, NEW i \in Procs, SettlePersists(i)
  PROVE  Books' /\ Unmoved
<1>0. proc[i].at = "settled"
  BY DEF SettlePersists, Ready
<1>1. PICK j \in Jobs : proc[i].job = j
  BY <1>0, OnBooks
<1>2. /\ j # None /\ age[j] # "stale" /\ settles[j] > 0 /\ proc[i].doc \in Row
      /\ proc[i].doc.actual = cost[j] /\ proc[i].doc.reserved = Estimate
      /\ proc[i].doc.reserved = job[j].reserved
  BY <1>0, <1>1, OnBooks
<1>3. PICK doc : doc = [proc[i].doc EXCEPT !.settled = TRUE]
  OBVIOUS
<1>4. /\ Kept(i) /\ OthersSame(j) /\ UNCHANGED <<age, settles, cost, spend>>
      /\ proc'[i].job = j /\ proc'[i].doc = doc /\ job'[j] = doc /\ Onward(i)
  BY <1>1, <1>3, SettlePersistsDoes
<1>5. doc.actual = cost[j] /\ doc.reserved = Estimate /\ doc.settled = TRUE
  BY <1>2, <1>3 DEF Row
<1>6. proc'[i].at \in {"check", "settle", "end"}
  BY <1>4 DEF Onward
<1>7. Accounts(i)' /\ job'[j].reserved = job[j].reserved
  BY <1>2, <1>4, <1>5, <1>6 DEF Accounts, BeforeSettled
<1> QED
  BY <1>0, <1>1, <1>2, <1>4, <1>6, <1>7, Stays

LEMMA EndsBooks ==
  ASSUME Shapes, SettleInv, Books, NEW i \in Procs, Ends(i)
  PROVE  Books' /\ Unmoved
<1>0. proc[i].at = "end"
  BY DEF Ends, Ready
<1>1. PICK j \in Jobs : proc[i].job = j
  BY <1>0, OnBooks
<1>2. /\ j # None /\ proc[i].doc \in Row /\ settles[j] \in Nat
      /\ proc[i].doc.actual = cost[j] /\ proc[i].doc.reserved = job[j].reserved
      /\ proc[i].doc.settled <=> settles[j] > 0
      /\ proc[i].doc.settled \/ (proc[i].doc.reserved = 0 /\ cost[j] = 0)
      /\ age[j] = "stale" => Finalizes(i) /\ Untouched(j)
  BY <1>0, <1>1, OnBooks, OnJob
<1>3. PICK doc : doc = [proc[i].doc EXCEPT !.status = proc[i].ending]
  OBVIOUS
<1>4. /\ Kept(i) /\ OthersSame(j) /\ UNCHANGED <<age, settles, cost, spend>>
      /\ proc'[i] = Rest /\ job'[j] = doc
  BY <1>1, <1>3, EndsDoes
<1>5. doc.actual = proc[i].doc.actual /\ doc.reserved = proc[i].doc.reserved
      /\ doc.settled = proc[i].doc.settled
  BY <1>2, <1>3 DEF Row
<1>6. Squared(j)' /\ job'[j].reserved = job[j].reserved
  BY <1>2, <1>4, <1>5 DEF Squared
<1>7. age[j] = "stale" => Untouched(j)'
  BY <1>2, <1>4, <1>5 DEF Untouched, Finalizes
<1>8. proc'[i].at = "idle" /\ proc'[i].job = None
  BY <1>4, RestIsTyped
<1> QED
  BY <1>0, <1>1, <1>2, <1>4, <1>6, <1>7, <1>8, Stays

(* An invocation takes up a job: a row that is squared, so is its copy.      *)
LEMMA TakingBooks ==
  ASSUME Shapes, Shapes', SettleInv, Books, NEW i \in Procs, NEW j \in Jobs, Kept(i),
         proc[i].at = "idle", UNCHANGED <<job, age, settles, cost, spend>>,
         job[j].status \in Open, TakesUp(i, j),
         (i \in Workers /\ events[j] > 0) \/ age[j] = "stale"
  PROVE  Books' /\ Unmoved
<1>0. None \notin Jobs /\ proc[i].job = None
  BY ConstantsAre, Busy DEF SoundRec
<1>1. \A k \in Procs \ {i} : Like(k)
  BY DEF Kept, Moves
<1>2. /\ proc'[i].at \in {"start", "settle"} /\ proc'[i].job = j /\ proc'[i].doc = job[j]
  BY DEF TakesUp
<1>3. Untouched(j) /\ Squared(j)
  BY DEF SettleInv, Delivered, Unbegun, Books, AtRest
<1>4. Accounts(i)'
  BY <1>2, <1>3 DEF Accounts, Untouched, Squared, BeforeSettled
<1>5. ASSUME NEW k \in Procs \ {i}
      PROVE  Accounts(k)'
  <2>1. Accounts(k) /\ Like(k)
    BY <1>1 DEF Books
  <2> QED
    BY <2>1 DEF Accounts, Like
<1>6. ASSUME NEW k \in Jobs
      PROVE  AtRest(k)'
  <2>1. Squared(k) => Squared(k)'
    BY DEF Squared
  <2>2. CASE k = j
    BY <1>3, <2>1, <2>2 DEF AtRest
  <2>3. CASE k # j
    <3>1. \A p \in Procs : proc'[p].job = k <=> proc[p].job = k
      BY <1>0, <1>1, <1>2, <2>3 DEF Like
    <3> QED
      BY <2>1, <3>1 DEF Books, AtRest, Procs
  <2> QED
    BY <2>2, <2>3
<1>7. ASSUME NEW k \in Jobs
      PROVE  Share(k)' = Share(k) /\ Writes(k)' = Writes(k)
  <2>1. Holding(k)' <=> Holding(k)
    <3>1. \A p \in Procs \ {i} : proc'[p].job = proc[p].job /\ proc'[p].at = proc[p].at
      BY <1>1 DEF Like
    <3>2. proc'[i].at # "reserved" /\ proc[i].at # "reserved"
      BY <1>2
    <3> QED
      BY <3>1, <3>2 DEF Holding
  <2> QED
    BY <2>1 DEF Share, Writes
<1> QED
  BY <1>4, <1>5, <1>6, <1>7 DEF Books, Unmoved

(* The request and the clock move no money. *)
LEMMA QuietBooks ==
  ASSUME Shapes, SettleInv, Books, InOrder, NEW j \in Jobs, Queue(j) \/ LoseEvent(j) \/ JobAges(j)
  PROVE  Books' /\ Unmoved /\ proc' = proc
<1>1. Quietly /\ Shapes'
  BY QueueDoes, LoseDoes, AgesDoes
<1>2. ASSUME NEW k \in Jobs
      PROVE  SameMoney(job'[k], job[k])
  <2>1. job[k] \in Row
    BY DEF Shapes
  <2>2. CASE Queue(j)
    <3>1. PICK n : job' = [job EXCEPT ![j].status = IF n > 0 THEN "queued" ELSE "failed"]
      BY <2>2, QueueDoes
    <3> QED
      BY <2>1, <3>1 DEF Shapes, Row, SameMoney
  <2>3. CASE LoseEvent(j) \/ JobAges(j)
    BY <2>3, LoseDoes, AgesDoes DEF SameMoney
  <2> QED
    BY <2>2, <2>3
<1>3. ASSUME NEW k \in Jobs
      PROVE  AtRest(k)'
  <2>1. AtRest(k)
    BY DEF Books
  <2>2. Squared(k) => Squared(k)'
    BY <1>1, <1>2 DEF Squared, SameMoney, Quietly
  <2>3. ASSUME age'[k] = "stale", age[k] # "stale"
        PROVE  \A w \in Workers : proc[w].job # k
    <3>1. ~Fault("slow")
      BY DEF InOrder, Fault
    <3>2. JobAges(j)
      BY <2>3, QueueDoes, LoseDoes
    <3>3. k = j /\ WorkersOf(j) = {}
      BY <2>3, <3>1, <3>2, AgesDoes DEF Shapes
    <3> QED
      BY <3>3 DEF WorkersOf
  <2> QED
    BY <1>1, <2>1, <2>2, <2>3 DEF AtRest, Quietly
<1>4. ASSUME NEW k \in Procs
      PROVE  Accounts(k)'
  <2>1. Accounts(k)
    BY DEF Books
  <2> QED
    BY <1>1, <1>2, <2>1 DEF Accounts, SameMoney, Quietly
<1>5. ASSUME NEW k \in Jobs
      PROVE  Share(k)' = Share(k) /\ Writes(k)' = Writes(k)
  <2>1. Holding(k)' <=> Holding(k)
    BY <1>1 DEF Holding, Quietly
  <2> QED
    BY <1>1, <1>2, <2>1 DEF Share, Writes, SameMoney, Quietly
<1> QED
  BY <1>1, <1>3, <1>4, <1>5 DEF Books, Unmoved, Quietly

LEMMA InitBooks == Init => Books /\ LedgerIs
<1> SUFFICES ASSUME Init PROVE Books /\ LedgerIs
  OBVIOUS
<1>1. Shapes
  BY InitShapes
<1>2. \A i \in Procs : proc[i].job = None /\ proc[i].at = "idle" /\ None \notin Jobs
  BY RestIsTyped, ConstantsAre DEF Init
<1>3. \A j \in Jobs : Squared(j)
  BY DEF Init, Squared, NoRow
<1>4. Books
  BY <1>2, <1>3 DEF Books, AtRest, Accounts
<1>5. Shares = [j \in Jobs |-> 0]
  <2>1. \A j \in Jobs : Share(j) = 0
    BY <1>2 DEF Init, Share, Holding, NoRow
  <2> QED
    BY <2>1 DEF Shares
<1>6. SumOver([j \in Jobs |-> 0]) = 0
  BY SumOfNothing
<1> QED
  BY <1>4, <1>5, <1>6 DEF LedgerIs, Init

-----------------------------------------------------------------------------
(* How often a settlement can be outrun.  Another job writes the ledger at   *)
(* most twice, when it reserves and when it is settled; every write a        *)
(* settlement has lost is one of those.                                      *)

OtherWrites(j) == [k \in Jobs |-> IF k = j THEN 0 ELSE Writes(k)]

Lost(i) == IF proc[i].at = "adjustCas" /\ ~proc[i].fresh THEN 1 ELSE 0

Outrun(i) ==
  proc[i].at \in {"adjust", "adjustCas"} =>
    proc[i].tries + Lost(i) <= SumOver(OtherWrites(proc[i].job))

LEMMA WritesAre ==
  ASSUME Shapes
  PROVE  /\ \A k \in Jobs : Writes(k) \in Nat
         /\ \A j \in Jobs : OtherWrites(j) \in [Jobs -> Nat] /\ SumOver(OtherWrites(j)) \in Nat
<1>1. \A k \in Jobs : Writes(k) \in Nat
  BY DEF Writes, Shapes
<1>2. ASSUME NEW j \in Jobs
      PROVE  OtherWrites(j) \in [Jobs -> Nat] /\ SumOver(OtherWrites(j)) \in Nat
  <2>1. OtherWrites(j) \in [Jobs -> Nat]
    BY <1>1 DEF OtherWrites
  <2> QED
    BY <2>1, SumIs
<1> QED
  BY <1>1, <1>2

LEMMA OthersUnmoved ==
  ASSUME Unmoved, NEW j \in Jobs
  PROVE  OtherWrites(j)' = OtherWrites(j)
BY DEF Unmoved, OtherWrites

LEMMA OthersMoved ==
  ASSUME Shapes, Shapes', NEW j \in Jobs, Moved(j), NEW h \in Jobs, h # j
  PROVE  SumOver(OtherWrites(h)) + 1 <= SumOver(OtherWrites(h)')
<1> DEFINE f == OtherWrites(h)
           g == OtherWrites(h)'
<1>1. f \in [Jobs -> Nat]
  BY WritesAre
<1>2. ASSUME NEW k \in Jobs
      PROVE  Writes(k)' \in Nat
  BY DEF Writes, Shapes
<1>3. g \in [Jobs -> Nat]
  BY <1>2 DEF OtherWrites
<1>4. f[j] = Writes(j) /\ g[j] = Writes(j)' /\ Writes(j)' = Writes(j) + 1
  BY DEF OtherWrites, Moved
<1>5. \A k \in Jobs \ {j} : g[k] = f[k]
  BY DEF OtherWrites, Moved
<1> HIDE DEF f, g
<1>6. PICK a \in Nat : a = f[j] /\ g[j] = a + 1
  BY <1>1, <1>4
<1>7. SumOver(f) \in Nat /\ SumOver(g) \in Nat /\ SumOver(g) + f[j] = SumOver(f) + g[j]
  BY <1>1, <1>3, <1>5, SumMoves
<1>8. SumOver(f) + 1 <= SumOver(g)
  BY <1>6, <1>7
<1> QED
  BY <1>8 DEF f, g

(* What a step of the invocation i may do to the ledger. *)
Steps(i) ==
  \/ Unmoved /\ Leaves(i)
  \/ Moved(proc[i].job) /\ proc[i].at \in CasPcs

LEMMA OutrunKept ==
  ASSUME Shapes, Shapes', SettleInv, NEW i \in Procs, Moves(i), Steps(i),
         \A p \in Procs : Outrun(p), Outrun(i)'
  PROVE  \A p \in Procs : Outrun(p)'
<1> SUFFICES ASSUME NEW p \in Procs, p # i, proc'[p].at \in {"adjust", "adjustCas"}
             PROVE  proc'[p].tries + Lost(p)' <= SumOver(OtherWrites(proc[p].job)')
                    /\ proc'[p].job = proc[p].job
  BY DEF Outrun
<1>1. Like(p) /\ Outrun(p)
  BY DEF Moves
<1>2. /\ proc[p].at = proc'[p].at /\ proc'[p].job = proc[p].job /\ proc'[p].tries = proc[p].tries
      /\ proc[p].tries \in Nat /\ Lost(p) \in {0, 1} /\ Lost(p)' \in {0, 1}
  BY <1>1, Busy DEF Like, Lost, Invocation
<1>3. PICK h \in Jobs : h = proc[p].job
  BY <1>2, Busy
<1>4. proc[p].tries + Lost(p) <= SumOver(OtherWrites(h)) /\ SumOver(OtherWrites(h)) \in Nat
  BY <1>1, <1>2, <1>3, WritesAre DEF Outrun
<1>5. CASE Unmoved /\ Leaves(i)
  <2>1. proc'[p] = proc[p]
    BY <1>5 DEF Leaves
  <2>2. Lost(p)' = Lost(p)
    BY <2>1 DEF Lost
  <2>3. OtherWrites(h)' = OtherWrites(h)
    BY <1>5, OthersUnmoved
  <2> QED
    BY <1>2, <1>3, <1>4, <2>2, <2>3
<1>6. CASE Moved(proc[i].job) /\ proc[i].at \in CasPcs
  <2>1. PICK j \in Jobs : j = proc[i].job
    BY <1>6, Busy DEF CasPcs
  <2>2. age[h] # "stale"
    BY <1>2, <1>3, OnJob
  <2>3. h # j
    BY <1>3, <2>1, <2>2, HeldBy
  <2>4. SumOver(OtherWrites(h)) + 1 <= SumOver(OtherWrites(h)')
    BY <1>6, <2>1, <2>3, OthersMoved
  <2>5. SumOver(OtherWrites(h)') \in Nat
    <3>1. \A k \in Jobs : Writes(k)' \in Nat
      BY DEF Writes, Shapes
    <3>2. OtherWrites(h)' \in [Jobs -> Nat]
      BY <3>1 DEF OtherWrites
    <3> HIDE DEF OtherWrites
    <3> QED
      BY <3>2, SumIs
  <2> QED
    BY <1>2, <1>3, <1>4, <2>4, <2>5
<1> QED
  BY <1>5, <1>6 DEF Steps

(* Two writes of each of the others are fewer than the attempts. *)
LEMMA FewOthers ==
  ASSUME Shapes, SettleInv, 2 * (Cardinality(Jobs) - 1) < Attempts,
         \A p \in Procs : Outrun(p)
  PROVE  NobodyGivesUp
<1> SUFFICES ASSUME NEW i \in Procs, proc[i].at = "adjust" PROVE proc[i].tries # Attempts
  BY DEF NobodyGivesUp, Ready
<1>1. PICK j \in Jobs : j = proc[i].job
  BY Busy
<1>2. proc[i].tries + Lost(i) <= SumOver(OtherWrites(j)) /\ Lost(i) = 0 /\ proc[i].tries \in Nat
  BY <1>1, Busy DEF Outrun, Lost, Invocation
<1> DEFINE f == OtherWrites(j)
<1>3. f \in [Jobs -> Nat] /\ f[j] = 0
  BY WritesAre DEF OtherWrites
<1>4. ASSUME NEW k \in Jobs
      PROVE  f[k] <= 2
  <2>1. settles[k] \in Nat /\ settles[k] <= 1
    BY DEF Shapes, SettleInv
  <2> QED
    BY <2>1 DEF OtherWrites, Writes
<1> HIDE DEF f
<1>5. SumOver(f) \in Nat /\ SumOver(f) <= 2 * (Cardinality(Jobs) - 1)
  BY <1>3, <1>4, SumBound
<1>6. Cardinality(Jobs) \in Nat /\ Attempts \in Nat
  BY ResumeAssumption, FS_CardinalityType
<1>7. proc[i].tries <= SumOver(f)
  BY <1>2 DEF f
<1> QED
  BY <1>2, <1>5, <1>6, <1>7

Ledger == Books /\ LedgerIs /\ \A i \in Procs : Outrun(i)

(* A step of one invocation keeps the ledger, and the count of the writes a  *)
(* settlement has lost if it does for the invocation itself.                 *)
LEMMA LedgerStep ==
  ASSUME Shapes, Shapes', SettleInv, Ledger, NEW i \in Procs, Moves(i), Books', Steps(i), Outrun(i)'
  PROVE  Ledger'
<1>1. CASE Unmoved
  BY <1>1, LedgerStays, OutrunKept DEF Ledger
<1>2. CASE Moved(proc[i].job) /\ proc[i].at \in CasPcs
  <2>1. PICK j \in Jobs : j = proc[i].job
    BY <1>2, Busy DEF CasPcs
  <2> QED
    BY <1>2, <2>1, LedgerMoves, OutrunKept DEF Ledger
<1> QED
  BY <1>1, <1>2 DEF Steps

LEMMA WorkerStepLedger ==
  ASSUME Shapes, SettleInv, Ledger, NEW w \in Workers, WorkerStep(w)
  PROVE  Ledger'
<1>0. w \in Procs /\ Books
  BY DEF Procs, Ledger
<1>1. Kept(w) /\ proc'[w].at \notin {"adjust", "adjustCas"}
  <2>1. Rest.at = "idle"
    BY RestIsTyped
  <2> QED
    BY <2>1, StartsDoes, TurnedOffDoes, ReserveReadsDoes, ReserveWritesDoes, PersistsDoes, CallsDoes,
       BookedDoes, WorkEndsDoes, ChecksDoes DEF WorkerStep
<1>2. Books' /\ Steps(w)
  <2>1. CASE ReserveWrites(w)
    <3>1. proc[w].at \in CasPcs
      BY <2>1 DEF ReserveWrites, Ready, CasPcs
    <3> QED
      BY <1>0, <2>1, <3>1, ReserveWritesBooks, LeavesIs DEF Steps, WorkerStep
  <2>2. CASE ~ReserveWrites(w)
    <3>1. proc[w].at \notin CasPcs
      BY <2>2 DEF WorkerStep, WorkerStarts, WorkerTurnedOff, ReserveReads, ReservePersists, Calls,
         CallBooked, WorkEnds, ChecksStatus, Ready, CasPcs
    <3>2. Leaves(w)
      BY <1>0, <3>1, LeavesIs
    <3> QED
      BY <1>0, <2>2, <3>2, StartsBooks, TurnedOffBooks, ReserveReadsBooks, PersistsBooks, CallsBooks,
         BookedBooks, WorkEndsBooks, ChecksBooks DEF WorkerStep, Steps
  <2> QED
    BY <2>1, <2>2
<1> QED
  BY <1>0, <1>1, <1>2, LedgerStep DEF Kept, Outrun

LEMMA SettleStepLedger ==
  ASSUME Shapes, SettleInv, Ledger, NobodyGivesUp, NEW i \in Procs, SettleStep(i)
  PROVE  Ledger'
<1>0. Books /\ LedgerIs /\ Outrun(i)
  BY DEF Ledger
<1>1. Kept(i)
  BY SettleReadsDoes, AdjustReadsDoes, AdjustWritesDoes, SettlePersistsDoes, EndsDoes DEF SettleStep
<1>2. Shapes' /\ Moves(i)
  BY <1>1 DEF Kept
<1>3. CASE SettleReads(i)
  <2>1. proc[i].at = "settle"
    BY <1>3 DEF SettleReads, Ready
  <2>2. Books' /\ Unmoved /\ Leaves(i)
    BY <1>0, <1>3, <2>1, SettleReadsBooks, LeavesIs DEF SettleStep, CasPcs
  <2>3. proc'[i].at \in {"check", "settle", "end", "adjust"} /\ proc'[i].job = proc[i].job
    BY <1>3, SettleReadsDoes DEF Onward
  <2>4. proc'[i].at = "adjust" => proc'[i].tries = 0
    <3>1. proc[i] \in Invocation /\ proc \in [Procs -> Invocation]
      BY Busy DEF Shapes
    <3>2. PICK doc : \/ Set(i, Settled([proc[i] EXCEPT !.doc = doc]))
                     \/ Set(i, [proc[i] EXCEPT !.at = "adjust", !.doc = doc, !.tries = 0])
      BY <1>3 DEF SettleReads
    <3>3. CASE Set(i, Settled([proc[i] EXCEPT !.doc = doc]))
      <4>1. PICK rec : rec = [proc[i] EXCEPT !.doc = doc]
        OBVIOUS
      <4>2. DOMAIN rec = {"at", "job", "doc", "seen", "fresh", "tries", "calls", "ending", "again"}
        BY <3>1, <4>1 DEF Invocation
      <4>3. Settled(rec).at # "adjust"
        BY <4>2 DEF Settled
      <4> QED
        BY <3>1, <3>3, <4>1, <4>3 DEF Set
    <3>4. CASE Set(i, [proc[i] EXCEPT !.at = "adjust", !.doc = doc, !.tries = 0])
      BY <3>1, <3>4 DEF Set, Invocation
    <3> QED
      BY <3>2, <3>3, <3>4
  <2>5. Outrun(i)'
    <3>1. PICK j \in Jobs : j = proc[i].job
      BY <2>1, Busy
    <3>2. SumOver(OtherWrites(j)') \in Nat
      BY <2>2, <3>1, OthersUnmoved, WritesAre
    <3>3. proc'[i].at = "adjust" => Lost(i)' = 0 /\ proc'[i].tries = 0
      BY <2>4 DEF Lost
    <3>4. proc'[i].at = "adjust" => proc'[i].tries + Lost(i)' <= SumOver(OtherWrites(j)')
      BY <3>2, <3>3
    <3> QED
      BY <2>3, <3>1, <3>4 DEF Outrun
  <2> QED
    BY <1>2, <2>2, <2>5, LedgerStep DEF Steps
<1>4. CASE AdjustReads(i)
  <2>1. proc[i].at = "adjust" /\ proc[i].tries # Attempts
    BY <1>4 DEF AdjustReads, NobodyGivesUp, Ready
  <2>2. /\ Books' /\ Unmoved /\ Leaves(i)
        /\ proc'[i].at = "adjustCas" /\ proc'[i].fresh /\ proc'[i].tries = proc[i].tries
        /\ proc'[i].job = proc[i].job
    BY <1>0, <1>4, <2>1, AdjustReadsBooks, LeavesIs DEF SettleStep, CasPcs
  <2>3. PICK j \in Jobs : j = proc[i].job
    BY <2>1, Busy
  <2>4. Lost(i) = 0 /\ Lost(i)' = 0 /\ OtherWrites(j)' = OtherWrites(j)
    BY <2>1, <2>2, OthersUnmoved DEF Lost
  <2>5. Outrun(i)'
    BY <1>0, <2>1, <2>2, <2>3, <2>4 DEF Outrun
  <2> QED
    BY <1>2, <2>2, <2>5, LedgerStep DEF Steps
<1>5. CASE AdjustWrites(i)
  <2>1. proc[i].at = "adjustCas"
    BY <1>5 DEF AdjustWrites, Ready
  <2>2. CASE /\ ~proc[i].fresh /\ Unmoved
             /\ proc'[i].at = "adjust" /\ proc'[i].tries = proc[i].tries + 1
             /\ proc'[i].job = proc[i].job
    <3>1. Leaves(i)
      BY <1>5, <2>2, LeavesIs DEF SettleStep
    <3>2. PICK j \in Jobs : j = proc[i].job
      BY <2>1, Busy
    <3>3. Lost(i) = 1 /\ Lost(i)' = 0 /\ OtherWrites(j)' = OtherWrites(j) /\ proc[i].tries \in Nat
      BY <2>1, <2>2, OthersUnmoved, Busy DEF Lost, Invocation
    <3>4. Outrun(i)'
      BY <1>0, <2>1, <2>2, <3>2, <3>3 DEF Outrun
    <3> QED
      BY <1>0, <1>2, <1>5, <2>2, <3>1, <3>4, AdjustWritesBooks, LedgerStep DEF Steps
  <2>3. CASE Moved(proc[i].job) /\ proc'[i].at = "settled"
    <3>1. Outrun(i)' /\ Steps(i)
      BY <2>1, <2>3 DEF Outrun, Steps, CasPcs
    <3> QED
      BY <1>0, <1>2, <1>5, <3>1, AdjustWritesBooks, LedgerStep
  <2> QED
    BY <1>0, <1>5, <2>2, <2>3, AdjustWritesBooks
<1>6. CASE SettlePersists(i)
  <2>1. proc[i].at = "settled"
    BY <1>6 DEF SettlePersists, Ready
  <2>2. Books' /\ Unmoved /\ Leaves(i)
    BY <1>0, <1>6, <2>1, SettlePersistsBooks, LeavesIs DEF SettleStep, CasPcs
  <2>3. Outrun(i)'
    BY <1>6, SettlePersistsDoes DEF Outrun, Onward
  <2> QED
    BY <1>2, <2>2, <2>3, LedgerStep DEF Steps
<1>7. CASE Ends(i)
  <2>1. proc[i].at = "end"
    BY <1>7 DEF Ends, Ready
  <2>2. Books' /\ Unmoved /\ Leaves(i)
    BY <1>0, <1>7, <2>1, EndsBooks, LeavesIs DEF SettleStep, CasPcs
  <2>3. Outrun(i)'
    BY <1>7, EndsDoes, RestIsTyped DEF Outrun
  <2> QED
    BY <1>2, <2>2, <2>3, LedgerStep DEF Steps
<1> QED
  BY <1>3, <1>4, <1>5, <1>6, <1>7 DEF SettleStep

LEMMA InitLedger == Init => Ledger
<1> SUFFICES ASSUME Init PROVE Ledger
  OBVIOUS
<1>1. \A i \in Procs : proc[i].at = "idle"
  BY RestIsTyped DEF Init
<1> QED
  BY <1>1, InitBooks DEF Ledger, Outrun

LEMMA NextLedger ==
  Shapes /\ SettleInv /\ Ledger /\ InOrder /\ NobodyGivesUp /\ [Next]_vars => Ledger'
<1> SUFFICES ASSUME Shapes, SettleInv, Ledger, InOrder, NobodyGivesUp, [Next]_vars PROVE Ledger'
  OBVIOUS
<1>0. Shapes' /\ Books /\ LedgerIs /\ \A i \in Procs : Outrun(i)
  BY NextShapes DEF Ledger
<1>1. ASSUME Books', Unmoved, NEW i \in Procs, Leaves(i), proc'[i].at \notin {"adjust", "adjustCas"}
      PROVE  Ledger'
  <2>1. Outrun(i)' /\ Steps(i)
    BY <1>1 DEF Outrun, Steps
  <2>2. \A k \in Procs \ {i} : proc'[k] = proc[k]
    BY <1>1 DEF Leaves
  <2>3. Moves(i)
    BY <1>0, <2>2, <1>1 DEF Moves, Like, Shapes, Unmoved
  <2> QED
    BY <1>0, <1>1, <2>1, <2>3, LedgerStep
<1>2. ASSUME Books', Unmoved, proc' = proc
      PROVE  Ledger'
  <2>1. ASSUME NEW i \in Procs
        PROVE  Outrun(i)'
    <3>1. Outrun(i)
      BY <1>0
    <3>2. CASE proc[i].at \in {"adjust", "adjustCas"}
      <4>1. PICK j \in Jobs : j = proc[i].job
        BY <3>2, Busy
      <4>2. OtherWrites(j)' = OtherWrites(j) /\ Lost(i)' = Lost(i)
        BY <1>2, OthersUnmoved DEF Lost
      <4> QED
        BY <1>2, <3>1, <4>1, <4>2 DEF Outrun
    <3>3. CASE proc[i].at \notin {"adjust", "adjustCas"}
      BY <1>2, <3>3 DEF Outrun
    <3> QED
      BY <3>2, <3>3
  <2> QED
    BY <1>0, <1>2, <2>1, LedgerStays DEF Ledger
<1>3. CASE UNCHANGED vars
  <2>1. Books' /\ Unmoved
    BY <1>0, <1>3 DEF vars, Books, AtRest, Squared, Accounts, Unmoved, Share, Writes, Holding
  <2> QED
    BY <1>2, <1>3, <2>1 DEF vars
<1>4. CASE \E j \in Jobs : Queue(j) \/ LoseEvent(j) \/ JobAges(j)
  BY <1>0, <1>2, <1>4, QuietBooks
<1>5. ASSUME NEW w \in Workers, NEW j \in Jobs, WorkerBegins(w, j)
      PROVE  Ledger'
  <2>1. /\ w \in Procs /\ Kept(w) /\ UNCHANGED <<job, age, settles, cost, spend>>
        /\ proc[w].at = "idle" /\ events[j] > 0
        /\ \/ proc' = proc
           \/ job[j].status \in Open /\ TakesUp(w, j)
    BY <1>5, BeginsDoes DEF Procs
  <2>2. CASE proc' = proc
    <3>1. Books' /\ Unmoved
      BY <1>0, <2>1, <2>2 DEF Books, AtRest, Squared, Accounts, Unmoved, Share, Writes, Holding
    <3> QED
      BY <1>2, <2>2, <3>1
  <2>3. CASE job[j].status \in Open /\ TakesUp(w, j)
    <3>1. Leaves(w)
      BY <1>5 DEF WorkerBegins, Set, Leaves, Shapes
    <3>2. proc'[w].at \notin {"adjust", "adjustCas"}
      BY <2>3 DEF TakesUp
    <3> QED
      BY <1>0, <1>1, <2>1, <2>3, <3>1, <3>2, TakingBooks
  <2> QED
    BY <2>1, <2>2, <2>3
<1>6. CASE \E w \in Workers : WorkerStep(w)
  BY <1>6, WorkerStepLedger
<1>7. CASE \E i \in Procs : SettleStep(i) \/ Dies(i)
  BY <1>7, SettleStepLedger, DiesDoes DEF InOrder, Fault
<1>8. ASSUME NEW q \in Polls, NEW j \in Jobs, Poll(q, j)
      PROVE  Ledger'
  <2>1. age[j] = "stale" /\ q \in Procs
    BY <1>8 DEF Poll, Procs
  <2>2. Leaves(q)
    BY <1>8 DEF Poll, Set, Leaves, Shapes
  <2>3. /\ Kept(q) /\ UNCHANGED <<job, age, settles, cost, spend>>
        /\ proc[q].at = "idle" /\ job[j].status \in Open /\ TakesUp(q, j)
    BY <1>8, PollDoes
  <2>4. proc'[q].at \notin {"adjust", "adjustCas"}
    BY <2>3 DEF TakesUp
  <2> QED
    BY <1>0, <1>1, <2>1, <2>2, <2>3, <2>4, TakingBooks
<1> QED
  BY <1>3, <1>4, <1>5, <1>6, <1>7, <1>8 DEF Next

(* Nobody at work: every row is squared, and its share is what it says.      *)
LEMMA LedgerBalances ==
  ASSUME Shapes, InOrder => Ledger
  PROVE  Balanced
<1> SUFFICES ASSUME InOrder, Quiet
             PROVE  /\ spend = SumOver([j \in Jobs |-> IF job[j].settled THEN job[j].actual
                                                       ELSE job[j].reserved])
                    /\ spend = SumOver(cost)
  BY DEF Balanced
<1>1. \A i \in Procs : proc[i].at = "idle" /\ proc[i].job \notin Jobs
  BY Busy, ConstantsAre DEF Quiet, Ready, SoundRec
<1>2. ASSUME NEW j \in Jobs
      PROVE  /\ Share(j) = IF job[j].settled THEN job[j].actual ELSE job[j].reserved
             /\ Share(j) = cost[j]
  <2>1. Squared(j)
    BY <1>1 DEF Ledger, Books, AtRest, Procs
  <2>2. ~Holding(j)
    BY <1>1 DEF Holding
  <2> QED
    BY <2>1, <2>2 DEF Share, Squared
<1>3. cost = [j \in Jobs |-> cost[j]]
  BY DEF Shapes
<1>4. Shares = cost
  BY <1>2, <1>3 DEF Shares
<1>5. Shares = [j \in Jobs |-> IF job[j].settled THEN job[j].actual ELSE job[j].reserved]
  BY <1>2 DEF Shares
<1> QED
  BY <1>4, <1>5 DEF Ledger, LedgerIs

(* For any number of jobs: as long as no settlement uses up its attempts,    *)
(* the ledger balances whenever nothing is under way, however the            *)
(* reservations and settlements interleave, whatever is lost or fails.       *)
THEOREM BalancedUnlessGivenUp == Spec /\ [](InOrder => NobodyGivesUp) => []Balanced
<1> DEFINE IInv == Shapes /\ (InOrder => SettleInv /\ Ledger)
<1>1. Init => IInv
  BY InitShapes, InitSettles, InitLedger
<1>2. IInv /\ (InOrder => NobodyGivesUp) /\ [Next]_vars => IInv'
  BY NextShapes, NextSettles, NextLedger, ModeStays DEF InOrder
<1>3. IInv => Balanced
  BY LedgerBalances
<1> QED
  BY <1>1, <1>2, <1>3, PTL DEF Spec

(* Each other job writes the ledger at most twice: with fewer than half as   *)
(* many other jobs as adjust_spend has attempts no settlement uses them up.  *)
Few == 2 * (Cardinality(Jobs) - 1) < Attempts

THEOREM NeverGivenUp == Few => (Spec => [](InOrder => NobodyGivesUp))
<1> SUFFICES ASSUME Few PROVE Spec => [](InOrder => NobodyGivesUp)
  OBVIOUS
<1> DEFINE IInv == Shapes /\ (InOrder => SettleInv /\ Ledger)
<1>1. Init => IInv
  BY InitShapes, InitSettles, InitLedger
<1>2. IInv => (InOrder => NobodyGivesUp)
  BY FewOthers DEF Few, Ledger
<1>3. IInv /\ [Next]_vars => IInv'
  BY <1>2, NextShapes, NextSettles, NextLedger, ModeStays DEF InOrder
<1> QED
  BY <1>1, <1>2, <1>3, PTL DEF Spec

(* The ledger balances without a further assumption for so few jobs: with    *)
(* the five attempts of adjust_spend, for up to three.                       *)
THEOREM BalancedAlways == Few => (Spec => []Balanced)
<1> SUFFICES ASSUME Few PROVE Spec => []Balanced
  OBVIOUS
<1>1. Spec => [](InOrder => NobodyGivesUp)
  BY NeverGivenUp
<1> QED
  BY <1>1, BalancedUnlessGivenUp, PTL
=============================================================================

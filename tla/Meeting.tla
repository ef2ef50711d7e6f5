------------------------------- MODULE Meeting -------------------------------
(***************************************************************************)
(* The meeting engine (board_meeting.py).  A meeting is one DynamoDB row   *)
(* and a list of TURN rows; it goes through its phases, each of which is   *)
(* a Lambda invocation of its own: the invocation claims the phase with a  *)
(* conditional update, runs it, puts the row back and invokes the next.    *)
(*                                                                         *)
(* Everything but the claim is a full put of a row read earlier.  The      *)
(* founder's requests (start, cancel, look) and the staff tick run beside  *)
(* the phases as clients.  A meeting nobody wrote for meetingStuckSeconds  *)
(* (900) is failed by whoever reads it next.                               *)
(***************************************************************************)
EXTENDS Naturals, Sequences, FiniteSets

CONSTANTS
  Meetings,   \* meeting ids
  Workers,    \* invocations that run a phase
  Clients,    \* founder requests, the schedule and the tick
  None,       \* no meeting
  Phases,     \* PHASES_BY_MODE[mode], the phases in turn, none twice
  MaxTurns,   \* bound: turns a phase appends
  Env         \* what else may happen, a subset of EnvKinds

(* duplicate: an Event invoke is delivered twice; invokeError: Lambda.Invoke *)
(* raises, whether or not the event was accepted; schedule: it is a slot of  *)
(* the schedule that starts meetings, not the founder; the rest as named.    *)
EnvKinds == {"crash", "duplicate", "invokeError", "phaseError", "cancel", "schedule"}

ASSUME MeetingAssumption ==
  /\ None \notin Meetings
  /\ Phases \in Seq(STRING) /\ Len(Phases) > 0
  /\ \A i, j \in 1..Len(Phases) : Phases[i] = Phases[j] => i = j
  /\ MaxTurns \in Nat \ {0}
  /\ Env \subseteq EnvKinds

VARIABLES
  meeting,    \* meeting[m]: its row
  stale,      \* stale[m]: updatedAt is older than meetingStuckSeconds
  turnRows,   \* turnRows[m]: the seq of every TURN row put
  persisted,  \* persisted[m]: how often its minutes were turned into actions
  events,     \* Event invokes accepted and not yet delivered
  worker,     \* worker[w]: the phase an invocation runs, and the doc it holds
  client      \* client[c]: what a request does next, and the rows it holds

vars == <<meeting, stale, turnRows, persisted, events, worker, client>>

-----------------------------------------------------------------------------
Statuses == {"absent", "running", "succeeded", "failed", "cancelled"}
Terminal == {"succeeded", "failed", "cancelled"}
Last     == Len(Phases)

(* phase is an index into Phases, Last + 1 stands for "done". *)
Row == [status : Statuses, phase : 1..(Last + 1), state : {"pending", "running", "done"},
        turns : Nat, scheduled : BOOLEAN, retried : BOOLEAN]

NoRow == [status |-> "absent", phase |-> 1, state |-> "pending", turns |-> 0,
          scheduled |-> FALSE, retried |-> FALSE]

Events == [m : Meetings, phase : 1..Last]

WorkerPcs == {"idle", "dead", "claimed", "run", "ran", "invoke"}
ClientPcs == {"idle", "dead", "listed", "busy", "created", "retry", "noteRetry", "cancel"}

NoWork == [pc |-> "idle", m |-> None, phase |-> 1, put |-> 0, doc |-> NoRow]
NoCall == [pc |-> "idle", why |-> "look", m |-> None, retryOf |-> None,
           seen |-> [m \in Meetings |-> NoRow]]

TypeOK ==
  /\ meeting \in [Meetings -> Row]
  /\ stale \in [Meetings -> BOOLEAN]
  /\ turnRows \in [Meetings -> SUBSET (Nat \ {0})]
  /\ persisted \in [Meetings -> Nat]
  /\ events \subseteq Events
  /\ worker \in [Workers -> [pc : WorkerPcs, m : Meetings \cup {None}, phase : 1..Last,
                             put : 0..MaxTurns, doc : Row]]
  /\ client \in [Clients -> [pc : ClientPcs, why : {"look", "start", "schedule"},
                             m : Meetings \cup {None}, retryOf : Meetings \cup {None},
                             seen : [Meetings -> Row]]]

Init ==
  /\ meeting = [m \in Meetings |-> NoRow]
  /\ stale = [m \in Meetings |-> FALSE]
  /\ turnRows = [m \in Meetings |-> {}]
  /\ persisted = [m \in Meetings |-> 0]
  /\ events = {}
  /\ worker = [w \in Workers |-> NoWork]
  /\ client = [c \in Clients |-> NoCall]

-----------------------------------------------------------------------------
(* A put of the whole row; its updatedAt is now. *)
Put(m, row) == /\ meeting' = [meeting EXCEPT ![m] = row]
               /\ stale' = [stale EXCEPT ![m] = FALSE]

Failed(row)    == [row EXCEPT !.status = "failed"]
Cancelled(row) == [row EXCEPT !.status = "cancelled"]

(* invoke_async: the event is accepted, or the call raises. *)
Accept(m, k) == events' = events \cup {[m |-> m, phase |-> k]}
InvokeRaises(m, k) ==
  /\ "invokeError" \in Env
  /\ events' \in {events, events \cup {[m |-> m, phase |-> k]}}

WorkerAt(w, pc) == worker[w].pc = pc
WM(w)   == worker[w].m
Doc(w)  == worker[w].doc
WorkerGoes(w, pc, doc) == worker' = [worker EXCEPT ![w] = [@ EXCEPT !.pc = pc, !.doc = doc]]
WorkerEnds(w) == worker' = [worker EXCEPT ![w] = NoWork]

ClientAt(c, pc) == client[c].pc = pc
CM(c) == client[c].m
ClientGoes(c, call) == client' = [client EXCEPT ![c] = call]
ClientEnds(c) == ClientGoes(c, NoCall)

-----------------------------------------------------------------------------
(* Workers: run_meeting_phase. *)

(* Mutant: a claim that does not look at phaseState. *)
ClaimableWhateverItsState(m, k) ==
  /\ meeting[m].status = "running"
  /\ meeting[m].phase = k

(* The condition of claim_meeting_phase. *)
Claimable(m, k) ==
  /\ meeting[m].status = "running"
  /\ meeting[m].phase = k
  /\ meeting[m].state # "running" \/ stale[m]

Delivered(e) == events' \in {events \ {e}} \cup (IF "duplicate" \in Env THEN {events} ELSE {})

ClaimPhase(w) == \E e \in events :
  /\ WorkerAt(w, "idle")
  /\ Claimable(e.m, e.phase)
  /\ Delivered(e)
  /\ Put(e.m, [meeting[e.m] EXCEPT !.state = "running"])
  /\ worker' = [worker EXCEPT ![w] =
                  [NoWork EXCEPT !.pc = "claimed", !.m = e.m, !.phase = e.phase]]
  /\ UNCHANGED <<turnRows, persisted, client>>

(* Not running, another phase, or claimed by somebody else: nothing is done. *)
SkipPhase(e) ==
  /\ ~Claimable(e.m, e.phase)
  /\ events' = events \ {e}
  /\ UNCHANGED <<meeting, stale, turnRows, persisted, worker, client>>

(* Mutant: the worker goes on with the row it read before it claimed. *)
UseDocReadBefore(w) ==
  /\ WorkerAt(w, "claimed")
  /\ WorkerGoes(w, "run", [meeting[WM(w)] EXCEPT !.state = "pending"])
  /\ UNCHANGED <<meeting, stale, turnRows, persisted, events, client>>

(* doc = get_meeting(...) after the claim; the status is not looked at again. *)
ReloadDoc(w) ==
  /\ WorkerAt(w, "claimed")
  /\ WorkerGoes(w, "run", meeting[WM(w)])
  /\ UNCHANGED <<meeting, stale, turnRows, persisted, events, client>>

(* Mutant: the phase goes on with the doc it had before the turn. *)
ForgetsTurn(w, doc) ==
  worker' = [worker EXCEPT ![w] = [@ EXCEPT !.pc = "ran", !.put = worker[w].put + 1]]

(* The phase appends another turn, or is through. *)
TurnAppended(w, doc) ==
  \E more \in IF worker[w].put + 1 < MaxTurns THEN {"run", "ran"} ELSE {"ran"} :
    worker' = [worker EXCEPT ![w] = [@ EXCEPT !.pc = more, !.put = worker[w].put + 1, !.doc = doc]]

(* _append_turn, after the model answered: a TURN row, then the meeting row *)
(* as the worker knows it.                                                  *)
AppendTurn(w) ==
  LET m == WM(w)
      seq == Doc(w).turns + 1
      doc == [Doc(w) EXCEPT !.turns = seq]
  IN /\ WorkerAt(w, "run")
     /\ Phases[worker[w].phase] \notin {"prepare", "persist"}
     /\ worker[w].put < MaxTurns
     /\ turnRows' = [turnRows EXCEPT ![m] = @ \cup {seq}]
     /\ Put(m, doc)
     /\ TurnAppended(w, doc)
     /\ UNCHANGED <<persisted, events, client>>

(* _phase_prepare gathers the context pack and puts the row. *)
PreparePhase(w) ==
  /\ WorkerAt(w, "run")
  /\ Phases[worker[w].phase] = "prepare"
  /\ Put(WM(w), Doc(w))
  /\ WorkerGoes(w, "ran", Doc(w))
  /\ UNCHANGED <<turnRows, persisted, events, client>>

(* _phase_persist turns the minutes into actions, then puts the row. *)
PersistPhase(w) ==
  /\ WorkerAt(w, "run")
  /\ Phases[worker[w].phase] = "persist"
  /\ persisted' = [persisted EXCEPT ![WM(w)] = @ + 1]
  /\ Put(WM(w), Doc(w))
  /\ WorkerGoes(w, "ran", Doc(w))
  /\ UNCHANGED <<turnRows, events, client>>

(* The model call or the parse raises: _fail. *)
PhaseFails(w) ==
  /\ "phaseError" \in Env
  /\ WorkerAt(w, "run")
  /\ Put(WM(w), Failed(Doc(w)))
  /\ WorkerEnds(w)
  /\ UNCHANGED <<turnRows, persisted, events, client>>

(* Mutant: the last phase is taken to have a next one. *)
AfterPhaseOffByOne(w) ==
  LET next == [Doc(w) EXCEPT !.phase = worker[w].phase + 1, !.state = "pending"]
  IN Put(WM(w), next) /\ WorkerGoes(w, "invoke", next)

(* The row is read once more; a cancel seen there ends the meeting, else the *)
(* next phase is made pending, or the meeting has succeeded.                 *)
AfterPhase(w) ==
  LET k == worker[w].phase
      next == [Doc(w) EXCEPT !.phase = k + 1, !.state = "pending"]
      done == [Doc(w) EXCEPT !.phase = k + 1, !.state = "done", !.status = "succeeded"]
  IN CASE meeting[WM(w)].status = "cancelled" -> Put(WM(w), Cancelled(Doc(w))) /\ WorkerEnds(w)
       [] meeting[WM(w)].status # "cancelled" /\ k < Last ->
            Put(WM(w), next) /\ WorkerGoes(w, "invoke", next)
       [] OTHER -> Put(WM(w), done) /\ WorkerEnds(w)

PhaseEnds(w) ==
  /\ WorkerAt(w, "ran")
  /\ AfterPhase(w)
  /\ UNCHANGED <<turnRows, persisted, events, client>>

InvokeNext(w) ==
  /\ WorkerAt(w, "invoke")
  /\ Accept(WM(w), Doc(w).phase)
  /\ WorkerEnds(w)
  /\ UNCHANGED <<meeting, stale, turnRows, persisted, client>>

InvokeNextFails(w) ==
  /\ WorkerAt(w, "invoke")
  /\ InvokeRaises(WM(w), Doc(w).phase)
  /\ Put(WM(w), Failed(Doc(w)))
  /\ WorkerEnds(w)
  /\ UNCHANGED <<turnRows, persisted, client>>

(* The invocation dies or times out; retryAttempts is 0, so nobody redelivers it. *)
WorkerDies(w) ==
  /\ "crash" \in Env
  /\ worker[w].pc \notin {"idle", "dead"}
  /\ worker' = [worker EXCEPT ![w] = [NoWork EXCEPT !.pc = "dead"]]
  /\ UNCHANGED <<meeting, stale, turnRows, persisted, events, client>>

-----------------------------------------------------------------------------
(* Clients: what they read is a query's or a get's copy of the row. *)

Stuck(m) == meeting[m].status = "running" /\ stale[m]
Busy == \E m \in Meetings : meeting[m].status = "running" /\ ~stale[m]

(* maybe_retry_failed_schedule takes a scheduled meeting that failed and has *)
(* not been retried.                                                         *)
RetryCandidate(row) == row.status = "failed" /\ row.scheduled /\ ~row.retried

(* What the client will act on, of the rows a query gave it. *)
Listed(c, wanted) ==
  [m \in Meetings |-> IF m # client[c].retryOf /\ m \in wanted THEN meeting[m]
                      ELSE client[c].seen[m]]

(* handle_meetings_get, handle_meeting_get, and the list the tick goes through. *)
Look(c) ==
  /\ ClientAt(c, "idle")
  /\ LET wanted == {m \in Meetings : Stuck(m) \/ RetryCandidate(meeting[m])}
     IN ClientGoes(c, [NoCall EXCEPT !.pc = "listed", !.seen = Listed(c, wanted)])
  /\ UNCHANGED <<meeting, stale, turnRows, persisted, events, worker>>

Starter == IF "schedule" \in Env THEN "schedule" ELSE "start"

(* start_meeting lists the meetings, for the founder, a schedule slot or a retry; *)
(* it stops at the first one that runs.                                          *)
StartLists(c, why) ==
  /\ ClientGoes(c, [client[c] EXCEPT !.pc = IF Busy THEN "busy" ELSE "listed", !.why = why,
                                     !.seen = Listed(c, {m \in Meetings : Stuck(m)})])
  /\ UNCHANGED <<meeting, stale, turnRows, persisted, events, worker>>

(* Mutant: only a claimed phase counts as stuck. *)
FinalizeStuckClaim(c, m) ==
  /\ client[c].pc \in {"listed", "busy"}
  /\ client[c].seen[m].status = "running" /\ client[c].seen[m].state = "running"
  /\ Put(m, Failed(client[c].seen[m]))
  /\ ClientGoes(c, [client[c] EXCEPT !.seen[m] = NoRow])
  /\ UNCHANGED <<turnRows, persisted, events, worker>>

(* _finalize_stuck on one row of the list. *)
FinalizeStuck(c, m) ==
  LET row == client[c].seen[m]
  IN /\ client[c].pc \in {"listed", "busy"}
     /\ row.status = "running"
     /\ Put(m, Failed(row))
     /\ ClientGoes(c, [client[c] EXCEPT !.seen[m] =
                         IF client[c].why = "look" THEN Failed(row) ELSE NoRow])
     /\ UNCHANGED <<turnRows, persisted, events, worker>>

NothingStuck(c) == \A m \in Meetings : client[c].seen[m].status # "running"

(* start_meeting ends; a retry then notes on the failed row what became of it. *)
StartEnds(c) == IF client[c].retryOf = None THEN ClientEnds(c)
                ELSE ClientGoes(c, [client[c] EXCEPT !.pc = "noteRetry", !.m = None])

(* The list has been gone through; or no meeting is to be started: one runs, *)
(* or the budget is spent.                                                   *)
ListEnds(c) ==
  /\ ClientAt(c, "busy") \/ (ClientAt(c, "listed") /\ NothingStuck(c))
  /\ StartEnds(c)
  /\ UNCHANGED <<meeting, stale, turnRows, persisted, events, worker>>

(* No running meeting was listed: the row of the new one is put. *)
CreateMeeting(c, m) ==
  /\ ClientAt(c, "listed") /\ client[c].why \in {"start", "schedule"}
  /\ NothingStuck(c)
  /\ meeting[m].status = "absent"
  /\ Put(m, [NoRow EXCEPT !.status = "running", !.scheduled = (client[c].why = "schedule")])
  /\ ClientGoes(c, [client[c] EXCEPT !.pc = "created", !.m = m])
  /\ UNCHANGED <<turnRows, persisted, events, worker>>

InvokeFirst(c) ==
  /\ ClientAt(c, "created")
  /\ Accept(CM(c), 1)
  /\ StartEnds(c)
  /\ UNCHANGED <<meeting, stale, turnRows, persisted, worker>>

InvokeFirstFails(c) ==
  /\ ClientAt(c, "created")
  /\ InvokeRaises(CM(c), 1)
  /\ Put(CM(c), [NoRow EXCEPT !.status = "failed", !.scheduled = (client[c].why = "schedule")])
  /\ StartEnds(c)
  /\ UNCHANGED <<turnRows, persisted, worker>>

(* maybe_retry_failed_schedule marks the failed row "pending" before it starts another. *)
ClaimRetry(c, m) ==
  LET row == [client[c].seen[m] EXCEPT !.retried = TRUE]
  IN /\ ClientAt(c, "listed") /\ client[c].why = "look"
     /\ RetryCandidate(client[c].seen[m])
     /\ Put(m, row)
     /\ ClientGoes(c, [NoCall EXCEPT !.pc = "retry", !.retryOf = m, !.seen[m] = row])
     /\ UNCHANGED <<turnRows, persisted, events, worker>>

(* ... and puts the id of the new meeting, or why there is none. *)
NoteRetry(c) ==
  /\ ClientAt(c, "noteRetry")
  /\ Put(client[c].retryOf, client[c].seen[client[c].retryOf])
  /\ ClientEnds(c)
  /\ UNCHANGED <<turnRows, persisted, events, worker>>

(* handle_meeting_cancel: a get, then a put of that row. *)
CancelReads(c, m) ==
  /\ "cancel" \in Env
  /\ ClientAt(c, "idle")
  /\ meeting[m].status = "running"
  /\ ClientGoes(c, [NoCall EXCEPT !.pc = "cancel", !.m = m, !.seen[m] = meeting[m]])
  /\ UNCHANGED <<meeting, stale, turnRows, persisted, events, worker>>

CancelPuts(c) ==
  /\ ClientAt(c, "cancel")
  /\ Put(CM(c), Cancelled(client[c].seen[CM(c)]))
  /\ ClientEnds(c)
  /\ UNCHANGED <<turnRows, persisted, events, worker>>

(* A request dies; the tick comes back every five minutes, so one client is left. *)
ClientDies(c) ==
  /\ "crash" \in Env
  /\ client[c].pc \notin {"idle", "dead"}
  /\ \E d \in Clients \ {c} : client[d].pc # "dead"
  /\ ClientGoes(c, [NoCall EXCEPT !.pc = "dead"])
  /\ UNCHANGED <<meeting, stale, turnRows, persisted, events, worker>>

-----------------------------------------------------------------------------
(* An event waits at most 600 s (maxEventAge) and an invocation lives at    *)
(* most 300 s, so a running row nobody wrote for 900 s has neither.         *)
Driven(m) ==
  \/ \E e \in events : e.m = m
  \/ \E w \in Workers : WM(w) = m
  \/ \E c \in Clients : ClientAt(c, "created") /\ CM(c) = m

Age(m) ==
  /\ meeting[m].status = "running" /\ ~stale[m]
  /\ ~Driven(m)
  /\ stale' = [stale EXCEPT ![m] = TRUE]
  /\ UNCHANGED <<meeting, turnRows, persisted, events, worker, client>>

(* An event that is throttled past its age goes to the dead letter queue. *)
LoseEvent(e) ==
  /\ events' = events \ {e}
  /\ UNCHANGED <<meeting, stale, turnRows, persisted, worker, client>>

WorkerStep(w) == ReloadDoc(w) \/ AppendTurn(w) \/ PreparePhase(w) \/ PersistPhase(w)
                 \/ PhaseFails(w) \/ PhaseEnds(w) \/ InvokeNext(w) \/ InvokeNextFails(w)

ClientStep(c) ==
  \/ ListEnds(c) \/ InvokeFirst(c) \/ InvokeFirstFails(c) \/ NoteRetry(c) \/ CancelPuts(c)
  \/ ClientAt(c, "retry") /\ StartLists(c, "start")
  \/ \E m \in Meetings : FinalizeStuck(c, m) \/ CreateMeeting(c, m) \/ ClaimRetry(c, m)

Next ==
  \/ \E w \in Workers : ClaimPhase(w) \/ WorkerStep(w) \/ WorkerDies(w)
  \/ \E e \in events : SkipPhase(e) \/ LoseEvent(e)
  \/ \E c \in Clients :
       \/ ClientStep(c) \/ ClientDies(c) \/ Look(c)
       \/ ClientAt(c, "idle") /\ StartLists(c, Starter)
       \/ \E m \in Meetings : CancelReads(c, m)
  \/ \E m \in Meetings : Age(m)

(* Lambda runs what it was given, the clock goes on, and the tick comes back. *)
Fairness ==
  /\ \A w \in Workers : WF_vars(WorkerStep(w))
  /\ \A c \in Clients : WF_vars(ClientStep(c))
  /\ WF_vars(\E e \in events : SkipPhase(e) \/ LoseEvent(e))
  /\ \A m \in Meetings : WF_vars(Age(m))
  /\ SF_vars(\E c \in Clients : Look(c))

Spec == Init /\ [][Next]_vars /\ Fairness

-----------------------------------------------------------------------------
(* Two invocations never run a phase of the same meeting at once: an event    *)
(* delivered twice, or for a phase that is over, is turned away by the claim. *)
PhaseExclusive ==
  \A v, w \in Workers : v # w /\ WM(v) # None => WM(v) # WM(w)

(* The minutes of a meeting become actions at most once. *)
PersistOnce == \A m \in Meetings : persisted[m] <= 1

(* The row of a meeting that succeeded counts every statement put for it, and *)
(* none was put over another: the phases hand the row on without losing one.  *)
TranscriptComplete ==
  \A m \in Meetings :
    meeting[m].status = "succeeded" =>
      Cardinality(turnRows[m]) = meeting[m].turns

(* A meeting that runs comes to an end, whatever dies on the way. *)
MeetingEnds ==
  \A m \in Meetings : meeting[m].status = "running" ~> meeting[m].status \in Terminal
=============================================================================

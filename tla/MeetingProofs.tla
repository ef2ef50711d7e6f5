---------------------------- MODULE MeetingProofs ----------------------------
(***************************************************************************)
(* A phase of a meeting is run by one invocation, its minutes become       *)
(* actions once and its transcript is complete, for any number of          *)
(* meetings, invocations, requests, phases and turns.                      *)
(***************************************************************************)
EXTENDS Meeting, FiniteSetTheorems, TLAPS

-----------------------------------------------------------------------------
(* The inductive invariant.                                                *)

(* TypeOK says what a work and a call are; they are named here.              *)
Work == [pc : WorkerPcs, m : Meetings \cup {None}, phase : 1..Last, put : 0..MaxTurns, doc : Row]

Call == [pc : ClientPcs, why : {"look", "start", "schedule"}, m : Meetings \cup {None},
         retryOf : Meetings \cup {None}, seen : [Meetings -> Row]]

Works(w) == worker[w].pc \notin {"idle", "dead"}

Creates(c, m) == ClientAt(c, "created") /\ CM(c) = m

(* Nothing will make the row of m a running one: no invocation has it, and   *)
(* none of the events left can claim it.                                     *)
Quiet(m) ==
  /\ \A w \in Workers : WM(w) # m
  /\ \A c \in Clients : ~Creates(c, m)
  /\ (\E e \in events : e.m = m) => meeting[m].status # "running"
  /\ meeting[m].status # "absent"

(* The row of m is the one that v's phase has, or a cancelled one.           *)
HasRow(m, phase, state) ==
  /\ meeting[m].status \in {"running", "cancelled"}
  /\ meeting[m].status = "running" => meeting[m].phase = phase /\ meeting[m].state = state

(* What an invocation that claimed a phase may rely on: until it ends nobody *)
(* puts its row but the requests, and they only fail meetings without an     *)
(* invocation, or cancel.                                                    *)
Claimed(v) ==
  /\ WorkerAt(v, "claimed") => HasRow(WM(v), worker[v].phase, "running")
  /\ worker[v].pc \in {"run", "ran"} =>
       /\ HasRow(WM(v), worker[v].phase, "running")
       /\ Doc(v).status \in {"running", "cancelled"}
       /\ Doc(v).status = "cancelled" => meeting[WM(v)].status = "cancelled"
       /\ Doc(v).status = "running" => /\ Doc(v).phase = worker[v].phase
                                       /\ Doc(v).state = "running"
                                       /\ turnRows[WM(v)] = 1..Doc(v).turns
  /\ WorkerAt(v, "invoke") =>
       /\ HasRow(WM(v), worker[v].phase + 1, "pending")
       /\ worker[v].phase < Last
       /\ Doc(v).status = "running"
       /\ Doc(v).phase = worker[v].phase + 1
       /\ Doc(v).state = "pending"

(* The minutes were persisted in a phase before k, or in k if over.          *)
PersistedBefore(k, over) ==
  \E i \in 1..Last : Phases[i] = "persist" /\ (i < k \/ (i = k /\ over))

(* The rows a request holds: none but a cancel's is of a meeting that is     *)
(* still driven.                                                             *)
Holds(call) ==
  /\ call.pc = "idle" => call = NoCall
  /\ call.pc \in {"created", "cancel"} =>
       call.m \in Meetings /\ meeting[call.m].status # "absent"
  /\ call.retryOf # None => call.seen[call.retryOf].status = "failed"
  /\ call.pc = "noteRetry" => call.retryOf # None
  /\ call.pc # "cancel" =>
       \A m \in Meetings :
         \/ call.seen[m].status = "absent"
         \/ call.seen[m].status \in {"running", "failed"} /\ Quiet(m)

Shapes ==
  /\ TypeOK
  /\ \A w \in Workers : Works(w) <=> WM(w) # None

Drivers ==
  /\ PhaseExclusive
  /\ \A m \in Meetings : meeting[m].status = "absent" =>
       (\A e \in events : e.m # m) /\ (\A w \in Workers : WM(w) # m)
  /\ \A m \in Meetings : meeting[m].status = "failed" => Quiet(m)
  /\ \A m \in Meetings : stale[m] => ~Driven(m) /\ meeting[m].status # "absent"
  /\ \A c, d \in Clients : c # d /\ Creates(c, CM(d)) => ~ClientAt(d, "created")
  /\ \A c \in Clients, w \in Workers : ClientAt(c, "created") => WM(w) # CM(c)
  /\ \A c \in Clients, e \in events : ClientAt(c, "created") => e.m # CM(c)

Phased ==
  /\ \A e \in events : meeting[e.m].status = "running" => e.phase <= meeting[e.m].phase
  /\ \A e \in events, w \in Workers : WM(w) = e.m => e.phase <= worker[w].phase

Transcripts ==
  \A m \in Meetings :
    /\ meeting[m].status = "absent" => turnRows[m] = {}
    /\ meeting[m].status \in {"running", "succeeded"} => turnRows[m] = 1..meeting[m].turns

Minutes ==
  /\ PersistOnce
  /\ \A m \in Meetings : meeting[m].status = "absent" => persisted[m] = 0
  /\ \A m \in Meetings : meeting[m].status = "running" /\ persisted[m] = 1 =>
       PersistedBefore(meeting[m].phase, meeting[m].state = "running")
  /\ \A w \in Workers : Works(w) /\ persisted[WM(w)] = 1 =>
       PersistedBefore(worker[w].phase, worker[w].pc \in {"ran", "invoke"})

IInv ==
  /\ Shapes
  /\ \A w \in Workers : Claimed(w)
  /\ \A c \in Clients : Holds(client[c])
  /\ Drivers
  /\ Phased
  /\ Transcripts
  /\ Minutes

-----------------------------------------------------------------------------
(* What the state is made of.                                              *)

LEMMA PhasesAreCounted ==
  /\ Last \in Nat /\ Last > 0
  /\ \A i \in 1..Last : Phases[i] \in STRING
  /\ \A i, j \in 1..Last : Phases[i] = Phases[j] => i = j
  /\ MaxTurns \in Nat /\ MaxTurns > 0
  /\ None \notin Meetings
BY MeetingAssumption DEF Last

LEMMA NoRowIsRow == NoRow \in Row /\ NoRow.status = "absent"
BY PhasesAreCounted DEF NoRow, Row, Statuses

LEMMA NoWorkIsWork == NoWork \in Work /\ NoWork.pc = "idle" /\ NoWork.m = None
BY PhasesAreCounted, NoRowIsRow DEF NoWork, Work, WorkerPcs

LEMMA NoCallIsCall ==
  /\ NoCall \in Call /\ NoCall.pc = "idle" /\ NoCall.m = None
  /\ NoCall.retryOf = None /\ NoCall.why = "look"
  /\ \A m \in Meetings : NoCall.seen[m].status = "absent"
BY NoRowIsRow DEF NoCall, Call, ClientPcs

LEMMA StateIsTyped ==
  ASSUME TypeOK
  PROVE  /\ \A w \in Workers : worker[w] \in Work
         /\ \A c \in Clients : client[c] \in Call
         /\ \A m \in Meetings : meeting[m] \in Row
BY DEF TypeOK, Work, Call

(* The types after a step that changes one work, one call and one row.       *)
LEMMA StepIsTyped ==
  ASSUME TypeOK,
         \/ meeting' = meeting /\ stale' = stale
         \/ \E m \in Meetings, row \in Row : Put(m, row),
         turnRows' \in [Meetings -> SUBSET (Nat \ {0})],
         persisted' \in [Meetings -> Nat],
         events' \subseteq Events,
         worker' = worker \/ \E w \in Workers, work \in Work : worker' = [worker EXCEPT ![w] = work],
         client' = client \/ \E c \in Clients, call \in Call : client' = [client EXCEPT ![c] = call]
  PROVE  TypeOK'
<1>1. meeting' \in [Meetings -> Row] /\ stale' \in [Meetings -> BOOLEAN]
  <2>1. CASE meeting' = meeting /\ stale' = stale
    BY <2>1 DEF TypeOK
  <2>2. ASSUME NEW m \in Meetings, NEW row \in Row, Put(m, row)
        PROVE  meeting' \in [Meetings -> Row] /\ stale' \in [Meetings -> BOOLEAN]
    BY <2>2 DEF TypeOK, Put
  <2> QED
    BY <2>1, <2>2
<1>2. worker' \in [Workers -> Work]
  BY DEF TypeOK, Work
<1>3. client' \in [Clients -> Call]
  BY DEF TypeOK, Call
<1> QED
  BY <1>1, <1>2, <1>3 DEF TypeOK, Work, Call

-----------------------------------------------------------------------------
(* The requests.                                                           *)

(* A request that puts nothing: what it holds now is what there is to show.  *)
LEMMA RequestReads ==
  ASSUME IInv, NEW c \in Clients, NEW call \in Call, ClientGoes(c, call),
         UNCHANGED <<meeting, stale, turnRows, persisted, events, worker>>,
         call.pc # "created",
         Holds(call)
  PROVE  IInv'
<1> USE DEF IInv
<1>c. /\ client'[c] = call
      /\ \A d \in Clients \ {c} : client'[d] = client[d]
      /\ \A d \in Clients, m \in Meetings \cup {None} : Creates(d, m)' => Creates(d, m)
      /\ \A d \in Clients : ClientAt(d, "created")' => ClientAt(d, "created") /\ CM(d)' = CM(d)
  BY DEF ClientGoes, Shapes, TypeOK, Creates, ClientAt, CM
<1>q. \A m \in Meetings : Quiet(m) => Quiet(m)'
  BY <1>c DEF Quiet, WM
<1>1. TypeOK'
  BY StepIsTyped DEF Shapes, TypeOK, ClientGoes
<1>2. Shapes'
  BY <1>1 DEF Shapes, Works, WM
<1>3. \A w \in Workers : Claimed(w)'
  BY DEF Claimed, WorkerAt, HasRow, WM, Doc
<1>4. ASSUME NEW d \in Clients PROVE Holds(client[d])'
  BY <1>c, <1>q DEF Holds
<1>5. Drivers'
  BY <1>c, <1>q DEF Drivers, PhaseExclusive, WM, Driven, Creates
<1> QED
  BY <1>2, <1>3, <1>4, <1>5 DEF Phased, Transcripts, Minutes, PersistOnce, WM, Works

(* A request that puts a row puts a failed or a cancelled one.               *)
LEMMA RequestPuts ==
  ASSUME IInv, NEW c \in Clients, NEW call \in Call, NEW m \in Meetings, NEW row \in Row,
         ClientGoes(c, call), Put(m, row), UNCHANGED <<turnRows, persisted, worker>>,
         events \subseteq events',
         \A e \in events' \ events : e \in Events /\ e.m = m /\ Creates(c, m),
         \/ row.status = "failed" /\ (Quiet(m) \/ Creates(c, m))
         \/ row.status = "cancelled" /\ meeting[m].status # "absent" /\ events' = events,
         call.pc # "created",
         Holds(call)
  PROVE  IInv'
<1> USE DEF IInv
<1>c. /\ client'[c] = call
      /\ \A d \in Clients \ {c} : client'[d] = client[d]
      /\ \A d \in Clients, n \in Meetings \cup {None} : Creates(d, n)' => Creates(d, n)
      /\ \A d \in Clients : ClientAt(d, "created")' =>
           ClientAt(d, "created") /\ CM(d)' = CM(d) /\ d # c
  BY DEF ClientGoes, Shapes, TypeOK, Creates, ClientAt, CM
<1>m. /\ meeting'[m] = row /\ stale'[m] = FALSE
      /\ \A n \in Meetings \ {m} : meeting'[n] = meeting[n] /\ stale'[n] = stale[n]
      /\ row.status \notin {"running", "absent", "succeeded"}
      /\ meeting[m].status # "absent"
  <2>1. meeting[m].status # "absent"
    BY DEF Quiet, Holds, Creates, ClientAt, CM
  <2> QED
    BY <2>1 DEF Put, Shapes, TypeOK
<1>w. \A w \in Workers : WM(w)' = WM(w)
  BY DEF WM
<1>q. \A n \in Meetings : Quiet(n) => Quiet(n)'
  BY <1>c, <1>m, <1>w DEF Quiet
<1>f. Creates(c, m) => /\ \A w \in Workers : WM(w) # m
                       /\ \A d \in Clients \ {c} : ~Creates(d, m)
  BY DEF Drivers, Creates
<1>1. TypeOK'
  <2>1. events' \subseteq Events
    BY DEF Shapes, TypeOK
  <2> QED
    BY <2>1, StepIsTyped DEF Shapes, TypeOK, ClientGoes
<1>2. Shapes'
  BY <1>1 DEF Shapes, Works, WM
<1>3. ASSUME NEW w \in Workers PROVE Claimed(w)'
  <2>1. CASE WM(w) = m
    <3>1. row.status = "cancelled"
      BY <2>1, <1>f DEF Quiet
    <3> QED
      BY <2>1, <3>1, <1>m, <1>w DEF Claimed, WorkerAt, HasRow, Doc
  <2>2. CASE WM(w) \in Meetings \ {m}
    BY <2>2, <1>m, <1>w DEF Claimed, WorkerAt, HasRow, Doc
  <2>3. CASE WM(w) = None
    BY <2>3 DEF Claimed, WorkerAt, Shapes, Works
  <2> QED
    BY <2>1, <2>2, <2>3 DEF Shapes, TypeOK, WM
<1>4. ASSUME NEW d \in Clients PROVE Holds(client[d])'
  <2>1. Holds(client'[d])
    BY <1>c
  <2> QED
    BY <2>1, <1>m, <1>q DEF Holds
<1>5. Drivers'
  <2>1. PhaseExclusive'
    BY <1>w DEF Drivers, PhaseExclusive
  <2>2. ASSUME NEW n \in Meetings, meeting'[n].status = "absent"
        PROVE  (\A e \in events' : e.m # n) /\ (\A w \in Workers : WM(w)' # n)
    BY <2>2, <1>m, <1>w DEF Drivers
  <2>3. ASSUME NEW n \in Meetings, meeting'[n].status = "failed"
        PROVE  Quiet(n)'
    <3>1. CASE n # m
      BY <2>3, <3>1, <1>m, <1>q DEF Drivers
    <3>2. CASE n = m /\ Quiet(m)
      BY <3>2, <1>q
    <3>3. CASE n = m /\ Creates(c, m)
      BY <3>3, <1>c, <1>m, <1>w, <1>f DEF Quiet, Creates
    <3> QED
      BY <3>1, <3>2, <3>3, <2>3, <1>m
  <2>4. ASSUME NEW n \in Meetings, stale'[n]
        PROVE  ~Driven(n)' /\ meeting'[n].status # "absent"
    <3>1. n # m /\ stale[n] /\ ~Driven(n)
      BY <2>4, <1>m DEF Drivers
    <3> QED
      BY <3>1, <1>c, <1>m, <1>w DEF Drivers, Driven, Creates
  <2>5. \A d, f \in Clients : d # f /\ Creates(d, CM(f))' => ~ClientAt(f, "created")'
    BY <1>c DEF Drivers, Creates
  <2>6. \A d \in Clients, w \in Workers : ClientAt(d, "created")' => WM(w)' # CM(d)'
    BY <1>c, <1>w DEF Drivers
  <2>7. \A d \in Clients, e \in events' : ClientAt(d, "created")' => e.m # CM(d)'
    BY <1>c, <1>f DEF Drivers, Creates
  <2> QED
    BY <2>1, <2>2, <2>3, <2>4, <2>5, <2>6, <2>7 DEF Drivers
<1>6. Phased'
  <2>1. ASSUME NEW e \in events', meeting'[e.m].status = "running"
        PROVE  e.phase <= meeting'[e.m].phase
    BY <2>1, <1>1, <1>m DEF Phased, TypeOK, Events
  <2>2. ASSUME NEW e \in events', NEW w \in Workers, WM(w)' = e.m
        PROVE  e.phase <= worker'[w].phase
    BY <2>2, <1>w, <1>f DEF Phased
  <2> QED
    BY <2>1, <2>2 DEF Phased
<1>7. Transcripts'
  BY <1>m DEF Transcripts
<1>8. Minutes'
  BY <1>m, <1>w DEF Minutes, PersistOnce, PersistedBefore, Works
<1> QED
  BY <1>2, <1>3, <1>4, <1>5, <1>6, <1>7, <1>8

LEMMA StuckIsQuiet ==
  ASSUME IInv, NEW m \in Meetings, Stuck(m)
  PROVE  Quiet(m)
BY DEF IInv, Drivers, Stuck, Driven, Quiet, Creates

(* What a query hands a request to act on.                                   *)
LEMMA ListedIsQuiet ==
  ASSUME IInv, NEW c \in Clients, ~ClientAt(c, "cancel"), NEW wanted \in SUBSET Meetings,
         \A m \in wanted : meeting[m].status \in {"running", "failed"} /\ Quiet(m)
  PROVE  /\ Listed(c, wanted) \in [Meetings -> Row]
         /\ client[c].retryOf \in Meetings =>
              Listed(c, wanted)[client[c].retryOf] = client[c].seen[client[c].retryOf]
         /\ \A m \in Meetings :
              \/ Listed(c, wanted)[m].status = "absent"
              \/ Listed(c, wanted)[m].status \in {"running", "failed"} /\ Quiet(m)
<1>1. /\ \A m \in Meetings : meeting[m] \in Row
      /\ client[c] \in Call
  BY StateIsTyped DEF IInv, Shapes
<1>2. \A m \in Meetings : Listed(c, wanted)[m] = IF m # client[c].retryOf /\ m \in wanted
                                                 THEN meeting[m] ELSE client[c].seen[m]
  BY DEF Listed
<1>3. Listed(c, wanted) \in [Meetings -> Row]
  BY <1>1 DEF Listed, Call
<1>4. \A m \in Meetings : \/ client[c].seen[m].status = "absent"
                          \/ client[c].seen[m].status \in {"running", "failed"} /\ Quiet(m)
  BY DEF IInv, Holds, ClientAt
<1> QED
  BY <1>2, <1>3, <1>4

LEMMA IdleRequest ==
  ASSUME IInv, NEW c \in Clients, ClientAt(c, "idle")
  PROVE  client[c] = NoCall
BY DEF IInv, Holds, ClientAt

LEMMA LookKeeps ==
  ASSUME IInv, NEW c \in Clients, Look(c)
  PROVE  IInv'
<1> DEFINE wanted == {m \in Meetings : Stuck(m) \/ RetryCandidate(meeting[m])}
           call == [NoCall EXCEPT !.pc = "listed", !.seen = Listed(c, wanted)]
<1>1. \A m \in wanted : meeting[m].status \in {"running", "failed"} /\ Quiet(m)
  BY StuckIsQuiet DEF Stuck, RetryCandidate, IInv, Drivers
<1>2. ~ClientAt(c, "cancel") /\ client[c] = NoCall
  BY IdleRequest DEF Look, ClientAt
<1>3. /\ Listed(c, wanted) \in [Meetings -> Row]
      /\ \A m \in Meetings :
           \/ Listed(c, wanted)[m].status = "absent"
           \/ Listed(c, wanted)[m].status \in {"running", "failed"} /\ Quiet(m)
  <2> HIDE DEF wanted
  <2>1. wanted \in SUBSET Meetings
    BY DEF wanted
  <2> QED
    BY <1>1, <1>2, <2>1, ListedIsQuiet
<1>4. call \in Call /\ Holds(call) /\ call.pc # "created"
  <2> HIDE DEF wanted
  <2> QED
    BY <1>3, NoCallIsCall DEF Call, ClientPcs, Holds
<1> QED
  BY <1>4, RequestReads DEF Look

LEMMA StartListsKeeps ==
  ASSUME IInv, NEW c \in Clients, NEW why \in {"start", "schedule"}, StartLists(c, why),
         client[c].pc \in {"idle", "retry"}
  PROVE  IInv'
<1> DEFINE wanted == {m \in Meetings : Stuck(m)}
           call == [client[c] EXCEPT !.pc = IF Busy THEN "busy" ELSE "listed", !.why = why,
                                     !.seen = Listed(c, wanted)]
<1>1. \A m \in wanted : meeting[m].status \in {"running", "failed"} /\ Quiet(m)
  BY StuckIsQuiet DEF Stuck
<1>2. ~ClientAt(c, "cancel") /\ client[c] \in Call /\ Holds(client[c])
  BY StateIsTyped DEF ClientAt, IInv, Shapes
<1>3. /\ Listed(c, wanted) \in [Meetings -> Row]
      /\ client[c].retryOf \in Meetings =>
           Listed(c, wanted)[client[c].retryOf] = client[c].seen[client[c].retryOf]
      /\ \A m \in Meetings :
           \/ Listed(c, wanted)[m].status = "absent"
           \/ Listed(c, wanted)[m].status \in {"running", "failed"} /\ Quiet(m)
  <2> HIDE DEF wanted
  <2>1. wanted \in SUBSET Meetings
    BY DEF wanted
  <2> QED
    BY <1>1, <1>2, <2>1, ListedIsQuiet
<1>4. call \in Call /\ Holds(call) /\ call.pc # "created"
  <2> HIDE DEF wanted
  <2>1. call \in Call
    BY <1>2, <1>3 DEF Call, ClientPcs
  <2>2. /\ call.pc \in {"busy", "listed"}
        /\ call.retryOf = client[c].retryOf
        /\ call.seen = Listed(c, wanted)
    BY <1>2 DEF Call
  <2>3. client[c].retryOf \in Meetings \cup {None}
    BY <1>2 DEF Call
  <2> QED
    BY <2>1, <2>2, <2>3, <1>2, <1>3 DEF Holds
<1> QED
  BY <1>4, RequestReads DEF StartLists

(* start_meeting's end, for whoever called it.                               *)
LEMMA StartEndsHolds ==
  ASSUME IInv, NEW c \in Clients, client[c].pc \in {"busy", "listed", "created"}, StartEnds(c)
  PROVE  \E call \in Call : ClientGoes(c, call) /\ Holds(call) /\ call.pc # "created"
<1>1. client[c] \in Call /\ Holds(client[c])
  BY StateIsTyped DEF IInv, Shapes
<1>2. CASE client[c].retryOf = None
  <2>1. ClientGoes(c, NoCall)
    BY <1>2 DEF StartEnds, ClientEnds
  <2> QED
    BY <2>1, NoCallIsCall DEF Holds
<1>3. CASE client[c].retryOf # None
  <2> DEFINE call == [client[c] EXCEPT !.pc = "noteRetry", !.m = None]
  <2>1. ClientGoes(c, call)
    BY <1>3 DEF StartEnds
  <2>2. call \in Call /\ call.pc = "noteRetry" /\ call.retryOf = client[c].retryOf
        /\ call.seen = client[c].seen
    BY <1>1 DEF Call, ClientPcs
  <2>3. Holds(call)
    BY <1>1, <1>3, <2>2 DEF Holds
  <2> QED
    BY <2>1, <2>2, <2>3
<1> QED
  BY <1>2, <1>3

LEMMA ListEndsKeeps ==
  ASSUME IInv, NEW c \in Clients, ListEnds(c)
  PROVE  IInv'
<1>1. PICK call \in Call : ClientGoes(c, call) /\ Holds(call) /\ call.pc # "created"
  BY StartEndsHolds DEF ListEnds, ClientAt
<1> QED
  BY <1>1, RequestReads DEF ListEnds

LEMMA CancelReadsKeeps ==
  ASSUME IInv, NEW c \in Clients, NEW m \in Meetings, CancelReads(c, m)
  PROVE  IInv'
<1> DEFINE call == [NoCall EXCEPT !.pc = "cancel", !.m = m, !.seen[m] = meeting[m]]
<1>1. call \in Call /\ call.pc = "cancel" /\ call.m = m /\ call.retryOf = None
  BY NoCallIsCall, StateIsTyped DEF Call, ClientPcs, IInv, Shapes
<1>2. Holds(call)
  BY <1>1 DEF Holds, CancelReads
<1> QED
  BY <1>1, <1>2, RequestReads DEF CancelReads

LEMMA ClientDiesKeeps ==
  ASSUME IInv, NEW c \in Clients, ClientDies(c)
  PROVE  IInv'
<1> DEFINE call == [NoCall EXCEPT !.pc = "dead"]
<1>1. /\ call \in Call /\ call.pc = "dead" /\ call.retryOf = None
      /\ call.seen = NoCall.seen
  BY NoCallIsCall DEF Call, ClientPcs
<1>2. Holds(call)
  BY <1>1, NoCallIsCall DEF Holds
<1> QED
  BY <1>1, <1>2, RequestReads DEF ClientDies

LEMMA FinalizeStuckKeeps ==
  ASSUME IInv, NEW c \in Clients, NEW m \in Meetings, FinalizeStuck(c, m)
  PROVE  IInv'
<1> DEFINE row == client[c].seen[m]
           left == IF client[c].why = "look" THEN Failed(row) ELSE NoRow
           call == [client[c] EXCEPT !.seen[m] = left]
<1>1. client[c] \in Call /\ Holds(client[c])
  BY StateIsTyped DEF IInv, Shapes
<1>2. row \in Row /\ row.status = "running" /\ client[c].pc \in {"listed", "busy"}
  BY <1>1 DEF Call, FinalizeStuck
<1>3. Failed(row) \in Row /\ Failed(row).status = "failed"
  BY <1>2 DEF Failed, Row, Statuses
<1>4. Quiet(m)
  BY <1>1, <1>2 DEF Holds
<1>5. left \in Row /\ left.status \in {"absent", "failed"}
  BY <1>3, NoRowIsRow
<1>6. /\ call \in Call /\ call.pc = client[c].pc /\ call.retryOf = client[c].retryOf
      /\ call.seen[m] = left
      /\ \A n \in Meetings \ {m} : call.seen[n] = client[c].seen[n]
  <2> HIDE DEF left
  <2> QED
    BY <1>1, <1>5 DEF Call
<1>7. Holds(call)
  <2> HIDE DEF call
  <2>1. client[c].retryOf \in Meetings \cup {None}
    BY <1>1 DEF Call
  <2>2. client[c].retryOf # m
    BY <1>1, <1>2, PhasesAreCounted DEF Holds
  <2> QED
    BY <2>1, <2>2, <1>1, <1>2, <1>4, <1>5, <1>6 DEF Holds
<1>8. ClientGoes(c, call) /\ Put(m, Failed(row)) /\ call.pc # "created"
  BY <1>2, <1>6 DEF FinalizeStuck
<1> QED
  <2> HIDE DEF call, row
  <2> QED
    BY <1>3, <1>4, <1>6, <1>7, <1>8, RequestPuts DEF FinalizeStuck

LEMMA ClaimRetryKeeps ==
  ASSUME IInv, NEW c \in Clients, NEW m \in Meetings, ClaimRetry(c, m)
  PROVE  IInv'
<1> DEFINE row == [client[c].seen[m] EXCEPT !.retried = TRUE]
           call == [NoCall EXCEPT !.pc = "retry", !.retryOf = m, !.seen[m] = row]
<1>1. client[c] \in Call /\ Holds(client[c])
  BY StateIsTyped DEF IInv, Shapes
<1>2. row \in Row /\ row.status = "failed" /\ Quiet(m)
  BY <1>1 DEF ClaimRetry, RetryCandidate, Call, Row, Holds, ClientAt
<1>3. /\ call \in Call /\ call.pc = "retry" /\ call.retryOf = m
      /\ call.seen[m] = row
      /\ \A n \in Meetings \ {m} : call.seen[n] = NoCall.seen[n]
  <2> HIDE DEF row
  <2> QED
    BY <1>2, NoCallIsCall DEF Call, ClientPcs
<1>4. Holds(call)
  <2> HIDE DEF call, row
  <2> QED
    BY <1>2, <1>3, NoCallIsCall, PhasesAreCounted DEF Holds
<1>5. ClientGoes(c, call) /\ Put(m, row)
  BY DEF ClaimRetry
<1> QED
  <2> HIDE DEF call, row
  <2> QED
    BY <1>2, <1>3, <1>4, <1>5, RequestPuts DEF ClaimRetry

LEMMA NoteRetryKeeps ==
  ASSUME IInv, NEW c \in Clients, NoteRetry(c)
  PROVE  IInv'
<1> DEFINE m == client[c].retryOf
<1>1. client[c] \in Call /\ Holds(client[c])
  BY StateIsTyped DEF IInv, Shapes
<1>2. m \in Meetings /\ client[c].seen[m] \in Row /\ client[c].seen[m].status = "failed"
  BY <1>1 DEF NoteRetry, ClientAt, Holds, Call
<1>3. Quiet(m)
  BY <1>1, <1>2 DEF Holds, NoteRetry, ClientAt
<1>4. Holds(NoCall) /\ NoCall \in Call /\ NoCall.pc # "created"
  BY NoCallIsCall DEF Holds
<1> QED
  BY <1>2, <1>3, <1>4, RequestPuts DEF NoteRetry, ClientEnds

LEMMA CancelPutsKeeps ==
  ASSUME IInv, NEW c \in Clients, CancelPuts(c)
  PROVE  IInv'
<1> DEFINE row == client[c].seen[CM(c)]
<1>1. client[c] \in Call /\ Holds(client[c])
  BY StateIsTyped DEF IInv, Shapes
<1>2. CM(c) \in Meetings /\ meeting[CM(c)].status # "absent" /\ row \in Row
  BY <1>1 DEF CancelPuts, ClientAt, Holds, CM, Call
<1>3. Cancelled(row) \in Row /\ Cancelled(row).status = "cancelled"
  BY <1>2 DEF Cancelled, Row, Statuses
<1>4. Holds(NoCall) /\ NoCall \in Call /\ NoCall.pc # "created"
  BY NoCallIsCall DEF Holds
<1> QED
  <2> HIDE DEF row
  <2> QED
    BY <1>2, <1>3, <1>4, RequestPuts DEF CancelPuts, ClientEnds, row

LEMMA InvokeFirstFailsKeeps ==
  ASSUME IInv, NEW c \in Clients, InvokeFirstFails(c)
  PROVE  IInv'
<1> DEFINE m == CM(c)
           row == [NoRow EXCEPT !.status = "failed", !.scheduled = (client[c].why = "schedule")]
<1>1. m \in Meetings /\ Creates(c, m)
  BY DEF IInv, Holds, InvokeFirstFails, ClientAt, CM, Creates
<1>2. row \in Row /\ row.status = "failed"
  BY NoRowIsRow DEF Row, Statuses
<1>3. PICK call \in Call : ClientGoes(c, call) /\ Holds(call) /\ call.pc # "created"
  BY StartEndsHolds DEF InvokeFirstFails, ClientAt
<1>4. events \subseteq events' /\ \A e \in events' \ events : e \in Events /\ e.m = m
  BY <1>1, PhasesAreCounted DEF InvokeFirstFails, InvokeRaises, Events
<1>5. Put(m, row)
  BY DEF InvokeFirstFails
<1> QED
  <2> HIDE DEF row, m
  <2> QED
    BY <1>1, <1>2, <1>3, <1>4, <1>5, RequestPuts DEF InvokeFirstFails

(* A new meeting has a row, and the request that will invoke its first phase. *)
LEMMA CreateMeetingKeeps ==
  ASSUME IInv, NEW c \in Clients, NEW m \in Meetings, CreateMeeting(c, m)
  PROVE  IInv'
<1> USE DEF IInv
<1> DEFINE row == [NoRow EXCEPT !.status = "running", !.scheduled = (client[c].why = "schedule")]
           call == [client[c] EXCEPT !.pc = "created", !.m = m]
<1>0. client[c] \in Call /\ Holds(client[c])
  BY StateIsTyped DEF Shapes
<1>1. /\ row \in Row /\ row.status = "running"
      /\ row.turns = 0
  BY NoRowIsRow DEF NoRow, Row, Statuses
<1>2. /\ call \in Call /\ call.pc = "created" /\ call.m = m
      /\ call.retryOf = client[c].retryOf /\ call.seen = client[c].seen
  BY <1>0 DEF Call, ClientPcs
<1>3. /\ meeting' = [meeting EXCEPT ![m] = row] /\ stale' = [stale EXCEPT ![m] = FALSE]
      /\ client' = [client EXCEPT ![c] = call]
      /\ UNCHANGED <<turnRows, persisted, events, worker>>
      /\ meeting[m].status = "absent"
      /\ client[c].pc = "listed"
  BY DEF CreateMeeting, Put, ClientGoes, ClientAt
<1> HIDE DEF row, call
<1>m. /\ meeting'[m] = row /\ stale'[m] = FALSE
      /\ \A n \in Meetings \ {m} : meeting'[n] = meeting[n] /\ stale'[n] = stale[n]
  BY <1>3 DEF Shapes, TypeOK
<1>c. /\ client'[c] = call
      /\ \A d \in Clients \ {c} : client'[d] = client[d]
      /\ Creates(c, m)'
      /\ \A d \in Clients \ {c}, n \in Meetings : Creates(d, n)' <=> Creates(d, n)
      /\ \A d \in Clients \ {c} : /\ ClientAt(d, "created")' <=> ClientAt(d, "created")
                                  /\ CM(d)' = CM(d)
      /\ ClientAt(c, "created")' /\ CM(c)' = m
  BY <1>2, <1>3 DEF Shapes, TypeOK, Creates, ClientAt, CM
<1>w. \A w \in Workers : WM(w)' = WM(w)
  BY <1>3 DEF WM
<1>n. /\ \A d \in Clients : ~Creates(d, m)
      /\ \A w \in Workers : WM(w) # m
      /\ \A e \in events : e.m # m
  BY <1>3 DEF Holds, Creates, ClientAt, CM, Drivers
<1>q. \A n \in Meetings : Quiet(n) => n # m /\ Quiet(n)'
  BY <1>c, <1>m, <1>w, <1>2, <1>3 DEF Quiet, Creates, CM
<1>1a. TypeOK'
  BY <1>1, <1>2, <1>3, StepIsTyped DEF Shapes, TypeOK, Put
<1>2a. Shapes'
  BY <1>1a, <1>3 DEF Shapes, Works, WM
<1>3a. ASSUME NEW w \in Workers PROVE Claimed(w)'
  <2>1. CASE WM(w) \in Meetings \ {m}
    BY <2>1, <1>m, <1>w, <1>3 DEF Claimed, WorkerAt, HasRow, Doc
  <2>2. CASE WM(w) = None
    BY <2>2, <1>3 DEF Claimed, WorkerAt, Shapes, Works
  <2> QED
    BY <2>1, <2>2, <1>n DEF Shapes, TypeOK, WM
<1>4a. ASSUME NEW d \in Clients PROVE Holds(client[d])'
  <2>1. CASE d = c
    BY <2>1, <1>0, <1>1, <1>2, <1>3, <1>c, <1>m, <1>q DEF Holds
  <2>2. CASE d # c
    BY <2>2, <1>c, <1>m, <1>q, <1>3 DEF Holds
  <2> QED
    BY <2>1, <2>2
<1>5a. Drivers'
  <2>1. PhaseExclusive'
    BY <1>w DEF Drivers, PhaseExclusive
  <2>2. ASSUME NEW n \in Meetings, meeting'[n].status = "absent"
        PROVE  (\A e \in events' : e.m # n) /\ (\A w \in Workers : WM(w)' # n)
    BY <2>2, <1>1, <1>3, <1>m, <1>w DEF Drivers
  <2>3. ASSUME NEW n \in Meetings, meeting'[n].status = "failed"
        PROVE  Quiet(n)'
    BY <2>3, <1>1, <1>m, <1>q DEF Drivers
  <2>4. ASSUME NEW n \in Meetings, stale'[n]
        PROVE  ~Driven(n)' /\ meeting'[n].status # "absent"
    <3>1. n # m /\ stale[n] /\ ~Driven(n) /\ meeting[n].status # "absent"
      BY <2>4, <1>m DEF Drivers
    <3>2. ~Creates(c, n)'
      BY <3>1, <1>c DEF Creates
    <3>3. \A d \in Clients : ~Creates(d, n)'
      BY <3>1, <3>2, <1>c DEF Driven, Creates
    <3> QED
      BY <3>1, <3>3, <1>m, <1>w, <1>3 DEF Driven, Creates
  <2>5. \A d, f \in Clients : d # f /\ Creates(d, CM(f))' => ~ClientAt(f, "created")'
    BY <1>c, <1>n DEF Drivers, Creates
  <2>6. \A d \in Clients, w \in Workers : ClientAt(d, "created")' => WM(w)' # CM(d)'
    BY <1>c, <1>w, <1>n DEF Drivers
  <2>7. \A d \in Clients, e \in events' : ClientAt(d, "created")' => e.m # CM(d)'
    BY <1>c, <1>n, <1>3 DEF Drivers
  <2> QED
    BY <2>1, <2>2, <2>3, <2>4, <2>5, <2>6, <2>7 DEF Drivers
<1>6a. Phased'
  <2>1. \A e \in events : e.m \in Meetings \ {m}
    BY <1>n DEF Shapes, TypeOK, Events
  <2> QED
    BY <2>1, <1>m, <1>w, <1>3 DEF Phased
<1>7a. Transcripts'
  <2>1. 1..0 = {}
    OBVIOUS
  <2>2. turnRows'[m] = 1..meeting'[m].turns
    BY <2>1, <1>1, <1>3, <1>m DEF Transcripts
  <2> QED
    BY <2>2, <1>1, <1>3, <1>m DEF Transcripts
<1>8a. Minutes'
  <2>1. persisted'[m] = 0 /\ \A w \in Workers : Works(w)' => WM(w)' = WM(w) /\ Works(w)
    BY <1>3, <1>w DEF Minutes, Works
  <2> QED
    BY <2>1, <1>1, <1>3, <1>m DEF Minutes, PersistOnce, PersistedBefore
<1> QED
  BY <1>2a, <1>3a, <1>4a, <1>5a, <1>6a, <1>7a, <1>8a

(* The first phase's event is under way instead of the request.              *)
LEMMA InvokeFirstKeeps ==
  ASSUME IInv, NEW c \in Clients, InvokeFirst(c)
  PROVE  IInv'
<1> USE DEF IInv
<1> DEFINE m == CM(c)
           e1 == [m |-> m, phase |-> 1]
<1>1. m \in Meetings /\ Creates(c, m) /\ meeting[m].status # "absent"
  BY DEF Holds, InvokeFirst, ClientAt, CM, Creates
<1>2. PICK call \in Call : ClientGoes(c, call) /\ Holds(call) /\ call.pc # "created"
  BY StartEndsHolds DEF InvokeFirst, ClientAt
<1>3. /\ events' = events \cup {e1} /\ e1 \in Events /\ e1.m = m /\ e1.phase = 1
      /\ UNCHANGED <<meeting, stale, turnRows, persisted, worker>>
  BY <1>1, PhasesAreCounted DEF InvokeFirst, Accept, Events
<1> HIDE DEF e1, m
<1>c. /\ client'[c] = call
      /\ \A d \in Clients \ {c} : client'[d] = client[d]
      /\ \A d \in Clients, n \in Meetings \cup {None} : Creates(d, n)' => Creates(d, n) /\ d # c
      /\ \A d \in Clients : ClientAt(d, "created")' =>
           ClientAt(d, "created") /\ CM(d)' = CM(d) /\ d # c
  BY <1>2 DEF ClientGoes, Shapes, TypeOK, Creates, ClientAt, CM
<1>w. \A w \in Workers : WM(w)' = WM(w)
  BY <1>3 DEF WM
<1>f. /\ \A w \in Workers : WM(w) # m
      /\ \A d \in Clients \ {c} : ~Creates(d, m)
      /\ ~Quiet(m) /\ meeting[m].status # "failed" /\ ~stale[m]
  BY <1>1 DEF Drivers, Creates, Quiet, Driven, m
<1>q. \A n \in Meetings : Quiet(n) => Quiet(n)'
  <2> SUFFICES ASSUME NEW n \in Meetings, Quiet(n) PROVE Quiet(n)'
    OBVIOUS
  <2>1. n # m
    BY <1>f
  <2> QED
    BY <2>1, <1>c, <1>w, <1>3 DEF Quiet
<1>4. TypeOK'
  BY <1>2, <1>3, StepIsTyped DEF Shapes, TypeOK, ClientGoes
<1>5. Shapes'
  BY <1>4, <1>3 DEF Shapes, Works, WM
<1>6. \A w \in Workers : Claimed(w)'
  BY <1>3 DEF Claimed, WorkerAt, HasRow, WM, Doc
<1>7. ASSUME NEW d \in Clients PROVE Holds(client[d])'
  <2>1. Holds(client'[d])
    BY <1>2, <1>c
  <2> QED
    BY <2>1, <1>3, <1>q DEF Holds
<1>8. Drivers'
  <2>1. ASSUME NEW n \in Meetings, meeting'[n].status = "absent"
        PROVE  (\A e \in events' : e.m # n) /\ (\A w \in Workers : WM(w)' # n)
    BY <2>1, <1>1, <1>3, <1>w DEF Drivers
  <2>2. ASSUME NEW n \in Meetings, meeting'[n].status = "failed"
        PROVE  Quiet(n)'
    BY <2>2, <1>3, <1>q DEF Drivers
  <2>3. ASSUME NEW n \in Meetings, stale'[n]
        PROVE  ~Driven(n)' /\ meeting'[n].status # "absent"
    <3>1. n # m /\ stale[n] /\ ~Driven(n) /\ meeting[n].status # "absent"
      BY <2>3, <1>3, <1>f DEF Drivers
    <3> QED
      BY <3>1, <1>c, <1>w, <1>3 DEF Driven, Creates
  <2>4. \A d, f \in Clients : d # f /\ Creates(d, CM(f))' => ~ClientAt(f, "created")'
    BY <1>c DEF Drivers, Creates
  <2>5. \A d \in Clients, w \in Workers : ClientAt(d, "created")' => WM(w)' # CM(d)'
    BY <1>c, <1>w DEF Drivers
  <2>6. \A d \in Clients, e \in events' : ClientAt(d, "created")' => e.m # CM(d)'
    BY <1>c, <1>f, <1>3 DEF Drivers, Creates
  <2> QED
    BY <2>1, <2>2, <2>3, <2>4, <2>5, <2>6, <1>w DEF Drivers, PhaseExclusive
<1>9. Phased'
  <2>1. meeting[m].phase >= 1
    BY <1>1, StateIsTyped DEF Shapes, Row
  <2> QED
    BY <2>1, <1>3, <1>w, <1>f DEF Phased
<1> QED
  BY <1>3, <1>5, <1>6, <1>7, <1>8, <1>9 DEF Transcripts, Minutes, PersistOnce, Works, WM

-----------------------------------------------------------------------------
(* The invocations.                                                        *)

(* An invocation that goes on with its meeting, with or without a put.       *)
LEMMA WorkerGoesOn ==
  ASSUME IInv, NEW w \in Workers, Works(w), NEW work \in Work,
         worker' = [worker EXCEPT ![w] = work],
         work.m = WM(w), work.phase = worker[w].phase, work.pc \in {"run", "ran", "invoke"},
         \/ UNCHANGED <<meeting, stale>>
         \/ \E row \in Row : /\ Put(WM(w), row)
                             /\ row.status \in {"running", "cancelled"}
                             /\ row.status = "running" => row.phase >= worker[w].phase,
         turnRows' \in [Meetings -> SUBSET (Nat \ {0})],
         \A n \in Meetings \ {WM(w)} : turnRows'[n] = turnRows[n],
         persisted' \in [Meetings -> Nat],
         UNCHANGED <<events, client>>,
         Claimed(w)', Transcripts', Minutes'
  PROVE  IInv'
<1> USE DEF IInv
<1> DEFINE m == WM(w)
<1>1. m \in Meetings
  BY DEF Shapes, TypeOK, Works, WM
<1>w. /\ \A v \in Workers : WM(v)' = WM(v) /\ worker'[v].phase = worker[v].phase
      /\ \A v \in Workers \ {w} : worker'[v] = worker[v]
      /\ worker'[w] = work
  BY DEF Shapes, TypeOK, WM
<1>m. /\ \A n \in Meetings \ {m} : meeting'[n] = meeting[n] /\ stale'[n] = stale[n]
      /\ meeting'[m] = meeting[m] \/ (meeting'[m].status \in {"running", "cancelled"}
           /\ (meeting'[m].status = "running" => meeting'[m].phase >= worker[w].phase))
      /\ stale'[m] => stale[m]
  <2>1. CASE UNCHANGED <<meeting, stale>>
    BY <2>1
  <2>2. ASSUME NEW row \in Row, Put(m, row), row.status \in {"running", "cancelled"},
               row.status = "running" => row.phase >= worker[w].phase
        PROVE  /\ \A n \in Meetings \ {m} : meeting'[n] = meeting[n] /\ stale'[n] = stale[n]
               /\ meeting'[m] = row /\ stale'[m] = FALSE
    BY <2>2, <1>1 DEF Put, Shapes, TypeOK
  <2> QED
    BY <2>1, <2>2
<1>f. /\ meeting[m].status \in {"running", "cancelled"}
      /\ \A v \in Workers \ {w} : WM(v) # m
      /\ ~Quiet(m)
  <2>1. \A v \in Workers \ {w} : WM(v) # m
    BY DEF Drivers, PhaseExclusive, Shapes, Works
  <2>2. worker[w].pc \in {"claimed", "run", "ran", "invoke"}
    BY DEF Works, Shapes, TypeOK, WorkerPcs
  <2>3. meeting[m].status \in {"running", "cancelled"}
    BY <2>2 DEF Claimed, HasRow, WorkerAt
  <2> QED
    BY <2>1, <2>3 DEF Quiet
<1> HIDE DEF m
<1>c. \A c \in Clients, n \in Meetings : Creates(c, n)' <=> Creates(c, n)
  BY DEF Creates, ClientAt, CM
<1>q. \A n \in Meetings : Quiet(n) => n # m /\ Quiet(n)'
  BY <1>w, <1>m, <1>f, <1>c DEF Quiet
<1>2. TypeOK'
  BY StepIsTyped, <1>1 DEF Shapes, TypeOK, m
<1>3. Shapes'
  BY <1>2, <1>w DEF Shapes, Works, WM
<1>4. ASSUME NEW v \in Workers PROVE Claimed(v)'
  <2>1. CASE v = w
    BY <2>1
  <2>2. CASE v # w
    <3>1. CASE WM(v) = None
      BY <2>2, <3>1, <1>w DEF Claimed, WorkerAt, Shapes, Works
    <3>2. CASE WM(v) \in Meetings
      <4>1. /\ meeting'[WM(v)] = meeting[WM(v)] /\ WM(v)' = WM(v)
            /\ worker'[v] = worker[v] /\ turnRows'[WM(v)] = turnRows[WM(v)]
        BY <2>2, <3>2, <1>f, <1>m, <1>w DEF m
      <4> QED
        BY <4>1 DEF Claimed, WorkerAt, HasRow, Doc
    <3> QED
      BY <3>1, <3>2 DEF Shapes, TypeOK, WM
  <2> QED
    BY <2>1, <2>2
<1>5. ASSUME NEW c \in Clients PROVE Holds(client[c])'
  BY <1>m, <1>q, <1>f DEF Holds
<1>6. Drivers'
  <2>1. ASSUME NEW n \in Meetings, stale'[n]
        PROVE  ~Driven(n)' /\ meeting'[n].status # "absent"
    <3>1. stale[n] /\ ~Driven(n) /\ meeting[n].status # "absent"
      BY <2>1, <1>m DEF Drivers
    <3> QED
      BY <3>1, <1>w, <1>m DEF Driven, ClientAt, CM
  <2>2. ASSUME NEW n \in Meetings, meeting'[n].status = "failed" PROVE Quiet(n)'
    BY <2>2, <1>q, <1>m, <1>f DEF Drivers
  <2> QED
    BY <2>1, <2>2, <1>w, <1>m, <1>f DEF Drivers, PhaseExclusive, Creates, ClientAt, CM
<1>7. Phased'
  <2>1. ASSUME NEW e \in events, meeting'[e.m].status = "running"
        PROVE  e.phase <= meeting'[e.m].phase
    <3>1. CASE e.m = m /\ meeting'[m] # meeting[m]
      <4>1. e.phase <= worker[w].phase /\ worker[w].phase <= meeting'[m].phase
        BY <3>1, <2>1, <1>m DEF Phased, m
      <4>2. e.phase \in Nat /\ worker[w].phase \in Nat /\ meeting'[m].phase \in Nat
        BY <1>2, <1>1, PhasesAreCounted DEF TypeOK, Shapes, Row, Events
      <4> QED
        BY <3>1, <4>1, <4>2
    <3> QED
      BY <3>1, <2>1, <1>m DEF Phased, Shapes, TypeOK, Events
  <2> QED
    BY <2>1, <1>w DEF Phased
<1> QED
  BY <1>3, <1>4, <1>5, <1>6, <1>7

(* An invocation that lets go of its meeting: its row is left, or is over    *)
(* with, or else the event of the next phase is on the way.                  *)
LEMMA WorkerLetsGo ==
  ASSUME IInv, NEW w \in Workers, Works(w), NEW work \in Work,
         worker' = [worker EXCEPT ![w] = work],
         work.pc \in {"idle", "dead"}, work.m = None,
         \/ UNCHANGED <<meeting, stale>>
         \/ \E row \in Row : /\ Put(WM(w), row)
                             /\ row.status \in {"succeeded", "failed", "cancelled"}
                             /\ row.status = "succeeded" => turnRows[WM(w)] = 1..row.turns,
         events \subseteq events',
         \A e \in events' \ events :
           /\ e \in Events /\ e.m = WM(w)
           /\ meeting'[WM(w)].status = "running" => e.phase <= meeting'[WM(w)].phase,
         UNCHANGED <<turnRows, persisted, client>>
  PROVE  IInv'
<1> USE DEF IInv
<1> DEFINE m == WM(w)
<1>1. m \in Meetings
  BY DEF Shapes, TypeOK, Works, WM
<1>w. /\ \A v \in Workers \ {w} : worker'[v] = worker[v] /\ WM(v)' = WM(v)
      /\ worker'[w] = work /\ WM(w)' = None
  BY DEF Shapes, TypeOK, WM
<1>m. /\ \A n \in Meetings \ {m} : meeting'[n] = meeting[n] /\ stale'[n] = stale[n]
      /\ \/ meeting'[m] = meeting[m]
         \/ /\ meeting'[m].status \in {"succeeded", "failed", "cancelled"}
            /\ meeting'[m].status = "succeeded" => turnRows[m] = 1..meeting'[m].turns
      /\ stale'[m] => stale[m]
  <2>1. CASE UNCHANGED <<meeting, stale>>
    BY <2>1
  <2>2. ASSUME NEW row \in Row, Put(m, row), row.status \in {"succeeded", "failed", "cancelled"},
               row.status = "succeeded" => turnRows[m] = 1..row.turns
        PROVE  /\ \A n \in Meetings \ {m} : meeting'[n] = meeting[n] /\ stale'[n] = stale[n]
               /\ meeting'[m] = row /\ stale'[m] = FALSE
    BY <2>2, <1>1 DEF Put, Shapes, TypeOK
  <2> QED
    BY <2>1, <2>2
<1>f. /\ meeting[m].status \in {"running", "cancelled"}
      /\ \A v \in Workers \ {w} : WM(v) # m
      /\ \A c \in Clients : ~Creates(c, m)
      /\ ~Quiet(m) /\ ~stale[m]
  <2>1. \A v \in Workers \ {w} : WM(v) # m
    BY DEF Drivers, PhaseExclusive, Shapes, Works
  <2>2. worker[w].pc \in {"claimed", "run", "ran", "invoke"}
    BY DEF Works, Shapes, TypeOK, WorkerPcs
  <2>3. meeting[m].status \in {"running", "cancelled"}
    BY <2>2 DEF Claimed, HasRow, WorkerAt
  <2> QED
    BY <2>1, <2>3, <1>1 DEF Quiet, Drivers, Creates, Driven
<1>2. TypeOK'
  <2>1. events' \subseteq Events
    BY DEF Shapes, TypeOK
  <2> QED
    BY <2>1, StepIsTyped, <1>1 DEF Shapes, TypeOK
<1> HIDE DEF m
<1>e. \A e \in events' \ events : /\ e \in Events /\ e.m = m
                                  /\ meeting'[m].status = "running" => e.phase <= meeting'[m].phase
  BY DEF m
<1>c. \A c \in Clients, n \in Meetings : Creates(c, n)' <=> Creates(c, n)
  BY DEF Creates, ClientAt, CM
<1>q. \A n \in Meetings : Quiet(n) => n # m /\ Quiet(n)'
  BY <1>w, <1>m, <1>f, <1>c, <1>e, PhasesAreCounted DEF Quiet
<1>3. Shapes'
  BY <1>2, <1>w DEF Shapes, Works, WM
<1>4. ASSUME NEW v \in Workers PROVE Claimed(v)'
  <2>1. CASE v = w
    BY <2>1, <1>w DEF Claimed, WorkerAt
  <2>2. CASE v # w
    <3>1. CASE WM(v) = None
      BY <2>2, <3>1, <1>w DEF Claimed, WorkerAt, Shapes, Works
    <3>2. CASE WM(v) \in Meetings
      BY <2>2, <3>2, <1>w, <1>f, <1>m DEF Claimed, WorkerAt, HasRow, Doc
    <3> QED
      BY <3>1, <3>2 DEF Shapes, TypeOK, WM
  <2> QED
    BY <2>1, <2>2
<1>5. ASSUME NEW c \in Clients PROVE Holds(client[c])'
  BY <1>m, <1>q, <1>f DEF Holds
<1>6. Drivers'
  <2>1. ASSUME NEW n \in Meetings, stale'[n]
        PROVE  ~Driven(n)' /\ meeting'[n].status # "absent"
    <3>1. stale[n] /\ ~Driven(n) /\ meeting[n].status # "absent" /\ n # m
      BY <2>1, <1>m, <1>f DEF Drivers
    <3>2. \A v \in Workers : WM(v)' # n
      BY <3>1, <1>w, PhasesAreCounted DEF Driven
    <3> QED
      BY <3>1, <3>2, <1>m, <1>e DEF Driven, ClientAt, CM
  <2>2. ASSUME NEW n \in Meetings, meeting'[n].status = "failed" PROVE Quiet(n)'
    <3>1. CASE n = m
      <4>1. \A v \in Workers : WM(v)' # m
        BY <1>w, <1>f, <1>1, PhasesAreCounted
      <4> QED
        BY <3>1, <2>2, <4>1, <1>f, <1>c, <1>1 DEF Quiet
    <3> QED
      BY <3>1, <2>2, <1>q, <1>m DEF Drivers
  <2>3. ASSUME NEW n \in Meetings, meeting'[n].status = "absent"
        PROVE  (\A e \in events' : e.m # n) /\ (\A v \in Workers : WM(v)' # n)
    <3>1. n # m /\ meeting[n].status = "absent"
      BY <2>3, <1>m, <1>f
    <3> QED
      BY <3>1, <1>e, <1>w, PhasesAreCounted DEF Drivers
  <2>4. PhaseExclusive'
    BY <1>w DEF Drivers, PhaseExclusive
  <2>5. \A c \in Clients, v \in Workers : ClientAt(c, "created")' => WM(v)' # CM(c)'
    BY <1>w, PhasesAreCounted DEF Drivers, Holds, ClientAt, CM
  <2>6. \A c \in Clients, e \in events' : ClientAt(c, "created")' => e.m # CM(c)'
    BY <1>e, <1>f DEF Drivers, Creates, ClientAt, CM
  <2> QED
    BY <2>1, <2>2, <2>3, <2>4, <2>5, <2>6 DEF Drivers, Creates, ClientAt, CM
<1>7. Phased'
  <2>1. ASSUME NEW e \in events', meeting'[e.m].status = "running"
        PROVE  e.phase <= meeting'[e.m].phase
    <3>1. CASE e \in events
      BY <3>1, <2>1, <1>m DEF Phased, Shapes, TypeOK, Events
    <3> QED
      BY <3>1, <2>1, <1>e
  <2>2. ASSUME NEW e \in events', NEW v \in Workers, WM(v)' = e.m
        PROVE  e.phase <= worker'[v].phase
    <3>1. v # w /\ e \in events
      BY <2>2, <1>2, <1>e, <1>w, <1>f, PhasesAreCounted DEF TypeOK, Events
    <3> QED
      BY <3>1, <2>2, <1>w DEF Phased
  <2> QED
    BY <2>1, <2>2 DEF Phased
<1>8. Transcripts'
  BY <1>m, <1>f DEF Transcripts
<1>9. Minutes'
  <2>1. \A v \in Workers : Works(v)' => v # w /\ Works(v)
    BY <1>w DEF Works
  <2> QED
    BY <2>1, <1>m, <1>f, <1>w DEF Minutes, PersistOnce, PersistedBefore
<1> QED
  BY <1>3, <1>4, <1>5, <1>6, <1>7, <1>8, <1>9

LEMMA WorkerHasMeeting ==
  ASSUME IInv, NEW w \in Workers, Works(w)
  PROVE  /\ WM(w) \in Meetings /\ worker[w] \in Work /\ Doc(w) \in Row
         /\ worker[w].phase \in 1..Last
         /\ worker[w].put \in 0..MaxTurns
         /\ \A v \in Workers \ {w} : WM(v) # WM(w)
         /\ turnRows[WM(w)] \in SUBSET (Nat \ {0})
         /\ persisted[WM(w)] \in Nat /\ persisted[WM(w)] <= 1
BY StateIsTyped, PhasesAreCounted
   DEF IInv, Shapes, TypeOK, Works, WM, Work, Doc, Drivers, PhaseExclusive, Minutes, PersistOnce

(* A step of an invocation that does not persist the minutes.                *)
LEMMA MinutesStay ==
  ASSUME IInv, NEW w \in Workers, Works(w), NEW work \in Work,
         worker' = [worker EXCEPT ![w] = work],
         work.m = WM(w), work.phase = worker[w].phase,
         worker[w].pc \in {"ran", "invoke"} => work.pc \in {"ran", "invoke"},
         persisted' = persisted,
         \/ meeting' = meeting
         \/ \E row \in Row : /\ Put(WM(w), row)
                             /\ row.status # "absent"
                             /\ row.status = "running" =>
                                  \/ row.phase > worker[w].phase
                                  \/ row.phase = worker[w].phase /\ row.state = "running"
  PROVE  Minutes'
<1> DEFINE m == WM(w)
<1>1. /\ m \in Meetings
      /\ worker[w].phase \in 1..Last
  BY WorkerHasMeeting
<1>2. /\ worker'[w] = work
      /\ \A v \in Workers \ {w} : worker'[v] = worker[v]
      /\ \A v \in Workers : WM(v)' = WM(v)
  BY DEF IInv, Shapes, TypeOK, WM
<1>3. /\ \A n \in Meetings : meeting[n].status = "absent" => persisted[n] = 0
      /\ \A n \in Meetings : meeting[n].status = "running" /\ persisted[n] = 1 =>
           PersistedBefore(meeting[n].phase, meeting[n].state = "running")
      /\ \A v \in Workers : Works(v) /\ persisted[WM(v)] = 1 =>
           PersistedBefore(worker[v].phase, worker[v].pc \in {"ran", "invoke"})
  BY DEF IInv, Minutes
<1>4. ASSUME NEW n \in Meetings
      PROVE  /\ meeting'[n].status = "absent" => persisted[n] = 0
             /\ meeting'[n].status = "running" /\ persisted[n] = 1 =>
                  PersistedBefore(meeting'[n].phase, meeting'[n].state = "running")
  <2>1. CASE meeting'[n] = meeting[n]
    BY <2>1, <1>3 DEF PersistedBefore
  <2>2. ASSUME NEW row \in Row, Put(m, row), n = m, row.status # "absent",
               row.status = "running" =>
                 \/ row.phase > worker[w].phase
                 \/ row.phase = worker[w].phase /\ row.state = "running",
               row.status = "running" /\ persisted[n] = 1
        PROVE  PersistedBefore(row.phase, row.state = "running")
    <3>1. PersistedBefore(worker[w].phase, worker[w].pc \in {"ran", "invoke"})
      BY <2>2, <1>3
    <3>2. PICK i \in 1..Last : /\ Phases[i] = "persist"
                               /\ i < worker[w].phase
                                  \/ (i = worker[w].phase /\ worker[w].pc \in {"ran", "invoke"})
      BY <3>1 DEF PersistedBefore
    <3>3. i < row.phase \/ (i = row.phase /\ row.state = "running")
      BY <2>2, <3>2, <1>1, PhasesAreCounted DEF Row
    <3> QED
      BY <3>2, <3>3 DEF PersistedBefore
  <2>3. \/ meeting'[n] = meeting[n]
        \/ \E row \in Row : /\ Put(m, row) /\ n = m /\ meeting'[n] = row
                            /\ row.status # "absent"
                            /\ row.status = "running" =>
                                 \/ row.phase > worker[w].phase
                                 \/ row.phase = worker[w].phase /\ row.state = "running"
    BY <1>1 DEF Put, IInv, Shapes, TypeOK
  <2> QED
    BY <2>1, <2>2, <2>3
<1>5. ASSUME NEW v \in Workers, worker'[v].pc \notin {"idle", "dead"}, persisted[WM(v)] = 1
      PROVE  PersistedBefore(worker'[v].phase, worker'[v].pc \in {"ran", "invoke"})
  <2>1. CASE v = w
    BY <2>1, <1>2, <1>3, <1>5 DEF PersistedBefore
  <2>2. CASE v # w
    BY <2>2, <1>2, <1>3, <1>5 DEF Works
  <2> QED
    BY <2>1, <2>2
<1> QED
  BY <1>2, <1>4, <1>5 DEF IInv, Minutes, PersistOnce, PersistedBefore, Works

LEMMA ReloadDocKeeps ==
  ASSUME IInv, NEW w \in Workers, ReloadDoc(w)
  PROVE  IInv'
<1> DEFINE m == WM(w)
           work == [worker[w] EXCEPT !.pc = "run", !.doc = meeting[m]]
<1>1. Works(w) /\ worker[w].pc = "claimed"
  BY DEF ReloadDoc, WorkerAt, Works
<1>2. m \in Meetings /\ worker[w] \in Work /\ meeting[m] \in Row
  BY <1>1, WorkerHasMeeting, StateIsTyped DEF IInv, Shapes
<1>3. /\ work \in Work /\ work.pc = "run" /\ work.m = m /\ work.phase = worker[w].phase
      /\ work.doc = meeting[m]
  BY <1>2 DEF Work, WorkerPcs, WM
<1>4. /\ worker' = [worker EXCEPT ![w] = work]
      /\ UNCHANGED <<meeting, stale, turnRows, persisted, events, client>>
  BY DEF ReloadDoc, WorkerGoes
<1> HIDE DEF work
<1>5. /\ worker'[w] = work
      /\ \A v \in Workers \ {w} : worker'[v] = worker[v]
      /\ \A v \in Workers : WM(v)' = WM(v)
  BY <1>3, <1>4 DEF IInv, Shapes, TypeOK, WM
<1>6. Claimed(w)'
  <2>1. HasRow(m, worker[w].phase, "running")
    BY <1>1 DEF IInv, Claimed, WorkerAt
  <2>2. meeting[m].status = "running" => turnRows[m] = 1..meeting[m].turns
    BY <1>2 DEF IInv, Transcripts
  <2> QED
    BY <1>3, <1>4, <1>5, <2>1, <2>2 DEF Claimed, HasRow, WorkerAt, Doc
<1>7. Transcripts'
  BY <1>4 DEF IInv, Transcripts
<1>8. Minutes'
  BY <1>1, <1>3, <1>4, MinutesStay
<1> QED
  BY <1>1, <1>3, <1>4, <1>6, <1>7, <1>8, WorkerGoesOn DEF IInv, Shapes, TypeOK

(* A put of the doc as the phase knows it, with the statements put so far.   *)
LEMMA DocIsPut ==
  ASSUME IInv, NEW w \in Workers, WorkerAt(w, "run"), NEW doc \in Row,
         doc.status = Doc(w).status, doc.phase = Doc(w).phase, doc.state = Doc(w).state,
         Put(WM(w), doc),
         NEW work \in Work, worker' = [worker EXCEPT ![w] = work],
         work.m = WM(w), work.phase = worker[w].phase, work.pc \in {"run", "ran"}, work.doc = doc,
         turnRows' \in [Meetings -> SUBSET (Nat \ {0})],
         \A n \in Meetings \ {WM(w)} : turnRows'[n] = turnRows[n],
         doc.status = "running" => turnRows'[WM(w)] = 1..doc.turns
  PROVE  /\ Works(w)
         /\ Claimed(w)'
         /\ Transcripts'
         /\ doc.status \in {"running", "cancelled"}
         /\ doc.status = "running" => doc.phase = worker[w].phase /\ doc.state = "running"
<1> DEFINE m == WM(w)
<1>1. Works(w) /\ m \in Meetings
  BY WorkerHasMeeting DEF WorkerAt, Works
<1>2. /\ doc.status \in {"running", "cancelled"}
      /\ doc.status = "running" => doc.phase = worker[w].phase /\ doc.state = "running"
      /\ meeting[m].status # "absent"
  BY DEF IInv, Claimed, WorkerAt, HasRow
<1>3. /\ worker'[w] = work /\ WM(w)' = m
      /\ meeting'[m] = doc
      /\ \A n \in Meetings \ {m} : meeting'[n] = meeting[n]
  BY <1>1 DEF Put, IInv, Shapes, TypeOK, WM
<1>4. Claimed(w)'
  BY <1>2, <1>3 DEF Claimed, WorkerAt, HasRow, Doc
<1>5. Transcripts'
  BY <1>2, <1>3 DEF IInv, Transcripts
<1> QED
  BY <1>1, <1>2, <1>4, <1>5

LEMMA AppendTurnKeeps ==
  ASSUME IInv, NEW w \in Workers, AppendTurn(w)
  PROVE  IInv'
<1> DEFINE m == WM(w)
           seq == Doc(w).turns + 1
           doc == [Doc(w) EXCEPT !.turns = seq]
<1>1. Works(w) /\ WorkerAt(w, "run") /\ worker[w].put < MaxTurns
  BY DEF AppendTurn, WorkerAt, Works
<1>2. m \in Meetings /\ worker[w] \in Work /\ Doc(w) \in Row /\ turnRows[m] \in SUBSET (Nat \ {0})
  BY <1>1, WorkerHasMeeting
<1>3. /\ seq \in Nat \ {0} /\ doc \in Row /\ doc.turns = seq /\ doc.status = Doc(w).status
      /\ doc.phase = Doc(w).phase /\ doc.state = Doc(w).state
  BY <1>2 DEF Row
<1>4. /\ turnRows' = [turnRows EXCEPT ![m] = @ \cup {seq}] /\ Put(m, doc)
      /\ UNCHANGED <<persisted, events, client>>
      /\ \E more \in {"run", "ran"} :
           worker' = [worker EXCEPT ![w] = [worker[w] EXCEPT !.pc = more, !.put = worker[w].put + 1,
                                                          !.doc = doc]]
  BY DEF AppendTurn, TurnAppended
<1> HIDE DEF doc, seq
<1>5. PICK more \in {"run", "ran"} :
        worker' = [worker EXCEPT ![w] = [worker[w] EXCEPT !.pc = more, !.put = worker[w].put + 1,
                                                          !.doc = doc]]
  BY <1>4
<1> DEFINE work == [worker[w] EXCEPT !.pc = more, !.put = worker[w].put + 1, !.doc = doc]
<1>6. worker[w].put + 1 \in 0..MaxTurns
  BY <1>1, <1>2, PhasesAreCounted DEF Work
<1>7. /\ work \in Work /\ work.pc \in {"run", "ran"} /\ work.m = m
      /\ work.phase = worker[w].phase /\ work.doc = doc
  BY <1>2, <1>3, <1>6 DEF Work, WorkerPcs, WM
<1>8. /\ worker' = [worker EXCEPT ![w] = work]
      /\ worker[w].pc = "run"
  <2>1. worker' = [worker EXCEPT ![w] = work]
    BY <1>5
  <2> QED
    BY <2>1, <1>1 DEF WorkerAt
<1> HIDE DEF work
<1>9. /\ turnRows' \in [Meetings -> SUBSET (Nat \ {0})]
      /\ \A n \in Meetings \ {m} : turnRows'[n] = turnRows[n]
      /\ turnRows'[m] = turnRows[m] \cup {seq}
  BY <1>2, <1>3, <1>4 DEF IInv, Shapes, TypeOK
<1>10. doc.status = "running" => turnRows'[m] = 1..doc.turns
  <2>1. doc.status = "running" => turnRows[m] = 1..Doc(w).turns
    BY <1>1, <1>3 DEF IInv, Claimed, WorkerAt
  <2>2. Doc(w).turns \in Nat
    BY <1>2 DEF Row
  <2>3. 1..(Doc(w).turns + 1) = (1..Doc(w).turns) \cup {Doc(w).turns + 1}
    BY <2>2
  <2> QED
    BY <2>1, <2>3, <1>3, <1>9 DEF seq
<1>11. /\ Claimed(w)' /\ Transcripts' /\ doc.status \in {"running", "cancelled"}
       /\ doc.status = "running" => doc.phase = worker[w].phase /\ doc.state = "running"
  BY <1>1, <1>3, <1>4, <1>7, <1>8, <1>9, <1>10, DocIsPut
<1>12. Minutes'
  BY <1>1, <1>3, <1>4, <1>7, <1>8, <1>11, MinutesStay
<1>13. worker[w].phase \in 1..Last
  BY <1>1, WorkerHasMeeting
<1>14. \E row \in Row : /\ Put(WM(w), row)
                        /\ row.status \in {"running", "cancelled"}
                        /\ row.status = "running" => row.phase >= worker[w].phase
  BY <1>3, <1>4, <1>11, <1>13, PhasesAreCounted
<1>15. work.pc \in {"run", "ran", "invoke"} /\ persisted' \in [Meetings -> Nat]
  BY <1>4, <1>7 DEF IInv, Shapes, TypeOK
<1> QED
  BY <1>1, <1>4, <1>7, <1>8, <1>9, <1>11, <1>12, <1>14, <1>15, WorkerGoesOn

(* The phases that put the doc as it is, once.                               *)
LEMMA PreparePhaseKeeps ==
  ASSUME IInv, NEW w \in Workers, PreparePhase(w)
  PROVE  IInv'
<1> DEFINE m == WM(w)
           work == [worker[w] EXCEPT !.pc = "ran", !.doc = Doc(w)]
<1>1. Works(w) /\ WorkerAt(w, "run")
  BY DEF PreparePhase, WorkerAt, Works
<1>2. m \in Meetings /\ worker[w] \in Work /\ Doc(w) \in Row /\ worker[w].phase \in 1..Last
  BY <1>1, WorkerHasMeeting
<1>3. /\ work \in Work /\ work.pc = "ran" /\ work.m = m /\ work.phase = worker[w].phase
      /\ work.doc = Doc(w)
  BY <1>2 DEF Work, WorkerPcs, WM
<1>4. /\ worker' = [worker EXCEPT ![w] = work] /\ Put(m, Doc(w))
      /\ UNCHANGED <<turnRows, persisted, events, client>>
  BY DEF PreparePhase, WorkerGoes
<1> HIDE DEF work
<1>5. /\ turnRows' \in [Meetings -> SUBSET (Nat \ {0})]
      /\ persisted' \in [Meetings -> Nat]
      /\ Doc(w).status = "running" => turnRows'[m] = 1..Doc(w).turns
  BY <1>1, <1>4 DEF IInv, Shapes, TypeOK, Claimed, WorkerAt
<1>6. /\ Claimed(w)' /\ Transcripts' /\ Doc(w).status \in {"running", "cancelled"}
      /\ Doc(w).status = "running" => Doc(w).phase = worker[w].phase /\ Doc(w).state = "running"
  BY <1>1, <1>2, <1>3, <1>4, <1>5, DocIsPut
<1>7. Minutes'
  BY <1>1, <1>2, <1>3, <1>4, <1>6, MinutesStay
<1>8. \E row \in Row : /\ Put(WM(w), row)
                       /\ row.status \in {"running", "cancelled"}
                       /\ row.status = "running" => row.phase >= worker[w].phase
  BY <1>2, <1>4, <1>6, PhasesAreCounted
<1> QED
  BY <1>1, <1>3, <1>4, <1>5, <1>6, <1>7, <1>8, WorkerGoesOn

LEMMA PersistPhaseKeeps ==
  ASSUME IInv, NEW w \in Workers, PersistPhase(w)
  PROVE  IInv'
<1> DEFINE m == WM(w)
           k == worker[w].phase
           work == [worker[w] EXCEPT !.pc = "ran", !.doc = Doc(w)]
<1>1. Works(w) /\ WorkerAt(w, "run") /\ Phases[k] = "persist"
  BY DEF PersistPhase, WorkerAt, Works
<1>2. m \in Meetings /\ worker[w] \in Work /\ Doc(w) \in Row /\ k \in 1..Last
  BY <1>1, WorkerHasMeeting
<1>3. /\ work \in Work /\ work.pc = "ran" /\ work.m = m /\ work.phase = k
      /\ work.doc = Doc(w)
  BY <1>2 DEF Work, WorkerPcs, WM
<1>4. /\ worker' = [worker EXCEPT ![w] = work] /\ Put(m, Doc(w))
      /\ persisted' = [persisted EXCEPT ![m] = @ + 1]
      /\ UNCHANGED <<turnRows, events, client>>
  BY DEF PersistPhase, WorkerGoes
<1> HIDE DEF work
<1>5. /\ turnRows' \in [Meetings -> SUBSET (Nat \ {0})]
      /\ persisted' \in [Meetings -> Nat]
      /\ Doc(w).status = "running" => turnRows'[m] = 1..Doc(w).turns
  <2>1. persisted' \in [Meetings -> Nat]
    BY <1>2, <1>4 DEF IInv, Shapes, TypeOK
  <2> QED
    BY <2>1, <1>1, <1>4 DEF IInv, Shapes, TypeOK, Claimed, WorkerAt
<1>6. /\ Claimed(w)' /\ Transcripts' /\ Doc(w).status \in {"running", "cancelled"}
      /\ Doc(w).status = "running" => Doc(w).phase = k /\ Doc(w).state = "running"
  BY <1>1, <1>2, <1>3, <1>4, <1>5, DocIsPut
<1>7. Minutes'
  <2>1. persisted[m] = 0
    <3>1. ~(persisted[m] = 1)
      <4> SUFFICES ASSUME persisted[m] = 1 PROVE FALSE
        OBVIOUS
      <4>1. PersistedBefore(k, worker[w].pc \in {"ran", "invoke"})
        BY <1>1 DEF IInv, Minutes
      <4>2. PICK i \in 1..Last : Phases[i] = "persist" /\ i < k
        BY <4>1, <1>1 DEF PersistedBefore, WorkerAt
      <4> QED
        BY <4>2, <1>1, <1>2, PhasesAreCounted
    <3> QED
      BY <3>1, <1>1, WorkerHasMeeting
  <2>2. /\ persisted'[m] = 1 /\ meeting'[m] = Doc(w) /\ worker'[w] = work
        /\ \A n \in Meetings \ {m} : persisted'[n] = persisted[n] /\ meeting'[n] = meeting[n]
        /\ \A v \in Workers \ {w} : worker'[v] = worker[v] /\ WM(v) # m
        /\ \A v \in Workers : WM(v)' = WM(v)
    BY <2>1, <1>1, <1>2, <1>3, <1>4, WorkerHasMeeting DEF IInv, Shapes, TypeOK, Put, WM
  <2>3. \A over \in BOOLEAN : over => PersistedBefore(k, over)
    BY <1>1, <1>2 DEF PersistedBefore
  <2>4. ASSUME NEW n \in Meetings
        PROVE  /\ persisted'[n] <= 1
               /\ meeting'[n].status = "absent" => persisted'[n] = 0
               /\ meeting'[n].status = "running" /\ persisted'[n] = 1 =>
                    PersistedBefore(meeting'[n].phase, meeting'[n].state = "running")
    <3>1. CASE n = m
      BY <3>1, <2>2, <1>1, <1>2, <1>6 DEF PersistedBefore
    <3>2. CASE n # m
      BY <3>2, <2>2 DEF IInv, Minutes, PersistOnce
    <3> QED
      BY <3>1, <3>2
  <2>5. ASSUME NEW v \in Workers, worker'[v].pc \notin {"idle", "dead"}, persisted'[WM(v)] = 1
        PROVE  PersistedBefore(worker'[v].phase, worker'[v].pc \in {"ran", "invoke"})
    <3>1. CASE v = w
      BY <3>1, <2>2, <2>3, <1>3 DEF PersistedBefore
    <3>2. CASE v # w
      <4>1. Works(v) /\ WM(v) \in Meetings \ {m}
        BY <3>2, <2>2, <2>5, WorkerHasMeeting DEF Works
      <4> QED
        BY <3>2, <4>1, <2>2, <2>5 DEF IInv, Minutes
    <3> QED
      BY <3>1, <3>2
  <2> QED
    BY <2>2, <2>4, <2>5 DEF Minutes, PersistOnce, PersistedBefore, Works
<1>8. \E row \in Row : /\ Put(WM(w), row)
                       /\ row.status \in {"running", "cancelled"}
                       /\ row.status = "running" => row.phase >= worker[w].phase
  BY <1>2, <1>4, <1>6, PhasesAreCounted
<1> QED
  BY <1>1, <1>3, <1>4, <1>5, <1>6, <1>7, <1>8, WorkerGoesOn

LEMMA PhaseFailsKeeps ==
  ASSUME IInv, NEW w \in Workers, PhaseFails(w)
  PROVE  IInv'
<1>1. Works(w)
  BY DEF PhaseFails, WorkerAt, Works
<1>2. Failed(Doc(w)) \in Row /\ Failed(Doc(w)).status = "failed"
  BY <1>1, WorkerHasMeeting DEF Failed, Row, Statuses
<1>3. Put(WM(w), Failed(Doc(w))) /\ worker' = [worker EXCEPT ![w] = NoWork]
      /\ UNCHANGED <<turnRows, persisted, events, client>>
  BY DEF PhaseFails, WorkerEnds
<1> QED
  BY <1>1, <1>2, <1>3, NoWorkIsWork, WorkerLetsGo

(* The phase after the last does not exist: the meeting has succeeded, and   *)
(* its row counts the statements put, unless it was cancelled.               *)
LEMMA PhaseEndsKeeps ==
  ASSUME IInv, NEW w \in Workers, PhaseEnds(w)
  PROVE  IInv'
<1> DEFINE m == WM(w)
           k == worker[w].phase
           next == [Doc(w) EXCEPT !.phase = k + 1, !.state = "pending"]
           done == [Doc(w) EXCEPT !.phase = k + 1, !.state = "done", !.status = "succeeded"]
<1>1. Works(w) /\ worker[w].pc = "ran"
  BY DEF PhaseEnds, WorkerAt, Works
<1>2. /\ m \in Meetings /\ worker[w] \in Work /\ Doc(w) \in Row /\ k \in 1..Last
  BY <1>1, WorkerHasMeeting
<1>3. /\ meeting[m].status \in {"running", "cancelled"}
      /\ meeting[m].status # "cancelled" =>
           /\ Doc(w).status = "running" /\ Doc(w).phase = k
           /\ turnRows[m] = 1..Doc(w).turns
  BY <1>1 DEF IInv, Claimed, HasRow
<1>4. UNCHANGED <<turnRows, persisted, events, client>>
  BY DEF PhaseEnds
<1>k. k + 1 \in 1..(Last + 1)
  BY <1>2, PhasesAreCounted
<1>5. CASE meeting[m].status = "cancelled"
  <2>1. Put(m, Cancelled(Doc(w))) /\ worker' = [worker EXCEPT ![w] = NoWork]
    BY <1>5 DEF PhaseEnds, AfterPhase, WorkerEnds
  <2>2. Cancelled(Doc(w)) \in Row /\ Cancelled(Doc(w)).status = "cancelled"
    BY <1>2 DEF Cancelled, Row, Statuses
  <2> QED
    BY <2>1, <2>2, <1>1, <1>4, NoWorkIsWork, WorkerLetsGo
<1>6. CASE meeting[m].status # "cancelled" /\ k < Last
  <2> DEFINE work == [worker[w] EXCEPT !.pc = "invoke", !.doc = next]
  <2>1. Put(m, next) /\ worker' = [worker EXCEPT ![w] = work]
    BY <1>6 DEF PhaseEnds, AfterPhase, WorkerGoes
  <2>2. /\ next \in Row /\ next.phase = k + 1 /\ next.state = "pending"
        /\ next.status = "running" /\ next.turns = Doc(w).turns
    BY <1>2, <1>3, <1>6, <1>k DEF Row
  <2> HIDE DEF next
  <2>3. /\ work \in Work /\ work.pc = "invoke" /\ work.m = m /\ work.phase = k /\ work.doc = next
    BY <1>2, <2>2 DEF Work, WorkerPcs, WM
  <2> HIDE DEF work
  <2>4. /\ worker'[w] = work /\ WM(w)' = m /\ meeting'[m] = next
        /\ \A n \in Meetings \ {m} : meeting'[n] = meeting[n]
    BY <1>2, <2>1, <2>3 DEF IInv, Shapes, TypeOK, Put, WM
  <2>5. Claimed(w)'
    BY <1>6, <2>2, <2>3, <2>4 DEF Claimed, HasRow, WorkerAt, Doc
  <2>6. Transcripts'
    BY <1>3, <1>4, <1>6, <2>2, <2>4 DEF IInv, Transcripts
  <2>7. Minutes'
    <3>1. next.phase > k
      BY <1>2, <2>2, PhasesAreCounted
    <3> QED
      BY <3>1, <1>1, <1>4, <2>1, <2>2, <2>3, MinutesStay
  <2>8. \E row \in Row : /\ Put(WM(w), row)
                         /\ row.status \in {"running", "cancelled"}
                         /\ row.status = "running" => row.phase >= worker[w].phase
    BY <1>2, <2>1, <2>2, PhasesAreCounted
  <2>9. /\ turnRows' \in [Meetings -> SUBSET (Nat \ {0})] /\ persisted' \in [Meetings -> Nat]
        /\ \A n \in Meetings \ {m} : turnRows'[n] = turnRows[n]
    BY <1>4 DEF IInv, Shapes, TypeOK
  <2> QED
    BY <1>1, <1>4, <2>1, <2>3, <2>5, <2>6, <2>7, <2>8, <2>9, WorkerGoesOn
<1>7. CASE meeting[m].status # "cancelled" /\ ~(k < Last)
  <2>1. Put(m, done) /\ worker' = [worker EXCEPT ![w] = NoWork]
    BY <1>7 DEF PhaseEnds, AfterPhase, WorkerEnds
  <2>2. done \in Row /\ done.status = "succeeded" /\ done.turns = Doc(w).turns
    BY <1>2, <1>k DEF Row, Statuses
  <2> HIDE DEF done
  <2> QED
    BY <2>1, <2>2, <1>1, <1>3, <1>4, <1>7, NoWorkIsWork, WorkerLetsGo
<1> QED
  BY <1>5, <1>6, <1>7

LEMMA InvokeNextKeeps ==
  ASSUME IInv, NEW w \in Workers, InvokeNext(w) \/ InvokeNextFails(w)
  PROVE  IInv'
<1> DEFINE m == WM(w)
           e1 == [m |-> m, phase |-> Doc(w).phase]
<1>1. Works(w) /\ WorkerAt(w, "invoke")
  BY DEF InvokeNext, InvokeNextFails, WorkerAt, Works
<1>2. m \in Meetings /\ Doc(w) \in Row /\ worker[w].phase \in 1..Last
  BY <1>1, WorkerHasMeeting
<1>3. /\ meeting[m].status \in {"running", "cancelled"}
      /\ meeting[m].status = "running" => meeting[m].phase = worker[w].phase + 1
      /\ worker[w].phase < Last /\ Doc(w).phase = worker[w].phase + 1
  BY <1>1 DEF IInv, Claimed, HasRow
<1>4. e1 \in Events /\ e1.m = m /\ e1.phase = worker[w].phase + 1
  BY <1>2, <1>3, PhasesAreCounted DEF Events
<1> HIDE DEF e1
<1>5. CASE InvokeNext(w)
  <2>1. /\ events' = events \cup {e1} /\ worker' = [worker EXCEPT ![w] = NoWork]
        /\ UNCHANGED <<meeting, stale, turnRows, persisted, client>>
    BY <1>5 DEF InvokeNext, Accept, WorkerEnds, e1
  <2>2. meeting'[m].status = "running" => e1.phase <= meeting'[m].phase
    BY <2>1, <1>2, <1>3, <1>4, PhasesAreCounted
  <2> QED
    BY <2>1, <2>2, <1>1, <1>4, NoWorkIsWork, WorkerLetsGo
<1>6. CASE InvokeNextFails(w)
  <2>1. /\ events' \in {events, events \cup {e1}} /\ worker' = [worker EXCEPT ![w] = NoWork]
        /\ Put(m, Failed(Doc(w))) /\ UNCHANGED <<turnRows, persisted, client>>
    BY <1>6 DEF InvokeNextFails, InvokeRaises, WorkerEnds, e1
  <2>2. Failed(Doc(w)) \in Row /\ Failed(Doc(w)).status = "failed"
    BY <1>2 DEF Failed, Row, Statuses
  <2>3. meeting'[m].status # "running"
    BY <2>1, <2>2, <1>2 DEF Put, IInv, Shapes, TypeOK
  <2> QED
    BY <2>1, <2>2, <2>3, <1>1, <1>4, NoWorkIsWork, WorkerLetsGo
<1> QED
  BY <1>5, <1>6

LEMMA WorkerDiesKeeps ==
  ASSUME IInv, NEW w \in Workers, WorkerDies(w)
  PROVE  IInv'
<1>1. Works(w)
  BY DEF WorkerDies, Works
<1>2. LET dead == [NoWork EXCEPT !.pc = "dead"]
      IN dead \in Work /\ dead.pc = "dead" /\ dead.m = None
  BY NoWorkIsWork DEF Work, WorkerPcs
<1> QED
  BY <1>1, <1>2, WorkerLetsGo DEF WorkerDies

(* An event that is skipped or lost.                                         *)
LEMMA EventGoesKeeps ==
  ASSUME IInv, NEW e \in events, SkipPhase(e) \/ LoseEvent(e)
  PROVE  IInv'
<1> USE DEF IInv
<1>1. /\ events' \subseteq events
      /\ UNCHANGED <<meeting, stale, turnRows, persisted, worker, client>>
  BY DEF SkipPhase, LoseEvent
<1>2. Shapes'
  BY <1>1 DEF Shapes, TypeOK, Works, WM
<1>q. \A m \in Meetings : Quiet(m) => Quiet(m)'
  BY <1>1 DEF Quiet, WM, Creates, ClientAt, CM
<1>3. \A w \in Workers : Claimed(w)'
  BY <1>1 DEF Claimed, WorkerAt, HasRow, WM, Doc
<1>4. \A c \in Clients : Holds(client[c])'
  BY <1>1, <1>q DEF Holds
<1>5. Drivers'
  BY <1>1, <1>q DEF Drivers, PhaseExclusive, WM, Driven, Creates, ClientAt, CM
<1> QED
  BY <1>1, <1>2, <1>3, <1>4, <1>5 DEF Phased, Transcripts, Minutes, PersistOnce, WM, Works

LEMMA AgeKeeps ==
  ASSUME IInv, NEW m \in Meetings, Age(m)
  PROVE  IInv'
<1> USE DEF IInv
<1>1. /\ stale' = [stale EXCEPT ![m] = TRUE] /\ ~Driven(m) /\ meeting[m].status = "running"
      /\ UNCHANGED <<meeting, turnRows, persisted, events, worker, client>>
  BY DEF Age
<1>2. Shapes'
  BY <1>1 DEF Shapes, TypeOK, Works, WM
<1>q. \A n \in Meetings : Quiet(n) => Quiet(n)'
  BY <1>1 DEF Quiet, WM, Creates, ClientAt, CM
<1>3. \A w \in Workers : Claimed(w)'
  BY <1>1 DEF Claimed, WorkerAt, HasRow, WM, Doc
<1>4. \A c \in Clients : Holds(client[c])'
  BY <1>1, <1>q DEF Holds
<1>5. Drivers'
  <2>1. ASSUME NEW n \in Meetings, stale'[n] PROVE ~Driven(n)' /\ meeting'[n].status # "absent"
    BY <2>1, <1>1 DEF Drivers, Driven, WM, ClientAt, CM, Shapes, TypeOK
  <2> QED
    BY <2>1, <1>1, <1>q DEF Drivers, PhaseExclusive, WM, Creates, ClientAt, CM
<1> QED
  BY <1>1, <1>2, <1>3, <1>4, <1>5 DEF Phased, Transcripts, Minutes, PersistOnce, WM, Works

(* The claim finds the phase of a meeting nobody has.                        *)
LEMMA ClaimFindsNobody ==
  ASSUME IInv, NEW e \in events, Claimable(e.m, e.phase)
  PROVE  /\ e.m \in Meetings /\ e.phase \in 1..Last
         /\ meeting[e.m].status = "running"
         /\ meeting[e.m].phase = e.phase
         /\ meeting[e.m].state # "running"
         /\ ~Quiet(e.m)
         /\ \A v \in Workers : WM(v) # e.m
         /\ \A c \in Clients : ~Creates(c, e.m)
<1> USE DEF IInv
<1>1. e.m \in Meetings /\ e.phase \in 1..Last
  BY DEF Shapes, TypeOK, Events
<1>2. /\ meeting[e.m].status = "running" /\ meeting[e.m].phase = e.phase
      /\ meeting[e.m].state # "running" \/ stale[e.m]
  BY DEF Claimable
<1>3. ~stale[e.m]
  BY <1>1 DEF Drivers, Driven
<1>4. ASSUME NEW v \in Workers, WM(v) = e.m PROVE FALSE
  <2>1. Works(v) /\ worker[v].phase \in 1..Last /\ e.phase <= worker[v].phase
    BY <1>1, <1>4, WorkerHasMeeting, PhasesAreCounted DEF Shapes, Phased
  <2>2. worker[v].pc \in {"claimed", "run", "ran", "invoke"}
    BY <2>1 DEF Works, Shapes, TypeOK, WorkerPcs
  <2>3. CASE worker[v].pc = "invoke"
    <3>1. e.phase = worker[v].phase + 1
      BY <2>3, <1>2, <1>4 DEF Claimed, HasRow, WorkerAt
    <3> QED
      BY <3>1, <2>1, PhasesAreCounted
  <2>4. CASE worker[v].pc # "invoke"
    BY <2>2, <2>4, <1>2, <1>3, <1>4 DEF Claimed, HasRow, WorkerAt
  <2> QED
    BY <2>3, <2>4
<1> QED
  BY <1>1, <1>2, <1>3, <1>4 DEF Drivers, Creates, Quiet

LEMMA ClaimPhaseKeeps ==
  ASSUME IInv, NEW w \in Workers, ClaimPhase(w)
  PROVE  IInv'
<1> USE DEF IInv
<1>1. PICK e \in events :
        /\ WorkerAt(w, "idle") /\ Claimable(e.m, e.phase) /\ Delivered(e)
        /\ Put(e.m, [meeting[e.m] EXCEPT !.state = "running"])
        /\ worker' = [worker EXCEPT ![w] =
                        [NoWork EXCEPT !.pc = "claimed", !.m = e.m, !.phase = e.phase]]
        /\ UNCHANGED <<turnRows, persisted, client>>
  BY DEF ClaimPhase
<1> DEFINE m == e.m
           k == e.phase
           row == [meeting[m] EXCEPT !.state = "running"]
           work == [NoWork EXCEPT !.pc = "claimed", !.m = m, !.phase = k]
<1>2. /\ m \in Meetings /\ k \in 1..Last
      /\ meeting[m].status = "running" /\ meeting[m].phase = k /\ meeting[m].state # "running"
      /\ ~Quiet(m)
      /\ \A v \in Workers : WM(v) # m
      /\ \A c \in Clients : ~Creates(c, m)
  BY <1>1, ClaimFindsNobody
<1>3. /\ row \in Row /\ row.status = "running" /\ row.phase = k /\ row.state = "running"
      /\ row.turns = meeting[m].turns
  BY <1>2, StateIsTyped DEF Shapes, Row
<1>4. work \in Work /\ work.pc = "claimed" /\ work.m = m /\ work.phase = k
  BY <1>2, NoWorkIsWork DEF Work, WorkerPcs
<1>5. events' \subseteq events
  BY <1>1 DEF Delivered
<1>6. Put(m, row) /\ worker' = [worker EXCEPT ![w] = work]
  BY <1>1
<1> HIDE DEF row, work, m, k
<1>m. /\ meeting'[m] = row /\ stale'[m] = FALSE
      /\ \A n \in Meetings \ {m} : meeting'[n] = meeting[n] /\ stale'[n] = stale[n]
  BY <1>2, <1>6 DEF Put, Shapes, TypeOK
<1>w. /\ worker'[w] = work /\ WM(w)' = m
      /\ \A v \in Workers \ {w} : worker'[v] = worker[v] /\ WM(v)' = WM(v)
  BY <1>4, <1>6 DEF Shapes, TypeOK, WM
<1>c. \A c \in Clients, n \in Meetings : Creates(c, n)' <=> Creates(c, n)
  BY <1>1 DEF Creates, ClientAt, CM
<1>q. \A n \in Meetings : Quiet(n) => n # m /\ Quiet(n)'
  BY <1>2, <1>5, <1>m, <1>w, <1>c DEF Quiet
<1>7. TypeOK'
  <2>1. events' \subseteq Events
    BY <1>5 DEF Shapes, TypeOK
  <2> QED
    BY <2>1, <1>1, <1>2, <1>3, <1>4, <1>6, StepIsTyped DEF Shapes, TypeOK
<1>8. Shapes'
  BY <1>7, <1>2, <1>4, <1>w, PhasesAreCounted DEF Shapes, Works
<1>9. ASSUME NEW v \in Workers PROVE Claimed(v)'
  <2>1. CASE v = w
    BY <2>1, <1>3, <1>4, <1>m, <1>w DEF Claimed, WorkerAt, HasRow
  <2>2. CASE v # w
    <3>1. CASE WM(v) = None
      BY <2>2, <3>1, <1>w DEF Claimed, WorkerAt, Shapes, Works
    <3>2. CASE WM(v) \in Meetings
      <4>1. WM(v) # m /\ WM(v)' = WM(v) /\ worker'[v] = worker[v]
        BY <2>2, <1>2, <1>w
      <4> QED
        BY <4>1, <3>2, <1>1, <1>m DEF Claimed, WorkerAt, HasRow, Doc
    <3> QED
      BY <3>1, <3>2 DEF Shapes, TypeOK, WM
  <2> QED
    BY <2>1, <2>2
<1>10. ASSUME NEW c \in Clients PROVE Holds(client[c])'
  BY <1>1, <1>3, <1>m, <1>q DEF Holds
<1>11. Drivers'
  <2>1. ASSUME NEW n \in Meetings, stale'[n]
        PROVE  ~Driven(n)' /\ meeting'[n].status # "absent"
    <3>1. n # m /\ stale[n] /\ ~Driven(n) /\ meeting[n].status # "absent"
      BY <2>1, <1>m DEF Drivers
    <3>2. \A v \in Workers : WM(v)' # n
      BY <3>1, <1>w DEF Driven
    <3> QED
      BY <3>1, <3>2, <1>1, <1>5, <1>m DEF Driven, ClientAt, CM
  <2>2. ASSUME NEW n \in Meetings, meeting'[n].status = "failed" PROVE Quiet(n)'
    BY <2>2, <1>3, <1>m, <1>q DEF Drivers
  <2>3. ASSUME NEW n \in Meetings, meeting'[n].status = "absent"
        PROVE  (\A f \in events' : f.m # n) /\ (\A v \in Workers : WM(v)' # n)
    BY <2>3, <1>3, <1>5, <1>m, <1>w DEF Drivers
  <2>4. PhaseExclusive'
    BY <1>2, <1>w DEF Drivers, PhaseExclusive
  <2>5. \A c \in Clients, v \in Workers : ClientAt(c, "created")' => WM(v)' # CM(c)'
    BY <1>1, <1>2, <1>w DEF Drivers, Creates, ClientAt, CM
  <2> QED
    BY <2>1, <2>2, <2>3, <2>4, <2>5, <1>1, <1>5 DEF Drivers, Creates, ClientAt, CM
<1>12. Phased'
  <2>1. \A f \in events : f.m = m => f.phase <= k
    BY <1>2 DEF Phased
  <2>2. \A f \in events' : f \in events /\ f.m \in Meetings
    BY <1>5 DEF Shapes, TypeOK, Events
  <2>3. ASSUME NEW f \in events', meeting'[f.m].status = "running"
        PROVE  f.phase <= meeting'[f.m].phase
    BY <2>1, <2>2, <2>3, <1>3, <1>m DEF Phased
  <2>4. ASSUME NEW f \in events', NEW v \in Workers, WM(v)' = f.m
        PROVE  f.phase <= worker'[v].phase
    BY <2>1, <2>2, <2>4, <1>4, <1>w DEF Phased
  <2> QED
    BY <2>3, <2>4 DEF Phased
<1>13. Transcripts'
  BY <1>1, <1>2, <1>3, <1>m DEF Transcripts
<1>14. Minutes'
  <2>1. persisted[m] = 1 => \E i \in 1..Last : Phases[i] = "persist" /\ i < k
    BY <1>2 DEF Minutes, PersistedBefore
  <2>2. \A v \in Workers : v # w /\ Works(v)' => Works(v)
    BY <1>w DEF Works
  <2>3. ASSUME NEW n \in Meetings
        PROVE  /\ meeting'[n].status = "absent" => persisted[n] = 0
               /\ meeting'[n].status = "running" /\ persisted[n] = 1 =>
                    PersistedBefore(meeting'[n].phase, meeting'[n].state = "running")
    <3>1. CASE n = m
      BY <3>1, <2>1, <1>3, <1>m DEF PersistedBefore
    <3>2. CASE n # m
      BY <3>2, <1>m DEF Minutes
    <3> QED
      BY <3>1, <3>2
  <2>4. ASSUME NEW v \in Workers, Works(v)', persisted[WM(v)'] = 1
        PROVE  PersistedBefore(worker'[v].phase, worker'[v].pc \in {"ran", "invoke"})
    <3>1. CASE v = w
      BY <3>1, <2>1, <2>4, <1>4, <1>w DEF PersistedBefore
    <3>2. CASE v # w
      BY <3>2, <2>2, <2>4, <1>w DEF Minutes
    <3> QED
      BY <3>1, <3>2
  <2> QED
    BY <2>3, <2>4, <1>1 DEF Minutes, PersistOnce, PersistedBefore
<1> QED
  BY <1>8, <1>9, <1>10, <1>11, <1>12, <1>13, <1>14

-----------------------------------------------------------------------------
(* The theorems.                                                           *)

LEMMA InitInv == Init => IInv
<1> SUFFICES ASSUME Init PROVE IInv
  OBVIOUS
<1>1. /\ \A m \in Meetings : /\ meeting[m] = NoRow /\ stale[m] = FALSE
                             /\ turnRows[m] = {} /\ persisted[m] = 0
      /\ events = {}
      /\ \A w \in Workers : worker[w] = NoWork
      /\ \A c \in Clients : client[c] = NoCall
  BY DEF Init
<1>2. Shapes
  BY <1>1, NoRowIsRow, NoWorkIsWork, NoCallIsCall
     DEF Init, Shapes, TypeOK, Work, Call, Works, WM
<1>3. \A w \in Workers : Claimed(w)
  BY <1>1, NoWorkIsWork DEF Claimed, WorkerAt
<1>4. \A c \in Clients : Holds(client[c])
  BY <1>1, NoCallIsCall DEF Holds
<1>5. Drivers
  BY <1>1, NoRowIsRow, NoWorkIsWork, NoCallIsCall, PhasesAreCounted
     DEF Drivers, PhaseExclusive, WM, Creates, ClientAt, CM
<1>6. Phased /\ Transcripts
  BY <1>1, NoRowIsRow DEF Phased, Transcripts
<1>7. Minutes
  BY <1>1, NoRowIsRow, NoWorkIsWork DEF Minutes, PersistOnce, Works
<1> QED
  BY <1>2, <1>3, <1>4, <1>5, <1>6, <1>7 DEF IInv

LEMMA NextInv == IInv /\ [Next]_vars => IInv'
<1> SUFFICES ASSUME IInv, [Next]_vars PROVE IInv'
  OBVIOUS
<1>1. ASSUME NEW w \in Workers, ClaimPhase(w) \/ WorkerStep(w) \/ WorkerDies(w)
      PROVE  IInv'
  BY <1>1, ClaimPhaseKeeps, ReloadDocKeeps, AppendTurnKeeps, PreparePhaseKeeps,
     PersistPhaseKeeps, PhaseFailsKeeps, PhaseEndsKeeps, InvokeNextKeeps, WorkerDiesKeeps
     DEF WorkerStep
<1>2. ASSUME NEW c \in Clients, ClientStep(c)
      PROVE  IInv'
  <2>1. CASE \E m \in Meetings : FinalizeStuck(c, m) \/ CreateMeeting(c, m) \/ ClaimRetry(c, m)
    BY <2>1, FinalizeStuckKeeps, CreateMeetingKeeps, ClaimRetryKeeps
  <2>2. CASE ClientAt(c, "retry") /\ StartLists(c, "start")
    BY <2>2, StartListsKeeps DEF ClientAt
  <2> QED
    BY <1>2, <2>1, <2>2, ListEndsKeeps, InvokeFirstKeeps, InvokeFirstFailsKeeps,
       NoteRetryKeeps, CancelPutsKeeps DEF ClientStep
<1>3. ASSUME NEW c \in Clients, ClientAt(c, "idle") /\ StartLists(c, Starter)
      PROVE  IInv'
  <2>1. Starter \in {"start", "schedule"}
    BY DEF Starter
  <2> QED
    BY <2>1, <1>3, StartListsKeeps DEF ClientAt
<1>4. CASE UNCHANGED vars
  <2> USE DEF IInv
  <2>1. UNCHANGED <<meeting, stale, turnRows, persisted, events, worker, client>>
    BY <1>4 DEF vars
  <2>q. \A m \in Meetings : Quiet(m) <=> Quiet(m)'
    BY <2>1 DEF Quiet, WM, Creates, ClientAt, CM
  <2>2. Shapes'
    BY <2>1 DEF Shapes, TypeOK, Works, WM
  <2>3. (\A w \in Workers : Claimed(w)') /\ (\A c \in Clients : Holds(client[c])')
    BY <2>1, <2>q DEF Claimed, WorkerAt, HasRow, WM, Doc, Holds
  <2>4. Drivers'
    BY <2>1, <2>q DEF Drivers, PhaseExclusive, WM, Driven, Creates, ClientAt, CM
  <2> QED
    BY <2>1, <2>2, <2>3, <2>4 DEF Phased, Transcripts, Minutes, PersistOnce, Works, WM
<1>5. ASSUME NEW c \in Clients,
             ClientDies(c) \/ Look(c) \/ \E m \in Meetings : CancelReads(c, m)
      PROVE  IInv'
  BY <1>5, ClientDiesKeeps, LookKeeps, CancelReadsKeeps
<1> QED
  BY <1>1, <1>2, <1>3, <1>4, <1>5, EventGoesKeeps, AgeKeeps DEF Next

LEMMA InvAlways == Spec => []IInv
BY InitInv, NextInv, PTL DEF Spec

(* Every variable of the meeting engine keeps its type.                      *)
THEOREM MeetingTyped == Spec => []TypeOK
<1>1. IInv => TypeOK
  BY DEF IInv, Shapes
<1> QED
  BY <1>1, InvAlways, PTL

(* No two invocations run a phase of one meeting, whatever is delivered      *)
(* twice, dies, fails to be sent, is cancelled or failed as stuck.           *)
THEOREM PhaseExclusiveAlways == Spec => []PhaseExclusive
<1>1. IInv => PhaseExclusive
  BY DEF IInv, Drivers
<1> QED
  BY <1>1, InvAlways, PTL

(* The minutes of a meeting become actions once, where a mode has a phase    *)
(* only once, as PHASES_BY_MODE does.                                        *)
THEOREM PersistOnceAlways == Spec => []PersistOnce
<1>1. IInv => PersistOnce
  BY DEF IInv, Minutes
<1> QED
  BY <1>1, InvAlways, PTL

(* A meeting that succeeded has a row that counts every statement put, for   *)
(* any number of phases, turns and restarts.                                 *)
THEOREM TranscriptCompleteAlways == Spec => []TranscriptComplete
<1>1. ASSUME IInv, NEW m \in Meetings, meeting[m].status = "succeeded"
      PROVE  Cardinality(turnRows[m]) = meeting[m].turns
  <2>1. turnRows[m] = 1..meeting[m].turns /\ meeting[m].turns \in Nat
    BY <1>1, StateIsTyped DEF IInv, Shapes, Transcripts, Row
  <2> QED
    BY <2>1, FS_Interval
<1>2. IInv => TranscriptComplete
  BY <1>1 DEF TranscriptComplete
<1> QED
  BY <1>2, InvAlways, PTL
=============================================================================

--------------------------- MODULE OutreachProofs ---------------------------
(***************************************************************************)
(* Outreach: no step is mailed twice to a prospect, who asked for no more  *)
(* mail gets none, and no more mails leave than the day's cap, for any     *)
(* number of prospects, addresses, steps and invocations.                  *)
(***************************************************************************)
EXTENDS Outreach, FiniteSetTheorems, WellFoundedInduction, TLAPS

-----------------------------------------------------------------------------
(* What the state is made of.                                              *)

SendPcs   == {"idle", "suppressed", "reserve", "pending", "mail", "reload", "save"}
HandlePcs == {"idle", "suppress", "put", "find", "day", "dayPut"}

AnySend == [at : SendPcs, p : Prospects \cup {None}, step : Nat, doc : Row, warned : BOOLEAN]

AnyHandle == [at : HandlePcs, op : Ops, p : Prospects \cup {None}, from : Addresses \cup {None},
              doc : Row, seen : Day]

Shapes ==
  /\ mode \in Mode
  /\ row \in [Prospects -> Row]
  /\ day \in Day
  /\ sender \in [Senders -> AnySend]
  /\ \A s \in Senders : IF sender[s].at = "idle" THEN sender[s].p = None
                        ELSE sender[s].p \in Prospects /\ sender[s].step \in StepIds
  /\ handler \in [Handlers -> AnyHandle]
  /\ \A h \in Handlers : IF handler[h].at = "idle" THEN handler[h].p = None
                         ELSE handler[h].p \in Prospects
  /\ mails \in [Prospects -> [StepIds -> Nat]]
  /\ to \in [Prospects -> SUBSET (Addresses \cup {None})]

LEMMA RecordsAreTyped ==
  /\ NoRow \in Row /\ NoSend \in AnySend /\ NoHandle \in AnyHandle
  /\ NoSend.at = "idle" /\ NoSend.p = None /\ NoHandle.at = "idle" /\ NoHandle.p = None
<1>1. NoRow \in Row
  BY DEF NoRow, Row, Stages
<1>2. NoSend \in AnySend
  BY <1>1 DEF NoSend, AnySend, SendPcs
<1>3. NoHandle \in AnyHandle
  BY <1>1 DEF NoHandle, AnyHandle, HandlePcs, Ops, Day
<1> QED
  BY <1>1, <1>2, <1>3 DEF NoSend, NoHandle

(* The rows another invocation puts: the touches are those it read.          *)
LEMMA ChangedIsRow ==
  ASSUME NEW doc \in Row, NEW op \in Ops, NEW new \in Changed(doc, op)
  PROVE  new \in Row /\ new.touches = doc.touches
<1>1. \A st \in Stages : LET n == [doc EXCEPT !.stage = st] IN n \in Row /\ n.touches = doc.touches
  BY DEF Row
<1>2. \A a \in Addresses \cup {None} :
        LET n == [doc EXCEPT !.contact = a] IN n \in Row /\ n.touches = doc.touches
  BY DEF Row
<1>3. CASE op \in {"score", "start"}
  BY <1>1, <1>3 DEF Changed, Suppressing, Stages
<1>4. CASE op = "owner"
  <2>1. \/ \E st \in OwnerStages : new = [doc EXCEPT !.stage = st]
        \/ \E a \in Addresses \cup {None} : new = [doc EXCEPT !.contact = a]
    BY <1>4 DEF Changed, Suppressing
  <2> QED
    BY <2>1, <1>1, <1>2 DEF OwnerStages, Stages
<1>5. CASE op = "upsert"
  <2>1. new = doc \/ \E a \in Addresses \cup {None} : new = [doc EXCEPT !.contact = a]
    <3>1. \/ new = doc
          \/ new \in {[doc EXCEPT !.contact = a] : a \in Addresses}
      BY <1>5 DEF Changed, Suppressing
    <3> QED
      BY <3>1
  <2>2. CASE new = doc
    BY <2>2
  <2>3. ASSUME NEW a \in Addresses \cup {None}, new = [doc EXCEPT !.contact = a]
        PROVE  new \in Row /\ new.touches = doc.touches
    BY <2>3, <1>2
  <2> QED
    BY <2>1, <2>2, <2>3
<1>6. CASE op = "veto"
  BY <1>6 DEF Changed, Suppressing
<1>7. CASE op = "reply"
  BY <1>1, <1>7 DEF Changed, Suppressing, Stages
<1>8. CASE op \in Suppressing
  <2>1. new = [doc EXCEPT !.stage = "suppressed"]
    BY <1>8 DEF Changed, Suppressing
  <2> QED
    BY <2>1, <1>1 DEF Stages
<1> QED
  BY <1>3, <1>4, <1>5, <1>6, <1>7, <1>8 DEF Ops, Suppressing

(* What is saved after the mail has at least the touches of the row read.    *)
LEMMA RecordedIsRow ==
  ASSUME NEW latest \in Row, NEW held \in Row, NEW i \in StepIds
  PROVE  LET new == Recorded(latest, held, i) IN
         /\ new \in Row
         /\ new.contact = held.contact
         /\ Len(new.touches) >= Len(latest.touches)
<1> DEFINE known   == IF latest.touches = <<>> THEN held.touches ELSE latest.touches
           touches == Touched(known, i)
           stage   == IF i + 1 >= Steps \/ Len(touches) >= MaxTouches THEN "unresponsive"
                      ELSE IF latest.stage = "qualified" THEN "contacted" ELSE latest.stage
<1>1. /\ latest.touches \in Seq(StepIds) /\ held.touches \in Seq(StepIds)
      /\ latest.stage \in Stages /\ held.contact \in Addresses \cup {None}
  BY DEF Row
<1>2. known \in Seq(StepIds) /\ Len(known) >= Len(latest.touches)
  BY <1>1
<1>3. touches \in Seq(StepIds) /\ Len(touches) >= Len(known)
  <2> HIDE DEF known
  <2>1. touches = known \/ touches = Append(known, i)
    BY DEF Touched
  <2> QED
    BY <1>2, <2>1
<1>4. stage \in Stages
  BY <1>1 DEF Stages
<1>5. Recorded(latest, held, i) = [stage |-> stage, contact |-> held.contact, touches |-> touches]
  BY DEF Recorded
<1> HIDE DEF known, touches, stage
<1>6. Len(touches) >= Len(latest.touches)
  <2>1. Len(touches) \in Nat /\ Len(known) \in Nat /\ Len(latest.touches) \in Nat
    BY <1>1, <1>2, <1>3
  <2> QED
    BY <1>2, <1>3, <2>1
<1> QED
  BY <1>1, <1>3, <1>4, <1>5, <1>6 DEF Row

-----------------------------------------------------------------------------
(* Every step keeps the shapes.                                            *)

(* A sender goes on; what it holds is a row.                                 *)
LEMMA SenderGoesOn ==
  ASSUME Shapes, NEW s \in Senders, NEW rec \in AnySend, Sends(s, rec),
         IF rec.at = "idle" THEN rec.p = None ELSE rec.p \in Prospects /\ rec.step \in StepIds
  PROVE  /\ sender' \in [Senders -> AnySend]
         /\ \A v \in Senders : IF sender'[v].at = "idle" THEN sender'[v].p = None
                               ELSE sender'[v].p \in Prospects /\ sender'[v].step \in StepIds
BY DEF Sends, Shapes

LEMMA HandlerGoesOn ==
  ASSUME Shapes, NEW h \in Handlers, NEW rec \in AnyHandle,
         handler' = [handler EXCEPT ![h] = rec],
         IF rec.at = "idle" THEN rec.p = None ELSE rec.p \in Prospects
  PROVE  /\ handler' \in [Handlers -> AnyHandle]
         /\ \A v \in Handlers : IF handler'[v].at = "idle" THEN handler'[v].p = None
                                ELSE handler'[v].p \in Prospects
BY DEF Shapes

LEMMA SendGoesIsTyped ==
  ASSUME Shapes, NEW s \in Senders, NEW pc \in SendPcs \ {"idle"}, sender[s].at # "idle"
  PROVE  LET rec == [sender[s] EXCEPT !.at = pc] IN
         /\ rec \in AnySend /\ rec.at = pc
         /\ rec.p = sender[s].p /\ rec.step = sender[s].step /\ rec.doc = sender[s].doc
         /\ rec.warned = sender[s].warned
         /\ sender[s].p \in Prospects /\ sender[s].step \in StepIds /\ sender[s].doc \in Row
BY DEF Shapes, AnySend

LEMMA SendGoesOn ==
  ASSUME Shapes, NEW s \in Senders, NEW pc \in SendPcs \ {"idle"}, sender[s].at # "idle",
         SendGoes(s, pc)
  PROVE  /\ sender' \in [Senders -> AnySend]
         /\ \A v \in Senders : IF sender'[v].at = "idle" THEN sender'[v].p = None
                               ELSE sender'[v].p \in Prospects /\ sender'[v].step \in StepIds
<1> DEFINE rec == [sender[s] EXCEPT !.at = pc]
<1>1. /\ rec \in AnySend /\ rec.at = pc /\ rec.p \in Prospects /\ rec.step \in StepIds
  BY SendGoesIsTyped
<1>2. Sends(s, rec)
  BY DEF SendGoes
<1> HIDE DEF rec
<1> QED
  BY <1>1, <1>2, SenderGoesOn

LEMMA SendPutsDoc ==
  ASSUME Shapes, NEW s \in Senders, SendAt(s, "pending")
  PROVE  LET doc == [sender[s].doc EXCEPT !.touches = Append(@, sender[s].step)] IN
         /\ doc \in Row /\ doc.contact = sender[s].doc.contact
         /\ Len(doc.touches) = Len(sender[s].doc.touches) + 1
<1>1. sender[s].doc \in Row /\ sender[s].step \in StepIds
  BY DEF Shapes, AnySend, SendAt
<1>2. sender[s].doc.touches \in Seq(StepIds)
  BY <1>1 DEF Row
<1>3. /\ Append(sender[s].doc.touches, sender[s].step) \in Seq(StepIds)
      /\ Len(Append(sender[s].doc.touches, sender[s].step)) = Len(sender[s].doc.touches) + 1
  BY <1>1, <1>2
<1> DEFINE touches == Append(sender[s].doc.touches, sender[s].step)
<1> HIDE DEF touches
<1>4. touches \in Seq(StepIds) /\ Len(touches) = Len(sender[s].doc.touches) + 1
  BY <1>3 DEF touches
<1>5. LET doc == [sender[s].doc EXCEPT !.touches = touches] IN
      doc \in Row /\ doc.contact = sender[s].doc.contact /\ doc.touches = touches
  BY <1>1, <1>4 DEF Row
<1> QED
  BY <1>4, <1>5 DEF touches

LEMMA SendShapes ==
  ASSUME Shapes, NEW s \in Senders, Send(s)
  PROVE  Shapes'
<1>i. NoSend \in AnySend /\ NoSend.at = "idle" /\ NoSend.p = None
  BY RecordsAreTyped
<1>1. ASSUME NEW p \in mode.pipeline, NEW i \in StepIds, SendReads(s, p, i)
      PROVE  Shapes'
  <2> DEFINE rec == [at |-> "suppressed", p |-> p, step |-> i, doc |-> row[p],
                     warned |-> row[p].contact \in heard]
  <2>1. p \in Prospects
    BY DEF Shapes, Mode
  <2>2. i \in Nat
    BY OutreachAssumption DEF StepIds
  <2>w. (row[p].contact \in heard) \in BOOLEAN
    OBVIOUS
  <2>3. rec \in AnySend /\ rec.at = "suppressed" /\ rec.p = p /\ rec.step = i
    BY <2>1, <2>2, <2>w DEF Shapes, AnySend, SendPcs
  <2>4. Sends(s, rec) /\ UNCHANGED <<mode, row, day, handler, mails, to>>
    BY <1>1 DEF SendReads
  <2> HIDE DEF rec
  <2> QED
    BY <2>1, <2>3, <2>4, SenderGoesOn DEF Shapes
<1>2. CASE SendChecksSuppressed(s)
  <2>1. UNCHANGED <<mode, row, day, handler, mails, to>> /\ sender[s].at = "suppressed"
    BY <1>2 DEF SendChecksSuppressed, SendAt
  <2>2. CASE Sends(s, NoSend)
    BY <2>1, <2>2, <1>i, SenderGoesOn DEF Shapes
  <2>3. CASE SendGoes(s, "reserve")
    BY <2>1, <2>3, SendGoesOn DEF Shapes, SendPcs
  <2> QED
    BY <1>2, <2>2, <2>3 DEF SendChecksSuppressed
<1>3. CASE SendReserves(s)
  <2>1. UNCHANGED <<mode, row, handler, mails, to>> /\ sender[s].at = "reserve"
    BY <1>3 DEF SendReserves, SendAt
  <2>2. CASE day' = day /\ Sends(s, NoSend)
    BY <2>1, <2>2, <1>i, SenderGoesOn DEF Shapes
  <2>3. CASE day' = [day EXCEPT !.sent = @ + 1] /\ SendGoes(s, "pending")
    <3>1. day' \in Day
      BY <2>3 DEF Shapes, Day
    <3> QED
      BY <2>1, <2>3, <3>1, SendGoesOn DEF Shapes, SendPcs
  <2> QED
    BY <1>3, <2>2, <2>3 DEF SendReserves
<1>4. CASE SendPutsTouch(s)
  <2> DEFINE doc == [sender[s].doc EXCEPT !.touches = Append(@, sender[s].step)]
             rec == [sender[s] EXCEPT !.at = "mail", !.doc = doc]
  <2>1. /\ row' = [row EXCEPT ![sender[s].p] = doc] /\ Sends(s, rec)
        /\ UNCHANGED <<mode, day, handler, mails, to>> /\ SendAt(s, "pending")
    BY <1>4 DEF SendPutsTouch
  <2>2. doc \in Row
    BY <2>1, SendPutsDoc
  <2> HIDE DEF doc
  <2>3. /\ rec \in AnySend /\ rec.at = "mail" /\ rec.p \in Prospects /\ rec.step \in StepIds
        /\ row' \in [Prospects -> Row]
    BY <2>1, <2>2 DEF Shapes, AnySend, SendPcs, SendAt
  <2> HIDE DEF rec
  <2> QED
    BY <2>1, <2>3, SenderGoesOn DEF Shapes
<1>m. ASSUME SendAt(s, "mail"), Mailed(s)
      PROVE  /\ mails' \in [Prospects -> [StepIds -> Nat]]
             /\ to' \in [Prospects -> SUBSET (Addresses \cup {None})]
  <2>1. /\ sender[s].p \in Prospects /\ sender[s].step \in StepIds
        /\ sender[s].doc.contact \in Addresses \cup {None}
    BY <1>m DEF SendAt, Shapes, AnySend, Row
  <2> QED
    BY <1>m, <2>1 DEF Mailed, Shapes
<1>5. CASE SendMails(s)
  <2>1. /\ UNCHANGED <<mode, row, day, handler>> /\ sender[s].at = "mail"
        /\ SendGoes(s, "reload") /\ Mailed(s) /\ SendAt(s, "mail")
    BY <1>5 DEF SendMails, SendAt
  <2> QED
    BY <2>1, <1>m, SendGoesOn DEF Shapes, SendPcs
<1>6. CASE SendFails(s)
  <2>1. /\ UNCHANGED <<mode, row, handler>> /\ Sends(s, NoSend)
        /\ day' = [day EXCEPT !.sent = @ - 1]
    BY <1>6 DEF SendFails
  <2>2. day' \in Day
    BY <2>1 DEF Shapes, Day
  <2>3. /\ mails' \in [Prospects -> [StepIds -> Nat]]
        /\ to' \in [Prospects -> SUBSET (Addresses \cup {None})]
    BY <1>6, <1>m DEF SendFails, Shapes
  <2> QED
    BY <2>1, <2>2, <2>3, <1>i, SenderGoesOn DEF Shapes
<1>7. CASE SendReloads(s)
  <2> DEFINE doc == Recorded(row[sender[s].p], sender[s].doc, sender[s].step)
             rec == [sender[s] EXCEPT !.at = "save", !.doc = doc]
  <2>1. /\ Sends(s, rec) /\ sender[s].at = "reload"
        /\ UNCHANGED <<mode, row, day, handler, mails, to>>
    BY <1>7 DEF SendReloads, SendAt
  <2>2. doc \in Row
    BY <2>1, RecordedIsRow DEF Shapes, AnySend
  <2> HIDE DEF doc
  <2>3. rec \in AnySend /\ rec.at = "save" /\ rec.p \in Prospects /\ rec.step \in StepIds
    BY <2>1, <2>2 DEF Shapes, AnySend, SendPcs
  <2> HIDE DEF rec
  <2> QED
    BY <2>1, <2>3, SenderGoesOn DEF Shapes
<1>8. CASE SendSaves(s)
  <2>1. /\ row' = [row EXCEPT ![sender[s].p] = sender[s].doc] /\ Sends(s, NoSend)
        /\ UNCHANGED <<mode, day, handler, mails, to>>
    BY <1>8 DEF SendSaves
  <2>2. row' \in [Prospects -> Row]
    BY <2>1 DEF Shapes, AnySend
  <2> QED
    BY <2>1, <2>2, <1>i, SenderGoesOn DEF Shapes
<1> QED
  BY <1>1, <1>2, <1>3, <1>4, <1>5, <1>6, <1>7, <1>8 DEF Send

LEMMA HandleShapes ==
  ASSUME Shapes, NEW h \in Handlers, Handle(h)
  PROVE  Shapes'
<1>i. NoHandle \in AnyHandle /\ NoHandle.at = "idle" /\ NoHandle.p = None
  BY RecordsAreTyped
<1>h. handler[h] \in AnyHandle /\ handler[h].doc \in Row
  BY DEF Shapes, AnyHandle
<1>1. ASSUME NEW p \in mode.pipeline, NEW op \in Ops, HandlerReads(h, p, op)
      PROVE  Shapes'
  <2>1. PICK a \in Readers(p, op), doc \in Changed(row[p], op) :
          handler' = [handler EXCEPT ![h] =
            [NoHandle EXCEPT !.at = IF op \in Suppressing THEN "suppress" ELSE "put",
                             !.op = op, !.p = p, !.from = a, !.doc = doc]]
    BY <1>1 DEF HandlerReads
  <2> DEFINE pc  == IF op \in Suppressing THEN "suppress" ELSE "put"
             rec == [NoHandle EXCEPT !.at = pc, !.op = op, !.p = p, !.from = a, !.doc = doc]
  <2>2. p \in Prospects
    BY DEF Shapes, Mode
  <2>3. doc \in Row
    BY <2>2, ChangedIsRow DEF Shapes
  <2>4. a \in Addresses \cup {None}
    BY <2>2 DEF Readers, Shapes
  <2>5. handler' = [handler EXCEPT ![h] = rec]
    BY <2>1
  <2>6. pc \in HandlePcs \ {"idle"}
    BY DEF HandlePcs
  <2> HIDE DEF pc
  <2>7. rec \in AnyHandle /\ rec.at # "idle" /\ rec.p = p
    BY <2>2, <2>3, <2>4, <2>6, <1>i DEF AnyHandle
  <2> HIDE DEF rec
  <2>8. UNCHANGED <<mode, row, day, sender, mails, to>>
    BY <1>1 DEF HandlerReads
  <2> QED
    BY <2>2, <2>5, <2>7, <2>8, HandlerGoesOn DEF Shapes
<1>2. CASE HandlerSuppresses(h)
  <2> DEFINE rec == [handler[h] EXCEPT !.at = "put"]
  <2>1. /\ handler' = [handler EXCEPT ![h] = rec] /\ handler[h].at = "suppress"
        /\ UNCHANGED <<mode, row, day, sender, mails, to>>
    BY <1>2 DEF HandlerSuppresses, Shapes
  <2>2. rec \in AnyHandle /\ rec.at = "put" /\ rec.p \in Prospects
    BY <2>1 DEF Shapes, AnyHandle, HandlePcs
  <2> HIDE DEF rec
  <2> QED
    BY <2>1, <2>2, HandlerGoesOn DEF Shapes
<1>3. CASE HandlerPuts(h)
  <2> DEFINE rec == IF AfterPut(handler[h].op) = "idle" THEN NoHandle
                    ELSE [handler[h] EXCEPT !.at = AfterPut(handler[h].op)]
  <2>1. /\ handler' = [handler EXCEPT ![h] = rec] /\ handler[h].at = "put"
        /\ row' = [row EXCEPT ![handler[h].p] = handler[h].doc]
        /\ UNCHANGED <<mode, day, sender, mails, to>>
    BY <1>3 DEF HandlerPuts
  <2>2. row' \in [Prospects -> Row]
    BY <2>1, <1>h DEF Shapes
  <2>3. AfterPut(handler[h].op) \in HandlePcs
    BY DEF AfterPut, HandlePcs
  <2>4. /\ rec \in AnyHandle
        /\ IF rec.at = "idle" THEN rec.p = None ELSE rec.p \in Prospects
    BY <2>1, <2>3, <1>i DEF Shapes, AnyHandle
  <2> HIDE DEF rec
  <2> QED
    BY <2>1, <2>2, <2>4, HandlerGoesOn DEF Shapes
<1>4. CASE HandlerFindsContact(h)
  <2>1. PICK a \in Addresses \cup {None} :
          row' = [row EXCEPT ![handler[h].p] = [handler[h].doc EXCEPT !.contact = a]]
    BY <1>4 DEF HandlerFindsContact
  <2>2. [handler[h].doc EXCEPT !.contact = a] \in Row
    BY <1>h DEF Row
  <2>3. row' \in [Prospects -> Row]
    BY <2>1, <2>2 DEF Shapes
  <2>4. /\ handler' = [handler EXCEPT ![h] = NoHandle]
        /\ UNCHANGED <<mode, day, sender, mails, to>>
    BY <1>4 DEF HandlerFindsContact
  <2> QED
    BY <2>3, <2>4, <1>i, HandlerGoesOn DEF Shapes
<1>5. CASE HandlerReadsDay(h)
  <2> DEFINE rec == [handler[h] EXCEPT !.at = "dayPut", !.seen = day]
  <2>1. /\ handler' = [handler EXCEPT ![h] = rec] /\ handler[h].at = "day"
        /\ UNCHANGED <<mode, row, day, sender, mails, to>>
    BY <1>5 DEF HandlerReadsDay, Shapes
  <2>2. rec \in AnyHandle /\ rec.at = "dayPut" /\ rec.p \in Prospects
    BY <2>1 DEF Shapes, AnyHandle, HandlePcs
  <2> HIDE DEF rec
  <2> QED
    BY <2>1, <2>2, HandlerGoesOn DEF Shapes
<1>6. CASE HandlerPutsDay(h)
  <2>1. /\ handler' = [handler EXCEPT ![h] = NoHandle]
        /\ day' = [handler[h].seen EXCEPT !.bad = @ + 1]
        /\ UNCHANGED <<mode, row, sender, mails, to>>
    BY <1>6 DEF HandlerPutsDay
  <2>2. day' \in Day
    BY <2>1 DEF Shapes, AnyHandle, Day
  <2> QED
    BY <2>1, <2>2, <1>i, HandlerGoesOn DEF Shapes
<1> QED
  BY <1>1, <1>2, <1>3, <1>4, <1>5, <1>6 DEF Handle

LEMMA DiesShapes ==
  ASSUME Shapes, NEW i \in Senders \cup Handlers, Dies(i)
  PROVE  Shapes'
<1>1. UNCHANGED <<mode, row, day, mails, to>>
  BY DEF Dies
<1>2. CASE i \in Senders /\ Sends(i, NoSend) /\ handler' = handler
  BY <1>1, <1>2, RecordsAreTyped, SenderGoesOn DEF Shapes
<1>3. CASE i \in Handlers /\ handler' = [handler EXCEPT ![i] = NoHandle] /\ sender' = sender
  BY <1>1, <1>3, RecordsAreTyped, HandlerGoesOn DEF Shapes
<1> QED
  BY <1>2, <1>3 DEF Dies

LEMMA InitShapes ==
  ASSUME Init
  PROVE  Shapes
<1>1. row \in [Prospects -> Row]
  <2>1. \A p \in Prospects : [NoRow EXCEPT !.stage = "qualified", !.contact = Home[p]] \in Row
    BY OutreachAssumption, RecordsAreTyped DEF Row, Stages
  <2> QED
    BY <2>1 DEF Init
<1>2. mode \in Mode /\ day \in Day
  <2>1. mode \in Mode
    BY OutreachAssumption DEF Init
  <2>2. [sent |-> 0, bad |-> 0] \in Day
    BY DEF Day
  <2> QED
    BY <2>1, <2>2 DEF Init
<1>3. mails \in [Prospects -> [StepIds -> Nat]] /\ to \in [Prospects -> SUBSET (Addresses \cup {None})]
  BY DEF Init
<1>4. /\ sender \in [Senders -> AnySend] /\ handler \in [Handlers -> AnyHandle]
      /\ \A s \in Senders : sender[s] = NoSend
      /\ \A h \in Handlers : handler[h] = NoHandle
  BY RecordsAreTyped DEF Init
<1> QED
  BY <1>1, <1>2, <1>3, <1>4, RecordsAreTyped DEF Shapes

(* Prospects, sends and handlers hold records of their types, whatever the    *)
(* sizes of the counters.                                                     *)
THEOREM ShapesAlways == Spec => []Shapes
<1>1. Init => Shapes
  BY InitShapes
<1>2. Shapes /\ [Next]_vars => Shapes'
  <2> SUFFICES ASSUME Shapes, [Next]_vars
               PROVE  Shapes'
    OBVIOUS
  <2>1. CASE UNCHANGED vars
    BY <2>1 DEF vars, Shapes
  <2>2. CASE Next
    BY <2>2, SendShapes, HandleShapes, DiesShapes DEF Next
  <2> QED
    BY <2>1, <2>2
<1> QED
  BY <1>1, <1>2, PTL DEF Spec

-----------------------------------------------------------------------------
(* No step is mailed twice: while a prospect has one invocation at a time    *)
(* and a seat asks for the next step.                                        *)

Calm == ~Fault("overlap") /\ ~Fault("skips")

NTouches(p) == Len(row[p].touches)

Exclusive ==
  /\ \A s, v \in Senders : s # v /\ sender[s].p = sender[v].p => sender[s].p = None
  /\ \A h, g \in Handlers : h # g /\ handler[h].p = handler[g].p => handler[h].p = None
  /\ \A s \in Senders, h \in Handlers : sender[s].p = handler[h].p => sender[s].p = None

(* A copy has the touches of the row, the step is the next one before its    *)
(* touch is put and one of the touches after, not mailed until it is.        *)
SenderHolds(s) ==
  /\ sender[s].at \in {"suppressed", "reserve", "pending"} =>
       /\ Len(sender[s].doc.touches) = NTouches(sender[s].p)
       /\ sender[s].step = NTouches(sender[s].p)
  /\ sender[s].at = "mail" => /\ sender[s].step < NTouches(sender[s].p)
                              /\ mails[sender[s].p][sender[s].step] = 0
  /\ sender[s].at = "save" => Len(sender[s].doc.touches) >= NTouches(sender[s].p)

HandlerHolds(h) ==
  handler[h].at \in {"suppress", "put", "find"} =>
    Len(handler[h].doc.touches) = NTouches(handler[h].p)

MailIsTouched(p) ==
  \A i \in StepIds : mails[p][i] <= 1 /\ (mails[p][i] = 1 => i < NTouches(p))

Once ==
  /\ Exclusive
  /\ \A s \in Senders : SenderHolds(s)
  /\ \A h \in Handlers : HandlerHolds(h)
  /\ \A p \in Prospects : MailIsTouched(p)

LEMMA LensAreNat ==
  ASSUME Shapes
  PROVE  /\ \A p \in Prospects : NTouches(p) \in Nat
         /\ \A s \in Senders : Len(sender[s].doc.touches) \in Nat
         /\ \A h \in Handlers : Len(handler[h].doc.touches) \in Nat
<1>1. \A doc \in Row : Len(doc.touches) \in Nat
  BY DEF Row
<1> QED
  BY <1>1 DEF Shapes, NTouches, AnySend, AnyHandle

(* A step of a sender in flight, on its own prospect only.                   *)
LEMMA SenderStepOnce ==
  ASSUME Shapes, Once, NEW s \in Senders, sender[s].at # "idle",
         \A v \in Senders \ {s} : sender'[v] = sender[v],
         handler' = handler, sender'[s].p \in {sender[s].p, None},
         \A q \in Prospects \ {sender[s].p} : row'[q] = row[q] /\ mails'[q] = mails[q],
         SenderHolds(s)',
         \A i \in StepIds : /\ mails'[sender[s].p][i] <= 1
                            /\ mails'[sender[s].p][i] = 1 => i < Len(row'[sender[s].p].touches)
  PROVE  Once'
<1>1. sender[s].p \in Prospects /\ None \notin Prospects
  BY OutreachAssumption DEF Shapes
<1>2. Exclusive'
  BY <1>1 DEF Once, Exclusive
<1>3. \A v \in Senders : SenderHolds(v)'
  <2> TAKE v \in Senders
  <2>1. CASE v # s /\ sender[v].at # "idle"
    <3>1. sender[v].p \in Prospects \ {sender[s].p} /\ sender'[v] = sender[v]
      BY <1>1, <2>1 DEF Shapes, Once, Exclusive
    <3> QED
      BY <3>1 DEF Once, SenderHolds, NTouches
  <2>2. CASE v # s /\ sender[v].at = "idle"
    BY <2>2 DEF SenderHolds
  <2> QED
    BY <2>1, <2>2
<1>4. \A h \in Handlers : HandlerHolds(h)'
  <2> TAKE h \in Handlers
  <2>1. CASE handler[h].at # "idle"
    <3>1. handler[h].p \in Prospects \ {sender[s].p}
      BY <1>1, <2>1 DEF Shapes, Once, Exclusive
    <3> QED
      BY <3>1 DEF Once, HandlerHolds, NTouches
  <2>2. CASE handler[h].at = "idle"
    BY <2>2 DEF HandlerHolds
  <2> QED
    BY <2>1, <2>2
<1>5. \A p \in Prospects : MailIsTouched(p)'
  BY DEF Once, MailIsTouched, NTouches
<1> QED
  BY <1>2, <1>3, <1>4, <1>5 DEF Once

(* A step of another invocation in flight: the touches stay as many.         *)
LEMMA HandlerStepOnce ==
  ASSUME Shapes, Once, NEW h \in Handlers, handler[h].at # "idle",
         \A g \in Handlers \ {h} : handler'[g] = handler[g],
         sender' = sender, mails' = mails, handler'[h].p \in {handler[h].p, None},
         \A q \in Prospects : Len(row'[q].touches) = NTouches(q),
         HandlerHolds(h)'
  PROVE  Once'
<1>1. handler[h].p \in Prospects /\ None \notin Prospects
  BY OutreachAssumption DEF Shapes
<1>2. Exclusive'
  BY <1>1 DEF Once, Exclusive
<1>3. \A v \in Senders : SenderHolds(v)'
  <2> TAKE v \in Senders
  <2>1. CASE sender[v].at # "idle"
    <3>1. sender[v].p \in Prospects
      BY <2>1 DEF Shapes
    <3> QED
      BY <3>1 DEF Once, SenderHolds, NTouches
  <2>2. CASE sender[v].at = "idle"
    BY <2>2 DEF SenderHolds
  <2> QED
    BY <2>1, <2>2
<1>4. \A g \in Handlers : HandlerHolds(g)'
  <2> TAKE g \in Handlers
  <2>1. CASE g # h /\ handler[g].at # "idle"
    <3>1. handler[g].p \in Prospects /\ handler'[g] = handler[g]
      BY <2>1 DEF Shapes
    <3> QED
      BY <3>1 DEF Once, HandlerHolds, NTouches
  <2>2. CASE g # h /\ handler[g].at = "idle"
    BY <2>2 DEF HandlerHolds
  <2> QED
    BY <2>1, <2>2
<1>5. \A p \in Prospects : MailIsTouched(p)'
  BY DEF Once, MailIsTouched, NTouches
<1> QED
  BY <1>2, <1>3, <1>4, <1>5 DEF Once

(* An invocation takes a prospect nobody works on, with the copy it reads.   *)
LEMMA SendReadsOnce ==
  ASSUME Shapes, Calm, Once, NEW s \in Senders, NEW p \in Prospects, NEW i \in StepIds,
         SendReads(s, p, i)
  PROVE  Once'
<1>1. /\ ~Busy(p) /\ i = Len(row[p].touches) /\ sender[s].at = "idle"
      /\ UNCHANGED <<row, handler, mails>>
  BY DEF SendReads, Free, MayBeSent, Calm, SendAt
<1>2. /\ sender'[s].at = "suppressed" /\ sender'[s].p = p /\ sender'[s].step = i
      /\ sender'[s].doc = row[p]
      /\ \A v \in Senders \ {s} : sender'[v] = sender[v]
  BY DEF SendReads, Sends, Shapes
<1>3. Exclusive'
  BY <1>1, <1>2 DEF Once, Exclusive, Busy
<1>4. \A v \in Senders : SenderHolds(v)'
  BY <1>1, <1>2 DEF Once, SenderHolds, NTouches
<1>5. (\A h \in Handlers : HandlerHolds(h)') /\ (\A q \in Prospects : MailIsTouched(q)')
  BY <1>1 DEF Once, HandlerHolds, MailIsTouched, NTouches
<1> QED
  BY <1>3, <1>4, <1>5 DEF Once

LEMMA HandlerReadsOnce ==
  ASSUME Shapes, Calm, Once, NEW h \in Handlers, NEW p \in Prospects, NEW op \in Ops,
         HandlerReads(h, p, op)
  PROVE  Once'
<1>1. PICK a \in Readers(p, op), doc \in Changed(row[p], op) :
        handler' = [handler EXCEPT ![h] =
          [NoHandle EXCEPT !.at = IF op \in Suppressing THEN "suppress" ELSE "put",
                           !.op = op, !.p = p, !.from = a, !.doc = doc]]
  BY DEF HandlerReads
<1>2. ~Busy(p) /\ UNCHANGED <<row, sender, mails>>
  BY DEF HandlerReads, Free, Calm
<1>3. doc.touches = row[p].touches
  BY ChangedIsRow DEF Shapes
<1>4. /\ handler'[h].p = p /\ handler'[h].doc = doc
      /\ \A g \in Handlers \ {h} : handler'[g] = handler[g]
  BY <1>1 DEF Shapes, NoHandle
<1>5. Exclusive'
  BY <1>2, <1>4 DEF Once, Exclusive, Busy
<1>6. \A g \in Handlers : HandlerHolds(g)'
  BY <1>2, <1>3, <1>4 DEF Once, HandlerHolds, NTouches
<1>7. (\A s \in Senders : SenderHolds(s)') /\ (\A q \in Prospects : MailIsTouched(q)')
  BY <1>2 DEF Once, SenderHolds, MailIsTouched, NTouches
<1> QED
  BY <1>5, <1>6, <1>7 DEF Once

LEMMA SendOnce ==
  ASSUME Shapes, Calm, Once, NEW s \in Senders, Send(s)
  PROVE  Once'
<1> DEFINE r == sender[s]
<1>h. SenderHolds(s)
  BY DEF Once
<1>n. \A p \in Prospects : NTouches(p) \in Nat
  BY LensAreNat
<1>f. r.at # "idle" => r.p \in Prospects /\ r.step \in StepIds /\ r.step \in Nat
  BY OutreachAssumption DEF Shapes, StepIds
<1>m. r.at # "idle" =>
        \A i \in StepIds : mails[r.p][i] <= 1 /\ (mails[r.p][i] = 1 => i < NTouches(r.p))
  BY <1>f DEF Once, MailIsTouched
<1>i. NoSend.at = "idle" /\ NoSend.p = None
  BY RecordsAreTyped
<1>q. ASSUME r.at # "idle", sender' = [sender EXCEPT ![s] = NoSend],
             UNCHANGED <<row, handler, mails>>
      PROVE  Once'
  <2>1. sender'[s] = NoSend /\ \A v \in Senders \ {s} : sender'[v] = sender[v]
    BY <1>q DEF Shapes
  <2>2. SenderHolds(s)'
    BY <2>1, <1>i DEF SenderHolds
  <2> QED
    BY <2>1, <2>2, <1>q, <1>i, <1>m, SenderStepOnce DEF NTouches
<1>g. ASSUME NEW pc \in SendPcs \ {"idle"}, r.at # "idle", SendGoes(s, pc)
      PROVE  /\ sender'[s].at = pc /\ sender'[s].p = r.p /\ sender'[s].step = r.step
             /\ sender'[s].doc = r.doc
             /\ \A v \in Senders \ {s} : sender'[v] = sender[v]
  BY <1>g, SendGoesIsTyped DEF SendGoes, Sends, Shapes
<1>1. ASSUME NEW p \in mode.pipeline, NEW i \in StepIds, SendReads(s, p, i)
      PROVE  Once'
  BY <1>1, SendReadsOnce DEF Shapes, Mode
<1>2. CASE SendChecksSuppressed(s)
  <2>1. r.at = "suppressed" /\ UNCHANGED <<row, handler, mails>>
    BY <1>2 DEF SendChecksSuppressed, SendAt
  <2>2. CASE Sends(s, NoSend)
    BY <2>1, <2>2, <1>q DEF Sends
  <2>3. CASE SendGoes(s, "reserve")
    <3>1. /\ sender'[s].at = "reserve" /\ sender'[s].p = r.p /\ sender'[s].step = r.step
          /\ sender'[s].doc = r.doc
          /\ \A v \in Senders \ {s} : sender'[v] = sender[v]
      BY <2>1, <2>3, <1>g DEF SendPcs
    <3>2. SenderHolds(s)'
      BY <2>1, <3>1, <1>h DEF SenderHolds, NTouches
    <3> QED
      BY <2>1, <3>1, <3>2, <1>m, SenderStepOnce DEF NTouches
  <2> QED
    BY <1>2, <2>2, <2>3 DEF SendChecksSuppressed
<1>3. CASE SendReserves(s)
  <2>1. r.at = "reserve" /\ UNCHANGED <<row, handler, mails>>
    BY <1>3 DEF SendReserves, SendAt
  <2>2. CASE Sends(s, NoSend)
    BY <2>1, <2>2, <1>q DEF Sends
  <2>3. CASE SendGoes(s, "pending")
    <3>1. /\ sender'[s].at = "pending" /\ sender'[s].p = r.p /\ sender'[s].step = r.step
          /\ sender'[s].doc = r.doc
          /\ \A v \in Senders \ {s} : sender'[v] = sender[v]
      BY <2>1, <2>3, <1>g DEF SendPcs
    <3>2. SenderHolds(s)'
      BY <2>1, <3>1, <1>h DEF SenderHolds, NTouches
    <3> QED
      BY <2>1, <3>1, <3>2, <1>m, SenderStepOnce DEF NTouches
  <2> QED
    BY <1>3, <2>2, <2>3 DEF SendReserves
<1>4. CASE SendPutsTouch(s)
  <2> DEFINE doc == [sender[s].doc EXCEPT !.touches = Append(@, sender[s].step)]
             rec == [sender[s] EXCEPT !.at = "mail", !.doc = doc]
  <2>1. /\ row' = [row EXCEPT ![r.p] = doc] /\ sender' = [sender EXCEPT ![s] = rec]
        /\ UNCHANGED <<handler, mails>> /\ SendAt(s, "pending")
    BY <1>4 DEF SendPutsTouch, Sends
  <2>2. Len(doc.touches) = Len(r.doc.touches) + 1
    BY <2>1, SendPutsDoc
  <2> HIDE DEF doc
  <2>3. /\ rec.at = "mail" /\ rec.p = r.p /\ rec.step = r.step
    BY DEF Shapes, AnySend
  <2> HIDE DEF rec
  <2>4. r.at = "pending" /\ r.p \in Prospects /\ r.step \in StepIds
    BY <2>1, <1>f DEF SendAt
  <2>5. /\ row'[r.p] = doc /\ \A q \in Prospects \ {r.p} : row'[q] = row[q]
        /\ sender'[s] = rec /\ \A v \in Senders \ {s} : sender'[v] = sender[v]
    BY <2>1, <2>4 DEF Shapes
  <2>6. Len(row'[r.p].touches) = NTouches(r.p) + 1 /\ r.step = NTouches(r.p)
    BY <2>2, <2>4, <2>5, <1>h DEF SenderHolds
  <2>7. mails[r.p][r.step] = 0
    <3>1. mails[r.p][r.step] \in Nat
      BY <2>4 DEF Shapes
    <3>2. mails[r.p][r.step] <= 1 /\ mails[r.p][r.step] # 1
      BY <2>4, <2>6, <1>f, <1>m, <1>n
    <3> QED
      BY <3>1, <3>2
  <2>8. SenderHolds(s)'
    <3>1. r.step < Len(row'[r.p].touches)
      BY <2>4, <2>6, <1>n
    <3> QED
      BY <2>1, <2>3, <2>5, <2>7, <3>1 DEF SenderHolds, NTouches
  <2>9. \A i \in StepIds : /\ mails'[r.p][i] <= 1
                           /\ mails'[r.p][i] = 1 => i < Len(row'[r.p].touches)
    <3>1. \A i \in StepIds : i \in Int
      BY OutreachAssumption DEF StepIds
    <3> QED
      BY <2>1, <2>4, <2>6, <3>1, <1>m, <1>n
  <2> QED
    BY <2>1, <2>3, <2>4, <2>5, <2>8, <2>9, SenderStepOnce
<1>d. ASSUME r.at = "mail", Mailed(s), row' = row
      PROVE  /\ \A q \in Prospects \ {r.p} : mails'[q] = mails[q]
             /\ \A i \in StepIds : /\ mails'[r.p][i] <= 1
                                   /\ mails'[r.p][i] = 1 => i < Len(row'[r.p].touches)
  <2>1. r.p \in Prospects /\ r.step \in StepIds
    BY <1>d, <1>f
  <2>2. mails' = [mails EXCEPT ![r.p] = [mails[r.p] EXCEPT ![r.step] = mails[r.p][r.step] + 1]]
    BY <1>d DEF Mailed
  <2>3. \A q \in Prospects \ {r.p} : mails'[q] = mails[q]
    BY <2>1, <2>2 DEF Shapes
  <2>4. mails'[r.p] = [mails[r.p] EXCEPT ![r.step] = mails[r.p][r.step] + 1]
    BY <2>1, <2>2 DEF Shapes
  <2>5. mails[r.p] \in [StepIds -> Nat]
    BY <2>1 DEF Shapes
  <2>6. \A i \in StepIds : mails'[r.p][i] = IF i = r.step THEN mails[r.p][i] + 1 ELSE mails[r.p][i]
    BY <2>1, <2>4, <2>5
  <2>7. mails[r.p][r.step] = 0 /\ r.step < NTouches(r.p)
    BY <1>d, <1>h DEF SenderHolds
  <2>8. \A i \in StepIds : /\ mails'[r.p][i] <= 1
                           /\ mails'[r.p][i] = 1 => i < NTouches(r.p)
    BY <1>d, <2>5, <2>6, <2>7, <1>m
  <2> QED
    BY <1>d, <2>3, <2>8 DEF NTouches
<1>5. CASE SendMails(s)
  <2>1. /\ r.at = "mail" /\ Mailed(s) /\ row' = row /\ handler' = handler
        /\ SendGoes(s, "reload")
    BY <1>5 DEF SendMails, SendAt
  <2>2. /\ sender'[s].at = "reload" /\ sender'[s].p = r.p
        /\ \A v \in Senders \ {s} : sender'[v] = sender[v]
    BY <2>1, <1>g DEF SendPcs
  <2>3. SenderHolds(s)'
    BY <2>2 DEF SenderHolds
  <2> QED
    BY <2>1, <2>2, <2>3, <1>d, SenderStepOnce
<1>6. CASE SendFails(s)
  <2>1. /\ r.at = "mail" /\ row' = row /\ handler' = handler
        /\ sender' = [sender EXCEPT ![s] = NoSend]
        /\ UNCHANGED mails \/ Mailed(s)
    BY <1>6 DEF SendFails, SendAt, Sends
  <2>2. CASE UNCHANGED mails
    BY <2>1, <2>2, <1>q
  <2>3. CASE Mailed(s)
    <3>1. sender'[s] = NoSend /\ \A v \in Senders \ {s} : sender'[v] = sender[v]
      BY <2>1 DEF Shapes
    <3>2. SenderHolds(s)'
      BY <3>1, <1>i DEF SenderHolds
    <3> QED
      BY <2>1, <2>3, <3>1, <3>2, <1>d, <1>i, SenderStepOnce
  <2> QED
    BY <2>1, <2>2, <2>3
<1>7. CASE SendReloads(s)
  <2> DEFINE doc == Recorded(row[r.p], r.doc, r.step)
             rec == [sender[s] EXCEPT !.at = "save", !.doc = doc]
  <2>1. /\ sender' = [sender EXCEPT ![s] = rec] /\ r.at = "reload"
        /\ UNCHANGED <<row, handler, mails>>
    BY <1>7 DEF SendReloads, SendAt, Sends
  <2>2. Len(doc.touches) >= NTouches(r.p)
    BY <2>1, <1>f, RecordedIsRow DEF Shapes, AnySend, NTouches
  <2> HIDE DEF doc
  <2>3. rec.at = "save" /\ rec.p = r.p /\ rec.doc = doc
    BY DEF Shapes, AnySend
  <2> HIDE DEF rec
  <2>4. sender'[s] = rec /\ \A v \in Senders \ {s} : sender'[v] = sender[v]
    BY <2>1 DEF Shapes
  <2>5. SenderHolds(s)'
    BY <2>1, <2>2, <2>3, <2>4 DEF SenderHolds, NTouches
  <2> QED
    BY <2>1, <2>3, <2>4, <2>5, <1>m, SenderStepOnce DEF NTouches
<1>8. CASE SendSaves(s)
  <2>1. /\ row' = [row EXCEPT ![r.p] = r.doc] /\ sender' = [sender EXCEPT ![s] = NoSend]
        /\ r.at = "save" /\ UNCHANGED <<handler, mails>>
    BY <1>8 DEF SendSaves, SendAt, Sends
  <2>2. r.p \in Prospects
    BY <2>1, <1>f
  <2>3. /\ row'[r.p] = r.doc /\ \A q \in Prospects \ {r.p} : row'[q] = row[q]
        /\ sender'[s] = NoSend /\ \A v \in Senders \ {s} : sender'[v] = sender[v]
    BY <2>1, <2>2 DEF Shapes
  <2>4. SenderHolds(s)'
    BY <2>3, <1>i DEF SenderHolds
  <2>5. Len(r.doc.touches) >= NTouches(r.p) /\ Len(r.doc.touches) \in Nat
    BY <2>1, <1>h, LensAreNat DEF SenderHolds
  <2>6. \A i \in StepIds : /\ mails'[r.p][i] <= 1
                           /\ mails'[r.p][i] = 1 => i < Len(row'[r.p].touches)
    <3>1. \A i \in StepIds : i \in Int
      BY OutreachAssumption DEF StepIds
    <3> QED
      BY <2>1, <2>2, <2>3, <2>5, <3>1, <1>m, <1>n
  <2> QED
    BY <2>1, <2>3, <2>4, <2>6, <1>i, SenderStepOnce
<1> QED
  BY <1>1, <1>2, <1>3, <1>4, <1>5, <1>6, <1>7, <1>8 DEF Send

LEMMA HandleOnce ==
  ASSUME Shapes, Calm, Once, NEW h \in Handlers, Handle(h)
  PROVE  Once'
<1> DEFINE r == handler[h]
<1>h. HandlerHolds(h)
  BY DEF Once
<1>f. r \in AnyHandle /\ (r.at # "idle" => r.p \in Prospects)
  BY DEF Shapes
<1>i. NoHandle.at = "idle" /\ NoHandle.p = None
  BY RecordsAreTyped
<1>q. ASSUME r.at # "idle", handler' = [handler EXCEPT ![h] = NoHandle],
             UNCHANGED <<sender, mails>>,
             \A q \in Prospects : Len(row'[q].touches) = NTouches(q)
      PROVE  Once'
  <2>1. handler'[h] = NoHandle /\ \A g \in Handlers \ {h} : handler'[g] = handler[g]
    BY <1>q DEF Shapes
  <2>2. HandlerHolds(h)'
    BY <2>1, <1>i DEF HandlerHolds
  <2> QED
    BY <2>1, <2>2, <1>q, <1>i, HandlerStepOnce
<1>p. ASSUME r.at \in {"put", "find"}, NEW doc, doc.touches = r.doc.touches,
             row' = [row EXCEPT ![r.p] = doc]
      PROVE  \A q \in Prospects : Len(row'[q].touches) = NTouches(q)
  <2> TAKE q \in Prospects
  <2>1. CASE q = r.p
    BY <1>p, <2>1, <1>h DEF HandlerHolds, Shapes
  <2>2. CASE q # r.p
    BY <1>p, <2>2 DEF Shapes, NTouches
  <2> QED
    BY <2>1, <2>2
<1>1. ASSUME NEW p \in mode.pipeline, NEW op \in Ops, HandlerReads(h, p, op)
      PROVE  Once'
  BY <1>1, HandlerReadsOnce DEF Shapes, Mode
<1>2. CASE HandlerSuppresses(h)
  <2> DEFINE rec == [r EXCEPT !.at = "put"]
  <2>1. /\ handler' = [handler EXCEPT ![h] = rec] /\ r.at = "suppress"
        /\ UNCHANGED <<row, sender, mails>>
    BY <1>2 DEF HandlerSuppresses, Shapes
  <2>2. rec.at = "put" /\ rec.p = r.p /\ rec.doc = r.doc
    BY <1>f DEF AnyHandle
  <2> HIDE DEF rec
  <2>3. handler'[h] = rec /\ \A g \in Handlers \ {h} : handler'[g] = handler[g]
    BY <2>1 DEF Shapes
  <2>4. HandlerHolds(h)'
    BY <2>1, <2>2, <2>3, <1>h DEF HandlerHolds, NTouches
  <2> QED
    BY <2>1, <2>2, <2>3, <2>4, HandlerStepOnce DEF NTouches
<1>3. CASE HandlerPuts(h)
  <2>1. /\ row' = [row EXCEPT ![r.p] = r.doc] /\ r.at = "put"
        /\ UNCHANGED <<sender, mails>>
    BY <1>3 DEF HandlerPuts
  <2>2. \A q \in Prospects : Len(row'[q].touches) = NTouches(q)
    BY <2>1, <1>p
  <2>3. CASE AfterPut(r.op) = "idle"
    BY <1>3, <2>1, <2>2, <2>3, <1>q DEF HandlerPuts
  <2>4. CASE AfterPut(r.op) # "idle"
    <3> DEFINE rec == [r EXCEPT !.at = AfterPut(r.op)]
    <3>1. handler' = [handler EXCEPT ![h] = rec]
      BY <1>3, <2>4 DEF HandlerPuts
    <3>2. rec.p = r.p /\ rec.doc = r.doc
      BY <1>f DEF AnyHandle
    <3> HIDE DEF rec
    <3>3. handler'[h] = rec /\ \A g \in Handlers \ {h} : handler'[g] = handler[g]
      BY <3>1 DEF Shapes
    <3>4. HandlerHolds(h)'
      BY <2>1, <2>2, <3>2, <3>3, <1>f, <1>h DEF HandlerHolds, NTouches
    <3> QED
      BY <2>1, <2>2, <3>2, <3>3, <3>4, HandlerStepOnce
  <2> QED
    BY <2>3, <2>4
<1>4. CASE HandlerFindsContact(h)
  <2>1. PICK a \in Addresses \cup {None} :
          row' = [row EXCEPT ![r.p] = [r.doc EXCEPT !.contact = a]]
    BY <1>4 DEF HandlerFindsContact
  <2>2. [r.doc EXCEPT !.contact = a].touches = r.doc.touches
    BY <1>f DEF AnyHandle, Row
  <2>3. /\ r.at = "find" /\ handler' = [handler EXCEPT ![h] = NoHandle]
        /\ UNCHANGED <<sender, mails>>
    BY <1>4 DEF HandlerFindsContact
  <2>4. \A q \in Prospects : Len(row'[q].touches) = NTouches(q)
    BY <2>1, <2>2, <2>3, <1>p
  <2> QED
    BY <2>3, <2>4, <1>q
<1>5. CASE HandlerReadsDay(h)
  <2> DEFINE rec == [r EXCEPT !.at = "dayPut", !.seen = day]
  <2>1. /\ handler' = [handler EXCEPT ![h] = rec] /\ r.at = "day"
        /\ UNCHANGED <<row, sender, mails>>
    BY <1>5 DEF HandlerReadsDay, Shapes
  <2>2. rec.at = "dayPut" /\ rec.p = r.p
    BY <1>f DEF AnyHandle
  <2> HIDE DEF rec
  <2>3. handler'[h] = rec /\ \A g \in Handlers \ {h} : handler'[g] = handler[g]
    BY <2>1 DEF Shapes
  <2>4. HandlerHolds(h)'
    BY <2>2, <2>3 DEF HandlerHolds
  <2> QED
    BY <2>1, <2>2, <2>3, <2>4, HandlerStepOnce DEF NTouches
<1>6. CASE HandlerPutsDay(h)
  BY <1>6, <1>q DEF HandlerPutsDay, NTouches
<1> QED
  BY <1>1, <1>2, <1>3, <1>4, <1>5, <1>6 DEF Handle

LEMMA DiesOnce ==
  ASSUME Shapes, Once, NEW i \in Senders \cup Handlers, Dies(i)
  PROVE  Once'
<1>i. /\ NoSend.at = "idle" /\ NoSend.p = None
      /\ NoHandle.at = "idle" /\ NoHandle.p = None
  BY RecordsAreTyped
<1>1. UNCHANGED <<row, mails>>
  BY DEF Dies
<1>2. CASE i \in Senders /\ sender[i].at # "idle" /\ Sends(i, NoSend) /\ handler' = handler
  <2>1. sender'[i] = NoSend /\ \A v \in Senders \ {i} : sender'[v] = sender[v]
    BY <1>2 DEF Shapes, Sends
  <2>2. SenderHolds(i)'
    BY <2>1, <1>i DEF SenderHolds
  <2>3. \A k \in StepIds : /\ mails'[sender[i].p][k] <= 1
                           /\ mails'[sender[i].p][k] = 1 => k < Len(row'[sender[i].p].touches)
    BY <1>1, <1>2 DEF Shapes, Once, MailIsTouched, NTouches
  <2> QED
    BY <1>1, <1>2, <2>1, <2>2, <2>3, <1>i, SenderStepOnce
<1>3. CASE /\ i \in Handlers /\ handler[i].at # "idle"
           /\ handler' = [handler EXCEPT ![i] = NoHandle] /\ sender' = sender
  <2>1. handler'[i] = NoHandle /\ \A g \in Handlers \ {i} : handler'[g] = handler[g]
    BY <1>3 DEF Shapes
  <2>2. HandlerHolds(i)'
    BY <2>1, <1>i DEF HandlerHolds
  <2> QED
    BY <1>1, <1>3, <2>1, <2>2, <1>i, HandlerStepOnce DEF NTouches
<1> QED
  BY <1>2, <1>3 DEF Dies

LEMMA InitOnce ==
  ASSUME Init
  PROVE  Once
<1>1. /\ \A s \in Senders : sender[s] = NoSend
      /\ \A h \in Handlers : handler[h] = NoHandle
      /\ \A p \in Prospects, i \in StepIds : mails[p][i] = 0
  BY DEF Init
<1>2. Exclusive
  BY <1>1, RecordsAreTyped DEF Exclusive
<1>3. (\A s \in Senders : SenderHolds(s)) /\ (\A h \in Handlers : HandlerHolds(h))
  BY <1>1, RecordsAreTyped DEF SenderHolds, HandlerHolds
<1>4. \A p \in Prospects : MailIsTouched(p)
  BY <1>1 DEF MailIsTouched
<1> QED
  BY <1>2, <1>3, <1>4 DEF Once

LEMMA ModeStays ==
  ASSUME [Next]_vars
  PROVE  mode' = mode
BY DEF Next, vars, Send, Handle, Dies, SendReads, SendChecksSuppressed, SendReserves, SendPutsTouch,
   SendMails, SendFails, SendReloads, SendSaves, HandlerReads, HandlerSuppresses, HandlerPuts,
   HandlerFindsContact, HandlerReadsDay, HandlerPutsDay

(* Where nothing shrinks a prospect's touches, the touch of a step precedes its *)
(* mail and no other send holds the same step.                                *)
THEOREM OnceAlways == Spec => [](Calm => Once)
<1>1. Init => (Calm => Once)
  BY InitOnce
<1>2. Shapes /\ (Calm => Once) /\ [Next]_vars => (Calm => Once)'
  <2> SUFFICES ASSUME Shapes, Calm => Once, [Next]_vars, Calm'
               PROVE  Once'
    OBVIOUS
  <2>1. Calm /\ Once
    BY ModeStays DEF Calm, Fault
  <2>2. CASE UNCHANGED vars
    BY <2>1, <2>2 DEF vars, Once, Exclusive, SenderHolds, HandlerHolds, MailIsTouched, NTouches
  <2>3. CASE Next
    BY <2>1, <2>3, SendOnce, HandleOnce, DiesOnce DEF Next
  <2> QED
    BY <2>2, <2>3
<1> QED
  BY <1>1, <1>2, ShapesAlways, PTL DEF Spec

(* No step of a sequence is mailed twice to a prospect, although the mail be *)
(* refused, its answer lost, or the send die before or after it.             *)
THEOREM OncePerStepAlways == Spec => []OncePerStep
<1>1. (Calm => Once) => OncePerStep
  BY DEF Calm, Once, MailIsTouched, OncePerStep
<1> QED
  BY <1>1, OnceAlways, PTL

-----------------------------------------------------------------------------
(* Who asked for no more mail gets none: while nobody changes the contact of *)
(* a prospect, whom the link suppresses is who followed it.                  *)

Plain == mode.ops \cap {"score", "owner"} = {}

HomeContacts ==
  /\ \A p \in Prospects : row[p].contact = Home[p] /\ to[p] \subseteq {Home[p]}
  /\ \A s \in Senders : sender[s].at # "idle" => sender[s].doc.contact = Home[sender[s].p]
  /\ \A h \in Handlers :
       /\ handler[h].at # "idle" => /\ handler[h].doc.contact = Home[handler[h].p]
                                    /\ handler[h].op \in mode.ops
       /\ handler[h].at # "idle" /\ handler[h].op \in {"stop", "click"} =>
            handler[h].from = Home[handler[h].p]
       /\ handler[h].at = "find" => handler[h].op = "score"

(* The address is on the list before its reader is told, and a send that     *)
(* began after that finds it there.                                          *)
ListedBeforeTold ==
  /\ heard \subseteq suppressed
  /\ \A h \in Handlers : handler[h].at = "put" /\ handler[h].op \in {"stop", "click"} =>
                           handler[h].from \in suppressed
  /\ \A s \in Senders :
       /\ sender[s].at = "suppressed" /\ sender[s].warned => sender[s].doc.contact \in suppressed
       /\ sender[s].at \notin {"idle", "suppressed"} => ~sender[s].warned

Heard == HomeContacts /\ ListedBeforeTold

LEMMA ChangedKeepsContact ==
  ASSUME NEW doc \in Row, doc.contact # None, NEW op \in Ops \ {"score", "owner"},
         NEW new \in Changed(doc, op)
  PROVE  new.contact = doc.contact
<1>1. \A st \in Stages : [doc EXCEPT !.stage = st].contact = doc.contact
  BY DEF Row
<1>2. CASE op = "start"
  BY <1>1, <1>2 DEF Changed, Suppressing, Stages
<1>3. CASE op \in {"upsert", "veto"}
  BY <1>3 DEF Changed, Suppressing
<1>4. CASE op = "reply"
  BY <1>1, <1>4 DEF Changed, Suppressing, Stages
<1>5. CASE op \in Suppressing
  <2>1. new = [doc EXCEPT !.stage = "suppressed"]
    BY <1>5 DEF Changed, Suppressing
  <2> QED
    BY <2>1, <1>1 DEF Stages
<1> QED
  BY <1>2, <1>3, <1>4, <1>5 DEF Ops, Suppressing

LEMMA HomeIsAddress ==
  \A p \in Prospects : Home[p] \in Addresses /\ Home[p] # None
BY OutreachAssumption

(* A step of a sender in flight.                                             *)
LEMMA SenderStepHeard ==
  ASSUME Shapes, Heard, NEW s \in Senders, mode' = mode,
         \A v \in Senders \ {s} : sender'[v] = sender[v],
         UNCHANGED <<handler, suppressed, heard>>,
         \A p \in Prospects : row'[p].contact = Home[p] /\ to'[p] \subseteq {Home[p]},
         sender'[s].at # "idle" => sender'[s].doc.contact = Home[sender'[s].p],
         sender'[s].at = "suppressed" /\ sender'[s].warned =>
           sender'[s].doc.contact \in suppressed,
         sender'[s].at \notin {"idle", "suppressed"} => ~sender'[s].warned
  PROVE  Heard'
<1>1. HomeContacts'
  BY DEF Heard, HomeContacts
<1>2. ListedBeforeTold'
  BY DEF Heard, ListedBeforeTold
<1> QED
  BY <1>1, <1>2 DEF Heard

(* A step of another invocation in flight.                                   *)
LEMMA HandlerStepHeard ==
  ASSUME Shapes, Heard, NEW h \in Handlers, mode' = mode,
         \A g \in Handlers \ {h} : handler'[g] = handler[g],
         UNCHANGED <<sender, to>>, suppressed \subseteq suppressed', heard' \subseteq suppressed',
         \A p \in Prospects : row'[p].contact = Home[p],
         handler'[h].at # "idle" => /\ handler'[h].doc.contact = Home[handler'[h].p]
                                    /\ handler'[h].op \in mode.ops,
         handler'[h].at # "idle" /\ handler'[h].op \in {"stop", "click"} =>
           handler'[h].from = Home[handler'[h].p],
         handler'[h].at = "find" => handler'[h].op = "score",
         handler'[h].at = "put" /\ handler'[h].op \in {"stop", "click"} =>
           handler'[h].from \in suppressed'
  PROVE  Heard'
<1>1. HomeContacts'
  BY DEF Heard, HomeContacts
<1>2. ListedBeforeTold'
  <2>1. \A g \in Handlers : handler'[g].at = "put" /\ handler'[g].op \in {"stop", "click"} =>
                              handler'[g].from \in suppressed'
    BY DEF Heard, ListedBeforeTold
  <2> QED
    BY <2>1 DEF Heard, ListedBeforeTold
<1> QED
  BY <1>1, <1>2 DEF Heard

LEMMA SendHeard ==
  ASSUME Shapes, Heard, NEW s \in Senders, Send(s), mode' = mode
  PROVE  Heard'
<1> DEFINE r == sender[s]
<1>f. r.at # "idle" => r.p \in Prospects /\ r.doc.contact = Home[r.p] /\ r.step \in StepIds
  BY DEF Shapes, Heard, HomeContacts
<1>w. /\ r.at = "suppressed" /\ r.warned => r.doc.contact \in suppressed
      /\ r.at \notin {"idle", "suppressed"} => ~r.warned
  BY DEF Heard, ListedBeforeTold
<1>c. \A p \in Prospects : row[p].contact = Home[p] /\ to[p] \subseteq {Home[p]}
  BY DEF Heard, HomeContacts
<1>i. NoSend.at = "idle" /\ NoSend.p = None
  BY RecordsAreTyped
<1>q. ASSUME sender' = [sender EXCEPT ![s] = NoSend],
             UNCHANGED <<handler, suppressed, heard>>,
             \A p \in Prospects : row'[p].contact = Home[p] /\ to'[p] \subseteq {Home[p]}
      PROVE  Heard'
  <2>1. sender'[s] = NoSend /\ \A v \in Senders \ {s} : sender'[v] = sender[v]
    BY <1>q DEF Shapes
  <2> QED
    BY <2>1, <1>q, <1>i, SenderStepHeard
<1>g. ASSUME NEW pc \in SendPcs \ {"idle", "suppressed"}, r.at # "idle", ~r.warned,
             SendGoes(s, pc), UNCHANGED <<handler, suppressed, heard>>,
             \A p \in Prospects : row'[p].contact = Home[p] /\ to'[p] \subseteq {Home[p]}
      PROVE  Heard'
  <2>1. /\ sender'[s].at = pc /\ sender'[s].p = r.p /\ sender'[s].doc = r.doc
        /\ sender'[s].warned = r.warned
        /\ \A v \in Senders \ {s} : sender'[v] = sender[v]
    BY <1>g, SendGoesIsTyped DEF SendGoes, Sends, Shapes
  <2> QED
    BY <2>1, <1>f, <1>g, SenderStepHeard
<1>m. ASSUME Mailed(s), r.at # "idle"
      PROVE  \A p \in Prospects : to'[p] \subseteq {Home[p]}
  BY <1>m, <1>f, <1>c DEF Mailed, Shapes
<1>1. ASSUME NEW p \in mode.pipeline, NEW i \in StepIds, SendReads(s, p, i)
      PROVE  Heard'
  <2>1. p \in Prospects
    BY DEF Shapes, Mode
  <2>2. /\ sender'[s].at = "suppressed" /\ sender'[s].p = p /\ sender'[s].doc = row[p]
        /\ sender'[s].warned = (row[p].contact \in heard)
        /\ \A v \in Senders \ {s} : sender'[v] = sender[v]
    BY <1>1 DEF SendReads, Sends, Shapes
  <2>3. UNCHANGED <<row, to, handler, suppressed, heard>>
    BY <1>1 DEF SendReads
  <2>4. heard \subseteq suppressed
    BY DEF Heard, ListedBeforeTold
  <2> QED
    BY <2>1, <2>2, <2>3, <2>4, <1>c, SenderStepHeard
<1>2. CASE SendChecksSuppressed(s)
  <2>1. r.at = "suppressed" /\ UNCHANGED <<row, to, handler, suppressed, heard>>
    BY <1>2 DEF SendChecksSuppressed, SendAt
  <2>2. CASE Sends(s, NoSend)
    BY <2>1, <2>2, <1>c, <1>q DEF Sends
  <2>3. CASE r.doc.contact \notin suppressed /\ SendGoes(s, "reserve")
    <3>1. ~r.warned
      BY <2>1, <2>3, <1>w
    <3>2. "reserve" \in SendPcs \ {"idle", "suppressed"}
      BY DEF SendPcs
    <3> QED
      BY <2>1, <2>3, <3>1, <3>2, <1>c, <1>g
  <2> QED
    BY <1>2, <2>2, <2>3 DEF SendChecksSuppressed, IsSuppressed
<1>3. CASE SendReserves(s)
  <2>1. r.at = "reserve" /\ UNCHANGED <<row, to, handler, suppressed, heard>>
    BY <1>3 DEF SendReserves, SendAt
  <2>2. CASE Sends(s, NoSend)
    BY <2>1, <2>2, <1>c, <1>q DEF Sends
  <2>3. CASE SendGoes(s, "pending")
    <3>1. "pending" \in SendPcs \ {"idle", "suppressed"}
      BY DEF SendPcs
    <3> QED
      BY <2>1, <2>3, <3>1, <1>w, <1>c, <1>g
  <2> QED
    BY <1>3, <2>2, <2>3 DEF SendReserves
<1>4. CASE SendPutsTouch(s)
  <2> DEFINE doc == [sender[s].doc EXCEPT !.touches = Append(@, sender[s].step)]
             rec == [sender[s] EXCEPT !.at = "mail", !.doc = doc]
  <2>1. /\ row' = [row EXCEPT ![r.p] = doc] /\ sender' = [sender EXCEPT ![s] = rec]
        /\ UNCHANGED <<to, handler, suppressed, heard>> /\ SendAt(s, "pending")
    BY <1>4 DEF SendPutsTouch, Sends
  <2>2. doc.contact = r.doc.contact
    BY <2>1, SendPutsDoc
  <2> HIDE DEF doc
  <2>3. rec.at = "mail" /\ rec.p = r.p /\ rec.doc = doc /\ rec.warned = r.warned
    BY DEF Shapes, AnySend
  <2> HIDE DEF rec
  <2>4. r.at = "pending" /\ r.p \in Prospects /\ r.doc.contact = Home[r.p] /\ ~r.warned
    BY <2>1, <1>f, <1>w DEF SendAt
  <2>5. \A p \in Prospects : row'[p].contact = Home[p]
    BY <2>1, <2>2, <2>4, <1>c DEF Shapes
  <2>6. sender'[s] = rec /\ \A v \in Senders \ {s} : sender'[v] = sender[v]
    BY <2>1 DEF Shapes
  <2> QED
    BY <2>1, <2>2, <2>3, <2>4, <2>5, <2>6, <1>c, SenderStepHeard
<1>5. CASE SendMails(s)
  <2>1. /\ r.at = "mail" /\ Mailed(s) /\ SendGoes(s, "reload")
        /\ UNCHANGED <<row, handler, suppressed, heard>>
    BY <1>5 DEF SendMails, SendAt
  <2>2. "reload" \in SendPcs \ {"idle", "suppressed"}
    BY DEF SendPcs
  <2> QED
    BY <2>1, <2>2, <1>c, <1>w, <1>m, <1>g
<1>6. CASE SendFails(s)
  <2>1. /\ r.at = "mail" /\ sender' = [sender EXCEPT ![s] = NoSend]
        /\ UNCHANGED to \/ Mailed(s)
        /\ UNCHANGED <<row, handler, suppressed, heard>>
    BY <1>6 DEF SendFails, SendAt, Sends
  <2> QED
    BY <2>1, <1>c, <1>m, <1>q
<1>7. CASE SendReloads(s)
  <2> DEFINE doc == Recorded(row[r.p], r.doc, r.step)
             rec == [sender[s] EXCEPT !.at = "save", !.doc = doc]
  <2>1. /\ sender' = [sender EXCEPT ![s] = rec] /\ r.at = "reload"
        /\ UNCHANGED <<row, to, handler, suppressed, heard>>
    BY <1>7 DEF SendReloads, SendAt, Sends
  <2>2. doc.contact = r.doc.contact
    BY DEF Recorded
  <2> HIDE DEF doc
  <2>3. rec.at = "save" /\ rec.p = r.p /\ rec.doc = doc /\ rec.warned = r.warned
    BY DEF Shapes, AnySend
  <2> HIDE DEF rec
  <2>4. sender'[s] = rec /\ \A v \in Senders \ {s} : sender'[v] = sender[v]
    BY <2>1 DEF Shapes
  <2> QED
    BY <2>1, <2>2, <2>3, <2>4, <1>f, <1>w, <1>c, SenderStepHeard
<1>8. CASE SendSaves(s)
  <2>1. /\ row' = [row EXCEPT ![r.p] = r.doc] /\ sender' = [sender EXCEPT ![s] = NoSend]
        /\ r.at = "save" /\ UNCHANGED <<to, handler, suppressed, heard>>
    BY <1>8 DEF SendSaves, SendAt, Sends
  <2>2. \A p \in Prospects : row'[p].contact = Home[p]
    BY <2>1, <1>f, <1>c DEF Shapes
  <2> QED
    BY <2>1, <2>2, <1>c, <1>q
<1> QED
  BY <1>1, <1>2, <1>3, <1>4, <1>5, <1>6, <1>7, <1>8 DEF Send

LEMMA HandleHeard ==
  ASSUME Shapes, Plain, Heard, NEW h \in Handlers, Handle(h), mode' = mode
  PROVE  Heard'
<1> DEFINE r == handler[h]
<1>f. /\ r \in AnyHandle
      /\ r.at # "idle" => /\ r.p \in Prospects /\ r.doc.contact = Home[r.p]
                          /\ r.op \in mode.ops /\ r.op \notin {"score", "owner"}
                          /\ r.op \in {"stop", "click"} => r.from = Home[r.p]
      /\ r.at # "find"
  BY DEF Shapes, Heard, HomeContacts, Plain
<1>c. /\ \A p \in Prospects : row[p].contact = Home[p] /\ to[p] \subseteq {Home[p]}
      /\ heard \subseteq suppressed
  BY DEF Heard, HomeContacts, ListedBeforeTold
<1>i. NoHandle.at = "idle" /\ NoHandle.p = None
  BY RecordsAreTyped
<1>1. ASSUME NEW p \in mode.pipeline, NEW op \in Ops, HandlerReads(h, p, op)
      PROVE  Heard'
  <2>1. PICK a \in Readers(p, op), doc \in Changed(row[p], op) :
          handler' = [handler EXCEPT ![h] =
            [NoHandle EXCEPT !.at = IF op \in Suppressing THEN "suppress" ELSE "put",
                             !.op = op, !.p = p, !.from = a, !.doc = doc]]
    BY <1>1 DEF HandlerReads
  <2>2. p \in Prospects /\ op \in mode.ops /\ op \in Ops \ {"score", "owner"}
    BY <1>1 DEF HandlerReads, Shapes, Mode, Plain
  <2>3. doc.contact = Home[p]
    BY <2>2, <1>c, HomeIsAddress, ChangedKeepsContact DEF Shapes
  <2>4. op \in {"stop", "click"} => a = Home[p] /\ op \in Suppressing
    BY <2>2, <1>c DEF Readers, Suppressing
  <2> DEFINE pc  == IF op \in Suppressing THEN "suppress" ELSE "put"
             rec == [NoHandle EXCEPT !.at = pc, !.op = op, !.p = p, !.from = a, !.doc = doc]
  <2>5. pc \in {"suppress", "put"} /\ (op \in Suppressing => pc = "suppress")
    OBVIOUS
  <2>6. handler' = [handler EXCEPT ![h] = rec]
    BY <2>1
  <2> HIDE DEF pc
  <2>7. rec.at = pc /\ rec.op = op /\ rec.p = p /\ rec.from = a /\ rec.doc = doc
    BY DEF NoHandle
  <2> HIDE DEF rec
  <2>8. handler'[h] = rec /\ \A g \in Handlers \ {h} : handler'[g] = handler[g]
    BY <2>6 DEF Shapes
  <2>9. UNCHANGED <<row, suppressed, sender, to, heard>>
    BY <1>1 DEF HandlerReads
  <2> QED
    BY <2>2, <2>3, <2>4, <2>5, <2>7, <2>8, <2>9, <1>c, HandlerStepHeard
<1>2. CASE HandlerSuppresses(h)
  <2> DEFINE rec == [r EXCEPT !.at = "put"]
  <2>1. /\ handler' = [handler EXCEPT ![h] = rec] /\ r.at = "suppress"
        /\ suppressed' = suppressed \cup ({SuppressedBy(r)} \ {None})
        /\ UNCHANGED <<row, sender, to, heard>>
    BY <1>2 DEF HandlerSuppresses, Shapes
  <2>2. rec.at = "put" /\ rec.p = r.p /\ rec.doc = r.doc /\ rec.op = r.op /\ rec.from = r.from
    BY <1>f DEF AnyHandle
  <2> HIDE DEF rec
  <2>3. handler'[h] = rec /\ \A g \in Handlers \ {h} : handler'[g] = handler[g]
    BY <2>1 DEF Shapes
  <2>4. r.op \in {"stop", "click"} => r.from \in suppressed'
    BY <2>1, <1>f, HomeIsAddress DEF SuppressedBy
  <2> QED
    BY <2>1, <2>2, <2>3, <2>4, <1>f, <1>c, HandlerStepHeard
<1>3. CASE HandlerPuts(h)
  <2> DEFINE rec == IF AfterPut(r.op) = "idle" THEN NoHandle ELSE [r EXCEPT !.at = AfterPut(r.op)]
  <2>1. /\ row' = [row EXCEPT ![r.p] = r.doc] /\ r.at = "put"
        /\ handler' = [handler EXCEPT ![h] = rec]
        /\ heard' = heard \cup Stopped(h)
        /\ UNCHANGED <<suppressed, sender, to>>
    BY <1>3 DEF HandlerPuts
  <2>2. \A p \in Prospects : row'[p].contact = Home[p]
    BY <2>1, <1>f, <1>c DEF Shapes
  <2>3. heard' \subseteq suppressed
    BY <2>1, <1>c DEF Stopped, Heard, ListedBeforeTold
  <2>4. AfterPut(r.op) \in {"idle", "day"} /\ (r.op \in {"stop", "click"} => AfterPut(r.op) = "idle")
    BY <2>1, <1>f DEF AfterPut
  <2>5. \/ rec.at = "idle"
        \/ /\ rec.at = "day" /\ rec.p = r.p /\ rec.doc = r.doc /\ rec.op = r.op
           /\ r.op \notin {"stop", "click"}
    BY <2>4, <1>f, <1>i DEF AnyHandle
  <2> HIDE DEF rec
  <2>6. handler'[h] = rec /\ \A g \in Handlers \ {h} : handler'[g] = handler[g]
    BY <2>1 DEF Shapes
  <2> QED
    BY <2>1, <2>2, <2>3, <2>5, <2>6, <1>f, HandlerStepHeard
<1>4. CASE HandlerFindsContact(h)
  BY <1>4, <1>f DEF HandlerFindsContact
<1>5. CASE HandlerReadsDay(h)
  <2> DEFINE rec == [r EXCEPT !.at = "dayPut", !.seen = day]
  <2>1. /\ handler' = [handler EXCEPT ![h] = rec] /\ r.at = "day"
        /\ UNCHANGED <<row, suppressed, sender, to, heard>>
    BY <1>5 DEF HandlerReadsDay, Shapes
  <2>2. rec.at = "dayPut" /\ rec.p = r.p /\ rec.doc = r.doc /\ rec.op = r.op /\ rec.from = r.from
    BY <1>f DEF AnyHandle
  <2> HIDE DEF rec
  <2>3. handler'[h] = rec /\ \A g \in Handlers \ {h} : handler'[g] = handler[g]
    BY <2>1 DEF Shapes
  <2> QED
    BY <2>1, <2>2, <2>3, <1>f, <1>c, HandlerStepHeard
<1>6. CASE HandlerPutsDay(h)
  <2>1. /\ handler' = [handler EXCEPT ![h] = NoHandle]
        /\ UNCHANGED <<row, suppressed, sender, to, heard>>
    BY <1>6 DEF HandlerPutsDay
  <2>2. handler'[h] = NoHandle /\ \A g \in Handlers \ {h} : handler'[g] = handler[g]
    BY <2>1 DEF Shapes
  <2> QED
    BY <2>1, <2>2, <1>i, <1>c, HandlerStepHeard
<1> QED
  BY <1>1, <1>2, <1>3, <1>4, <1>5, <1>6 DEF Handle

LEMMA DiesHeard ==
  ASSUME Shapes, Heard, NEW i \in Senders \cup Handlers, Dies(i), mode' = mode
  PROVE  Heard'
<1>1. UNCHANGED <<row, to, suppressed, heard>>
  BY DEF Dies
<1>c. /\ \A p \in Prospects : row[p].contact = Home[p] /\ to[p] \subseteq {Home[p]}
      /\ heard \subseteq suppressed
  BY DEF Heard, HomeContacts, ListedBeforeTold
<1>2. CASE i \in Senders /\ Sends(i, NoSend) /\ handler' = handler
  <2>1. sender'[i] = NoSend /\ \A v \in Senders \ {i} : sender'[v] = sender[v]
    BY <1>2 DEF Shapes, Sends
  <2> QED
    BY <1>1, <1>2, <2>1, <1>c, RecordsAreTyped, SenderStepHeard
<1>3. CASE i \in Handlers /\ handler' = [handler EXCEPT ![i] = NoHandle] /\ sender' = sender
  <2>1. handler'[i] = NoHandle /\ \A g \in Handlers \ {i} : handler'[g] = handler[g]
    BY <1>3 DEF Shapes
  <2> QED
    BY <1>1, <1>3, <2>1, <1>c, RecordsAreTyped, HandlerStepHeard
<1> QED
  BY <1>2, <1>3 DEF Dies

LEMMA InitHeard ==
  ASSUME Init
  PROVE  Heard
<1>1. /\ \A s \in Senders : sender[s] = NoSend
      /\ \A h \in Handlers : handler[h] = NoHandle
      /\ \A p \in Prospects : to[p] = {}
      /\ heard = {} /\ suppressed = {}
  BY DEF Init
<1>2. \A p \in Prospects : row[p].contact = Home[p]
  BY DEF Init, NoRow
<1>3. HomeContacts
  BY <1>1, <1>2, RecordsAreTyped DEF HomeContacts
<1>4. ListedBeforeTold
  BY <1>1, RecordsAreTyped DEF ListedBeforeTold
<1> QED
  BY <1>3, <1>4 DEF Heard

(* Where only replies, stops and clicks are recorded, a prospect keeps its    *)
(* address, and an address that was told so is on the suppression list.       *)
THEOREM HeardAlways == Spec => [](Plain => Heard)
<1>1. Init => (Plain => Heard)
  BY InitHeard
<1>2. Shapes /\ (Plain => Heard) /\ [Next]_vars => (Plain => Heard)'
  <2> SUFFICES ASSUME Shapes, Plain => Heard, [Next]_vars, Plain'
               PROVE  Heard'
    OBVIOUS
  <2>1. mode' = mode /\ Plain /\ Heard
    BY ModeStays DEF Plain
  <2>2. CASE UNCHANGED vars
    BY <2>1, <2>2 DEF vars, Heard, HomeContacts, ListedBeforeTold
  <2>3. CASE Next
    BY <2>1, <2>3, SendHeard, HandleHeard, DiesHeard DEF Next
  <2> QED
    BY <2>2, <2>3
<1> QED
  BY <1>1, <1>2, ShapesAlways, PTL DEF Spec

(* Who asked for no more mail and was told so gets none from a send begun    *)
(* later, although the prospect's stage may be overwritten.                  *)
THEOREM HeardIsLeftAloneAlways == Spec => []HeardIsLeftAlone
<1>1. (Plain => Heard) => HeardIsLeftAlone
  BY DEF Plain, Heard, ListedBeforeTold, HeardIsLeftAlone, SendAt
<1> QED
  BY <1>1, HeardAlways, PTL

-----------------------------------------------------------------------------
(* The sum of a function over a finite set.  SumFunction is a fold, a        *)
(* function on the subsets that takes their elements one by one; that there  *)
(* is such a function, and what it is, are proved by taking a smallest set   *)
(* for which it would fail.                                                  *)

Pick(s) == CHOOSE x \in s : TRUE

Step(h, f, s) == IF s = {} THEN 0 ELSE f[Pick(s)] + h[s \ {Pick(s)}]

IsTotal(h, f, S) == h = [s \in SUBSET S |-> Step(h, f, s)]

LEMMA Smallest ==
  ASSUME NEW S, IsFiniteSet(S), NEW T \in SUBSET (SUBSET S), T # {}
  PROVE  \E s \in T : \A t \in T : t \subseteq s => t = s
<1>1. IsWellFoundedOn(StrictSubsetOrdering(S), SUBSET S)
  BY FS_StrictSubsetOrderingWellFounded, FS_FiniteSubsetsOfFinite
<1>2. PICK s \in T : \A t \in T : <<t, s>> \notin StrictSubsetOrdering(S)
  BY <1>1, WFMin
<1>3. \A t \in T : t \subseteq s => t = s
  BY <1>2 DEF StrictSubsetOrdering
<1> QED
  BY <1>3

LEMMA PickIs ==
  ASSUME NEW S, NEW s \in SUBSET S, s # {}
  PROVE  Pick(s) \in s /\ s \ {Pick(s)} \in SUBSET S /\ s \ {Pick(s)} # s
BY DEF Pick

Level(n, S) == {s \in SUBSET S : Cardinality(s) <= n}

TotalUpTo(h, f, n, S) == h \in [Level(n, S) -> Nat] /\ \A s \in Level(n, S) : h[s] = Step(h, f, s)

LEMMA LevelUp ==
  ASSUME NEW S, IsFiniteSet(S), NEW f \in [S -> Nat], NEW n \in Nat, NEW h, TotalUpTo(h, f, n, S)
  PROVE  TotalUpTo([s \in Level(n + 1, S) |-> IF s \in Level(n, S) THEN h[s] ELSE Step(h, f, s)],
                   f, n + 1, S)
<1> DEFINE g == [s \in Level(n + 1, S) |-> IF s \in Level(n, S) THEN h[s] ELSE Step(h, f, s)]
<1>1. ASSUME NEW s \in SUBSET S
      PROVE  /\ Cardinality(s) \in Nat /\ (Cardinality(s) = 0 <=> s = {})
             /\ s # {} => Cardinality(s \ {Pick(s)}) = Cardinality(s) - 1
  <2>1. IsFiniteSet(s)
    BY FS_Subset
  <2> QED
    BY <2>1, FS_CardinalityType, FS_EmptySet, FS_RemoveElement, PickIs
<1>2. \A s \in Level(n + 1, S) : s # {} => s \ {Pick(s)} \in Level(n, S) /\ Pick(s) \in S
  BY <1>1, PickIs DEF Level
<1>3. ASSUME NEW s \in Level(n, S)
      PROVE  s \in Level(n + 1, S)
  <2>1. s \in SUBSET S /\ Cardinality(s) <= n
    BY DEF Level
  <2>2. Cardinality(s) \in Nat
    BY <1>1, <2>1
  <2>3. Cardinality(s) <= n + 1
    BY <2>1, <2>2
  <2> QED
    BY <2>1, <2>3 DEF Level
<1>4. \A s \in Level(n, S) : h[s] \in Nat /\ h[s] = Step(h, f, s)
  BY DEF TotalUpTo
<1>5. ASSUME NEW s \in Level(n + 1, S)
      PROVE  Step(h, f, s) \in Nat /\ Step(g, f, s) = Step(h, f, s)
  <2>1. CASE s = {}
    BY <2>1 DEF Step
  <2>2. CASE s # {}
    <3> DEFINE t == s \ {Pick(s)}
    <3>1. t \in Level(n, S) /\ Pick(s) \in S
      BY <1>2, <2>2
    <3>2. t \in Level(n + 1, S) /\ h[t] \in Nat /\ f[Pick(s)] \in Nat
      BY <1>3, <1>4, <3>1
    <3> HIDE DEF t
    <3>3. g[t] = h[t]
      BY <3>1, <3>2
    <3> HIDE DEF g
    <3>4. Step(h, f, s) = f[Pick(s)] + h[t] /\ Step(g, f, s) = f[Pick(s)] + g[t]
      BY <2>2 DEF Step, t
    <3> QED
      BY <3>2, <3>3, <3>4
  <2> QED
    BY <2>1, <2>2
<1>6. \A s \in Level(n + 1, S) : g[s] = Step(g, f, s) /\ g[s] \in Nat
  BY <1>4, <1>5
<1> QED
  BY <1>6 DEF TotalUpTo

LEMMA LevelsHaveTotals ==
  ASSUME NEW S, IsFiniteSet(S), NEW f \in [S -> Nat]
  PROVE  \A n \in Nat : \E h : TotalUpTo(h, f, n, S)
<1> DEFINE T == {n \in Nat : ~ \E h : TotalUpTo(h, f, n, S)}
<1>1. SUFFICES ASSUME T # {} PROVE FALSE
  OBVIOUS
<1>2. PICK n \in T : \A m \in T : ~ (m < n)
  <2>1. T \subseteq Nat
    OBVIOUS
  <2> HIDE DEF T
  <2>2. PICK n \in T : \A m \in T : <<m, n>> \notin OpToRel(<, Nat)
    BY <1>1, <2>1, NatLessThanWellFounded, WFMin
  <2>3. \A m \in T : m < n => <<m, n>> \in OpToRel(<, Nat)
    BY <2>1 DEF OpToRel
  <2> QED
    BY <2>2, <2>3
<1>3. CASE n = 0
  <2> DEFINE h == [s \in Level(0, S) |-> 0]
  <2>1. ASSUME NEW s \in Level(0, S)
        PROVE  s = {}
    <3>1. s \in SUBSET S /\ IsFiniteSet(s) /\ Cardinality(s) <= 0
      BY FS_Subset DEF Level
    <3> QED
      BY <3>1, FS_CardinalityType, FS_EmptySet
  <2>2. TotalUpTo(h, f, 0, S)
    BY <2>1 DEF TotalUpTo, Step
  <2> QED
    BY <1>3, <2>2
<1>4. CASE n # 0
  <2>1. n \in Nat /\ n - 1 \in Nat /\ n - 1 < n /\ (n - 1) + 1 = n
    BY <1>4
  <2>2. PICK h : TotalUpTo(h, f, n - 1, S)
    BY <1>2, <2>1
  <2>3. \E g : TotalUpTo(g, f, (n - 1) + 1, S)
    BY <2>1, <2>2, LevelUp
  <2> QED
    BY <1>2, <2>1, <2>3
<1> QED
  BY <1>3, <1>4

(* The sum is the total of the whole set. *)
LEMMA SumIs ==
  ASSUME NEW S, IsFiniteSet(S), NEW f \in [S -> Nat]
  PROVE  \E h \in [SUBSET S -> Nat] : IsTotal(h, f, S) /\ SumFunction(f) = h[S]
<1> DEFINE N == Cardinality(S)
           iter == CHOOSE h : IsTotal(h, f, S)
<1>1. IsFiniteSet(S) /\ N \in Nat
  BY FS_CardinalityType
<1>2. Level(N, S) = SUBSET S
  <2>1. \A s \in SUBSET S : Cardinality(s) <= N
    BY <1>1, FS_Subset
  <2> QED
    BY <2>1 DEF Level
<1>3. PICK h : TotalUpTo(h, f, N, S)
  BY <1>1, LevelsHaveTotals
<1>4. IsTotal(h, f, S)
  BY <1>2, <1>3 DEF TotalUpTo, IsTotal
<1>5. IsTotal(iter, f, S)
  BY <1>4
<1>6. SumFunction(f) = iter[S]
  BY DEF SumFunction, SumFunctionOnSet, FoldFunctionOnSet, MapThenFoldSet, Pick, IsTotal, Step
<1> HIDE DEF iter
<1>7. \A s \in SUBSET S : iter[s] = Step(iter, f, s)
  BY <1>5 DEF IsTotal
<1> DEFINE T == {s \in SUBSET S : iter[s] \notin Nat}
<1>8. ASSUME T # {} PROVE FALSE
  <2>0. T \in SUBSET (SUBSET S)
    OBVIOUS
  <2>1. PICK s \in T : \A t \in T : t \subseteq s => t = s
    <3> HIDE DEF T
    <3> QED
      BY <1>8, <2>0, Smallest
  <2>2. s # {} /\ s \in SUBSET S
    <3>1. s \in SUBSET S /\ iter[s] \notin Nat
      BY <2>1
    <3>2. iter[s] = Step(iter, f, s)
      BY <1>7, <3>1
    <3> QED
      BY <3>1, <3>2 DEF Step
  <2>3. iter[s \ {Pick(s)}] \in Nat /\ Pick(s) \in S
    BY <2>1, <2>2, PickIs
  <2>4. iter[s] \in Nat
    BY <1>7, <2>2, <2>3 DEF Step
  <2> QED
    BY <2>1, <2>4
<1>9. iter = [s \in SUBSET S |-> Step(iter, f, s)]
  BY <1>5 DEF IsTotal
<1>10. iter \in [SUBSET S -> Nat]
  BY <1>7, <1>8, <1>9
<1> QED
  BY <1>5, <1>6, <1>10

LEMMA SumIsNat ==
  ASSUME NEW S, IsFiniteSet(S), NEW f \in [S -> Nat]
  PROVE  SumFunction(f) \in Nat
<1>1. PICK h \in [SUBSET S -> Nat] : SumFunction(f) = h[S]
  BY SumIs
<1> QED
  BY <1>1

(* What is added at one place is added to the sum. *)
LEMMA SumGrows ==
  ASSUME NEW S, IsFiniteSet(S), NEW f \in [S -> Nat], NEW g \in [S -> Nat], NEW j \in S, NEW d \in Nat,
         \A k \in S \ {j} : g[k] = f[k],
         g[j] = f[j] + d
  PROVE  /\ SumFunction(f) \in Nat /\ SumFunction(g) \in Nat
         /\ SumFunction(g) = SumFunction(f) + d
<1>1. PICK h \in [SUBSET S -> Nat] : IsTotal(h, f, S) /\ SumFunction(f) = h[S]
  BY SumIs
<1>2. PICK i \in [SUBSET S -> Nat] : IsTotal(i, g, S) /\ SumFunction(g) = i[S]
  BY SumIs
<1>3. \A s \in SUBSET S : h[s] = Step(h, f, s) /\ i[s] = Step(i, g, s)
  BY <1>1, <1>2 DEF IsTotal
<1> DEFINE more(s) == IF j \in s THEN d ELSE 0
           T == {s \in SUBSET S : i[s] # h[s] + more(s)}
<1>4. ASSUME T # {} PROVE FALSE
  <2>0. T \in SUBSET (SUBSET S)
    OBVIOUS
  <2>1. PICK s \in T : \A t \in T : t \subseteq s => t = s
    <3> HIDE DEF T
    <3> QED
      BY <1>4, <2>0, Smallest
  <2>2. s # {} /\ s \in SUBSET S
    <3>1. s \in SUBSET S /\ i[s] # h[s] + more(s)
      BY <2>1
    <3>2. h[s] = Step(h, f, s) /\ i[s] = Step(i, g, s)
      BY <1>3, <3>1
    <3> QED
      BY <3>1, <3>2 DEF Step
  <2> DEFINE x == Pick(s)
             t == s \ {x}
  <2>3. x \in s /\ x \in S /\ t \in SUBSET S /\ t # s
    BY <2>2, PickIs
  <2>4. i[t] = h[t] + more(t)
    BY <2>1, <2>3
  <2>5. h[s] = f[x] + h[t] /\ i[s] = g[x] + i[t]
    BY <1>3, <2>2 DEF Step
  <2>6. f[x] \in Nat /\ g[x] \in Nat /\ h[t] \in Nat /\ i[t] \in Nat
    BY <2>3
  <2>7. CASE x = j
    <3>1. more(s) = d /\ more(t) = 0 /\ g[x] = f[x] + d
      BY <2>3, <2>7
    <3>2. i[t] = h[t]
      BY <2>4, <2>6, <3>1
    <3> HIDE DEF x, t, more
    <3>3. i[s] = h[s] + more(s)
      BY <2>5, <2>6, <3>1, <3>2
    <3> QED
      BY <2>1, <3>3 DEF more
  <2>8. CASE x # j
    <3>1. more(s) = more(t) /\ more(s) \in Nat /\ g[x] = f[x]
      BY <2>3, <2>8
    <3> HIDE DEF x, t, more
    <3>2. i[s] = h[s] + more(s)
      BY <2>4, <2>5, <2>6, <3>1
    <3> QED
      BY <2>1, <3>2 DEF more
  <2> QED
    BY <2>7, <2>8
<1>5. i[S] = h[S] + more(S)
  BY <1>4
<1> QED
  BY <1>1, <1>2, <1>5

LEMMA SumOfZeros ==
  ASSUME NEW S, IsFiniteSet(S), NEW f \in [S -> Nat], \A k \in S : f[k] = 0
  PROVE  SumFunction(f) = 0
<1>1. PICK h \in [SUBSET S -> Nat] : IsTotal(h, f, S) /\ SumFunction(f) = h[S]
  BY SumIs
<1>2. \A s \in SUBSET S : h[s] = Step(h, f, s)
  BY <1>1 DEF IsTotal
<1> DEFINE T == {s \in SUBSET S : h[s] # 0}
<1>3. ASSUME T # {} PROVE FALSE
  <2>0. T \in SUBSET (SUBSET S)
    OBVIOUS
  <2>1. PICK s \in T : \A t \in T : t \subseteq s => t = s
    <3> HIDE DEF T
    <3> QED
      BY <1>3, <2>0, Smallest
  <2>2. s \in SUBSET S /\ s # {}
    BY <1>2, <2>1 DEF Step
  <2>3. h[s \ {Pick(s)}] = 0 /\ Pick(s) \in S
    BY <2>1, <2>2, PickIs
  <2>4. h[s] = f[Pick(s)] + h[s \ {Pick(s)}]
    BY <1>2, <2>2 DEF Step
  <2> QED
    BY <2>1, <2>3, <2>4
<1> QED
  BY <1>1, <1>3

-----------------------------------------------------------------------------
(* The day's cap.  Who has reserved and not mailed yet has its mail in the   *)
(* day's counter; only a bounce puts the day's row back from a copy.         *)

Capped == "bounce" \notin mode.ops /\ ~Fault("lost")

Reserved == {s \in Senders : sender[s].at \in {"pending", "mail"}}

NobodyPutsTheDay == \A h \in Handlers : handler[h].op # "bounce" /\ handler[h].at \notin {"day", "dayPut"}

CapInv ==
  /\ NobodyPutsTheDay
  /\ IsFiniteSet(Reserved)
  /\ AllMails + Cardinality(Reserved) <= day.sent
  /\ day.sent <= DailyCap

LEMMA StepIdsAreFinite == IsFiniteSet(StepIds) /\ IsFiniteSet(Prospects)
<1>1. Steps - 1 \in Int
  BY OutreachAssumption
<1> QED
  BY <1>1, FS_Interval, OutreachAssumption DEF StepIds

LEMMA MailsAreNat ==
  ASSUME Shapes
  PROVE  /\ \A p \in Prospects : MailsTo(p) \in Nat
         /\ [p \in Prospects |-> MailsTo(p)] \in [Prospects -> Nat]
         /\ AllMails \in Nat
<1>1. ASSUME NEW p \in Prospects
      PROVE  MailsTo(p) \in Nat
  <2>1. mails[p] \in [StepIds -> Nat]
    BY DEF Shapes
  <2> QED
    BY <2>1, SumIsNat, StepIdsAreFinite DEF MailsTo
<1>2. [p \in Prospects |-> MailsTo(p)] \in [Prospects -> Nat]
  BY <1>1
<1>3. AllMails \in Nat
  <2> DEFINE f == [p \in Prospects |-> MailsTo(p)]
  <2>1. f \in [Prospects -> Nat]
    BY <1>2
  <2> HIDE DEF f
  <2>2. SumFunction(f) \in Nat
    BY <2>1, SumIsNat, StepIdsAreFinite
  <2> QED
    BY <2>2 DEF AllMails, f
<1> QED
  BY <1>1, <1>2, <1>3

LEMMA OneMailMore ==
  ASSUME Shapes, Shapes', NEW s \in Senders, sender[s].p \in Prospects, sender[s].step \in StepIds,
         Mailed(s)
  PROVE  AllMails' = AllMails + 1
<1> DEFINE f == [q \in Prospects |-> MailsTo(q)]
           g == [q \in Prospects |-> MailsTo(q)']
<1>0. PICK p \in Prospects, i \in StepIds : p = sender[s].p /\ i = sender[s].step
  OBVIOUS
<1>1. mails \in [Prospects -> [StepIds -> Nat]] /\ mails' \in [Prospects -> [StepIds -> Nat]]
  BY DEF Shapes
<1>2. mails' = [mails EXCEPT ![p][i] = @ + 1]
  BY <1>0 DEF Mailed
<1>3. MailsTo(p)' = MailsTo(p) + 1
  <2>1. /\ mails[p] \in [StepIds -> Nat] /\ mails'[p] \in [StepIds -> Nat]
        /\ mails'[p][i] = mails[p][i] + 1
        /\ \A k \in StepIds \ {i} : mails'[p][k] = mails[p][k]
    BY <1>1, <1>2
  <2>2. SumFunction(mails'[p]) = SumFunction(mails[p]) + 1
    BY <2>1, SumGrows, StepIdsAreFinite
  <2> QED
    BY <2>2 DEF MailsTo
<1>4. \A q \in Prospects \ {p} : MailsTo(q)' = MailsTo(q)
  BY <1>1, <1>2 DEF MailsTo
<1>5. f \in [Prospects -> Nat] /\ g \in [Prospects -> Nat]
  <2>1. \A q \in Prospects : MailsTo(q) \in Nat /\ MailsTo(q)' \in Nat
    <3>1. \A q \in Prospects : MailsTo(q) \in Nat
      BY MailsAreNat
    <3>2. \A q \in Prospects : SumFunction(mails'[q]) \in Nat
      BY <1>1, SumIsNat, StepIdsAreFinite
    <3> QED
      BY <3>1, <3>2 DEF MailsTo
  <2> QED
    BY <2>1
<1>6. g[p] = f[p] + 1 /\ \A q \in Prospects \ {p} : g[q] = f[q]
  BY <1>3, <1>4
<1> HIDE DEF f, g
<1>7. SumFunction(g) = SumFunction(f) + 1
  BY <1>5, <1>6, SumGrows, StepIdsAreFinite
<1> QED
  BY <1>7 DEF AllMails, f, g

LEMMA ReservedMoves ==
  ASSUME Shapes, IsFiniteSet(Reserved), NEW s \in Senders, NEW rec, Sends(s, rec)
  PROVE  /\ IsFiniteSet(Reserved') /\ Cardinality(Reserved) \in Nat /\ Cardinality(Reserved') \in Nat
         /\ Cardinality(Reserved') + (IF sender[s].at \in {"pending", "mail"} THEN 1 ELSE 0)
              = Cardinality(Reserved) + (IF rec.at \in {"pending", "mail"} THEN 1 ELSE 0)
<1>1. sender'[s] = rec /\ \A v \in Senders \ {s} : sender'[v] = sender[v]
  BY DEF Sends, Shapes
<1>2. Cardinality(Reserved) \in Nat
  BY FS_CardinalityType
<1>3. CASE rec.at \in {"pending", "mail"}
  <2>1. Reserved' = Reserved \cup {s} /\ (s \in Reserved <=> sender[s].at \in {"pending", "mail"})
    BY <1>1, <1>3 DEF Reserved
  <2>2. /\ IsFiniteSet(Reserved \cup {s})
        /\ Cardinality(Reserved \cup {s}) = IF s \in Reserved THEN Cardinality(Reserved)
                                           ELSE Cardinality(Reserved) + 1
    BY FS_AddElement
  <2>3. /\ IsFiniteSet(Reserved')
        /\ Cardinality(Reserved') = IF sender[s].at \in {"pending", "mail"} THEN Cardinality(Reserved)
                                    ELSE Cardinality(Reserved) + 1
    BY <2>1, <2>2
  <2> QED
    BY <1>2, <1>3, <2>3
<1>4. CASE rec.at \notin {"pending", "mail"}
  <2>1. Reserved' = Reserved \ {s} /\ (s \in Reserved <=> sender[s].at \in {"pending", "mail"})
    BY <1>1, <1>4 DEF Reserved
  <2>2. /\ IsFiniteSet(Reserved \ {s})
        /\ Cardinality(Reserved \ {s}) = IF s \in Reserved THEN Cardinality(Reserved) - 1
                                         ELSE Cardinality(Reserved)
    BY FS_RemoveElement
  <2>3. /\ IsFiniteSet(Reserved')
        /\ Cardinality(Reserved') = IF sender[s].at \in {"pending", "mail"} THEN Cardinality(Reserved) - 1
                                    ELSE Cardinality(Reserved)
    BY <2>1, <2>2
  <2>4. Cardinality(Reserved') \in Nat
    BY <2>3, FS_CardinalityType
  <2> QED
    BY <1>2, <1>4, <2>3, <2>4
<1> QED
  BY <1>3, <1>4

(* A send goes on: the counter follows what it has reserved and mailed. *)
LEMMA SendMoves ==
  ASSUME Shapes, Shapes', CapInv, NEW s \in Senders, NEW rec, Sends(s, rec), UNCHANGED handler,
         NEW mailed \in Nat, AllMails' = AllMails + mailed,
         day'.sent <= DailyCap,
         mailed + (IF rec.at \in {"pending", "mail"} THEN 1 ELSE 0) + day.sent
           <= day'.sent + (IF sender[s].at \in {"pending", "mail"} THEN 1 ELSE 0)
  PROVE  CapInv'
<1>1. AllMails \in Nat /\ day.sent \in Int /\ day'.sent \in Int
  BY MailsAreNat DEF Shapes, Day
<1>2. /\ IsFiniteSet(Reserved') /\ Cardinality(Reserved) \in Nat /\ Cardinality(Reserved') \in Nat
      /\ Cardinality(Reserved') + (IF sender[s].at \in {"pending", "mail"} THEN 1 ELSE 0)
           = Cardinality(Reserved) + (IF rec.at \in {"pending", "mail"} THEN 1 ELSE 0)
  BY ReservedMoves DEF CapInv
<1>3. AllMails + Cardinality(Reserved) <= day.sent /\ NobodyPutsTheDay
  BY DEF CapInv
<1>4. NobodyPutsTheDay'
  BY <1>3 DEF NobodyPutsTheDay
<1>5. AllMails' + Cardinality(Reserved') <= day'.sent
  BY <1>1, <1>2, <1>3
<1> QED
  BY <1>2, <1>4, <1>5 DEF CapInv

LEMMA SendKeepsCap ==
  ASSUME Shapes, Shapes', Capped, CapInv, NEW s \in Senders, Send(s)
  PROVE  CapInv'
<1>i. NoSend.at = "idle"
  BY RecordsAreTyped
<1>d. day.sent <= DailyCap /\ day.sent \in Int /\ DailyCap \in Nat /\ AllMails \in Nat
  BY OutreachAssumption, MailsAreNat DEF CapInv, Shapes, Day
<1>m. mails' = mails => AllMails' = AllMails + 0
  BY <1>d DEF AllMails, MailsTo
<1>g. ASSUME NEW pc \in SendPcs \ {"idle"}, sender[s].at # "idle", SendGoes(s, pc)
      PROVE  \E rec : Sends(s, rec) /\ rec.at = pc
  <2>1. PICK rec : rec = [sender[s] EXCEPT !.at = pc]
    OBVIOUS
  <2>2. rec.at = pc
    BY <2>1, <1>g, SendGoesIsTyped
  <2> QED
    BY <2>1, <2>2, <1>g DEF SendGoes
<1>1. ASSUME NEW p \in mode.pipeline, NEW i \in StepIds, SendReads(s, p, i)
      PROVE  CapInv'
  <2>1. PICK rec : /\ Sends(s, rec) /\ rec.at = "suppressed"
                   /\ sender[s].at = "idle" /\ UNCHANGED <<handler, day, mails>>
    BY <1>1 DEF SendReads, SendAt
  <2> QED
    BY <2>1, <1>d, <1>m, SendMoves
<1>2. CASE SendChecksSuppressed(s)
  <2>1. sender[s].at = "suppressed" /\ UNCHANGED <<handler, day, mails>>
    BY <1>2 DEF SendChecksSuppressed, SendAt
  <2>2. PICK rec : Sends(s, rec) /\ rec.at \in {"idle", "reserve"}
    BY <1>2, <2>1, <1>i, <1>g DEF SendChecksSuppressed, SendPcs
  <2>3. day'.sent = day.sent /\ AllMails' = AllMails + 0
    BY <2>1, <1>m
  <2> QED
    BY <2>1, <2>2, <2>3, <1>d, SendMoves
<1>3. CASE SendReserves(s)
  <2>1. sender[s].at = "reserve" /\ UNCHANGED <<handler, mails>>
    BY <1>3 DEF SendReserves, SendAt
  <2>2. CASE day.sent < DailyCap
    <3>1. day'.sent = day.sent + 1
      BY <1>3, <2>2 DEF SendReserves, Shapes, Day
    <3>2. PICK rec : Sends(s, rec) /\ rec.at = "pending"
      BY <1>3, <2>1, <2>2, <1>g DEF SendReserves, SendPcs
    <3> QED
      BY <2>1, <2>2, <3>1, <3>2, <1>d, <1>m, SendMoves
  <2>3. CASE ~(day.sent < DailyCap)
    <3>1. day' = day /\ Sends(s, NoSend)
      BY <1>3, <2>3 DEF SendReserves
    <3> QED
      BY <2>1, <3>1, <1>d, <1>i, <1>m, SendMoves
  <2> QED
    BY <2>2, <2>3
<1>4. CASE SendPutsTouch(s)
  <2>1. sender[s].at = "pending" /\ UNCHANGED <<handler, day, mails>>
    BY <1>4 DEF SendPutsTouch, SendAt
  <2>2. PICK rec : Sends(s, rec) /\ rec.at = "mail"
    <3>1. PICK doc : doc = [sender[s].doc EXCEPT !.touches = Append(@, sender[s].step)]
      OBVIOUS
    <3>2. PICK rec : rec = [sender[s] EXCEPT !.at = "mail", !.doc = doc]
      OBVIOUS
    <3>3. rec.at = "mail"
      BY <3>2 DEF Shapes, AnySend
    <3> QED
      BY <1>4, <3>1, <3>2, <3>3 DEF SendPutsTouch
  <2> QED
    BY <2>1, <2>2, <1>d, <1>m, SendMoves
<1>5. CASE SendMails(s)
  <2>1. sender[s].at = "mail" /\ UNCHANGED <<handler, day>> /\ Mailed(s)
    BY <1>5 DEF SendMails, SendAt
  <2>2. AllMails' = AllMails + 1
    BY <2>1, OneMailMore DEF Shapes
  <2>3. PICK rec : Sends(s, rec) /\ rec.at = "reload"
    BY <1>5, <2>1, <1>g DEF SendMails, SendPcs
  <2> QED
    BY <2>1, <2>2, <2>3, <1>d, SendMoves
<1>6. CASE SendFails(s)
  <2>1. sender[s].at = "mail" /\ UNCHANGED <<handler, mails>> /\ Sends(s, NoSend)
    BY <1>6 DEF SendFails, SendAt, Capped
  <2>2. day'.sent = day.sent - 1
    BY <1>6 DEF SendFails, Shapes, Day
  <2> QED
    BY <2>1, <2>2, <1>d, <1>i, <1>m, SendMoves
<1>7. CASE SendReloads(s)
  <2>1. sender[s].at = "reload" /\ UNCHANGED <<handler, day, mails>>
    BY <1>7 DEF SendReloads, SendAt
  <2>2. PICK rec : Sends(s, rec) /\ rec.at = "save"
    <3>1. PICK doc : doc = Recorded(row[sender[s].p], sender[s].doc, sender[s].step)
      OBVIOUS
    <3>2. PICK rec : rec = [sender[s] EXCEPT !.at = "save", !.doc = doc]
      OBVIOUS
    <3>3. rec.at = "save"
      BY <3>2 DEF Shapes, AnySend
    <3> QED
      BY <1>7, <3>1, <3>2, <3>3 DEF SendReloads
  <2> QED
    BY <2>1, <2>2, <1>d, <1>m, SendMoves
<1>8. CASE SendSaves(s)
  <2>1. sender[s].at = "save" /\ Sends(s, NoSend) /\ UNCHANGED <<handler, day, mails>>
    BY <1>8 DEF SendSaves, SendAt
  <2> QED
    BY <2>1, <1>d, <1>i, <1>m, SendMoves
<1> QED
  BY <1>1, <1>2, <1>3, <1>4, <1>5, <1>6, <1>7, <1>8 DEF Send

(* The others leave the counter alone. *)
LEMMA OthersKeepCap ==
  ASSUME CapInv, UNCHANGED <<day, mails, sender>>, NobodyPutsTheDay'
  PROVE  CapInv'
<1>1. Reserved' = Reserved /\ AllMails' = AllMails
  BY DEF Reserved, AllMails, MailsTo
<1> QED
  BY <1>1 DEF CapInv

LEMMA HandleKeepsCap ==
  ASSUME Shapes, Capped, CapInv, NEW h \in Handlers, Handle(h)
  PROVE  CapInv'
<1>n. NobodyPutsTheDay /\ handler[h].op # "bounce" /\ handler[h].at \notin {"day", "dayPut"}
  BY DEF CapInv, NobodyPutsTheDay
<1>i. NoHandle.op = "veto" /\ NoHandle.at = "idle" /\ handler[h] \in AnyHandle
  BY DEF NoHandle, Shapes
<1>s. ASSUME NEW rec, handler' = [handler EXCEPT ![h] = rec],
             rec.op # "bounce", rec.at \notin {"day", "dayPut"}, UNCHANGED <<day, mails, sender>>
      PROVE  CapInv'
  <2>1. handler'[h] = rec /\ \A v \in Handlers \ {h} : handler'[v] = handler[v]
    BY <1>s DEF Shapes
  <2>2. NobodyPutsTheDay'
    BY <2>1, <1>n, <1>s DEF NobodyPutsTheDay
  <2> QED
    BY <2>2, <1>s, OthersKeepCap
<1>1. ASSUME NEW p \in mode.pipeline, NEW op \in Ops, HandlerReads(h, p, op)
      PROVE  CapInv'
  <2>1. op # "bounce" /\ UNCHANGED <<day, mails, sender>>
    BY <1>1 DEF HandlerReads, Capped
  <2>2. PICK a \in Readers(p, op), doc \in Changed(row[p], op) :
          handler' = [handler EXCEPT ![h] =
            [NoHandle EXCEPT !.at = IF op \in Suppressing THEN "suppress" ELSE "put",
                             !.op = op, !.p = p, !.from = a, !.doc = doc]]
    BY <1>1 DEF HandlerReads
  <2>3. PICK rec : rec = [NoHandle EXCEPT !.at = IF op \in Suppressing THEN "suppress" ELSE "put",
                                          !.op = op, !.p = p, !.from = a, !.doc = doc]
    OBVIOUS
  <2>4. rec.op = op /\ rec.at \in {"suppress", "put"}
    BY <2>3 DEF NoHandle
  <2> QED
    BY <2>1, <2>2, <2>3, <2>4, <1>s
<1>2. CASE HandlerSuppresses(h)
  <2>1. [handler[h] EXCEPT !.at = "put"].at = "put" /\ [handler[h] EXCEPT !.at = "put"].op = handler[h].op
    BY <1>i DEF AnyHandle
  <2>2. UNCHANGED <<day, mails, sender>> /\ handler' = [handler EXCEPT ![h] = [handler[h] EXCEPT !.at = "put"]]
    BY <1>2 DEF HandlerSuppresses
  <2> QED
    BY <2>1, <2>2, <1>n, <1>s
<1>3. CASE HandlerPuts(h)
  <2>1. UNCHANGED <<day, mails, sender>>
    BY <1>3 DEF HandlerPuts
  <2>2. AfterPut(handler[h].op) \in {"find", "idle"}
    BY <1>n DEF AfterPut
  <2>3. PICK rec : rec = [handler[h] EXCEPT !.at = AfterPut(handler[h].op)]
    OBVIOUS
  <2>4. rec.op = handler[h].op /\ rec.at = AfterPut(handler[h].op)
    BY <2>3, <1>i DEF AnyHandle
  <2>5. \/ handler' = [handler EXCEPT ![h] = NoHandle]
        \/ handler' = [handler EXCEPT ![h] = rec]
    BY <1>3, <2>3 DEF HandlerPuts
  <2> QED
    BY <2>1, <2>2, <2>4, <2>5, <1>i, <1>n, <1>s
<1>4. CASE HandlerFindsContact(h)
  BY <1>4, <1>i, <1>s DEF HandlerFindsContact
<1> QED
  BY <1>1, <1>2, <1>3, <1>4, <1>n DEF Handle, HandlerReadsDay, HandlerPutsDay

LEMMA DiesKeepsCap ==
  ASSUME Shapes, Shapes', CapInv, NEW i \in Senders \cup Handlers, Dies(i)
  PROVE  CapInv'
<1>1. UNCHANGED <<day, mails>> /\ NoSend.at = "idle"
  BY RecordsAreTyped DEF Dies
<1>2. CASE i \in Senders /\ Sends(i, NoSend) /\ UNCHANGED handler
  <2>1. AllMails \in Nat /\ AllMails' = AllMails + 0 /\ day.sent \in Int /\ day.sent <= DailyCap
    BY <1>1, MailsAreNat DEF AllMails, MailsTo, Shapes, Day, CapInv
  <2> QED
    BY <1>1, <1>2, <2>1, SendMoves
<1>3. CASE i \in Handlers /\ handler' = [handler EXCEPT ![i] = NoHandle] /\ UNCHANGED sender
  <2>1. handler'[i] = NoHandle /\ \A v \in Handlers \ {i} : handler'[v] = handler[v]
    BY <1>3 DEF Shapes
  <2>2. NobodyPutsTheDay'
    BY <2>1 DEF NobodyPutsTheDay, NoHandle, CapInv
  <2> QED
    BY <1>1, <1>3, <2>2, OthersKeepCap
<1> QED
  BY <1>2, <1>3 DEF Dies

LEMMA InitCap ==
  ASSUME Init
  PROVE  CapInv
<1>1. /\ \A s \in Senders : sender[s] = NoSend
      /\ \A h \in Handlers : handler[h] = NoHandle
      /\ mails = [p \in Prospects |-> [i \in StepIds |-> 0]] /\ day.sent = 0
  BY DEF Init
<1>2. NobodyPutsTheDay
  BY <1>1 DEF NobodyPutsTheDay, NoHandle
<1>3. Reserved = {} /\ IsFiniteSet(Reserved) /\ Cardinality(Reserved) = 0
  <2>1. Reserved = {}
    BY <1>1, RecordsAreTyped DEF Reserved
  <2> QED
    BY <2>1, FS_EmptySet
<1>4. \A p \in Prospects : MailsTo(p) = 0
  <2>1. [i \in StepIds |-> 0] \in [StepIds -> Nat] /\ \A i \in StepIds : [k \in StepIds |-> 0][i] = 0
    OBVIOUS
  <2>2. SumFunction([i \in StepIds |-> 0]) = 0
    BY <2>1, SumOfZeros, StepIdsAreFinite
  <2> QED
    BY <1>1, <2>2 DEF MailsTo
<1>5. AllMails = 0
  <2> DEFINE f == [p \in Prospects |-> MailsTo(p)]
  <2>1. f \in [Prospects -> Nat] /\ \A p \in Prospects : f[p] = 0
    BY <1>4
  <2> HIDE DEF f
  <2>2. SumFunction(f) = 0
    BY <2>1, SumOfZeros, StepIdsAreFinite
  <2> QED
    BY <2>2 DEF AllMails, f
<1>6. DailyCap \in Nat
  BY OutreachAssumption
<1> QED
  BY <1>1, <1>2, <1>3, <1>5, <1>6 DEF CapInv

(* No more mails leave than the day's cap, whatever sends run at once, are   *)
(* refused and give back what they reserved, or die: who has reserved and    *)
(* not mailed yet is counted, and the reservation is conditional.            *)
THEOREM CapHeldAlways == Spec => []CapHeld
<1> DEFINE IInv == Shapes /\ (Capped => CapInv)
<1>1. Init => IInv
  BY InitShapes, InitCap
<1>2. IInv /\ [Next]_vars => IInv'
  <2> SUFFICES ASSUME Shapes, Capped => CapInv, [Next]_vars
               PROVE  IInv'
    OBVIOUS
  <2>1. Shapes'
    <3>1. CASE UNCHANGED vars
      BY <3>1 DEF vars, Shapes
    <3>2. CASE Next
      BY <3>2, SendShapes, HandleShapes, DiesShapes DEF Next
    <3> QED
      BY <3>1, <3>2
  <2>2. Capped' => Capped
    BY ModeStays DEF Capped, Fault
  <2>3. ASSUME Capped
        PROVE  CapInv'
    <3>1. CASE UNCHANGED vars
      BY <3>1, <2>3, OthersKeepCap DEF vars, CapInv, NobodyPutsTheDay
    <3>2. CASE Next
      BY <3>2, <2>1, <2>3, SendKeepsCap, HandleKeepsCap, DiesKeepsCap DEF Next
    <3> QED
      BY <3>1, <3>2
  <2> QED
    BY <2>1, <2>2, <2>3
<1>3. IInv => CapHeld
  <2> SUFFICES ASSUME Shapes, CapInv
               PROVE  AllMails <= DailyCap
    BY DEF CapHeld, Capped
  <2>1. AllMails \in Nat /\ day.sent \in Int /\ Cardinality(Reserved) \in Nat /\ DailyCap \in Nat
    BY MailsAreNat, OutreachAssumption, FS_CardinalityType DEF Shapes, Day, CapInv
  <2> QED
    BY <2>1 DEF CapInv
<1> QED
  BY <1>1, <1>2, <1>3, PTL DEF Spec
=============================================================================

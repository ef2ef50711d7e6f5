------------------------------- MODULE Outreach -------------------------------
(***************************************************************************)
(* Cold outreach (board_outreach.py, board_prospects.py): the tool that    *)
(* mails a prospect the next step of its sequence, and everything else     *)
(* that writes a prospect's row meanwhile: replies, unsubscribe links,     *)
(* bounces, the scorer, the owner, an import and a veto.  A prospect is    *)
(* one row, put as a whole and without a condition from a copy read        *)
(* earlier.  The day's counter is reserved by a conditional update, the    *)
(* suppression list is a row per address.                                  *)
(***************************************************************************)
EXTENDS Naturals, Integers, Sequences, SequencesExt, FiniteSets, FiniteSetsExt, Functions

CONSTANTS
  Prospects,   \* prospect ids
  Addresses,   \* e-mail addresses
  Home,        \* Home[p]: the contact of a newly qualified prospect
  None,        \* no contact, no prospect
  Senders,     \* invocations of outreach_send
  Handlers,    \* invocations of anything else
  Steps,       \* the steps of the sequence
  MaxTouches,  \* BOARD_STAFF_OUTREACH_MAX_TOUCHES
  DailyCap,    \* dailyCap
  MaxCrashes,  \* bound: invocations that die
  Modes        \* the environments to check, a set of Mode

(* overlap: invocations work on one prospect at the same time; crash: one    *)
(* ends between two steps; refused: SES does not take the mail; lost: SES    *)
(* takes the mail and its answer is lost; skips: a seat asks for a later step *)
(* than the next.                                                            *)
Faults == {"overlap", "crash", "refused", "lost", "skips"}
Ops    == {"score", "start", "owner", "upsert", "veto", "reply", "stop", "click", "bounce"}

(* pipeline are the prospects there are, bound is how many of ops happen.    *)
Mode == [faults : SUBSET Faults, ops : SUBSET Ops, bound : Nat, pipeline : SUBSET Prospects]

ASSUME OutreachAssumption ==
  /\ IsFiniteSet(Prospects)
  /\ Home \in [Prospects -> Addresses]
  /\ None \notin Prospects \cup Addresses
  /\ Senders \cap Handlers = {}
  /\ {Steps, MaxTouches, DailyCap, MaxCrashes} \subseteq Nat
  /\ Modes \subseteq Mode

VARIABLES
  mode,        \* the environment of this behaviour; never changes
  row,         \* row[p]: the prospect's row
  suppressed,  \* the addresses on the suppression list
  day,         \* the day's row: mails reserved, bounces and complaints
  sender,      \* sender[s]: what an outreach_send is about to do and holds
  handler,     \* handler[h]: what another invocation is about to do and holds
  mails,       \* mails[p][i]: how often step i was mailed
  to,          \* the addresses a prospect's mails went to
  heard,       \* the addresses that asked for no more mail and were told so
  handled,     \* how many of mode.ops were begun
  crashes      \* how many invocations have died

vars == <<mode, row, suppressed, day, sender, handler, mails, to, heard, handled, crashes>>

-----------------------------------------------------------------------------
Stages   == {"discovered", "qualified", "parked", "contacted", "replied", "unresponsive",
             "declined", "suppressed"}
Mailable == {"qualified", "contacted"}
OwnerStages == {"suppressed", "declined", "qualified", "parked"}

StepIds == 0 .. Steps - 1
Row     == [stage : Stages, contact : Addresses \cup {None}, touches : Seq(StepIds)]
Day     == [sent : Int, bad : Nat]

NoRow == [stage |-> "discovered", contact |-> None, touches |-> <<>>]

(* warned: the address had asked for no more mail when the send began.       *)
NoSend   == [at |-> "idle", p |-> None, step |-> 0, doc |-> NoRow, warned |-> FALSE]
NoHandle == [at |-> "idle", op |-> "veto", p |-> None, from |-> None, doc |-> NoRow,
             seen |-> [sent |-> 0, bad |-> 0]]

Fault(f) == f \in mode.faults

Busy(p) == \/ \E s \in Senders : sender[s].p = p
           \/ \E h \in Handlers : handler[h].p = p
Free(p) == ~Busy(p) \/ Fault("overlap")

Init ==
  /\ mode \in Modes
  /\ row = [p \in Prospects |-> [NoRow EXCEPT !.stage = "qualified", !.contact = Home[p]]]
  /\ suppressed = {}
  /\ day = [sent |-> 0, bad |-> 0]
  /\ sender = [s \in Senders |-> NoSend]
  /\ handler = [h \in Handlers |-> NoHandle]
  /\ mails = [p \in Prospects |-> [i \in StepIds |-> 0]]
  /\ to = [p \in Prospects |-> {}]
  /\ heard = {}
  /\ handled = 0
  /\ crashes = 0

-----------------------------------------------------------------------------
(* send.  Every refusal before the reservation changes nothing.            *)

Sends(s, rec)   == sender' = [sender EXCEPT ![s] = rec]
SendAt(s, pc)   == sender[s].at = pc
SendGoes(s, pc) == Sends(s, [sender[s] EXCEPT !.at = pc])

(* The checks on the prospect's row.                                         *)
MayBeSent(p, i) ==
  /\ row[p].stage \in Mailable
  /\ row[p].contact # None
  /\ Len(row[p].touches) < MaxTouches
  /\ i \in Len(row[p].touches) .. Steps - 1
  /\ i = Len(row[p].touches) \/ Fault("skips")

SendReads(s, p, i) ==
  /\ SendAt(s, "idle") /\ Free(p)
  /\ MayBeSent(p, i)
  /\ Sends(s, [at |-> "suppressed", p |-> p, step |-> i, doc |-> row[p],
               warned |-> row[p].contact \in heard])
  /\ UNCHANGED <<mode, row, suppressed, day, handler, mails, to, heard, handled, crashes>>

IsSuppressedByStage(a) == FALSE

IsSuppressed(a) == a \in suppressed

SendChecksSuppressed(s) ==
  /\ SendAt(s, "suppressed")
  /\ IF IsSuppressed(sender[s].doc.contact) THEN Sends(s, NoSend) ELSE SendGoes(s, "reserve")
  /\ UNCHANGED <<mode, row, suppressed, day, handler, mails, to, heard, handled, crashes>>

SendReservesUncapped(s) ==
  /\ SendAt(s, "reserve")
  /\ day' = [day EXCEPT !.sent = @ + 1]
  /\ SendGoes(s, "pending")
  /\ UNCHANGED <<mode, row, suppressed, handler, mails, to, heard, handled, crashes>>

(* reserve_outreach_sent.                                                    *)
SendReserves(s) ==
  /\ SendAt(s, "reserve")
  /\ IF day.sent < DailyCap
     THEN day' = [day EXCEPT !.sent = @ + 1] /\ SendGoes(s, "pending")
     ELSE UNCHANGED day /\ Sends(s, NoSend)
  /\ UNCHANGED <<mode, row, suppressed, handler, mails, to, heard, handled, crashes>>

SendPutsNoTouch(s) ==
  /\ SendAt(s, "pending")
  /\ SendGoes(s, "mail")
  /\ UNCHANGED <<mode, row, suppressed, day, handler, mails, to, heard, handled, crashes>>

(* The touch is put before the mail is sent.                                 *)
SendPutsTouch(s) ==
  LET doc == [sender[s].doc EXCEPT !.touches = Append(@, sender[s].step)] IN
  /\ SendAt(s, "pending")
  /\ row' = [row EXCEPT ![sender[s].p] = doc]
  /\ Sends(s, [sender[s] EXCEPT !.at = "mail", !.doc = doc])
  /\ UNCHANGED <<mode, suppressed, day, handler, mails, to, heard, handled, crashes>>

Mailed(s) ==
  /\ mails' = [mails EXCEPT ![sender[s].p][sender[s].step] = @ + 1]
  /\ to' = [to EXCEPT ![sender[s].p] = @ \cup {sender[s].doc.contact}]

SendMails(s) ==
  /\ SendAt(s, "mail")
  /\ Mailed(s)
  /\ SendGoes(s, "reload")
  /\ UNCHANGED <<mode, row, suppressed, day, handler, heard, handled, crashes>>

(* release_outreach_sent; the touch stays on the row.                        *)
SendFails(s) ==
  /\ SendAt(s, "mail")
  /\ \/ Fault("refused") /\ UNCHANGED <<mails, to>>
     \/ Fault("lost") /\ Mailed(s)
  /\ day' = [day EXCEPT !.sent = @ - 1]
  /\ Sends(s, NoSend)
  /\ UNCHANGED <<mode, row, suppressed, handler, heard, handled, crashes>>

(* The row is read again and its touch filled in.  A touch is looked for by  *)
(* int(touch.get("stepIndex") or -1), which no touch of step 0 matches.      *)
HasTouch(touches, i) == i # 0 /\ i \in ToSet(touches)

Touched(touches, i) == IF HasTouch(touches, i) THEN touches ELSE Append(touches, i)

Recorded(latest, held, i) ==
  LET known   == IF latest.touches = <<>> THEN held.touches ELSE latest.touches
      touches == Touched(known, i)
      over    == i + 1 >= Steps \/ Len(touches) >= MaxTouches
  IN [stage   |-> IF over THEN "unresponsive"
                  ELSE IF latest.stage = "qualified" THEN "contacted" ELSE latest.stage,
      contact |-> held.contact,
      touches |-> touches]

SendReloads(s) ==
  /\ SendAt(s, "reload")
  /\ Sends(s, [sender[s] EXCEPT !.at = "save",
                 !.doc = Recorded(row[sender[s].p], sender[s].doc, sender[s].step)])
  /\ UNCHANGED <<mode, row, suppressed, day, handler, mails, to, heard, handled, crashes>>

SendSaves(s) ==
  /\ SendAt(s, "save")
  /\ row' = [row EXCEPT ![sender[s].p] = sender[s].doc]
  /\ Sends(s, NoSend)
  /\ UNCHANGED <<mode, suppressed, day, handler, mails, to, heard, handled, crashes>>

-----------------------------------------------------------------------------
(* Everything else that writes the row: it is read, changed and put.       *)

Suppressing == {"stop", "click", "bounce"}

Changed(doc, op) ==
  CASE op = "score"  -> {[doc EXCEPT !.stage = st] : st \in {"qualified", "discovered", "parked"}}
    [] op = "start"  -> IF doc.stage \in Mailable /\ doc.contact # None
                        THEN {[doc EXCEPT !.stage = "contacted"]} ELSE {}
    [] op = "owner"  -> {[doc EXCEPT !.stage = st] : st \in OwnerStages}
                        \cup {[doc EXCEPT !.contact = a] : a \in Addresses \cup {None}}
    [] op = "upsert" -> IF doc.contact = None THEN {[doc EXCEPT !.contact = a] : a \in Addresses}
                        ELSE {doc}
    [] op = "veto"   -> {doc}
    [] op = "reply"  -> {[doc EXCEPT !.stage = "replied"]}
    [] op \in Suppressing -> {[doc EXCEPT !.stage = "suppressed"]}

(* A reader of a mail replies, asks to stop, follows the link or bounces.    *)
Readers(p, op) == IF op \in Suppressing \cup {"reply"} THEN to[p] ELSE {None}

HandlerReads(h, p, op) ==
  /\ handler[h].at = "idle" /\ Free(p)
  /\ op \in mode.ops /\ handled < mode.bound
  /\ \E a \in Readers(p, op), doc \in Changed(row[p], op) :
       handler' = [handler EXCEPT ![h] =
         [NoHandle EXCEPT !.at = IF op \in Suppressing THEN "suppress" ELSE "put",
                          !.op = op, !.p = p, !.from = a, !.doc = doc]]
  /\ handled' = handled + 1
  /\ UNCHANGED <<mode, row, suppressed, day, sender, mails, to, heard, crashes>>

(* The link suppresses the row's contact, the others the reader's address.   *)
SuppressedBy(rec) == IF rec.op = "click" THEN rec.doc.contact ELSE rec.from

HandlerSuppresses(h) ==
  /\ handler[h].at = "suppress"
  /\ suppressed' = suppressed \cup ({SuppressedBy(handler[h])} \ {None})
  /\ handler' = [handler EXCEPT ![h].at = "put"]
  /\ UNCHANGED <<mode, row, day, sender, mails, to, heard, handled, crashes>>

(* The scorer goes on to look for a contact, a bounce to count itself; the   *)
(* others answer.                                                            *)
AfterPut(op) == CASE op = "score" -> "find" [] op = "bounce" -> "day" [] OTHER -> "idle"

Stopped(h) == IF handler[h].op \in {"stop", "click"} THEN {handler[h].from} ELSE {}

HandlerPuts(h) ==
  LET rec == handler[h] IN
  /\ rec.at = "put"
  /\ row' = [row EXCEPT ![rec.p] = rec.doc]
  /\ heard' = heard \cup Stopped(h)
  /\ handler' = [handler EXCEPT ![h] = IF AfterPut(rec.op) = "idle" THEN NoHandle
                                       ELSE [@ EXCEPT !.at = AfterPut(rec.op)]]
  /\ UNCHANGED <<mode, suppressed, day, sender, mails, to, handled, crashes>>

(* find_contact.                                                             *)
HandlerFindsContact(h) ==
  /\ handler[h].at = "find"
  /\ \E a \in Addresses \cup {None} :
       row' = [row EXCEPT ![handler[h].p] = [handler[h].doc EXCEPT !.contact = a]]
  /\ handler' = [handler EXCEPT ![h] = NoHandle]
  /\ UNCHANGED <<mode, suppressed, day, sender, mails, to, heard, handled, crashes>>

(* The day's row is read, a bounce added, and put.                           *)
HandlerReadsDay(h) ==
  /\ handler[h].at = "day"
  /\ handler' = [handler EXCEPT ![h].at = "dayPut", ![h].seen = day]
  /\ UNCHANGED <<mode, row, suppressed, day, sender, mails, to, heard, handled, crashes>>

HandlerPutsDay(h) ==
  /\ handler[h].at = "dayPut"
  /\ day' = [handler[h].seen EXCEPT !.bad = @ + 1]
  /\ handler' = [handler EXCEPT ![h] = NoHandle]
  /\ UNCHANGED <<mode, row, suppressed, sender, mails, to, heard, handled, crashes>>

-----------------------------------------------------------------------------
Dies(i) ==
  /\ Fault("crash") /\ crashes < MaxCrashes
  /\ crashes' = crashes + 1
  /\ \/ /\ i \in Senders /\ sender[i].at # "idle"
        /\ Sends(i, NoSend) /\ UNCHANGED handler
     \/ /\ i \in Handlers /\ handler[i].at # "idle"
        /\ handler' = [handler EXCEPT ![i] = NoHandle] /\ UNCHANGED sender
  /\ UNCHANGED <<mode, row, suppressed, day, mails, to, heard, handled>>

Send(s) ==
  \/ \E p \in mode.pipeline, i \in StepIds : SendReads(s, p, i)
  \/ SendChecksSuppressed(s) \/ SendReserves(s) \/ SendPutsTouch(s)
  \/ SendMails(s) \/ SendFails(s) \/ SendReloads(s) \/ SendSaves(s)

Handle(h) ==
  \/ \E p \in mode.pipeline, op \in Ops : HandlerReads(h, p, op)
  \/ HandlerSuppresses(h) \/ HandlerPuts(h) \/ HandlerFindsContact(h)
  \/ HandlerReadsDay(h) \/ HandlerPutsDay(h)

Next ==
  \/ \E s \in Senders : Send(s) \/ Dies(s)
  \/ \E h \in Handlers : Handle(h) \/ Dies(h)

Spec == Init /\ [][Next]_vars

-----------------------------------------------------------------------------
(* Properties                                                              *)

(* No step of a sequence is mailed twice to a prospect, although SES may     *)
(* refuse, its answer be lost, and the send die before or after the mail:    *)
(* the touch is on the row before the mail leaves.  It takes that a seat     *)
(* asks for the next step and that nothing else works on the row meanwhile.  *)
OncePerStep ==
  ~Fault("overlap") /\ ~Fault("skips") => \A p \in Prospects, i \in StepIds : mails[p][i] <= 1

MailsTo(p) == SumFunction(mails[p])
AllMails   == SumFunction([p \in Prospects |-> MailsTo(p)])

(* No more mails leave than the day's cap, whatever sends run at once, are   *)
(* refused and give back what they reserved, or die.                         *)
CapHeld == "bounce" \notin mode.ops /\ ~Fault("lost") => AllMails <= DailyCap

(* Who asked for no more mail and was told so gets none from a send begun    *)
(* later, although the prospect's stage may be overwritten from a copy read  *)
(* before: the suppression list is kept apart from the row.                  *)
HeardIsLeftAlone ==
  mode.ops \cap {"score", "owner"} = {} => \A s \in Senders : SendAt(s, "mail") => ~sender[s].warned

(* With no faults a prospect has one touch for each mail.                    *)
TouchIsAMail ==
  mode.faults = {} => \A p \in Prospects : ~Busy(p) => Len(row[p].touches) = MailsTo(p)
=============================================================================

---------------------------- MODULE LinkedInPosts ----------------------------
(***************************************************************************)
(* LinkedIn drafts and the tick that posts them (linkedin.py,              *)
(* linkedin_store.py).  A draft is one row.  The owner (and an API key)    *)
(* edits, approves, withdraws and archives it, workers rewrite it and draw *)
(* its picture, and every 15 minutes a tick posts the oldest approved      *)
(* draft whose slot is open and mails the owner about the rest.            *)
(*                                                                         *)
(* No put of a row is conditional: every operation reads the row, changes  *)
(* its copy and puts the whole copy back.  The tick reads the row once     *)
(* more around each step that follows the call to LinkedIn.                *)
(***************************************************************************)
EXTENDS Naturals, Sequences, FiniteSets

CONSTANTS
  Posts,      \* ids of drafts
  Writers,    \* requests and workers that change a draft
  None,       \* no draft, no operation
  MaxCopies,  \* bound: texts a draft may have
  Slots,      \* bound: the last hour a slot can be assigned
  MaxTries,   \* PUBLISH_ATTEMPTS
  MaxLive,    \* bound: the posts LinkedIn may show
  Modes       \* the settings to check, a subset of AllModes

(* The faults a behaviour meets: crash: a tick may end anywhere but between  *)
(* LinkedIn's answer and the put that remembers it; refuse: LinkedIn may     *)
(* refuse, or be disconnected; lost: a post goes live and the answer does    *)
(* not come back or the tick ends with it in hand; overlap: a draft is       *)
(* changed while the tick runs.  publish is the owner's switch, ops is what  *)
(* is done to a draft, bound how many posts LinkedIn may show.               *)
Faults   == {"crash", "refuse", "lost", "overlap"}
Ops      == {"edit", "slot", "touch", "approve", "unapprove", "archive", "posted"}
AllModes == [publish : BOOLEAN, faults : SUBSET Faults, ops : SUBSET Ops, bound : 0..MaxLive]

ASSUME LinkedInAssumption ==
  /\ None \notin Posts
  /\ {MaxCopies, Slots, MaxTries, MaxLive} \subseteq Nat \ {0}
  /\ Modes \subseteq AllModes

VARIABLES
  mode,       \* the settings of this behaviour; never changes
  post,       \* post[p]: its row
  hour,       \* the time: slot s is ahead before hour s, open at it, past after
  live,       \* what LinkedIn shows: live[u] is the draft and copy of post u
  approved,   \* the copies approve_post approved, as pairs <<draft, copy>>
  byHand,     \* the drafts the owner marked as posted by hand
  answered,   \* answered[p]: since its approval it was posted or mailed about
  writer,     \* writer[w]: an operation between its read and its last put
  tick        \* the tick: its next step, and the rows it holds

vars == <<mode, post, hour, live, approved, byHand, answered, writer, tick>>

-----------------------------------------------------------------------------
Copies   == 1..MaxCopies
Urns     == 1..MaxLive
NoUrn    == 0
NoSlot   == 0
Statuses == {"drafted", "approved", "published", "archived"}

Row == [status : Statuses, copy : Copies, slot : NoSlot..(Slots + 1), urn : {NoUrn} \cup Urns,
        tries : 0..MaxTries, error : BOOLEAN, told : BOOLEAN, gaveUp : BOOLEAN]

NewRow == [status |-> "drafted", copy |-> 1, slot |-> NoSlot, urn |-> NoUrn,
           tries |-> 0, error |-> FALSE, told |-> FALSE, gaveUp |-> FALSE]

Idle == [op |-> "none", post |-> None, doc |-> NewRow]

TickPcs == {"idle", "post", "remember", "rememberPut", "publish", "publishPut", "note",
            "fail", "failPut", "due", "remind", "stamp", "giveUp", "giveUpStamp"}

(* linked: LinkedIn was connected; counts: the failure uses up an attempt.   *)
NoTick == [at |-> "idle", post |-> None, doc |-> NewRow, urn |-> NoUrn, linked |-> TRUE,
           counts |-> FALSE, list |-> {}]

Fault(f) == f \in mode.faults

Put(p, doc) == post' = [post EXCEPT ![p] = doc]
Due(p)      == /\ post[p].status = "approved"
               /\ post[p].slot \in 1..hour

Init ==
  /\ mode \in Modes
  /\ post = [p \in Posts |-> NewRow]
  /\ hour = 0
  /\ live = << >>
  /\ approved = {}
  /\ byHand = {}
  /\ answered = [p \in Posts |-> FALSE]
  /\ writer = [w \in Writers |-> Idle]
  /\ tick = NoTick

-----------------------------------------------------------------------------
(* What the owner, an API key or a worker does with a draft.               *)

(* The checks of update_post, unapprove_post, mark_posted and approve_post   *)
(* on the row they read.  "touch" stands for the puts that leave all that    *)
(* the row has here as it was: a star, a picture, metrics.                   *)
Allowed(op, doc) ==
  CASE op = "edit"                -> doc.status \notin {"published", "archived"}
    [] op = "slot"                -> doc.status = "approved"
    [] op = "approve"             -> doc.status # "published"
    [] op = "unapprove"           -> doc.status = "approved"
    [] op = "posted"              -> doc.status # "archived"
    [] op \in {"touch", "archive"} -> TRUE
    [] OTHER                      -> FALSE

UnscheduledFromScratch(doc) ==
  [doc EXCEPT !.status = "drafted", !.slot = NoSlot, !.urn = NoUrn]

Unscheduled(doc) == [doc EXCEPT !.status = "drafted", !.slot = NoSlot]

EditedInPlace(doc, copy) == [doc EXCEPT !.copy = copy]

(* update_post on a new copy: an approved draft must be approved again.      *)
Edited(doc, copy) ==
  LET kept == [doc EXCEPT !.copy = copy]
  IN IF doc.status = "approved" THEN Unscheduled(kept) ELSE kept

(* The rows an operation may put, given the copy it read.                    *)
Changed(op, doc) ==
  CASE op = "edit"                -> {Edited(doc, c) : c \in Copies \ {doc.copy}}
    [] op = "slot"                -> {[doc EXCEPT !.slot = s] : s \in NoSlot..Slots}
    [] op = "approve"             -> {[doc EXCEPT !.status = "approved", !.slot = s] :
                                        s \in IF doc.slot = NoSlot THEN {t \in 1..Slots : t > hour}
                                                                   ELSE {doc.slot}}
    [] op = "unapprove"           -> {Unscheduled(doc)}
    [] op = "archive"             -> {[doc EXCEPT !.status = "archived"]}
    [] op = "posted"              -> {[doc EXCEPT !.status = "published", !.urn = NoUrn,
                                                  !.slot = IF @ = NoSlot THEN hour ELSE @]}
    [] OTHER                      -> {doc}

(* update_post may run while the tick does only where the behaviour allows.  *)
WriterReads(w, p, op) ==
  /\ writer[w] = Idle
  /\ tick.at = "idle" \/ Fault("overlap")
  /\ op \in mode.ops
  /\ Allowed(op, post[p])
  /\ writer' = [writer EXCEPT ![w] = [op |-> op, post |-> p, doc |-> post[p]]]
  /\ UNCHANGED <<mode, post, hour, live, approved, byHand, answered, tick>>

(* _replace_post is an edit followed by a second put of the row it left,     *)
(* that is, by a touch.                                                      *)
WriterPuts(w) ==
  LET o == writer[w] IN
  /\ o # Idle
  /\ \E doc \in Changed(o.op, o.doc) :
       /\ Put(o.post, doc)
       /\ writer' = [writer EXCEPT ![w] = Idle]
  /\ approved' = IF o.op = "approve" THEN approved \cup {<<o.post, o.doc.copy>>} ELSE approved
  /\ answered' = IF o.op = "approve" THEN [answered EXCEPT ![o.post] = FALSE] ELSE answered
  /\ byHand' = IF o.op = "posted" THEN byHand \cup {o.post} ELSE byHand
  /\ UNCHANGED <<mode, hour, live, tick>>

(* assign_slot found no open slot.                                           *)
WriterRaises(w) ==
  /\ writer[w] # Idle
  /\ Changed(writer[w].op, writer[w].doc) = {}
  /\ writer' = [writer EXCEPT ![w] = Idle]
  /\ UNCHANGED <<mode, post, hour, live, approved, byHand, answered, tick>>

HourPasses ==
  /\ hour <= Slots
  /\ hour' = hour + 1
  /\ UNCHANGED <<mode, post, live, approved, byHand, answered, writer, tick>>

-----------------------------------------------------------------------------
(* handle_publish_due: one post at most, then the mails.                   *)

Goto(pc)       == tick' = [tick EXCEPT !.at = pc, !.doc = NewRow]
Reads(pc)      == tick' = [tick EXCEPT !.at = pc, !.doc = post[tick.post]]
TickKeeps      == UNCHANGED <<mode, hour, byHand, writer>>
Ready          == {p \in Posts : Due(p) /\ post[p].slot = hour /\ post[p].tries < MaxTries}
Quiet          == "overlap" \in mode.faults \/ \A w \in Writers : writer[w] = Idle

(* posts_given_up: approved, out of tries, and not told so yet.              *)
GivenUp == {p \in Posts : /\ post[p].status = "approved"
                          /\ post[p].tries >= MaxTries
                          /\ ~post[p].gaveUp}

(* posts_ready_to_publish lists the approved drafts inside their grace; the  *)
(* row it lists is the copy that is posted.                                  *)
TickPicks(p) ==
  /\ tick.at = "idle" /\ Quiet
  /\ mode.publish
  /\ p \in Ready
  /\ tick' = [NoTick EXCEPT !.at = "post", !.post = p, !.doc = post[p]]
  /\ TickKeeps /\ UNCHANGED <<post, live, approved, answered>>

(* Nothing to post, publishing is off, or LinkedIn is not connected.         *)
TickPicksNothing ==
  /\ tick.at = "idle" /\ Quiet
  /\ {p \in Posts : Due(p)} \cup GivenUp # {}
  /\ \E linked \in BOOLEAN :
       /\ IF mode.publish /\ linked THEN Ready = {} ELSE ~mode.publish \/ Fault("refuse")
       /\ tick' = [NoTick EXCEPT !.at = "due", !.linked = linked]
  /\ TickKeeps /\ UNCHANGED <<post, live, approved, answered>>

(* publish_one up to create_post; a row that has its urn is not posted again.*)
TickPosts ==
  /\ tick.at = "post"
  /\ IF tick.doc.urn # NoUrn
     THEN /\ tick' = [tick EXCEPT !.at = "publish", !.urn = tick.doc.urn, !.doc = NewRow]
          /\ UNCHANGED <<live, answered>>
     ELSE /\ Len(live) < mode.bound
          /\ live' = Append(live, <<tick.post, tick.doc.copy>>)
          /\ tick' = [tick EXCEPT !.at = "remember", !.urn = Len(live'), !.doc = NewRow]
          /\ answered' = [answered EXCEPT ![tick.post] = TRUE]
  /\ TickKeeps /\ UNCHANGED <<post, approved>>

(* The token, the picture, the text or the call is refused.                  *)
TickIsRefused ==
  /\ tick.at = "post" /\ tick.doc.urn = NoUrn /\ Fault("refuse")
  /\ \E counts \in BOOLEAN : tick' = [tick EXCEPT !.at = "fail", !.counts = counts, !.doc = NewRow]
  /\ TickKeeps /\ UNCHANGED <<post, live, approved, answered>>

(* LinkedIn made the post and its answer timed out or had no id.             *)
TickLosesAnswer ==
  /\ tick.at = "post" /\ tick.doc.urn = NoUrn /\ Fault("lost")
  /\ Len(live) < mode.bound
  /\ live' = Append(live, <<tick.post, tick.doc.copy>>)
  /\ tick' = [tick EXCEPT !.at = "fail", !.counts = TRUE, !.doc = NewRow]
  /\ TickKeeps /\ UNCHANGED <<post, approved, answered>>

TickForgetsUrn ==
  /\ tick.at = "remember"
  /\ Goto("publish")
  /\ TickKeeps /\ UNCHANGED <<post, live, approved, answered>>

(* remember_publish_urn reads the row and puts the id into it ...            *)
TickRemembers ==
  /\ \/ /\ tick.at = "remember"
        /\ Reads("rememberPut") /\ UNCHANGED post
     \/ /\ tick.at = "rememberPut"
        /\ Put(tick.post, [tick.doc EXCEPT !.urn = tick.urn])
        /\ Goto("publish")
  /\ TickKeeps /\ UNCHANGED <<live, approved, answered>>

(* ... and mark_api_published reads it again and flips the status.           *)
MarkedPublished(doc) == [doc EXCEPT !.status = "published", !.urn = tick.urn, !.error = FALSE]

TickPublishes ==
  /\ \/ /\ tick.at = "publish"
        /\ Reads("publishPut") /\ UNCHANGED post
     \/ /\ tick.at = "publishPut"
        /\ Put(tick.post, MarkedPublished(tick.doc))
        /\ tick' = [tick EXCEPT !.at = "note", !.doc = MarkedPublished(tick.doc)]
  /\ TickKeeps /\ UNCHANGED <<live, approved, answered>>

(* A missing picture or a refused comment is noted in the same copy.         *)
TickNotes ==
  /\ tick.at = "note"
  /\ \/ UNCHANGED post
     \/ \E e \in BOOLEAN : Put(tick.post, [tick.doc EXCEPT !.error = e])
  /\ Goto("due")
  /\ TickKeeps /\ UNCHANGED <<live, approved, answered>>

(* record_publish_failure.                                                   *)
TickFails ==
  /\ \/ /\ tick.at = "fail"
        /\ Reads("failPut") /\ UNCHANGED post
     \/ /\ tick.at = "failPut"
        /\ Put(tick.post, [tick.doc EXCEPT !.error = TRUE,
                             !.tries = IF tick.counts THEN @ + 1 ELSE @])
        /\ Goto("due")
  /\ TickKeeps /\ UNCHANGED <<live, approved, answered>>

-----------------------------------------------------------------------------
(* due_approved lists the due drafts nobody was told of; one that the next   *)
(* tick will try, or that was given up, is passed over.                      *)
DueUntold == {p \in Posts : Due(p) /\ ~post[p].told}

PassedOverAfterItsHour(doc) ==
  \/ doc.tries >= MaxTries
  \/ mode.publish /\ tick.linked /\ ~doc.error

PassedOver(doc) ==
  \/ doc.tries >= MaxTries
  \/ mode.publish /\ tick.linked /\ ~doc.error /\ doc.slot = hour

TickListsDue ==
  /\ tick.at = "due"
  /\ tick' = [NoTick EXCEPT !.at = "remind", !.linked = tick.linked,
                         !.list = {<<p, post[p]>> : p \in DueUntold}]
  /\ TickKeeps /\ UNCHANGED <<post, live, approved, answered>>

Mailed(p) == answered' = [answered EXCEPT ![p] = TRUE]

TickReminds ==
  /\ tick.at = "remind" /\ tick.list # {}
  /\ \E e \in tick.list :
       /\ \/ /\ PassedOver(e[2])
             /\ tick' = [tick EXCEPT !.list = @ \ {e}]
             /\ UNCHANGED answered
          \/ /\ ~PassedOver(e[2])
             /\ Mailed(e[1])
             /\ tick' = [tick EXCEPT !.at = "stamp", !.post = e[1], !.doc = post[e[1]],
                                     !.list = @ \ {e}]
  /\ TickKeeps /\ UNCHANGED <<post, live, approved>>

(* stamp_due_notified, stamp_gave_up.                                        *)
TickStamps ==
  /\ \/ /\ tick.at = "stamp"
        /\ Put(tick.post, [tick.doc EXCEPT !.told = TRUE])
        /\ Goto("remind")
     \/ /\ tick.at = "giveUpStamp"
        /\ Put(tick.post, [tick.doc EXCEPT !.gaveUp = TRUE])
        /\ Goto("giveUp")
  /\ TickKeeps /\ UNCHANGED <<live, approved, answered>>

TickListsGivenUp ==
  /\ tick.at = "remind" /\ tick.list = {}
  /\ mode.publish
  /\ tick' = [NoTick EXCEPT !.at = "giveUp", !.list = {<<p, post[p]>> : p \in GivenUp}]
  /\ TickKeeps /\ UNCHANGED <<post, live, approved, answered>>

TickTellsGivenUp ==
  /\ tick.at = "giveUp" /\ tick.list # {}
  /\ \E e \in tick.list :
       /\ Mailed(e[1])
       /\ tick' = [tick EXCEPT !.at = "giveUpStamp", !.post = e[1], !.doc = post[e[1]],
                               !.list = @ \ {e}]
  /\ TickKeeps /\ UNCHANGED <<post, live, approved>>

TickEnds ==
  /\ tick.list = {}
  /\ \/ tick.at = "giveUp"
     \/ tick.at = "remind" /\ ~mode.publish
  /\ tick' = NoTick
  /\ TickKeeps /\ UNCHANGED <<post, live, approved, answered>>

(* The Lambda ends: a timeout, or an error of a table call.                  *)
TickDies ==
  /\ Fault("crash")
  /\ tick.at # "idle"
  /\ tick.at \in {"remember", "rememberPut"} => Fault("lost")
  /\ tick' = NoTick
  /\ TickKeeps /\ UNCHANGED <<post, live, approved, answered>>

-----------------------------------------------------------------------------
TickStep ==
  \/ \E p \in Posts : TickPicks(p)
  \/ TickPicksNothing
  \/ TickPosts \/ TickIsRefused \/ TickLosesAnswer
  \/ TickRemembers \/ TickPublishes \/ TickNotes \/ TickFails
  \/ TickListsDue \/ TickReminds \/ TickStamps
  \/ TickListsGivenUp \/ TickTellsGivenUp \/ TickEnds

Next ==
  \/ \E w \in Writers, p \in Posts, op \in Ops : WriterReads(w, p, op)
  \/ \E w \in Writers : WriterPuts(w) \/ WriterRaises(w)
  \/ HourPasses
  \/ TickStep
  \/ TickDies

Spec == Init /\ [][Next]_vars

(* Time passes, the scheduler starts the tick and a started invocation goes  *)
(* on unless it dies.                                                        *)
Fairness ==
  /\ SF_vars(TickStep)
  /\ WF_vars(HourPasses)
  /\ \A w \in Writers : WF_vars(WriterPuts(w) \/ WriterRaises(w))

FairSpec == Spec /\ Fairness
-----------------------------------------------------------------------------
(* Properties                                                              *)

(* "Store the LinkedIn id before the status flip so a later failure does not *)
(* post twice" (remember_publish_urn): a failure or a crash after the call   *)
(* leaves a row whose next tick posts nothing.  What the code cannot see (an *)
(* answer lost, or not written down before a crash) and does not guard       *)
(* against (a draft changed under the tick) is excluded here, and so is a    *)
(* draft marked as posted by hand, which drops the id, and then archived and *)
(* approved once more.                                                       *)
PostedAtMostOnce ==
  \/ mode.faults \cap {"lost", "overlap"} # {}
  \/ \A i, j \in DOMAIN live : live[i][1] = live[j][1] => i = j \/ live[i][1] \in byHand

(* Whatever the owner, the workers and the tick do at once, and whichever of *)
(* their puts are lost: what LinkedIn shows was approved in exactly that     *)
(* wording (update_post takes the approval back with the change of copy),    *)
(* and so was what waits for its slot.                                       *)
LiveWasApproved ==
  /\ \A i \in DOMAIN live : live[i] \in approved
  /\ \A p \in Posts : post[p].status = "approved" => <<p, post[p].copy>> \in approved

(* A draft is never lost between LinkedIn and its row: once it is live the   *)
(* row knows the post, or the tick that made it is about to write it down,   *)
(* or the owner has marked it as posted by hand.                             *)
LiveIsKnown ==
  \/ mode.faults \cap {"lost", "overlap"} # {}
  \/ \A i \in DOMAIN live :
       LET p == live[i][1] IN
       \/ post[p].urn = i
       \/ p \in byHand
       \/ tick.post = p /\ tick.at \in {"remember", "rememberPut"}

(* "post one due LinkedIn draft when publishing is on, and remind the owner  *)
(* about the rest" (board-schedules.ts): a draft whose slot has come is      *)
(* posted, or the owner hears of it, or it is withdrawn.  For the first      *)
(* approval of a draft, as long as no put is lost and the ticks do not die.  *)
Waiting(p) == Due(p) /\ ~answered[p]

FirstApprovalIsAnswered ==
  \A p \in Posts :
    (Waiting(p) /\ ~post[p].told /\ mode.faults \subseteq {"refuse", "lost"})
      ~> (~Waiting(p) \/ Len(live) = mode.bound)
=============================================================================

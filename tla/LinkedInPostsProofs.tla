------------------------ MODULE LinkedInPostsProofs ------------------------
(***************************************************************************)
(* What LinkedIn shows was approved in exactly that wording, for any       *)
(* number of drafts, writers and texts, any settings and any loss of puts. *)
(***************************************************************************)
EXTENDS LinkedInPosts, TLAPS

-----------------------------------------------------------------------------
(* The inductive invariant.                                                *)

(* A row, with its counters unbounded: under two writers and a tick the      *)
(* bounds of Row are not what the argument rests on.                         *)
AnyRow == [status : Statuses, copy : Copies, slot : Nat, urn : Nat, tries : Nat,
           error : BOOLEAN, told : BOOLEAN, gaveUp : BOOLEAN]

AnyTick == [at : TickPcs, post : Posts \cup {None}, doc : AnyRow, urn : Nat,
            linked : BOOLEAN, counts : BOOLEAN, list : SUBSET (Posts \X AnyRow)]

AnyWriter == [op : Ops \cup {"none"}, post : Posts \cup {None}, doc : AnyRow]

Shapes ==
  /\ post \in [Posts -> AnyRow]
  /\ hour \in Nat
  /\ live \in Seq(Posts \X Copies)
  /\ writer \in [Writers -> AnyWriter]
  /\ \A w \in Writers : writer[w] # Idle => writer[w].post \in Posts
  /\ tick \in AnyTick
  /\ tick.at \notin {"idle", "due", "remind", "giveUp"} => tick.post \in Posts

(* A copy of a row that says approved has a text that was approved: the      *)
(* copies in flight are the puts to come.                                    *)
Good(p, doc) == doc.status = "approved" => <<p, doc.copy>> \in approved

Backed ==
  /\ \A i \in DOMAIN live : live[i] \in approved
  /\ \A p \in Posts : Good(p, post[p])
  /\ \A w \in Writers : Good(writer[w].post, writer[w].doc)
  /\ Good(tick.post, tick.doc)
  /\ tick.at = "post" => tick.doc.status = "approved"

IInv == Shapes /\ Backed

-----------------------------------------------------------------------------
(* The rows an operation of a writer puts.                                 *)

LEMMA NewRowIsRow ==
  /\ NewRow \in AnyRow
  /\ NewRow.status = "drafted"
<1>1. 1 \in Copies
  BY LinkedInAssumption, SMT DEF Copies
<1> QED
  BY <1>1 DEF NewRow, AnyRow, Statuses, NoSlot, NoUrn

LEMMA IdleIsWriter ==
  /\ Idle \in AnyWriter
  /\ Idle.doc = NewRow
BY NewRowIsRow DEF Idle, AnyWriter

LEMMA NoTickIsTick ==
  /\ NoTick \in AnyTick
  /\ NoTick.at = "idle"
  /\ NoTick.doc = NewRow
BY NewRowIsRow DEF NoTick, AnyTick, TickPcs, NoUrn

LEMMA MovedIsRow ==
  ASSUME NEW doc \in AnyRow, NEW s \in Nat, NEW st \in Statuses
  PROVE  /\ [doc EXCEPT !.status = st, !.slot = s] \in AnyRow
         /\ [doc EXCEPT !.status = st, !.slot = s].copy = doc.copy
BY DEF AnyRow

(* What an operation puts is a row, and only an approval makes it approved   *)
(* where it was not; none changes the text and leaves the approval.          *)
LEMMA ChangedIsRow ==
  ASSUME NEW op \in Ops, NEW doc \in AnyRow, hour \in Nat,
         NEW new \in Changed(op, doc)
  PROVE  /\ new \in AnyRow
         /\ new.status = "approved" => new.copy = doc.copy
         /\ new.status = "approved" => op = "approve" \/ doc.status = "approved"
<1> USE DEF AnyRow, Statuses
<1>s. Slots \in Nat
  BY LinkedInAssumption, SMT
<1>1. CASE op = "edit"
  <2>1. new \in {Edited(doc, c) : c \in Copies \ {doc.copy}}
    BY <1>1 DEF Changed
  <2>2. PICK c \in Copies : new = Edited(doc, c)
    BY <2>1
  <2>3. [doc EXCEPT !.copy = c] \in AnyRow
    OBVIOUS
  <2>4. CASE doc.status = "approved"
    <3>1. new = [[doc EXCEPT !.copy = c] EXCEPT !.status = "drafted", !.slot = 0]
      BY <2>2, <2>4 DEF Edited, Unscheduled, NoSlot
    <3> QED
      BY <3>1, <2>3
  <2>5. CASE doc.status # "approved"
    BY <2>2, <2>3, <2>5 DEF Edited
  <2> QED
    BY <2>4, <2>5
<1>2. CASE op = "slot"
  <2>1. new \in {[doc EXCEPT !.slot = s] : s \in NoSlot..Slots}
    BY <1>2 DEF Changed
  <2>2. PICK s \in NoSlot..Slots : new = [doc EXCEPT !.slot = s]
    BY <2>1
  <2> QED
    BY <2>2, <1>s DEF NoSlot
<1>3. CASE op = "approve"
  <2>1. new \in {[doc EXCEPT !.status = "approved", !.slot = s] :
                   s \in IF doc.slot = NoSlot THEN {t \in 1..Slots : t > hour} ELSE {doc.slot}}
    BY <1>3 DEF Changed
  <2>2. PICK s \in IF doc.slot = NoSlot THEN {t \in 1..Slots : t > hour} ELSE {doc.slot} :
               new = [doc EXCEPT !.status = "approved", !.slot = s]
    BY <2>1
  <2>3. s \in Nat
    BY <2>2, <1>s
  <2>4. new = [doc EXCEPT !.status = "approved", !.slot = s]
    BY <2>2
  <2>5. new \in AnyRow /\ new.copy = doc.copy
    BY <2>3, <2>4, MovedIsRow
  <2> QED
    BY <2>5, <1>3
<1>4. CASE op = "unapprove"
  <2>1. new = [doc EXCEPT !.status = "drafted", !.slot = 0]
    BY <1>4 DEF Changed, Unscheduled, NoSlot
  <2> QED
    BY <2>1
<1>5. CASE op = "archive"
  BY <1>5 DEF Changed
<1>6. CASE op = "posted"
  <2>1. new = [doc EXCEPT !.status = "published", !.urn = NoUrn,
                          !.slot = IF @ = NoSlot THEN hour ELSE @]
    BY <1>6 DEF Changed
  <2> QED
    BY <2>1 DEF NoUrn, NoSlot
<1>7. CASE op = "touch"
  BY <1>7 DEF Changed
<1> QED
  BY <1>1, <1>2, <1>3, <1>4, <1>5, <1>6, <1>7 DEF Ops

-----------------------------------------------------------------------------
(* The steps of the writers and the clock.                                 *)

LEMMA InitBacked ==
  ASSUME Init
  PROVE  IInv
<1>1. Shapes
  <2>1. post \in [Posts -> AnyRow] /\ hour \in Nat /\ live \in Seq(Posts \X Copies)
    BY NewRowIsRow DEF Init
  <2>2. /\ writer \in [Writers -> AnyWriter]
        /\ \A w \in Writers : writer[w] # Idle => writer[w].post \in Posts
    BY IdleIsWriter DEF Init
  <2> QED
    BY <2>1, <2>2, NoTickIsTick DEF Init, Shapes
<1>2. Backed
  <2>1. \A i \in DOMAIN live : live[i] \in approved
    BY DEF Init
  <2>2. \A p \in Posts : Good(p, post[p])
    BY NewRowIsRow DEF Init, Good
  <2>3. \A w \in Writers : Good(writer[w].post, writer[w].doc)
    BY NewRowIsRow, IdleIsWriter DEF Init, Good
  <2>4. Good(tick.post, tick.doc) /\ tick.at # "post"
    BY NewRowIsRow, NoTickIsTick DEF Init, Good
  <2> QED
    BY <2>1, <2>2, <2>3, <2>4 DEF Backed
<1> QED
  BY <1>1, <1>2 DEF IInv

LEMMA WriterReadsBacked ==
  ASSUME IInv, NEW w \in Writers, NEW p \in Posts, NEW op \in Ops, WriterReads(w, p, op)
  PROVE  IInv'
<1>1. writer' = [writer EXCEPT ![w] = [op |-> op, post |-> p, doc |-> post[p]]]
  BY DEF WriterReads
<1>2. /\ post' = post /\ hour' = hour /\ live' = live /\ approved' = approved /\ tick' = tick
  BY DEF WriterReads
<1>3. Shapes'
  <2>1. [op |-> op, post |-> p, doc |-> post[p]] \in AnyWriter
    BY DEF IInv, Shapes, AnyWriter
  <2>2. writer' \in [Writers -> AnyWriter]
    BY <1>1, <2>1 DEF IInv, Shapes
  <2>3. \A v \in Writers : writer'[v] # Idle => writer'[v].post \in Posts
    BY <1>1 DEF IInv, Shapes
  <2> QED
    BY <1>2, <2>2, <2>3 DEF IInv, Shapes
<1>4. Backed'
  <2>1. \A v \in Writers : Good(writer[v].post, writer[v].doc)'
    <3> TAKE v \in Writers
    <3>1. CASE v = w
      BY <1>1, <1>2, <3>1 DEF IInv, Shapes, Backed, Good
    <3>2. CASE v # w
      BY <1>1, <1>2, <3>2 DEF IInv, Shapes, Backed, Good
    <3> QED
      BY <3>1, <3>2
  <2> QED
    BY <1>2, <2>1 DEF IInv, Backed, Good
<1> QED
  BY <1>3, <1>4 DEF IInv

LEMMA WriterPutsBacked ==
  ASSUME IInv, NEW w \in Writers, WriterPuts(w)
  PROVE  IInv'
<1> DEFINE o == writer[w]
<1>1. PICK doc \in Changed(o.op, o.doc) :
        post' = [post EXCEPT ![o.post] = doc] /\ writer' = [writer EXCEPT ![w] = Idle]
  BY DEF WriterPuts, Put
<1>2. hour' = hour /\ live' = live /\ tick' = tick
  BY DEF WriterPuts
<1>3. approved' = IF o.op = "approve" THEN approved \cup {<<o.post, o.doc.copy>>} ELSE approved
  BY DEF WriterPuts
<1>4. o.post \in Posts /\ o.doc \in AnyRow /\ o.op \in Ops \cup {"none"} /\ hour \in Nat
  BY DEF IInv, Shapes, AnyWriter, WriterPuts
<1>5. doc \in AnyRow /\ (doc.status = "approved" => <<o.post, doc.copy>> \in approved')
  <2>1. CASE o.op \in Ops
    <3>1. /\ doc \in AnyRow
          /\ doc.status = "approved" => doc.copy = o.doc.copy
          /\ doc.status = "approved" => o.op = "approve" \/ o.doc.status = "approved"
      BY <1>4, <2>1, ChangedIsRow
    <3>2. Good(o.post, o.doc)
      BY DEF IInv, Backed
    <3>3. CASE o.op = "approve"
      <4>1. <<o.post, o.doc.copy>> \in approved'
        BY <1>3, <3>3
      <4> QED
        BY <3>1, <4>1 DEF Good
    <3>4. CASE o.op # "approve"
      <4>1. doc.status = "approved" => <<o.post, o.doc.copy>> \in approved'
        BY <1>3, <3>1, <3>2, <3>4 DEF Good
      <4> QED
        BY <3>1, <4>1 DEF Good
    <3> QED
      BY <3>1, <3>3, <3>4
  <2>2. CASE o.op = "none"
    <3>1. doc = o.doc
      BY <1>1, <2>2 DEF Changed
    <3>2. Good(o.post, o.doc)
      BY DEF IInv, Backed
    <3> QED
      BY <1>3, <1>4, <2>2, <3>1, <3>2 DEF Good
  <2> QED
    BY <1>4, <2>1, <2>2
<1>6. approved \subseteq approved'
  BY <1>3
<1>7. Shapes'
  <2>1. post' \in [Posts -> AnyRow]
    BY <1>1, <1>5 DEF IInv, Shapes
  <2>2. writer' \in [Writers -> AnyWriter]
    BY <1>1, IdleIsWriter DEF IInv, Shapes
  <2>3. \A v \in Writers : writer'[v] # Idle => writer'[v].post \in Posts
    BY <1>1 DEF IInv, Shapes
  <2> QED
    BY <1>2, <2>1, <2>2, <2>3 DEF IInv, Shapes
<1>8. Backed'
  <2>1. \A p \in Posts : Good(p, post[p])'
    <3> TAKE p \in Posts
    <3>1. CASE p = o.post
      <4>1. post'[p] = doc
        BY <1>1, <3>1 DEF IInv, Shapes
      <4> QED
        BY <1>5, <3>1, <4>1 DEF Good
    <3>2. CASE p # o.post
      <4>1. post'[p] = post[p]
        BY <1>1, <3>2 DEF IInv, Shapes
      <4> QED
        BY <1>6, <4>1 DEF IInv, Backed, Good
    <3> QED
      BY <3>1, <3>2
  <2>2. \A v \in Writers : Good(writer[v].post, writer[v].doc)'
    <3> TAKE v \in Writers
    <3>1. CASE v = w
      <4>1. writer'[v].doc.status = "drafted"
        BY <1>1, <3>1, IdleIsWriter, NewRowIsRow DEF IInv, Shapes
      <4> QED
        BY <4>1 DEF Good
    <3>2. CASE v # w
      <4>1. writer'[v] = writer[v]
        BY <1>1, <3>2 DEF IInv, Shapes
      <4> QED
        BY <1>6, <4>1 DEF IInv, Backed, Good
    <3> QED
      BY <3>1, <3>2
  <2>3. /\ \A i \in DOMAIN live' : live'[i] \in approved'
        /\ Good(tick.post, tick.doc)'
        /\ tick'.at = "post" => tick'.doc.status = "approved"
    BY <1>2, <1>6 DEF IInv, Backed, Good
  <2> QED
    BY <2>1, <2>2, <2>3 DEF Backed
<1> QED
  BY <1>7, <1>8 DEF IInv

LEMMA WriterRaisesBacked ==
  ASSUME IInv, NEW w \in Writers, WriterRaises(w)
  PROVE  IInv'
<1>1. writer' = [writer EXCEPT ![w] = Idle]
  BY DEF WriterRaises
<1>2. /\ post' = post /\ hour' = hour /\ live' = live /\ approved' = approved /\ tick' = tick
  BY DEF WriterRaises
<1>3. Shapes'
  <2>1. writer' \in [Writers -> AnyWriter]
    BY <1>1, IdleIsWriter DEF IInv, Shapes
  <2>2. \A v \in Writers : writer'[v] # Idle => writer'[v].post \in Posts
    BY <1>1 DEF IInv, Shapes
  <2> QED
    BY <1>2, <2>1, <2>2 DEF IInv, Shapes
<1>4. Backed'
  <2>1. \A v \in Writers : Good(writer[v].post, writer[v].doc)'
    <3> TAKE v \in Writers
    <3>1. CASE v = w
      <4>1. writer'[v].doc.status = "drafted"
        BY <1>1, <3>1, IdleIsWriter, NewRowIsRow DEF IInv, Shapes
      <4> QED
        BY <4>1 DEF Good
    <3>2. CASE v # w
      BY <1>1, <1>2, <3>2 DEF IInv, Shapes, Backed, Good
    <3> QED
      BY <3>1, <3>2
  <2> QED
    BY <1>2, <2>1 DEF IInv, Backed, Good
<1> QED
  BY <1>3, <1>4 DEF IInv

LEMMA HourPassesBacked ==
  ASSUME IInv, HourPasses
  PROVE  IInv'
BY DEF HourPasses, IInv, Shapes, Backed, Good

-----------------------------------------------------------------------------
(* The steps of the tick.                                                  *)

(* A step that changes only where the tick stands and what it holds.         *)
LEMMA TickMovesBacked ==
  ASSUME IInv, tick' \in AnyTick,
         tick'.at \notin {"idle", "due", "remind", "giveUp"} => tick'.post \in Posts,
         Good(tick.post, tick.doc)',
         tick'.at = "post" => tick'.doc.status = "approved",
         UNCHANGED <<post, hour, live, approved, writer>>
  PROVE  IInv'
BY DEF IInv, Shapes, Backed, Good

(* A step that puts a row with a text that was approved, if it is approved.  *)
LEMMA TickPutsBacked ==
  ASSUME IInv, NEW p \in Posts, NEW doc \in AnyRow, Good(p, doc), Put(p, doc),
         tick' \in AnyTick,
         tick'.at \notin {"idle", "due", "remind", "giveUp"} => tick'.post \in Posts,
         tick'.doc.status # "approved", tick'.at # "post",
         UNCHANGED <<hour, live, approved, writer>>
  PROVE  IInv'
<1>1. post' = [post EXCEPT ![p] = doc]
  BY DEF Put
<1>2. Shapes'
  BY <1>1 DEF IInv, Shapes
<1>3. \A q \in Posts : Good(q, post[q])'
  <2> TAKE q \in Posts
  <2>1. CASE q = p
    BY <1>1, <2>1 DEF IInv, Shapes, Good
  <2>2. CASE q # p
    BY <1>1, <2>2 DEF IInv, Shapes, Backed, Good
  <2> QED
    BY <2>1, <2>2
<1>4. Backed'
  BY <1>3 DEF IInv, Backed, Good
<1> QED
  BY <1>2, <1>4 DEF IInv

(* The tick goes on with the row it reads now.                               *)
LEMMA TickReadsBacked ==
  ASSUME IInv, NEW pc \in TickPcs \ {"post"}, tick.post \in Posts, Reads(pc),
         UNCHANGED <<post, hour, live, approved, writer>>
  PROVE  IInv'
<1>1. tick' = [tick EXCEPT !.at = pc, !.doc = post[tick.post]]
  BY DEF Reads
<1>2. /\ tick' \in AnyTick /\ tick'.at = pc /\ tick'.post = tick.post
      /\ tick'.doc = post[tick.post]
  BY <1>1 DEF IInv, Shapes, AnyTick
<1>3. Good(tick.post, tick.doc)'
  BY <1>2 DEF IInv, Backed, Good
<1> QED
  BY <1>2, <1>3, TickMovesBacked

(* The tick goes on to an entry of its list, with the row it reads now.      *)
LEMMA TickOpensBacked ==
  ASSUME IInv, NEW pc \in TickPcs \ {"post"}, NEW e \in tick.list,
         tick' = [tick EXCEPT !.at = pc, !.post = e[1], !.doc = post[e[1]], !.list = @ \ {e}],
         UNCHANGED <<post, hour, live, approved, writer>>
  PROVE  IInv'
<1>1. tick \in AnyTick /\ post \in [Posts -> AnyRow]
  BY DEF IInv, Shapes
<1>2. e[1] \in Posts /\ post[e[1]] \in AnyRow
  BY <1>1 DEF AnyTick
<1>3. /\ tick' \in AnyTick /\ tick'.at = pc /\ tick'.post = e[1]
      /\ tick'.doc = post[e[1]]
  BY <1>1, <1>2 DEF AnyTick
<1>4. Good(tick.post, tick.doc)'
  BY <1>2, <1>3 DEF IInv, Backed, Good
<1> QED
  BY <1>2, <1>3, <1>4, TickMovesBacked

(* A post goes live with a text that was approved.                           *)
LEMMA LiveGrowsBacked ==
  ASSUME IInv, tick.post \in Posts, <<tick.post, tick.doc.copy>> \in approved,
         live' = Append(live, <<tick.post, tick.doc.copy>>),
         tick' \in AnyTick, tick'.at # "post", tick'.post \in Posts, tick'.doc = NewRow,
         UNCHANGED <<post, hour, approved, writer>>
  PROVE  IInv'
<1>1. <<tick.post, tick.doc.copy>> \in Posts \X Copies
  BY DEF IInv, Shapes, AnyTick, AnyRow
<1>2. live \in Seq(Posts \X Copies)
  BY DEF IInv, Shapes
<1>3. live' \in Seq(Posts \X Copies)
  BY <1>1, <1>2
<1>4. \A i \in DOMAIN live' : live'[i] \in approved'
  <2> TAKE i \in DOMAIN live'
  <2>1. i \in 1..(Len(live) + 1)
    BY <1>1, <1>2
  <2>2. CASE i = Len(live) + 1
    BY <1>1, <1>2, <2>2
  <2>3. CASE i \in 1..Len(live)
    <3>1. live'[i] = live[i] /\ i \in DOMAIN live
      BY <1>1, <1>2, <2>3
    <3> QED
      BY <3>1 DEF IInv, Backed
  <2> QED
    BY <1>2, <2>1, <2>2, <2>3
<1>5. Shapes'
  BY <1>3 DEF IInv, Shapes
<1>6. Backed'
  BY <1>4, NewRowIsRow DEF IInv, Backed, Good
<1> QED
  BY <1>5, <1>6 DEF IInv

LEMMA TickStepsBacked ==
  ASSUME IInv, TickStep
  PROVE  IInv'
<1> USE NewRowIsRow, NoTickIsTick
<1>t. tick \in AnyTick /\ tick.doc \in AnyRow /\ post \in [Posts -> AnyRow]
  BY DEF IInv, Shapes, AnyTick
<1>k. TickKeeps => UNCHANGED <<hour, writer>>
  BY DEF TickKeeps
<1>p. tick.at \notin {"idle", "due", "remind", "giveUp"} => tick.post \in Posts
  BY DEF IInv, Shapes
<1>g. (\A p \in Posts : Good(p, post[p])) /\ Good(tick.post, tick.doc)
  BY DEF IInv, Backed
<1>1. ASSUME NEW p \in Posts, TickPicks(p)
      PROVE  IInv'
  <2>1. tick' = [NoTick EXCEPT !.at = "post", !.post = p, !.doc = post[p]]
    BY <1>1 DEF TickPicks
  <2>2. post[p].status = "approved"
    BY <1>1 DEF TickPicks, Ready, Due
  <2>3. tick' \in AnyTick /\ tick'.at = "post" /\ tick'.post = p /\ tick'.doc = post[p]
    BY <2>1, <1>t DEF AnyTick, TickPcs
  <2>4. UNCHANGED <<post, hour, live, approved, writer>>
    BY <1>1, <1>k DEF TickPicks
  <2>5. Good(tick.post, tick.doc)'
    BY <2>3, <2>4, <1>g DEF Good
  <2> QED
    BY <2>2, <2>3, <2>4, <2>5, TickMovesBacked
<1>2. CASE TickPicksNothing
  <2>1. PICK linked \in BOOLEAN : tick' = [NoTick EXCEPT !.at = "due", !.linked = linked]
    BY <1>2 DEF TickPicksNothing
  <2>2. tick' \in AnyTick /\ tick'.at = "due" /\ tick'.doc = NewRow
    BY <2>1 DEF AnyTick, TickPcs
  <2>3. UNCHANGED <<post, hour, live, approved, writer>>
    BY <1>2, <1>k DEF TickPicksNothing
  <2> QED
    BY <2>2, <2>3, TickMovesBacked DEF Good
<1>3. CASE TickPosts
  <2>1. CASE tick.doc.urn # NoUrn
    <3>1. /\ tick' = [tick EXCEPT !.at = "publish", !.urn = tick.doc.urn, !.doc = NewRow]
          /\ UNCHANGED <<post, hour, live, approved, writer>>
      BY <1>3, <2>1, <1>k DEF TickPosts
    <3>2. /\ tick' \in AnyTick /\ tick'.at = "publish" /\ tick'.doc = NewRow
          /\ tick'.post \in Posts
      BY <3>1, <1>3, <1>t, <1>p DEF TickPosts, AnyTick, AnyRow, TickPcs
    <3> QED
      BY <3>1, <3>2, TickMovesBacked DEF Good
  <2>2. CASE tick.doc.urn = NoUrn
    <3>1. /\ live' = Append(live, <<tick.post, tick.doc.copy>>)
          /\ tick' = [tick EXCEPT !.at = "remember", !.urn = Len(live'), !.doc = NewRow]
          /\ UNCHANGED <<post, hour, approved, writer>>
      BY <1>3, <2>2, <1>k DEF TickPosts
    <3>2. tick.post \in Posts /\ <<tick.post, tick.doc.copy>> \in approved
      BY <1>3, <1>p, <1>g DEF TickPosts, IInv, Backed, Good
    <3>3. Len(live') \in Nat
      BY <3>1, <1>t DEF IInv, Shapes, AnyTick, AnyRow
    <3>4. /\ tick' \in AnyTick /\ tick'.at = "remember" /\ tick'.doc = NewRow
          /\ tick'.post \in Posts
      BY <3>1, <3>2, <3>3, <1>t DEF AnyTick, TickPcs
    <3> QED
      BY <3>1, <3>2, <3>4, LiveGrowsBacked
  <2> QED
    BY <2>1, <2>2
<1>4. CASE TickIsRefused
  <2>1. PICK counts \in BOOLEAN :
          tick' = [tick EXCEPT !.at = "fail", !.counts = counts, !.doc = NewRow]
    BY <1>4 DEF TickIsRefused
  <2>2. /\ tick' \in AnyTick /\ tick'.at = "fail" /\ tick'.doc = NewRow
        /\ tick'.post \in Posts
    BY <2>1, <1>4, <1>t, <1>p DEF TickIsRefused, AnyTick, TickPcs
  <2>3. UNCHANGED <<post, hour, live, approved, writer>>
    BY <1>4, <1>k DEF TickIsRefused
  <2> QED
    BY <2>2, <2>3, TickMovesBacked DEF Good
<1>5. CASE TickLosesAnswer
  <2>1. /\ live' = Append(live, <<tick.post, tick.doc.copy>>)
        /\ tick' = [tick EXCEPT !.at = "fail", !.counts = TRUE, !.doc = NewRow]
        /\ UNCHANGED <<post, hour, approved, writer>>
    BY <1>5, <1>k DEF TickLosesAnswer
  <2>2. tick.post \in Posts /\ <<tick.post, tick.doc.copy>> \in approved
    BY <1>5, <1>p, <1>g DEF TickLosesAnswer, IInv, Backed, Good
  <2>3. /\ tick' \in AnyTick /\ tick'.at = "fail" /\ tick'.doc = NewRow
        /\ tick'.post \in Posts
    BY <2>1, <2>2, <1>t DEF AnyTick, TickPcs
  <2> QED
    BY <2>1, <2>2, <2>3, LiveGrowsBacked
<1>6. CASE TickRemembers
  <2>1. CASE tick.at = "remember"
    <3>1. Reads("rememberPut") /\ UNCHANGED <<post, hour, live, approved, writer>>
      BY <1>6, <2>1, <1>k DEF TickRemembers
    <3>2. tick.post \in Posts
      BY <2>1, <1>p
    <3>3. "rememberPut" \in TickPcs \ {"post"}
      BY DEF TickPcs
    <3> QED
      BY <3>1, <3>2, <3>3, TickReadsBacked
  <2>2. CASE tick.at = "rememberPut"
    <3>1. [tick.doc EXCEPT !.urn = tick.urn] \in AnyRow
      BY <1>t DEF AnyTick, AnyRow
    <3>2. Good(tick.post, [tick.doc EXCEPT !.urn = tick.urn])
      BY <1>t, <1>g DEF AnyRow, Good
    <3>3. /\ Put(tick.post, [tick.doc EXCEPT !.urn = tick.urn])
          /\ Goto("publish")
      BY <1>6, <2>2 DEF TickRemembers
    <3>4. UNCHANGED <<hour, live, approved, writer>>
      BY <1>6, <1>k DEF TickRemembers
    <3>5. /\ tick' \in AnyTick /\ tick'.at = "publish" /\ tick'.doc = NewRow
          /\ tick'.post \in Posts
      BY <3>3, <2>2, <1>t, <1>p DEF Goto, AnyTick, TickPcs
    <3> QED
      BY <2>2, <1>p, <3>1, <3>2, <3>3, <3>4, <3>5, TickPutsBacked
  <2> QED
    BY <1>6, <2>1, <2>2 DEF TickRemembers
<1>7. CASE TickPublishes
  <2>1. CASE tick.at = "publish"
    <3>1. Reads("publishPut") /\ UNCHANGED <<post, hour, live, approved, writer>>
      BY <1>7, <2>1, <1>k DEF TickPublishes
    <3>2. tick.post \in Posts
      BY <2>1, <1>p
    <3>3. "publishPut" \in TickPcs \ {"post"}
      BY DEF TickPcs
    <3> QED
      BY <3>1, <3>2, <3>3, TickReadsBacked
  <2>2. CASE tick.at = "publishPut"
    <3> DEFINE doc == MarkedPublished(tick.doc)
    <3>1. doc \in AnyRow /\ doc.status = "published"
      BY <1>t DEF MarkedPublished, AnyTick, AnyRow, Statuses
    <3>2. Good(tick.post, doc)
      BY <3>1 DEF Good
    <3>3. Put(tick.post, doc) /\ tick' = [tick EXCEPT !.at = "note", !.doc = doc]
      BY <1>7, <2>2 DEF TickPublishes
    <3>4. UNCHANGED <<hour, live, approved, writer>>
      BY <1>7, <1>k DEF TickPublishes
    <3> HIDE DEF doc
    <3>5. /\ tick' \in AnyTick /\ tick'.at = "note" /\ tick'.doc = doc
          /\ tick'.post \in Posts
      BY <3>1, <3>3, <2>2, <1>t, <1>p DEF AnyTick, TickPcs
    <3> QED
      BY <2>2, <1>p, <3>1, <3>2, <3>3, <3>4, <3>5, TickPutsBacked
  <2> QED
    BY <1>7, <2>1, <2>2 DEF TickPublishes
<1>8. CASE TickNotes
  <2>1. /\ tick.post \in Posts
        /\ UNCHANGED <<hour, live, approved, writer>>
    BY <1>8, <1>k, <1>p DEF TickNotes
  <2>2. /\ tick' \in AnyTick /\ tick'.at = "due" /\ tick'.doc = NewRow
    BY <1>8, <1>t DEF TickNotes, Goto, AnyTick, TickPcs
  <2>3. CASE UNCHANGED post
    BY <2>1, <2>2, <2>3, TickMovesBacked DEF Good
  <2>4. ASSUME NEW e \in BOOLEAN, Put(tick.post, [tick.doc EXCEPT !.error = e])
        PROVE  IInv'
    <3>1. [tick.doc EXCEPT !.error = e] \in AnyRow
      BY <1>t DEF AnyRow
    <3>2. Good(tick.post, [tick.doc EXCEPT !.error = e])
      BY <1>t, <1>g DEF AnyRow, Good
    <3> QED
      BY <2>1, <2>2, <2>4, <3>1, <3>2, TickPutsBacked
  <2> QED
    BY <1>8, <2>3, <2>4 DEF TickNotes
<1>9. CASE TickFails
  <2>1. CASE tick.at = "fail"
    <3>1. Reads("failPut") /\ UNCHANGED <<post, hour, live, approved, writer>>
      BY <1>9, <2>1, <1>k DEF TickFails
    <3>2. tick.post \in Posts
      BY <2>1, <1>p
    <3>3. "failPut" \in TickPcs \ {"post"}
      BY DEF TickPcs
    <3> QED
      BY <3>1, <3>2, <3>3, TickReadsBacked
  <2>2. CASE tick.at = "failPut"
    <3> DEFINE tries == IF tick.counts THEN tick.doc.tries + 1 ELSE tick.doc.tries
               doc == [tick.doc EXCEPT !.error = TRUE, !.tries = tries]
    <3>1. tries \in Nat
      BY <1>t DEF AnyRow
    <3>2. Put(tick.post, doc) /\ Goto("due")
      BY <1>9, <2>2 DEF TickFails
    <3>3. UNCHANGED <<hour, live, approved, writer>>
      BY <1>9, <1>k DEF TickFails
    <3> HIDE DEF tries
    <3>4. doc \in AnyRow
      BY <3>1, <1>t DEF AnyRow
    <3>5. Good(tick.post, doc)
      BY <1>t, <1>g DEF AnyRow, Good
    <3>6. /\ tick' \in AnyTick /\ tick'.at = "due" /\ tick'.doc = NewRow
      BY <3>2, <1>t DEF Goto, AnyTick, TickPcs
    <3> QED
      BY <2>2, <1>p, <3>2, <3>3, <3>4, <3>5, <3>6, TickPutsBacked
  <2> QED
    BY <1>9, <2>1, <2>2 DEF TickFails
<1>10. CASE TickListsDue
  <2>1. tick' = [NoTick EXCEPT !.at = "remind", !.linked = tick.linked,
                               !.list = {<<p, post[p]>> : p \in DueUntold}]
    BY <1>10 DEF TickListsDue
  <2>2. {<<p, post[p]>> : p \in DueUntold} \in SUBSET (Posts \X AnyRow)
    BY <1>t DEF DueUntold
  <2>3. /\ tick' \in AnyTick /\ tick'.at = "remind" /\ tick'.doc = NewRow
    BY <2>1, <2>2, <1>t DEF AnyTick, TickPcs
  <2>4. UNCHANGED <<post, hour, live, approved, writer>>
    BY <1>10, <1>k DEF TickListsDue
  <2> QED
    BY <2>3, <2>4, TickMovesBacked DEF Good
<1>11. CASE TickReminds
  <2>1. UNCHANGED <<post, hour, live, approved, writer>> /\ tick.at = "remind"
    BY <1>11, <1>k DEF TickReminds
  <2>2. PICK e \in tick.list :
          \/ tick' = [tick EXCEPT !.list = @ \ {e}]
          \/ tick' = [tick EXCEPT !.at = "stamp", !.post = e[1], !.doc = post[e[1]],
                                  !.list = @ \ {e}]
    BY <1>11 DEF TickReminds
  <2>3. CASE tick' = [tick EXCEPT !.list = @ \ {e}]
    <3>1. tick' \in AnyTick /\ tick'.at = "remind" /\ tick'.doc = tick.doc /\ tick'.post = tick.post
      BY <2>1, <2>3, <1>t DEF AnyTick
    <3> QED
      BY <2>1, <3>1, <1>g, TickMovesBacked DEF Good
  <2>4. CASE tick' = [tick EXCEPT !.at = "stamp", !.post = e[1], !.doc = post[e[1]],
                                  !.list = @ \ {e}]
    BY <2>1, <2>4, <1>t, TickOpensBacked DEF TickPcs
  <2> QED
    BY <2>2, <2>3, <2>4
<1>12. CASE TickStamps
  <2>1. CASE tick.at = "stamp"
    <3>1. [tick.doc EXCEPT !.told = TRUE] \in AnyRow
      BY <1>t DEF AnyRow
    <3>2. Good(tick.post, [tick.doc EXCEPT !.told = TRUE])
      BY <1>t, <1>g DEF AnyRow, Good
    <3>3. Put(tick.post, [tick.doc EXCEPT !.told = TRUE]) /\ Goto("remind")
      BY <1>12, <2>1 DEF TickStamps
    <3>4. UNCHANGED <<hour, live, approved, writer>>
      BY <1>12, <1>k DEF TickStamps
    <3>5. /\ tick' \in AnyTick /\ tick'.at = "remind" /\ tick'.doc = NewRow
      BY <3>3, <1>t DEF Goto, AnyTick, TickPcs
    <3> QED
      BY <2>1, <1>p, <3>1, <3>2, <3>3, <3>4, <3>5, TickPutsBacked
  <2>2. CASE tick.at = "giveUpStamp"
    <3>1. [tick.doc EXCEPT !.gaveUp = TRUE] \in AnyRow
      BY <1>t DEF AnyRow
    <3>2. Good(tick.post, [tick.doc EXCEPT !.gaveUp = TRUE])
      BY <1>t, <1>g DEF AnyRow, Good
    <3>3. Put(tick.post, [tick.doc EXCEPT !.gaveUp = TRUE]) /\ Goto("giveUp")
      BY <1>12, <2>2 DEF TickStamps
    <3>4. UNCHANGED <<hour, live, approved, writer>>
      BY <1>12, <1>k DEF TickStamps
    <3>5. /\ tick' \in AnyTick /\ tick'.at = "giveUp" /\ tick'.doc = NewRow
      BY <3>3, <1>t DEF Goto, AnyTick, TickPcs
    <3> QED
      BY <2>2, <1>p, <3>1, <3>2, <3>3, <3>4, <3>5, TickPutsBacked
  <2> QED
    BY <1>12, <2>1, <2>2 DEF TickStamps
<1>13. CASE TickListsGivenUp
  <2>1. tick' = [NoTick EXCEPT !.at = "giveUp", !.list = {<<p, post[p]>> : p \in GivenUp}]
    BY <1>13 DEF TickListsGivenUp
  <2>2. {<<p, post[p]>> : p \in GivenUp} \in SUBSET (Posts \X AnyRow)
    BY <1>t DEF GivenUp
  <2>3. /\ tick' \in AnyTick /\ tick'.at = "giveUp" /\ tick'.doc = NewRow
    BY <2>1, <2>2 DEF AnyTick, TickPcs
  <2>4. UNCHANGED <<post, hour, live, approved, writer>>
    BY <1>13, <1>k DEF TickListsGivenUp
  <2> QED
    BY <2>3, <2>4, TickMovesBacked DEF Good
<1>14. CASE TickTellsGivenUp
  <2>1. UNCHANGED <<post, hour, live, approved, writer>>
    BY <1>14, <1>k DEF TickTellsGivenUp
  <2>2. PICK e \in tick.list :
          tick' = [tick EXCEPT !.at = "giveUpStamp", !.post = e[1], !.doc = post[e[1]],
                               !.list = @ \ {e}]
    BY <1>14 DEF TickTellsGivenUp
  <2> QED
    BY <2>1, <2>2, <1>t, TickOpensBacked DEF TickPcs
<1>15. CASE TickEnds
  <2>1. tick' = NoTick /\ UNCHANGED <<post, hour, live, approved, writer>>
    BY <1>15, <1>k DEF TickEnds
  <2> QED
    BY <2>1, TickMovesBacked DEF Good
<1> QED
  BY <1>1, <1>2, <1>3, <1>4, <1>5, <1>6, <1>7, <1>8, <1>9, <1>10, <1>11, <1>12, <1>13,
     <1>14, <1>15 DEF TickStep

LEMMA TickDiesBacked ==
  ASSUME IInv, TickDies
  PROVE  IInv'
<1>1. tick' = NoTick /\ UNCHANGED <<post, hour, live, approved, writer>>
  BY DEF TickDies, TickKeeps
<1> QED
  BY <1>1, NewRowIsRow, NoTickIsTick, TickMovesBacked DEF Good

-----------------------------------------------------------------------------
(* Every stored row is well shaped and every copy a worker or the tick holds  *)
(* is backed by an approval: the invariant is kept by every step.             *)
THEOREM IInvAlways == Spec => []IInv
<1>1. Init => IInv
  BY InitBacked
<1>2. IInv /\ [Next]_vars => IInv'
  <2> SUFFICES ASSUME IInv, [Next]_vars
               PROVE  IInv'
    OBVIOUS
  <2>1. CASE Next
    BY <2>1, WriterReadsBacked, WriterPutsBacked, WriterRaisesBacked, HourPassesBacked,
       TickStepsBacked, TickDiesBacked DEF Next
  <2>2. CASE UNCHANGED vars
    BY <2>2 DEF vars, IInv, Shapes, Backed, Good
  <2> QED
    BY <2>1, <2>2
<1> QED
  BY <1>1, <1>2, PTL DEF Spec

(* Whatever the owner, the workers and the tick do at once: what LinkedIn    *)
(* shows, and what waits for its slot, was approved in exactly that wording. *)
THEOREM LiveWasApprovedAlways == Spec => []LiveWasApproved
<1>1. IInv => LiveWasApproved
  BY DEF IInv, Backed, Good, LiveWasApproved
<1> QED
  BY <1>1, IInvAlways, PTL

-----------------------------------------------------------------------------
(* No draft is posted twice: while no answer is lost and nobody changes a    *)
(* draft under the tick.                                                     *)

Sure == mode.faults \cap {"lost", "overlap"} = {}

Remembering == {"remember", "rememberPut"}
Publishing  == {"publish", "publishPut"}
Copying     == {"post", "rememberPut", "publishPut", "note", "failPut", "stamp", "giveUpStamp"}

Known(i) ==
  \/ post[live[i][1]].urn = i
  \/ live[i][1] \in byHand
  \/ tick.post = live[i][1] /\ tick.at \in Remembering /\ tick.urn = i

(* The tick runs alone, so the id in its copy of a row, and in the copy of a *)
(* writer, is the id in the row; a draft without one is not live.            *)
Alone        == tick.at # "idle" => \A w \in Writers : writer[w] = Idle
WriterHasUrn == \A w \in Writers :
                  writer[w] # Idle => \/ writer[w].post \in byHand
                                      \/ writer[w].doc.urn = post[writer[w].post].urn
TickHasUrn   == /\ tick.at \in Copying => tick.doc.urn = post[tick.post].urn
                /\ tick.at \in Remembering => post[tick.post].urn = NoUrn
                /\ tick.at \in Publishing => post[tick.post].urn = tick.urn
LiveHasUrn   == \A i \in DOMAIN live : Known(i)

Traced == Alone /\ WriterHasUrn /\ TickHasUrn /\ LiveHasUrn

LEMMA InitTraced ==
  ASSUME Init
  PROVE  Traced
BY NoTickIsTick DEF Init, Traced, Alone, WriterHasUrn, TickHasUrn, LiveHasUrn,
   Copying, Remembering, Publishing

LEMMA LiveIsOfADraft ==
  ASSUME Shapes, NEW i \in DOMAIN live
  PROVE  live[i][1] \in Posts /\ i \in Nat /\ i # NoUrn
BY DEF Shapes, NoUrn

(* What a writer puts has the id it read, unless it was posted by hand.      *)
LEMMA ChangedKeepsUrn ==
  ASSUME NEW op \in Ops, NEW doc \in AnyRow, NEW new \in Changed(op, doc), op # "posted"
  PROVE  new.urn = doc.urn
<1> USE DEF AnyRow
<1>1. CASE op = "edit"
  <2>1. new \in {Edited(doc, c) : c \in Copies \ {doc.copy}}
    BY <1>1 DEF Changed
  <2>2. PICK c \in Copies : new = Edited(doc, c)
    BY <2>1
  <2>3. CASE doc.status = "approved"
    BY <2>2, <2>3 DEF Edited, Unscheduled
  <2>4. CASE doc.status # "approved"
    BY <2>2, <2>4 DEF Edited
  <2> QED
    BY <2>3, <2>4
<1>2. CASE op = "slot"
  <2>1. new \in {[doc EXCEPT !.slot = s] : s \in NoSlot..Slots}
    BY <1>2 DEF Changed
  <2> QED
    BY <2>1
<1>3. CASE op = "approve"
  <2>1. new \in {[doc EXCEPT !.status = "approved", !.slot = s] :
                   s \in IF doc.slot = NoSlot THEN {t \in 1..Slots : t > hour} ELSE {doc.slot}}
    BY <1>3 DEF Changed
  <2>2. \E s : new = [doc EXCEPT !.status = "approved", !.slot = s]
    BY <2>1
  <2> QED
    BY <2>2
<1>4. CASE op = "unapprove"
  <2>1. new = [doc EXCEPT !.status = "drafted", !.slot = 0]
    BY <1>4 DEF Changed, Unscheduled, NoSlot
  <2> QED
    BY <2>1
<1>5. CASE op = "archive"
  BY <1>5 DEF Changed
<1>6. CASE op = "touch"
  BY <1>6 DEF Changed
<1> QED
  BY <1>1, <1>2, <1>3, <1>4, <1>5, <1>6 DEF Ops

LEMMA WriterReadsTraced ==
  ASSUME Shapes, Sure, Traced, NEW w \in Writers, NEW p \in Posts, NEW op \in Ops,
         WriterReads(w, p, op)
  PROVE  Traced'
<1>1. /\ writer' = [writer EXCEPT ![w] = [op |-> op, post |-> p, doc |-> post[p]]]
      /\ UNCHANGED <<mode, post, live, byHand, tick>>
      /\ tick.at = "idle" \/ Fault("overlap")
  BY DEF WriterReads
<1>2. tick.at = "idle"
  BY <1>1 DEF Sure, Fault
<1>3. WriterHasUrn'
  <2> SUFFICES ASSUME NEW v \in Writers, writer'[v] # Idle
               PROVE  \/ writer'[v].post \in byHand
                      \/ writer'[v].doc.urn = post[writer'[v].post].urn
    BY <1>1 DEF WriterHasUrn
  <2>1. CASE v = w
    BY <1>1, <2>1 DEF Shapes
  <2>2. CASE v # w
    BY <1>1, <2>2 DEF Shapes, Traced, WriterHasUrn
  <2> QED
    BY <2>1, <2>2
<1> QED
  BY <1>1, <1>2, <1>3 DEF Traced, Alone, TickHasUrn, LiveHasUrn, Known

LEMMA WriterPutsTraced ==
  ASSUME Shapes, Traced, NEW w \in Writers, WriterPuts(w)
  PROVE  Traced'
<1> DEFINE o == writer[w]
<1>1. PICK doc \in Changed(o.op, o.doc) :
        post' = [post EXCEPT ![o.post] = doc] /\ writer' = [writer EXCEPT ![w] = Idle]
  BY DEF WriterPuts, Put
<1>2. /\ o # Idle /\ live' = live /\ tick' = tick
      /\ byHand' = IF o.op = "posted" THEN byHand \cup {o.post} ELSE byHand
  BY DEF WriterPuts
<1>3. o.post \in Posts /\ o.doc \in AnyRow /\ o.op \in Ops \cup {"none"}
  BY <1>2 DEF Shapes, AnyWriter
<1>4. tick.at = "idle"
  BY <1>2 DEF Traced, Alone
<1>5. \A p \in Posts : p \in byHand' \/ post'[p].urn = post[p].urn
  <2> TAKE p \in Posts
  <2>1. CASE p # o.post
    BY <1>1, <2>1 DEF Shapes
  <2>2. CASE p = o.post
    <3>1. post'[p] = doc
      BY <1>1, <2>2 DEF Shapes
    <3>2. o.post \in byHand \/ o.doc.urn = post[o.post].urn
      BY <1>2 DEF Traced, WriterHasUrn
    <3>3. CASE o.op = "posted"
      BY <1>2, <2>2, <3>3
    <3>4. CASE o.op \in Ops /\ o.op # "posted"
      <4>1. doc.urn = o.doc.urn
        BY <1>3, <3>4, ChangedKeepsUrn
      <4> QED
        BY <1>2, <2>2, <3>1, <3>2, <3>4, <4>1
    <3>5. CASE o.op = "none"
      <4>1. doc = o.doc
        BY <1>1, <3>5 DEF Changed
      <4> QED
        BY <1>2, <2>2, <3>1, <3>2, <3>5, <4>1
    <3> QED
      BY <1>3, <3>3, <3>4, <3>5
  <2> QED
    BY <2>1, <2>2
<1>6. byHand \subseteq byHand'
  BY <1>2
<1>7. WriterHasUrn'
  <2> SUFFICES ASSUME NEW v \in Writers, writer'[v] # Idle
               PROVE  \/ writer'[v].post \in byHand'
                      \/ writer'[v].doc.urn = post'[writer'[v].post].urn
    BY DEF WriterHasUrn
  <2>1. writer'[v] = writer[v]
    BY <1>1 DEF Shapes
  <2>2. writer[v].post \in Posts
    BY <2>1 DEF Shapes
  <2>3. \/ writer[v].post \in byHand
        \/ writer[v].doc.urn = post[writer[v].post].urn
    BY <2>1 DEF Traced, WriterHasUrn
  <2> QED
    BY <1>5, <1>6, <2>1, <2>2, <2>3
<1>8. LiveHasUrn'
  <2> SUFFICES ASSUME NEW i \in DOMAIN live
               PROVE  post'[live[i][1]].urn = i \/ live[i][1] \in byHand'
    BY <1>2 DEF LiveHasUrn, Known
  <2>1. post[live[i][1]].urn = i \/ live[i][1] \in byHand
    BY <1>4 DEF Traced, LiveHasUrn, Known, Remembering
  <2>2. live[i][1] \in Posts
    BY LiveIsOfADraft
  <2> QED
    BY <1>5, <1>6, <2>1, <2>2
<1> QED
  BY <1>2, <1>4, <1>7, <1>8 DEF Traced, Alone, TickHasUrn, Copying, Remembering, Publishing

LEMMA WriterRaisesTraced ==
  ASSUME Shapes, Traced, NEW w \in Writers, WriterRaises(w)
  PROVE  Traced'
<1>1. /\ writer' = [writer EXCEPT ![w] = Idle]
      /\ UNCHANGED <<post, live, byHand, tick>>
  BY DEF WriterRaises
<1>2. Alone' /\ WriterHasUrn'
  BY <1>1 DEF Shapes, Traced, Alone, WriterHasUrn
<1> QED
  BY <1>1, <1>2 DEF Traced, TickHasUrn, LiveHasUrn, Known

(* A step of the tick that changes no id, away from the write of one.        *)
LEMMA TickAdvancesTraced ==
  ASSUME Shapes, Traced, \A w \in Writers : writer[w] = Idle,
         UNCHANGED <<writer, byHand, live>>,
         \A p \in Posts : post'[p].urn = post[p].urn,
         tick.at \notin Remembering, tick'.at \notin Remembering,
         tick'.at \in Copying => tick'.doc.urn = post'[tick'.post].urn,
         tick'.at \in Publishing => post'[tick'.post].urn = tick'.urn
  PROVE  Traced'
<1>1. LiveHasUrn'
  <2> SUFFICES ASSUME NEW i \in DOMAIN live
               PROVE  post'[live[i][1]].urn = i \/ live[i][1] \in byHand
    BY DEF LiveHasUrn, Known
  <2> QED
    BY LiveIsOfADraft DEF Traced, LiveHasUrn, Known
<1>2. Alone' /\ WriterHasUrn'
  BY DEF Alone, WriterHasUrn
<1> QED
  BY <1>1, <1>2 DEF Traced, TickHasUrn

LEMMA PutKeepsUrn ==
  ASSUME Shapes, NEW p \in Posts, NEW doc, Put(p, doc), doc.urn = post[p].urn
  PROVE  \A q \in Posts : post'[q].urn = post[q].urn
<1> TAKE q \in Posts
<1>1. CASE q = p
  BY <1>1 DEF Put, Shapes
<1>2. CASE q # p
  BY <1>2 DEF Put, Shapes
<1> QED
  BY <1>1, <1>2

(* The draft that goes live now was not: its row has no id.                  *)
LEMMA TickPostsTraced ==
  ASSUME Shapes, Traced, \A w \in Writers : writer[w] = Idle,
         TickPosts, tick.doc.urn = NoUrn
  PROVE  Traced'
<1>1. /\ live' = Append(live, <<tick.post, tick.doc.copy>>)
      /\ tick' = [tick EXCEPT !.at = "remember", !.urn = Len(live'), !.doc = NewRow]
      /\ UNCHANGED <<post, byHand, writer>>
      /\ tick.at = "post"
  BY DEF TickPosts, TickKeeps
<1>2. /\ tick'.at = "remember" /\ tick'.urn = Len(live') /\ tick'.post = tick.post
      /\ tick.post \in Posts /\ post[tick.post].urn = NoUrn
  BY <1>1 DEF Shapes, AnyTick, Traced, TickHasUrn, Copying
<1>3. /\ live \in Seq(Posts \X Copies) /\ <<tick.post, tick.doc.copy>> \in Posts \X Copies
  BY <1>2 DEF Shapes, AnyTick, AnyRow
<1>4. LiveHasUrn'
  <2> SUFFICES ASSUME NEW i \in DOMAIN live'
               PROVE  \/ post[live'[i][1]].urn = i
                      \/ live'[i][1] \in byHand
                      \/ tick.post = live'[i][1] /\ Len(live') = i
    BY <1>1, <1>2 DEF LiveHasUrn, Known, Remembering
  <2>1. i \in 1..(Len(live) + 1) /\ Len(live') = Len(live) + 1
    BY <1>1, <1>3
  <2>2. CASE i = Len(live) + 1
    <3>1. live'[i] = <<tick.post, tick.doc.copy>>
      BY <1>1, <1>3, <2>2
    <3> QED
      BY <2>1, <2>2, <3>1
  <2>3. CASE i \in 1..Len(live)
    <3>1. live'[i] = live[i] /\ i \in DOMAIN live
      BY <1>1, <1>3, <2>3
    <3>2. post[live[i][1]].urn = i \/ live[i][1] \in byHand
      BY <1>1, <3>1 DEF Traced, LiveHasUrn, Known, Remembering
    <3> QED
      BY <3>1, <3>2
  <2> QED
    BY <1>3, <2>1, <2>2, <2>3
<1>5. Alone' /\ WriterHasUrn'
  BY <1>1 DEF Alone, WriterHasUrn
<1>6. TickHasUrn'
  BY <1>1, <1>2 DEF TickHasUrn, Copying, Remembering, Publishing
<1> QED
  BY <1>4, <1>5, <1>6 DEF Traced

(* The id is written into the row before anything else is.                   *)
LEMMA TickRemembersTraced ==
  ASSUME Shapes, Traced, \A w \in Writers : writer[w] = Idle, TickRemembers
  PROVE  Traced'
<1>1. tick \in AnyTick /\ tick.post \in Posts /\ UNCHANGED <<live, byHand, writer>>
  BY DEF Shapes, TickRemembers, TickKeeps
<1>2. post[tick.post].urn = NoUrn
  BY DEF TickRemembers, Traced, TickHasUrn, Remembering
<1>3. Alone' /\ WriterHasUrn'
  BY <1>1 DEF Alone, WriterHasUrn
<1>4. CASE tick.at = "remember"
  <2>1. Reads("rememberPut") /\ post' = post
    BY <1>4 DEF TickRemembers
  <2>2. /\ tick'.at = "rememberPut" /\ tick'.post = tick.post /\ tick'.urn = tick.urn
        /\ tick'.doc = post[tick.post]
    BY <1>1, <2>1 DEF Reads, AnyTick
  <2>3. TickHasUrn'
    BY <1>2, <2>1, <2>2 DEF TickHasUrn, Copying, Remembering, Publishing
  <2>4. LiveHasUrn'
    BY <1>1, <1>4, <2>1, <2>2 DEF Traced, LiveHasUrn, Known, Remembering
  <2> QED
    BY <1>3, <2>3, <2>4 DEF Traced
<1>5. CASE tick.at = "rememberPut"
  <2> DEFINE doc == [tick.doc EXCEPT !.urn = tick.urn]
  <2>1. post' = [post EXCEPT ![tick.post] = doc] /\ Goto("publish")
    BY <1>5 DEF TickRemembers, Put
  <2>2. tick'.at = "publish" /\ tick'.post = tick.post /\ tick'.urn = tick.urn
    BY <1>1, <2>1 DEF Goto, AnyTick
  <2>3. doc.urn = tick.urn
    BY <1>1 DEF AnyTick, AnyRow
  <2>4. post'[tick.post].urn = tick.urn
    BY <1>1, <2>1, <2>3 DEF Shapes
  <2>5. TickHasUrn'
    BY <2>2, <2>4 DEF TickHasUrn, Copying, Remembering, Publishing
  <2>6. LiveHasUrn'
    <3> SUFFICES ASSUME NEW i \in DOMAIN live
                 PROVE  post'[live[i][1]].urn = i \/ live[i][1] \in byHand
      BY <1>1 DEF LiveHasUrn, Known
    <3>1. live[i][1] \in Posts /\ i # NoUrn
      BY LiveIsOfADraft
    <3>2. Known(i)
      BY DEF Traced, LiveHasUrn
    <3>3. CASE live[i][1] = tick.post
      BY <1>2, <2>4, <3>1, <3>2, <3>3 DEF Known
    <3>4. CASE live[i][1] # tick.post
      <4>1. post'[live[i][1]] = post[live[i][1]]
        BY <2>1, <3>1, <3>4 DEF Shapes
      <4> QED
        BY <3>2, <3>4, <4>1 DEF Known
    <3> QED
      BY <3>3, <3>4
  <2> QED
    BY <1>3, <2>5, <2>6 DEF Traced
<1> QED
  BY <1>4, <1>5 DEF TickRemembers

LEMMA TickStepsTraced ==
  ASSUME Shapes, Sure, Traced, TickStep
  PROVE  Traced'
<1>t. tick \in AnyTick /\ tick.doc \in AnyRow /\ post \in [Posts -> AnyRow]
  BY DEF Shapes, AnyTick
<1>k. TickKeeps => UNCHANGED <<writer, byHand>>
  BY DEF TickKeeps
<1>p. tick.at \notin {"idle", "due", "remind", "giveUp"} => tick.post \in Posts
  BY DEF Shapes
<1>u. /\ tick.at \in Copying => tick.doc.urn = post[tick.post].urn
      /\ tick.at \in Publishing => post[tick.post].urn = tick.urn
  BY DEF Traced, TickHasUrn
<1>a. \A w \in Writers : writer[w] = Idle
  <2>1. CASE tick.at # "idle"
    BY <2>1 DEF Traced, Alone
  <2>2. CASE tick.at = "idle"
    <3>1. Quiet
      BY <2>2 DEF TickStep, TickPicks, TickPicksNothing, TickPosts, TickIsRefused,
         TickLosesAnswer, TickRemembers, TickPublishes, TickNotes, TickFails, TickListsDue,
         TickReminds, TickStamps, TickListsGivenUp, TickTellsGivenUp, TickEnds
    <3> QED
      BY <3>1 DEF Quiet, Sure
  <2> QED
    BY <2>1, <2>2
<1>1. ASSUME NEW p \in Posts, TickPicks(p)
      PROVE  Traced'
  <2>1. /\ tick' = [NoTick EXCEPT !.at = "post", !.post = p, !.doc = post[p]]
        /\ tick.at = "idle" /\ UNCHANGED <<post, live, byHand, writer>>
    BY <1>1, <1>k DEF TickPicks
  <2>2. tick'.at = "post" /\ tick'.post = p /\ tick'.doc = post[p]
    BY <2>1 DEF NoTick
  <2> QED
    BY <2>1, <2>2, <1>a, TickAdvancesTraced DEF Remembering, Copying, Publishing
<1>2. CASE TickPicksNothing
  <2>1. /\ tick'.at = "due"
        /\ tick.at = "idle" /\ UNCHANGED <<post, live, byHand, writer>>
    BY <1>2, <1>k DEF TickPicksNothing, NoTick
  <2> QED
    BY <2>1, <1>a, TickAdvancesTraced DEF Remembering, Copying, Publishing
<1>3. CASE TickPosts
  <2>1. CASE tick.doc.urn # NoUrn
    <3>1. /\ tick' = [tick EXCEPT !.at = "publish", !.urn = tick.doc.urn, !.doc = NewRow]
          /\ tick.at = "post" /\ UNCHANGED <<post, live, byHand, writer>>
      BY <1>3, <2>1, <1>k DEF TickPosts
    <3>2. tick'.at = "publish" /\ tick'.post = tick.post /\ tick'.urn = tick.doc.urn
      BY <3>1, <1>t DEF AnyTick
    <3> QED
      BY <3>1, <3>2, <1>a, <1>u, TickAdvancesTraced DEF Remembering, Copying, Publishing
  <2>2. CASE tick.doc.urn = NoUrn
    BY <1>3, <2>2, <1>a, TickPostsTraced
  <2> QED
    BY <2>1, <2>2
<1>4. CASE TickIsRefused
  <2>1. /\ tick'.at = "fail"
        /\ tick.at = "post" /\ UNCHANGED <<post, live, byHand, writer>>
    BY <1>4, <1>k, <1>t DEF TickIsRefused, AnyTick
  <2> QED
    BY <2>1, <1>a, TickAdvancesTraced DEF Remembering, Copying, Publishing
<1>5. CASE TickLosesAnswer
  BY <1>5 DEF TickLosesAnswer, Fault, Sure
<1>6. CASE TickRemembers
  BY <1>6, <1>a, TickRemembersTraced
<1>7. CASE TickPublishes
  <2>1. CASE tick.at = "publish"
    <3>1. Reads("publishPut") /\ UNCHANGED <<post, live, byHand, writer>>
      BY <1>7, <2>1, <1>k DEF TickPublishes
    <3>2. /\ tick'.at = "publishPut" /\ tick'.post = tick.post /\ tick'.urn = tick.urn
          /\ tick'.doc = post[tick.post]
      BY <3>1, <1>t DEF Reads, AnyTick
    <3> QED
      BY <2>1, <3>1, <3>2, <1>a, <1>u, TickAdvancesTraced DEF Remembering, Copying, Publishing
  <2>2. CASE tick.at = "publishPut"
    <3> DEFINE doc == MarkedPublished(tick.doc)
    <3>1. doc.urn = tick.urn
      BY <1>t DEF MarkedPublished, AnyRow
    <3>2. /\ Put(tick.post, doc) /\ tick' = [tick EXCEPT !.at = "note", !.doc = doc]
          /\ UNCHANGED <<live, byHand, writer>>
      BY <1>7, <2>2, <1>k DEF TickPublishes
    <3> HIDE DEF doc
    <3>3. \A p \in Posts : post'[p].urn = post[p].urn
      BY <3>1, <3>2, <2>2, <1>p, <1>u, PutKeepsUrn DEF Publishing
    <3>4. tick'.at = "note" /\ tick'.post = tick.post /\ tick'.doc = doc
      BY <3>2, <1>t DEF AnyTick
    <3>5. tick.post \in Posts
      BY <2>2, <1>p
    <3>6. tick'.doc.urn = post'[tick'.post].urn
      BY <3>1, <3>3, <3>4, <3>5, <2>2, <1>u DEF Publishing
    <3> QED
      BY <2>2, <3>2, <3>3, <3>4, <3>6, <1>a, TickAdvancesTraced DEF Remembering, Copying, Publishing
  <2> QED
    BY <1>7, <2>1, <2>2 DEF TickPublishes
<1>8. CASE TickNotes
  <2>1. /\ tick.at = "note" /\ tick.post \in Posts
        /\ UNCHANGED <<live, byHand, writer>>
    BY <1>8, <1>k, <1>p DEF TickNotes
  <2>2. tick'.at = "due"
    BY <1>8, <1>t DEF TickNotes, Goto, AnyTick
  <2>3. \A p \in Posts : post'[p].urn = post[p].urn
    <3>1. ASSUME NEW e \in BOOLEAN, Put(tick.post, [tick.doc EXCEPT !.error = e])
          PROVE  \A p \in Posts : post'[p].urn = post[p].urn
      <4>1. [tick.doc EXCEPT !.error = e].urn = tick.doc.urn
        BY <1>t DEF AnyRow
      <4> QED
        BY <2>1, <3>1, <4>1, <1>u, PutKeepsUrn DEF Copying
    <3> QED
      BY <1>8, <3>1 DEF TickNotes
  <2> QED
    BY <2>1, <2>2, <2>3, <1>a, TickAdvancesTraced DEF Remembering, Copying, Publishing
<1>9. CASE TickFails
  <2>1. CASE tick.at = "fail"
    <3>1. Reads("failPut") /\ UNCHANGED <<post, live, byHand, writer>>
      BY <1>9, <2>1, <1>k DEF TickFails
    <3>2. /\ tick'.at = "failPut" /\ tick'.post = tick.post /\ tick'.urn = tick.urn
          /\ tick'.doc = post[tick.post]
      BY <3>1, <1>t DEF Reads, AnyTick
    <3> QED
      BY <2>1, <3>1, <3>2, <1>a, <1>u, TickAdvancesTraced DEF Remembering, Copying, Publishing
  <2>2. CASE tick.at = "failPut"
    <3> DEFINE doc == [tick.doc EXCEPT !.error = TRUE,
                         !.tries = IF tick.counts THEN @ + 1 ELSE @]
    <3>1. doc.urn = tick.doc.urn
      BY <1>t DEF AnyRow
    <3>2. /\ Put(tick.post, doc) /\ Goto("due")
          /\ UNCHANGED <<live, byHand, writer>>
      BY <1>9, <2>2, <1>k DEF TickFails
    <3> HIDE DEF doc
    <3>3. \A p \in Posts : post'[p].urn = post[p].urn
      BY <3>1, <3>2, <2>2, <1>p, <1>u, PutKeepsUrn DEF Copying
    <3>4. tick'.at = "due"
      BY <3>2, <1>t DEF Goto, AnyTick
    <3> QED
      BY <2>2, <3>2, <3>3, <3>4, <1>a, TickAdvancesTraced DEF Remembering, Copying, Publishing
  <2> QED
    BY <1>9, <2>1, <2>2 DEF TickFails
<1>10. CASE TickListsDue
  <2>1. /\ tick'.at = "remind"
        /\ tick.at = "due" /\ UNCHANGED <<post, live, byHand, writer>>
    BY <1>10, <1>k DEF TickListsDue, NoTick
  <2> QED
    BY <2>1, <1>a, TickAdvancesTraced DEF Remembering, Copying, Publishing
<1>11. CASE TickReminds
  <2>1. /\ tick.at = "remind" /\ UNCHANGED <<post, live, byHand, writer>>
    BY <1>11, <1>k DEF TickReminds
  <2>2. PICK e \in tick.list :
          \/ tick' = [tick EXCEPT !.list = @ \ {e}]
          \/ tick' = [tick EXCEPT !.at = "stamp", !.post = e[1], !.doc = post[e[1]],
                                  !.list = @ \ {e}]
    BY <1>11 DEF TickReminds
  <2>3. \/ tick'.at = "remind"
        \/ tick'.at = "stamp" /\ tick'.doc = post[tick'.post]
    BY <2>1, <2>2, <1>t DEF AnyTick
  <2> QED
    BY <2>1, <2>3, <1>a, TickAdvancesTraced DEF Remembering, Copying, Publishing
<1>12. CASE TickStamps
  <2>1. CASE tick.at = "stamp"
    <3> DEFINE doc == [tick.doc EXCEPT !.told = TRUE]
    <3>1. doc.urn = tick.doc.urn
      BY <1>t DEF AnyRow
    <3>2. /\ Put(tick.post, doc) /\ Goto("remind")
          /\ UNCHANGED <<live, byHand, writer>>
      BY <1>12, <2>1, <1>k DEF TickStamps
    <3> HIDE DEF doc
    <3>3. \A p \in Posts : post'[p].urn = post[p].urn
      BY <3>1, <3>2, <2>1, <1>p, <1>u, PutKeepsUrn DEF Copying
    <3>4. tick'.at = "remind"
      BY <3>2, <1>t DEF Goto, AnyTick
    <3> QED
      BY <2>1, <3>2, <3>3, <3>4, <1>a, TickAdvancesTraced DEF Remembering, Copying, Publishing
  <2>2. CASE tick.at = "giveUpStamp"
    <3> DEFINE doc == [tick.doc EXCEPT !.gaveUp = TRUE]
    <3>1. doc.urn = tick.doc.urn
      BY <1>t DEF AnyRow
    <3>2. /\ Put(tick.post, doc) /\ Goto("giveUp")
          /\ UNCHANGED <<live, byHand, writer>>
      BY <1>12, <2>2, <1>k DEF TickStamps
    <3> HIDE DEF doc
    <3>3. \A p \in Posts : post'[p].urn = post[p].urn
      BY <3>1, <3>2, <2>2, <1>p, <1>u, PutKeepsUrn DEF Copying
    <3>4. tick'.at = "giveUp"
      BY <3>2, <1>t DEF Goto, AnyTick
    <3> QED
      BY <2>2, <3>2, <3>3, <3>4, <1>a, TickAdvancesTraced DEF Remembering, Copying, Publishing
  <2> QED
    BY <1>12, <2>1, <2>2 DEF TickStamps
<1>13. CASE TickListsGivenUp
  <2>1. /\ tick'.at = "giveUp"
        /\ tick.at = "remind" /\ UNCHANGED <<post, live, byHand, writer>>
    BY <1>13, <1>k DEF TickListsGivenUp, NoTick
  <2> QED
    BY <2>1, <1>a, TickAdvancesTraced DEF Remembering, Copying, Publishing
<1>14. CASE TickTellsGivenUp
  <2>1. /\ tick.at = "giveUp" /\ UNCHANGED <<post, live, byHand, writer>>
    BY <1>14, <1>k DEF TickTellsGivenUp
  <2>2. tick'.at = "giveUpStamp" /\ tick'.doc = post[tick'.post]
    BY <1>14, <1>t DEF TickTellsGivenUp, AnyTick
  <2> QED
    BY <2>1, <2>2, <1>a, TickAdvancesTraced DEF Remembering, Copying, Publishing
<1>15. CASE TickEnds
  <2>1. /\ tick'.at = "idle" /\ tick.at \in {"giveUp", "remind"}
        /\ UNCHANGED <<post, live, byHand, writer>>
    BY <1>15, <1>k, NoTickIsTick DEF TickEnds
  <2> QED
    BY <2>1, <1>a, TickAdvancesTraced DEF Remembering, Copying, Publishing
<1> QED
  BY <1>1, <1>2, <1>3, <1>4, <1>5, <1>6, <1>7, <1>8, <1>9, <1>10, <1>11, <1>12, <1>13,
     <1>14, <1>15 DEF TickStep

LEMMA TickDiesTraced ==
  ASSUME Shapes, Sure, Traced, TickDies
  PROVE  Traced'
<1>1. /\ tick'.at = "idle" /\ tick.at # "idle" /\ tick.at \notin Remembering
      /\ UNCHANGED <<post, live, byHand, writer>>
  BY NoTickIsTick DEF TickDies, TickKeeps, Fault, Sure, Remembering
<1>2. \A w \in Writers : writer[w] = Idle
  BY <1>1 DEF Traced, Alone
<1> QED
  BY <1>1, <1>2, TickAdvancesTraced DEF Remembering, Copying, Publishing

(* Without a lost answer or an overlapping tick, what LinkedIn shows is traced *)
(* by its row, or by the one tick that is about to store its id.              *)
THEOREM TracedAlways == Spec => [](Sure => Traced)
<1>1. Init => (Sure => Traced)
  BY InitTraced
<1>2. IInv /\ (Sure => Traced) /\ [Next]_vars => (Sure => Traced)'
  <2> SUFFICES ASSUME IInv, Sure => Traced, [Next]_vars, Sure'
               PROVE  Traced'
    OBVIOUS
  <2>1. mode' = mode
    BY DEF Next, WriterReads, WriterPuts, WriterRaises, HourPasses, TickStep, TickDies, TickKeeps,
       TickPicks, TickPicksNothing, TickPosts, TickIsRefused, TickLosesAnswer, TickRemembers,
       TickPublishes, TickNotes, TickFails, TickListsDue, TickReminds, TickStamps,
       TickListsGivenUp, TickTellsGivenUp, TickEnds, vars
  <2>2. Shapes /\ Sure /\ Traced
    BY <2>1 DEF IInv, Sure
  <2>3. CASE HourPasses \/ UNCHANGED vars
    BY <2>2, <2>3 DEF HourPasses, vars, Traced, Alone, WriterHasUrn, TickHasUrn, LiveHasUrn, Known
  <2>4. CASE Next /\ ~HourPasses
    BY <2>2, <2>4, WriterReadsTraced, WriterPutsTraced, WriterRaisesTraced,
       TickStepsTraced, TickDiesTraced DEF Next
  <2> QED
    BY <2>3, <2>4
<1> QED
  BY <1>1, <1>2, IInvAlways, PTL DEF Spec

(* "Store the LinkedIn id before the status flip": a refusal, or a tick that *)
(* dies anywhere else than between the answer and the put that remembers it, *)
(* leaves a row whose next tick posts nothing.                               *)
THEOREM PostedAtMostOnceAlways == Spec => []PostedAtMostOnce
<1>1. IInv /\ (Sure => Traced) => PostedAtMostOnce
  <2> SUFFICES ASSUME IInv, Sure, Traced, NEW i \in DOMAIN live, NEW j \in DOMAIN live,
                      live[i][1] = live[j][1], live[i][1] \notin byHand
               PROVE  i = j
    BY DEF PostedAtMostOnce, Sure
  <2>1. Known(i) /\ Known(j)
    BY DEF Traced, LiveHasUrn
  <2>2. i # NoUrn /\ j # NoUrn
    BY LiveIsOfADraft DEF IInv
  <2> QED
    BY <2>1, <2>2 DEF Known, Traced, TickHasUrn
<1> QED
  BY <1>1, IInvAlways, TracedAlways, PTL

(* A draft is never lost between LinkedIn and its row.                       *)
THEOREM LiveIsKnownAlways == Spec => []LiveIsKnown
<1>1. (Sure => Traced) => LiveIsKnown
  BY DEF Sure, Traced, LiveHasUrn, Known, Remembering, LiveIsKnown
<1> QED
  BY <1>1, TracedAlways, PTL
=============================================================================

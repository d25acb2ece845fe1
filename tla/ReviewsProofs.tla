---------------------------- MODULE ReviewsProofs ---------------------------
(***************************************************************************)
(* That reviews are written blind, published together or late, told of     *)
(* when they can be read and final once they can, and that they implement  *)
(* the exchange of sealed pages, for any number of bookings, handlers,     *)
(* texts and faults.                                                       *)
(***************************************************************************)
EXTENDS Reviews, TLAPS

Past(b, p) == Written(b, p) /\ review[b][p].age = "past"

\* A handler in the middle of something has a booking and, unless it publishes,
\* is a party's request of the kind its step belongs to.
KnowsItsPlace(h) ==
  /\ call[h].pc # "idle" => call[h].booking \in Bookings
  /\ call[h].pc \in {"sent", "asserted", "inserted", "editable", "repliable"} =>
       h \in Calls /\ call[h].party \in Parties
  /\ call[h].pc = "sent" => call[h].op \in Ops
  /\ call[h].pc = "asserted" => call[h].op = "write" /\ call[h].booking \in completed
  /\ call[h].pc = "editable" => call[h].op = "edit" /\ call[h].booking \in completed

\* Who could read the other's review still can, and passes the check on a first
\* text only having written one already.
PeeksTooLate(h) ==
  call[h].pc \in {"sent", "asserted"} /\ call[h].couldRead =>
    /\ Visible(call[h].booking, Other(call[h].party))
    /\ call[h].pc = "asserted" => Written(call[h].booking, call[h].party)

\* Who is about to publish has seen the reviews it will tell of, and either both
\* are written or one is past.
MayPublish(h) ==
  call[h].pc = "publishing" =>
    /\ \A p \in call[h].read : Written(call[h].booking, p)
    /\ \/ \A p \in Parties : Written(call[h].booking, p)
       \/ \E p \in Parties : Past(call[h].booking, p)

\* Who is telling has published what it tells of.
HasPublished(h) ==
  call[h].pc = "telling" => \A p \in call[h].read : Visible(call[h].booking, p)

HandlerOK(h) == KnowsItsPlace(h) /\ PeeksTooLate(h) /\ MayPublish(h) /\ HasPublished(h)

\* The sweep's list is of bookings with a review past its fourteen days.
ListIsPast == due # None => \A b \in due : \E p \in Parties : Past(b, p)

\* The rows have their types, and what has not been written is as it was.
Row == [text : Texts \cup {None}, published : BOOLEAN,
        age : {"new", "settled", "past"}, reply : Calls \cup {None}]
RowsOK ==
  /\ review \in [Bookings -> [Parties -> Row]]
  /\ \A b \in Bookings, p \in Parties :
        /\ review[b][p].text = None => review[b][p] = NoReview
        /\ Written(b, p) => b \in completed

\* Everything else has its type; together they are TypeOK.
CallRecord ==
  [pc : {"idle", "sent", "asserted", "inserted", "publishing", "telling", "editable", "repliable"},
   op : Ops \cup {None}, booking : Bookings \cup {None}, party : Parties \cup {None},
   couldRead : BOOLEAN, read : SUBSET Parties]
Kinds ==
  /\ completed \subseteq Bookings
  /\ call \in [Handlers -> CallRecord]
  /\ due = None \/ due \subseteq Bookings
  /\ told \subseteq [booking : Bookings, party : Parties]
  /\ peeked \subseteq [booking : Bookings, party : Parties, op : {"write", "edit"}]
  /\ faults \in 0..MaxFaults

IInv ==
  /\ RowsOK /\ Kinds /\ (\A h \in Handlers : HandlerOK(h)) /\ ListIsPast
  /\ DoubleBlind /\ ToldIsVisible

\* What a step may do to the rows: nothing is unwritten, hidden again, reworded
\* once visible or made younger.
RowsOnlyGrow ==
  \A b \in Bookings, p \in Parties :
    /\ Written(b, p) => Written(b, p)'
    /\ Visible(b, p) => Visible(b, p)' /\ review'[b][p].text = review[b][p].text
    /\ review[b][p].age = "past" => review'[b][p].age = "past"

-----------------------------------------------------------------------------
(* The actions, by what they do to the rows. *)

\* What the assumption says of the constants.
LEMMA Constants == Sweeper \notin Calls /\ None \notin Calls \cup Bookings \cup Texts /\ MaxFaults \in Nat
BY ReviewsAssumption

\* One row changes in one place.
LEMMA OneRow ==
  ASSUME RowsOK, NEW b \in Bookings, NEW p \in Parties, NEW row \in Row,
         review' = [review EXCEPT ![b] = [review[b] EXCEPT ![p] = row]]
  PROVE  /\ review' \in [Bookings -> [Parties -> Row]]
         /\ review'[b][p] = row
         /\ \A c \in Bookings, q \in Parties : c # b \/ q # p => review'[c][q] = review[c][q]
BY DEF RowsOK

\* A wording of a row that is not visible.
LEMMA RewordGrows ==
  ASSUME RowsOK, NEW b \in Bookings, NEW p \in Parties, Reword(b, p), ~Visible(b, p),
         b \in completed, completed' = completed
  PROVE  /\ RowsOK' /\ RowsOnlyGrow /\ Written(b, p)'
         /\ \A c \in Bookings, q \in Parties : Visible(c, q)' => Visible(c, q)
<1>1. PICK t \in Texts : review' = [review EXCEPT ![b][p].text = t]
  BY DEF Reword
<1> DEFINE row == [review[b][p] EXCEPT !.text = t]
<1>2. t # None
  BY Constants
<1>3. review[b][p] \in Row
  BY DEF RowsOK
<1>4. /\ row \in Row /\ row.text = t /\ row.published = review[b][p].published
      /\ row.age = review[b][p].age
  BY <1>3 DEF Row
<1>5. review' = [review EXCEPT ![b] = [review[b] EXCEPT ![p] = row]]
  BY <1>1
<1> HIDE DEF row
<1>6. /\ review' \in [Bookings -> [Parties -> Row]]
      /\ review'[b][p] = row
      /\ \A c \in Bookings, q \in Parties : c # b \/ q # p => review'[c][q] = review[c][q]
  BY <1>4, <1>5, OneRow
<1>7. RowsOK'
  BY <1>2, <1>4, <1>6 DEF RowsOK, Written
<1>8. RowsOnlyGrow /\ Written(b, p)'
  BY <1>2, <1>4, <1>6 DEF RowsOnlyGrow, Written, Visible
<1>9. \A c \in Bookings, q \in Parties : Visible(c, q)' => Visible(c, q)
  BY <1>4, <1>6 DEF Visible
<1> QED BY <1>7, <1>8, <1>9

\* A reply, and the passing of time, leave wording and visibility alone.
Replied(b, p, c) == review' = [review EXCEPT ![b][p].reply = c]
\* A reply leaves wording and visibility alone.
LEMMA ReplyGrows ==
  ASSUME RowsOK, NEW b \in Bookings, NEW p \in Parties, NEW c \in Calls, Visible(b, p),
         Replied(b, p, c), completed' = completed
  PROVE  /\ RowsOK' /\ RowsOnlyGrow
         /\ \A d \in Bookings, q \in Parties : Visible(d, q)' => Visible(d, q)
<1> DEFINE row == [review[b][p] EXCEPT !.reply = c]
<1>1. review[b][p] \in Row /\ review[b][p].text # None
  BY DEF RowsOK, Visible, NoReview
<1>2. /\ row \in Row /\ row.text = review[b][p].text /\ row.published = review[b][p].published
      /\ row.age = review[b][p].age
  BY <1>1 DEF Row
<1>3. review' = [review EXCEPT ![b] = [review[b] EXCEPT ![p] = row]]
  BY DEF Replied
<1> HIDE DEF row
<1>4. /\ review' \in [Bookings -> [Parties -> Row]]
      /\ review'[b][p] = row
      /\ \A d \in Bookings, q \in Parties : d # b \/ q # p => review'[d][q] = review[d][q]
  BY <1>2, <1>3, OneRow
<1>5. RowsOK'
  BY <1>1, <1>2, <1>4 DEF RowsOK, Written
<1>6. RowsOnlyGrow
  BY <1>2, <1>4 DEF RowsOnlyGrow, Written, Visible
<1>7. \A d \in Bookings, q \in Parties : Visible(d, q)' => Visible(d, q)
  BY <1>2, <1>4 DEF Visible
<1> QED BY <1>5, <1>6, <1>7

\* And so does time.
LEMMA AgeGrows ==
  ASSUME RowsOK, NEW b \in Bookings, NEW p \in Parties, Age(b, p)
  PROVE  /\ RowsOK' /\ RowsOnlyGrow
         /\ \A d \in Bookings, q \in Parties : Visible(d, q)' => Visible(d, q)
<1> DEFINE older == IF review[b][p].age = "new" THEN "settled" ELSE "past"
           row == [review[b][p] EXCEPT !.age = older]
<1>1. review[b][p] \in Row /\ review[b][p].text # None /\ review[b][p].age # "past"
  BY DEF RowsOK, Age, Written
<1>2. /\ row \in Row /\ row.text = review[b][p].text /\ row.published = review[b][p].published
  BY <1>1 DEF Row
<1>3. review' = [review EXCEPT ![b] = [review[b] EXCEPT ![p] = row]] /\ completed' = completed
  BY DEF Age
<1> HIDE DEF row
<1>4. /\ review' \in [Bookings -> [Parties -> Row]]
      /\ review'[b][p] = row
      /\ \A d \in Bookings, q \in Parties : d # b \/ q # p => review'[d][q] = review[d][q]
  BY <1>2, <1>3, OneRow
<1> QED BY <1>1, <1>2, <1>3, <1>4 DEF RowsOK, RowsOnlyGrow, Written, Visible

\* A publication shows every written review of its booking and nothing else.
LEMMA PublishGrows ==
  ASSUME RowsOK, NEW h \in Handlers, NEW b \in Bookings, b = call[h].booking, PublishReviews(h)
  PROVE  /\ RowsOK' /\ RowsOnlyGrow
         /\ \A p \in Parties : Written(b, p) => Visible(b, p)'
         /\ \A d \in Bookings, q \in Parties :
              Visible(d, q)' => Visible(d, q) \/ d = b
<1> DEFINE shown == [p \in Parties |-> [review[b][p] EXCEPT !.published = @ \/ p \in Blind(b)]]
<1>1. review' = [review EXCEPT ![b] = shown] /\ completed' = completed
  BY DEF PublishReviews, Publishable
<1>2. \A p \in Parties : review[b][p] \in Row
  BY DEF RowsOK
<1>3. ASSUME NEW p \in Parties
      PROVE  /\ shown[p] \in Row
             /\ shown[p].text = review[b][p].text /\ shown[p].age = review[b][p].age
             /\ review[b][p].published => shown[p].published
             /\ Written(b, p) => shown[p].published
             /\ ~Written(b, p) => shown[p] = review[b][p]
  <2>1. shown[p] = [review[b][p] EXCEPT !.published = @ \/ p \in Blind(b)]
    OBVIOUS
  <2>2. review[b][p] \in Row
    BY <1>2
  <2>3. p \in Blind(b) <=> Written(b, p) /\ ~review[b][p].published
    BY DEF Blind, WrittenOf, Visible
  <2> HIDE DEF shown
  <2>4. CASE p \in Blind(b)
    <3>1. shown[p] = [review[b][p] EXCEPT !.published = TRUE]
      BY <2>1, <2>2, <2>4 DEF Row
    <3> QED BY <2>2, <2>3, <2>4, <3>1 DEF Row
  <2>5. CASE p \notin Blind(b)
    <3>1. shown[p] = review[b][p]
      BY <2>1, <2>2, <2>5 DEF Row
    <3> QED BY <2>2, <2>3, <2>5, <3>1 DEF Row
  <2> QED BY <2>4, <2>5
<1>4. shown \in [Parties -> Row]
  BY <1>3
<1> HIDE DEF shown
<1>5. review' \in [Bookings -> [Parties -> Row]]
  BY <1>1, <1>4 DEF RowsOK
<1>6. b \in Bookings /\ review'[b] = shown /\ \A d \in Bookings \ {b} : review'[d] = review[d]
  BY <1>1 DEF RowsOK
<1>7. RowsOK'
  <2> SUFFICES ASSUME NEW d \in Bookings, NEW q \in Parties
               PROVE  /\ review'[d][q].text = None => review'[d][q] = NoReview
                      /\ Written(d, q)' => d \in completed'
    BY <1>5 DEF RowsOK
  <2>1. CASE d = b
    <3>1. review'[d][q] = shown[q]
      BY <1>6, <2>1
    <3> QED BY <1>1, <1>3, <2>1, <3>1 DEF RowsOK, Written
  <2>2. CASE d # b
    <3>1. review'[d] = review[d]
      BY <1>6, <2>2
    <3> QED BY <1>1, <3>1 DEF RowsOK, Written
  <2> QED BY <2>1, <2>2
<1>8. RowsOnlyGrow
  BY <1>3, <1>6 DEF RowsOnlyGrow, Written, Visible
<1>9. \A p \in Parties : Written(b, p) => Visible(b, p)'
  BY <1>3, <1>6 DEF Visible
<1>10. \A d \in Bookings, q \in Parties : Visible(d, q)' => Visible(d, q) \/ d = b
  BY <1>6 DEF Visible
<1> QED BY <1>7, <1>8, <1>9, <1>10

-----------------------------------------------------------------------------
(* What an action leaves alone stays true of the handlers and the ghosts. *)

\* A step that leaves the rows alone.
LEMMA SameRows ==
  ASSUME RowsOK, review' = review, completed \subseteq completed'
  PROVE  RowsOnlyGrow /\ RowsOK'
BY DEF RowsOnlyGrow, RowsOK, Written, Visible

\* A handler that does not move still knows what it knew, as rows only grow.
LEMMA OthersStay ==
  ASSUME Kinds, RowsOnlyGrow, completed \subseteq completed',
         NEW h \in Handlers, HandlerOK(h), call'[h] = call[h]
  PROVE  HandlerOK(h)'
<1> DEFINE b == call[h].booking
<1>1. call[h] \in CallRecord
  BY DEF Kinds
<1>2. KnowsItsPlace(h)'
  BY DEF HandlerOK, KnowsItsPlace
<1>3. PeeksTooLate(h)'
  BY DEF HandlerOK, KnowsItsPlace, PeeksTooLate, RowsOnlyGrow, Parties, Other
<1>4. MayPublish(h)'
  BY <1>1 DEF HandlerOK, KnowsItsPlace, MayPublish, RowsOnlyGrow, CallRecord, Past, Written
<1>5. HasPublished(h)'
  BY <1>1 DEF HandlerOK, KnowsItsPlace, HasPublished, RowsOnlyGrow, CallRecord
<1> QED BY <1>2, <1>3, <1>4, <1>5 DEF HandlerOK

\* Nothing is asked of a handler that is done.
LEMMA IdleIsFine ==
  ASSUME NEW h \in Handlers, call'[h] = Idle
  PROVE  HandlerOK(h)' /\ Idle \in CallRecord
BY DEF Idle, HandlerOK, KnowsItsPlace, PeeksTooLate, MayPublish, HasPublished, CallRecord

\* The sweep's list is still of past reviews.
LEMMA StillPast ==
  ASSUME Kinds, ListIsPast, RowsOnlyGrow, due' = due
  PROVE  ListIsPast'
BY DEF Kinds, ListIsPast, RowsOnlyGrow, Past, Written

\* Reviews stay blind in a step that publishes nothing and records no first text.
LEMMA StillBlindly ==
  ASSUME DoubleBlind, RowsOnlyGrow, \A r \in peeked' \ peeked : r.op # "write",
         \A b \in Bookings, p \in Parties : Visible(b, p)' => Visible(b, p)
  PROVE  DoubleBlind'
BY DEF DoubleBlind, RowsOnlyGrow, Parties, Other, Written

\* Who was told can still read.
LEMMA StillTold ==
  ASSUME Kinds, ToldIsVisible, RowsOnlyGrow, told' = told
  PROVE  ToldIsVisible'
BY DEF Kinds, ToldIsVisible, RowsOnlyGrow

\* A step of one handler, closed.
LEMMA OneHandler ==
  ASSUME IInv, NEW h \in Handlers, NEW r \in CallRecord, call' = [call EXCEPT ![h] = r],
         HandlerOK(h)', RowsOK', RowsOnlyGrow, completed' = completed, due' = due,
         faults' \in 0..MaxFaults, told' \subseteq [booking : Bookings, party : Parties],
         peeked' \subseteq [booking : Bookings, party : Parties, op : {"write", "edit"}],
         DoubleBlind', ToldIsVisible'
  PROVE  IInv'
<1>1. Kinds'
  BY DEF IInv, Kinds
<1>2. ASSUME NEW g \in Handlers PROVE HandlerOK(g)'
  <2>1. CASE g = h
    BY <2>1
  <2>2. CASE g # h
    <3>1. call'[g] = call[g]
      BY <2>2 DEF IInv, Kinds
    <3> QED BY <3>1, OthersStay DEF IInv
  <2> QED BY <2>1, <2>2
<1>3. ListIsPast'
  BY StillPast DEF IInv
<1> QED BY <1>1, <1>2, <1>3 DEF IInv

\* The same, of a step that leaves the rows and the ghosts alone.
LEMMA OnlyTheHandler ==
  ASSUME IInv, NEW h \in Handlers, NEW r \in CallRecord, call' = [call EXCEPT ![h] = r],
         HandlerOK(h)', review' = review, completed' = completed, due' = due,
         faults' \in 0..MaxFaults, told' = told, peeked' = peeked
  PROVE  IInv' /\ RowsOnlyGrow
<1>1. RowsOnlyGrow /\ RowsOK'
  BY SameRows DEF IInv
<1>2. \A b \in Bookings, p \in Parties : Visible(b, p)' => Visible(b, p)
  BY DEF Visible
<1>3. DoubleBlind' /\ ToldIsVisible'
  BY <1>1, <1>2, StillBlindly, StillTold DEF IInv
<1> QED BY <1>1, <1>3, OneHandler DEF IInv, Kinds

\* A handler that is done.
LEMMA Finished ==
  ASSUME IInv, NEW h \in Handlers, Finish(h)
  PROVE  call' = [call EXCEPT ![h] = Idle] /\ HandlerOK(h)' /\ Idle \in CallRecord
<1>1. call' = [call EXCEPT ![h] = Idle]
  BY DEF Finish
<1>2. call'[h] = Idle
  BY <1>1 DEF IInv, Kinds
<1> QED BY <1>1, <1>2, IdleIsFine

\* A handler that goes on with what it has.
LEMMA Moved ==
  ASSUME IInv, NEW h \in Handlers,
         NEW pc \in {"asserted", "inserted", "publishing", "telling", "editable", "repliable"},
         Goto(h, pc)
  PROVE  LET r == [call[h] EXCEPT !.pc = pc]
         IN  /\ call' = [call EXCEPT ![h] = r] /\ r \in CallRecord
             /\ call'[h].pc = pc
             /\ call'[h].op = call[h].op /\ call'[h].booking = call[h].booking
             /\ call'[h].party = call[h].party /\ call'[h].read = call[h].read
             /\ call'[h].couldRead = call[h].couldRead
<1>1. call \in [Handlers -> CallRecord] /\ call' = [call EXCEPT ![h].pc = pc]
  BY DEF IInv, Kinds, Goto
<1>2. call[h] \in CallRecord
  BY <1>1
<1> QED BY <1>1, <1>2 DEF CallRecord

-----------------------------------------------------------------------------
(* The steps of a request. *)

\* A request arrives.
LEMMA SendStep ==
  ASSUME IInv, NEW c \in Calls, NEW b \in Bookings, NEW p \in Parties, NEW op \in Ops,
         Send(c, b, p, op)
  PROVE  IInv' /\ RowsOnlyGrow
<1> DEFINE r == [pc |-> "sent", op |-> op, booking |-> b, party |-> p,
                 couldRead |-> Visible(b, Other(p)), read |-> {}]
<1>1. c \in Handlers
  BY DEF Handlers
<1>2. r \in CallRecord
  <2>1. Other(p) \in Parties
    BY DEF Other, Parties
  <2>2. Visible(b, Other(p)) \in BOOLEAN
    BY <2>1 DEF IInv, RowsOK, Row, Visible
  <2> QED BY <2>2 DEF CallRecord
<1>3. call' = [call EXCEPT ![c] = r]
  BY DEF Send
<1>4. call'[c] = r
  BY <1>1, <1>3 DEF IInv, Kinds
<1>5. UNCHANGED <<completed, review, due, told, peeked, faults>>
  BY DEF Send
<1>6. HandlerOK(c)'
  BY <1>4, <1>5 DEF HandlerOK, KnowsItsPlace, PeeksTooLate, MayPublish, HasPublished, Visible
<1> HIDE DEF r
<1> QED BY <1>1, <1>2, <1>3, <1>5, <1>6, OnlyTheHandler DEF IInv, Kinds

\* The three checks, each of which lets a request go on or answers it.
LEMMA CheckStep ==
  ASSUME IInv, NEW h \in Handlers,
         AssertReviewable(h) \/ CheckEditable(h) \/ CheckRepliable(h)
  PROVE  IInv' /\ RowsOnlyGrow
<1>1. UNCHANGED <<completed, review, due, told, peeked, faults>> /\ call[h].pc = "sent"
  BY DEF AssertReviewable, CheckEditable, CheckRepliable, Answer
<1>2. KnowsItsPlace(h) /\ PeeksTooLate(h)
  BY DEF IInv, HandlerOK
<1>3. CASE Finish(h)
  BY <1>1, <1>3, Finished, OnlyTheHandler DEF IInv, Kinds
<1>4. ASSUME Reviewable(call[h].booking, call[h].party), call[h].op = "write", Goto(h, "asserted")
      PROVE  IInv' /\ RowsOnlyGrow
  <2>1. HandlerOK(h)'
    BY <1>1, <1>2, <1>4, Moved DEF Reviewable, HandlerOK, KnowsItsPlace, PeeksTooLate, MayPublish,
       HasPublished, Visible, Written, Parties, Other
  <2> QED BY <1>1, <1>4, <2>1, Moved, OnlyTheHandler DEF IInv, Kinds
<1>5. ASSUME call[h].op = "edit", Goto(h, "editable"), Written(call[h].booking, call[h].party)
      PROVE  IInv' /\ RowsOnlyGrow
  <2>2. call[h].booking \in completed
    BY <1>1, <1>2, <1>5 DEF IInv, RowsOK, KnowsItsPlace
  <2>1. HandlerOK(h)'
    BY <2>2, <1>1, <1>2, <1>5, Moved DEF HandlerOK, KnowsItsPlace, PeeksTooLate, MayPublish, HasPublished
  <2> QED BY <1>1, <1>5, <2>1, Moved, OnlyTheHandler DEF IInv, Kinds
<1>6. ASSUME Goto(h, "repliable") PROVE IInv' /\ RowsOnlyGrow
  <2>1. HandlerOK(h)'
    BY <1>1, <1>2, <1>6, Moved DEF HandlerOK, KnowsItsPlace, PeeksTooLate, MayPublish, HasPublished
  <2> QED BY <1>1, <1>6, <2>1, Moved, OnlyTheHandler DEF IInv, Kinds
<1>7. CASE AssertReviewable(h)
  BY <1>3, <1>4, <1>7 DEF AssertReviewable, Answer
<1>8. CASE CheckEditable(h)
  BY <1>3, <1>5, <1>8 DEF CheckEditable, Answer, Written
<1>9. CASE CheckRepliable(h)
  BY <1>3, <1>6, <1>9 DEF CheckRepliable, Answer
<1> QED BY <1>7, <1>8, <1>9

\* A wording, by an insert or an edit, is never a first text that peeked.
LEMMA PeekIsLate ==
  ASSUME IInv, NEW h \in Handlers, peeked' = Peek(h),
         \/ call[h].pc = "asserted" /\ ~Written(call[h].booking, call[h].party)
         \/ call[h].pc = "editable"
  PROVE  /\ \A r \in peeked' \ peeked : r.op # "write"
         /\ peeked' \subseteq [booking : Bookings, party : Parties, op : {"write", "edit"}]
<1>1. KnowsItsPlace(h) /\ PeeksTooLate(h)
  BY DEF IInv, HandlerOK
<1>2. call[h].couldRead => call[h].pc = "editable"
  BY <1>1 DEF PeeksTooLate
<1>3. call[h].booking \in Bookings /\ call[h].party \in Parties
  BY <1>1 DEF KnowsItsPlace
<1>4. call[h].pc = "editable" => call[h].op = "edit"
  BY <1>1 DEF KnowsItsPlace
<1>5. CASE call[h].couldRead
  BY <1>2, <1>3, <1>4, <1>5 DEF Peek, IInv, Kinds
<1>6. CASE ~call[h].couldRead
  BY <1>6 DEF Peek, IInv, Kinds
<1> QED BY <1>5, <1>6

\* A first text is written, or found to be a second one.
LEMMA InsertStep ==
  ASSUME IInv, NEW h \in Handlers, InsertReview(h)
  PROVE  IInv' /\ RowsOnlyGrow
<1> DEFINE b == call[h].booking
           p == call[h].party
<1>1. call[h].pc = "asserted" /\ UNCHANGED <<completed, due, told, faults>>
  BY DEF InsertReview
<1>2. KnowsItsPlace(h) /\ b \in Bookings /\ p \in Parties /\ b \in completed
  BY <1>1 DEF IInv, HandlerOK, KnowsItsPlace
<1>3. CASE Written(b, p)
  BY <1>1, <1>3, Finished, OnlyTheHandler DEF InsertReview, IInv, Kinds
<1>4. CASE ~Written(b, p)
  <2>1. Reword(b, p) /\ peeked' = Peek(h) /\ Goto(h, "inserted")
    BY <1>4 DEF InsertReview
  <2>2. ~Visible(b, p)
    BY <1>2, <1>4 DEF IInv, RowsOK, Visible, Written, NoReview
  <2> HIDE DEF b, p
  <2>3. /\ RowsOK' /\ RowsOnlyGrow
        /\ \A c \in Bookings, q \in Parties : Visible(c, q)' => Visible(c, q)
    BY <1>1, <1>2, <2>1, <2>2, RewordGrows DEF IInv
  <2>4. /\ \A r \in peeked' \ peeked : r.op # "write"
        /\ peeked' \subseteq [booking : Bookings, party : Parties, op : {"write", "edit"}]
    BY <1>1, <1>4, <2>1, PeekIsLate DEF b, p
  <2>5. DoubleBlind' /\ ToldIsVisible'
    BY <1>1, <2>3, <2>4, StillBlindly, StillTold DEF IInv
  <2>6. HandlerOK(h)'
    BY <1>1, <1>2, <2>1, Moved DEF HandlerOK, KnowsItsPlace, PeeksTooLate, MayPublish, HasPublished, b, p
  <2> QED BY <1>1, <2>1, <2>3, <2>4, <2>5, <2>6, Moved, OneHandler DEF IInv, Kinds
<1> QED BY <1>3, <1>4

\* A text is reworded while it is blind.
LEMMA UpdateStep ==
  ASSUME IInv, NEW h \in Handlers, UpdateReview(h)
  PROVE  IInv' /\ RowsOnlyGrow
<1> DEFINE b == call[h].booking
           p == call[h].party
<1>1. call[h].pc = "editable" /\ UNCHANGED <<completed, due, told, faults>> /\ Finish(h)
  BY DEF UpdateReview
<1>2. b \in Bookings /\ p \in Parties
  BY <1>1 DEF IInv, HandlerOK, KnowsItsPlace
<1>3. CASE ~StillBlind(b, p)
  BY <1>1, <1>3, Finished, OnlyTheHandler DEF UpdateReview, IInv, Kinds
<1>4. CASE StillBlind(b, p)
  <2>1. Reword(b, p) /\ peeked' = Peek(h) /\ ~Visible(b, p)
    BY <1>4 DEF UpdateReview, StillBlind
  <2>5. b \in completed
    BY <1>1 DEF IInv, HandlerOK, KnowsItsPlace
  <2> HIDE DEF b, p
  <2>2. /\ RowsOK' /\ RowsOnlyGrow
        /\ \A c \in Bookings, q \in Parties : Visible(c, q)' => Visible(c, q)
    BY <1>1, <1>2, <2>1, <2>5, RewordGrows DEF IInv
  <2>3. /\ \A r \in peeked' \ peeked : r.op # "write"
        /\ peeked' \subseteq [booking : Bookings, party : Parties, op : {"write", "edit"}]
    BY <1>1, <2>1, PeekIsLate
  <2>4. DoubleBlind' /\ ToldIsVisible'
    BY <1>1, <2>2, <2>3, StillBlindly, StillTold DEF IInv
  <2> QED BY <1>1, <2>2, <2>3, <2>4, Finished, OneHandler DEF IInv, Kinds
<1> QED BY <1>3, <1>4

\* A reply is stored.
LEMMA ReplyStep ==
  ASSUME IInv, NEW h \in Handlers, InsertReply(h)
  PROVE  IInv' /\ RowsOnlyGrow
<1> DEFINE b == call[h].booking
           p == Other(call[h].party)
<1>1. call[h].pc = "repliable" /\ UNCHANGED <<completed, due, told, peeked, faults>> /\ Finish(h)
  BY DEF InsertReply
<1>2. b \in Bookings /\ p \in Parties /\ h \in Calls
  BY <1>1 DEF IInv, HandlerOK, KnowsItsPlace, Other, Parties
<1>3. CASE ~(Visible(b, p) /\ NoReplyYet(b, p))
  <2>1. review' = review
    BY <1>3 DEF InsertReply
  <2> QED BY <1>1, <2>1, Finished, OnlyTheHandler DEF IInv, Kinds
<1>4. CASE Visible(b, p) /\ NoReplyYet(b, p)
  <2>1. Replied(b, p, h)
    BY <1>4 DEF InsertReply, Replied
  <2> HIDE DEF b, p
  <2>2. /\ RowsOK' /\ RowsOnlyGrow
        /\ \A c \in Bookings, q \in Parties : Visible(c, q)' => Visible(c, q)
    BY <1>1, <1>2, <1>4, <2>1, ReplyGrows DEF IInv
  <2>3. DoubleBlind' /\ ToldIsVisible'
    BY <1>1, <2>2, StillBlindly, StillTold DEF IInv
  <2> QED BY <1>1, <2>2, <2>3, Finished, OneHandler DEF IInv, Kinds
<1> QED BY <1>3, <1>4

-----------------------------------------------------------------------------
(* Publishing, by either trigger. *)

\* The rows are read again after a write.
LEMMA ReadBothStep ==
  ASSUME IInv, NEW h \in Handlers, ReadBoth(h)
  PROVE  IInv' /\ RowsOnlyGrow
<1> DEFINE b == call[h].booking
           r == [call[h] EXCEPT !.pc = "publishing", !.read = WrittenOf(b)]
<1>1. call[h].pc = "inserted" /\ UNCHANGED <<completed, review, due, told, peeked, faults>>
  BY DEF ReadBoth
<1>2. call[h] \in CallRecord /\ call \in [Handlers -> CallRecord] /\ b \in Bookings
  BY <1>1 DEF IInv, Kinds, HandlerOK, KnowsItsPlace
<1>3. CASE ~BothWritten(b)
  BY <1>1, <1>3, Finished, OnlyTheHandler DEF ReadBoth, IInv, Kinds
<1>4. CASE BothWritten(b)
  <2>1. call' = [call EXCEPT ![h] = r]
    BY <1>4 DEF ReadBoth
  <2>2. WrittenOf(b) = Parties
    BY <1>4 DEF BothWritten
  <2>3. \A p \in Parties : Written(b, p)
    BY <2>2 DEF WrittenOf
  <2>4. r \in CallRecord /\ r.pc = "publishing" /\ r.read = Parties /\ r.booking = b
    BY <1>2, <2>2 DEF CallRecord
  <2>5. call'[h] = r
    BY <1>2, <2>1
  <2> HIDE DEF r
  <2>6. HandlerOK(h)'
    BY <1>1, <1>2, <2>3, <2>4, <2>5 DEF HandlerOK, KnowsItsPlace, PeeksTooLate, MayPublish, HasPublished,
       Written
  <2> QED BY <1>1, <2>1, <2>4, <2>6, OnlyTheHandler DEF IInv, Kinds
<1> QED BY <1>3, <1>4

\* The rows that were read are published.
LEMMA PublishStep ==
  ASSUME IInv, NEW h \in Handlers, PublishReviews(h)
  PROVE  IInv' /\ RowsOnlyGrow
<1>1. call[h].pc = "publishing" /\ UNCHANGED <<completed, due, told, peeked, faults>>
  BY DEF PublishReviews
<1>2. PICK b \in Bookings : b = call[h].booking
  BY <1>1 DEF IInv, HandlerOK, KnowsItsPlace
<1>3. /\ \A p \in call[h].read : p \in Parties /\ Written(b, p)
      /\ (\A p \in Parties : Written(b, p)) \/ (\E p \in Parties : Past(b, p))
  BY <1>1, <1>2 DEF IInv, Kinds, CallRecord, HandlerOK, MayPublish
<1>4. /\ RowsOK' /\ RowsOnlyGrow
      /\ \A p \in Parties : Written(b, p) => Visible(b, p)'
      /\ \A d \in Bookings, q \in Parties : Visible(d, q)' => Visible(d, q) \/ d = b
  BY <1>2, PublishGrows DEF IInv
<1>5. DoubleBlind'
  <2> SUFFICES ASSUME NEW d \in Bookings, NEW q \in Parties, Visible(d, q)'
               PROVE  review'[d][q].age = "past" \/ Written(d, Other(q))'
    BY <1>1 DEF DoubleBlind, IInv
  <2>1. Other(q) \in Parties
    BY DEF Other, Parties
  <2>2. CASE Visible(d, q)
    BY <1>4, <2>1, <2>2 DEF IInv, DoubleBlind, RowsOnlyGrow
  <2>3. CASE d = b
    <3>1. review[b][q].age = "past" \/ Written(b, Other(q))
      BY <1>3, <2>1 DEF Past, Other, Parties
    <3> QED BY <1>4, <2>1, <2>3, <3>1 DEF RowsOnlyGrow
  <2> QED BY <1>4, <2>2, <2>3
<1>6. ToldIsVisible'
  BY <1>1, <1>4, StillTold DEF IInv
<1>7. CASE Finish(h)
  BY <1>1, <1>4, <1>5, <1>6, <1>7, Finished, OneHandler DEF IInv, Kinds
<1>8. CASE Goto(h, "telling")
  <2>1. HandlerOK(h)'
    BY <1>2, <1>3, <1>4, <1>8, Moved DEF HandlerOK, KnowsItsPlace, PeeksTooLate, MayPublish, HasPublished
  <2> QED BY <1>1, <1>4, <1>5, <1>6, <1>8, <2>1, Moved, OneHandler DEF IInv, Kinds
<1> QED BY <1>7, <1>8 DEF PublishReviews

\* Each author is told of the other's review.
LEMMA TellStep ==
  ASSUME IInv, NEW h \in Handlers, TellPublished(h)
  PROVE  IInv' /\ RowsOnlyGrow
<1>1. PICK p \in call[h].read :
        /\ call[h].pc = "telling"
        /\ \/ told' = told \cup {[booking |-> call[h].booking, party |-> p]} /\ UNCHANGED faults
           \/ faults < MaxFaults /\ faults' = faults + 1 /\ UNCHANGED told
        /\ IF call[h].read = {p} THEN Finish(h)
           ELSE call' = [call EXCEPT ![h].read = @ \ {p}]
        /\ UNCHANGED <<completed, review, due, peeked>>
  BY DEF TellPublished
<1>2. /\ call[h] \in CallRecord /\ call \in [Handlers -> CallRecord] /\ p \in Parties
      /\ call[h].booking \in Bookings /\ Visible(call[h].booking, p)
  BY <1>1 DEF IInv, Kinds, CallRecord, HandlerOK, KnowsItsPlace, HasPublished
<1>3. RowsOnlyGrow /\ RowsOK'
  BY <1>1, SameRows DEF IInv
<1>4. faults' \in 0..MaxFaults
  BY <1>1, Constants DEF IInv, Kinds
<1>5. told' \subseteq [booking : Bookings, party : Parties] /\ ToldIsVisible'
  BY <1>1, <1>2 DEF IInv, Kinds, ToldIsVisible, Visible
<1>6. DoubleBlind'
  BY <1>1, <1>3, StillBlindly DEF IInv, Visible
<1>7. CASE Finish(h)
  BY <1>1, <1>3, <1>4, <1>5, <1>6, <1>7, Finished, OneHandler DEF IInv, Kinds
<1>8. CASE call' = [call EXCEPT ![h].read = @ \ {p}]
  <2> DEFINE r == [call[h] EXCEPT !.read = @ \ {p}]
  <2>1. /\ r \in CallRecord /\ r.pc = "telling" /\ r.booking = call[h].booking
        /\ r.read \subseteq call[h].read
    BY <1>1, <1>2 DEF CallRecord
  <2>2. call' = [call EXCEPT ![h] = r] /\ call'[h] = r
    BY <1>2, <1>8
  <2> HIDE DEF r
  <2>3. HandlerOK(h)'
    BY <1>1, <1>2, <2>1, <2>2 DEF IInv, HandlerOK, KnowsItsPlace, PeeksTooLate, MayPublish, HasPublished,
       Visible
  <2> QED BY <1>1, <1>3, <1>4, <1>5, <1>6, <2>1, <2>2, <2>3, OneHandler DEF IInv, Kinds
<1> QED BY <1>1, <1>7, <1>8

-----------------------------------------------------------------------------
(* The sweep, the clock, and what can go wrong. *)

\* The sweep, from its tick to its end.
LEMMA SweepStep == IInv /\ Sweep => IInv' /\ RowsOnlyGrow
<1> SUFFICES ASSUME IInv, Sweep PROVE IInv' /\ RowsOnlyGrow
  OBVIOUS
<1>1. ASSUME NEW b \in Bookings, SweepRead(b) PROVE IInv' /\ RowsOnlyGrow
  <2> DEFINE r == [Idle EXCEPT !.pc = "publishing", !.booking = b, !.read = Blind(b)]
  <2>1. /\ due # None /\ b \in due /\ due' = due \ {b} /\ Sweeper \in Handlers
        /\ UNCHANGED <<completed, review, told, peeked, faults>>
    BY <1>1 DEF SweepRead, Handlers
  <2>2. /\ r \in CallRecord /\ r.pc = "publishing" /\ r.booking = b
        /\ r.read = Blind(b)
    BY DEF CallRecord, Idle, Blind, WrittenOf
  <2>3. call' = [call EXCEPT ![Sweeper] = r]
    BY <1>1 DEF SweepRead
  <2>4. call'[Sweeper] = r /\ \A h \in Handlers \ {Sweeper} : call'[h] = call[h]
    BY <2>1, <2>3 DEF IInv, Kinds
  <2>5. \E p \in Parties : Past(b, p)
    BY <2>1 DEF IInv, ListIsPast
  <2>6. \A p \in Blind(b) : Written(b, p)
    BY DEF Blind, WrittenOf
  <2> HIDE DEF r
  <2>7. HandlerOK(Sweeper)'
    BY <2>1, <2>2, <2>4, <2>5, <2>6 DEF HandlerOK, KnowsItsPlace, PeeksTooLate, MayPublish, HasPublished,
       Past, Written
  <2>8. RowsOnlyGrow /\ RowsOK'
    BY <2>1, SameRows DEF IInv
  <2>9. \A h \in Handlers : HandlerOK(h)'
    BY <2>1, <2>4, <2>7, <2>8, OthersStay DEF IInv
  <2>10. Kinds'
    BY <2>1, <2>2, <2>3 DEF IInv, Kinds
  <2>11. ListIsPast'
    BY <2>1 DEF IInv, ListIsPast, Past, Written
  <2>12. DoubleBlind' /\ ToldIsVisible'
    BY <2>1, <2>8, StillBlindly, StillTold DEF IInv, Visible
  <2> QED BY <2>8, <2>9, <2>10, <2>11, <2>12 DEF IInv
<1>2. CASE SweepTick \/ SweepEnds
  <2>1. UNCHANGED <<completed, review, call, told, peeked, faults>>
    BY <1>2 DEF SweepTick, SweepEnds
  <2>2. RowsOnlyGrow /\ RowsOK'
    BY <2>1, SameRows DEF IInv
  <2>3. \A h \in Handlers : HandlerOK(h)'
    BY <2>1, <2>2, OthersStay DEF IInv
  <2>4. (due' = None \/ due' \subseteq Bookings) /\ ListIsPast'
    BY <1>2, <2>1 DEF SweepTick, SweepEnds, PastBlindPeriod, Blind, WrittenOf, ListIsPast, Past, Written
  <2>5. Kinds'
    BY <2>1, <2>4 DEF IInv, Kinds
  <2>6. DoubleBlind' /\ ToldIsVisible'
    BY <2>1, <2>2, StillBlindly, StillTold DEF IInv, Visible
  <2> QED BY <2>2, <2>3, <2>4, <2>5, <2>6 DEF IInv
<1> QED BY <1>1, <1>2 DEF Sweep

\* Time, a booking that completes, and what goes wrong.
LEMMA OutsideStep ==
  ASSUME IInv,
         \/ \E b \in Bookings : Complete(b) \/ \E p \in Parties : Age(b, p)
         \/ (\E h \in Handlers : CallFails(h)) \/ Crash
  PROVE  IInv' /\ RowsOnlyGrow
<1>1. ASSUME NEW b \in Bookings, Complete(b) PROVE IInv' /\ RowsOnlyGrow
  <2>1. completed' = completed \cup {b} /\ UNCHANGED <<review, call, due, told, peeked, faults>>
    BY <1>1 DEF Complete
  <2>2. RowsOnlyGrow /\ RowsOK'
    BY <2>1, SameRows DEF IInv
  <2>3. \A h \in Handlers : HandlerOK(h)'
    BY <2>1, <2>2, OthersStay DEF IInv
  <2>4. DoubleBlind' /\ ToldIsVisible' /\ ListIsPast'
    BY <2>1, <2>2, StillBlindly, StillTold, StillPast DEF IInv, Visible
  <2> QED BY <2>1, <2>2, <2>3, <2>4 DEF IInv, Kinds
<1>2. ASSUME NEW b \in Bookings, NEW p \in Parties, Age(b, p) PROVE IInv' /\ RowsOnlyGrow
  <2>1. UNCHANGED <<completed, call, due, told, peeked, faults>>
    BY <1>2 DEF Age
  <2>2. /\ RowsOnlyGrow /\ RowsOK'
        /\ \A d \in Bookings, q \in Parties : Visible(d, q)' => Visible(d, q)
    BY <1>2, AgeGrows DEF IInv
  <2>3. \A h \in Handlers : HandlerOK(h)'
    BY <2>1, <2>2, OthersStay DEF IInv
  <2>4. DoubleBlind' /\ ToldIsVisible' /\ ListIsPast'
    BY <2>1, <2>2, StillBlindly, StillTold, StillPast DEF IInv
  <2> QED BY <2>1, <2>2, <2>3, <2>4 DEF IInv, Kinds
<1>3. ASSUME NEW h \in Handlers, CallFails(h) PROVE IInv' /\ RowsOnlyGrow
  <2>1. Finish(h) /\ UNCHANGED <<completed, review, due, told, peeked>> /\ faults' \in 0..MaxFaults
    BY <1>3, Constants DEF CallFails, IInv, Kinds
  <2> QED BY <2>1, Finished, OnlyTheHandler DEF IInv
<1>4. CASE Crash
  <2>1. /\ call' = [h \in Handlers |-> Idle] /\ due' = None /\ faults' \in 0..MaxFaults
        /\ UNCHANGED <<completed, review, told, peeked>>
    BY <1>4, Constants DEF Crash, IInv, Kinds
  <2>2. RowsOnlyGrow /\ RowsOK'
    BY <2>1, SameRows DEF IInv
  <2>3. \A h \in Handlers : HandlerOK(h)' /\ Idle \in CallRecord
    BY <2>1, IdleIsFine
  <2>4. Sweeper \in Handlers
    BY DEF Handlers
  <2>5. call' \in [Handlers -> CallRecord]
    BY <2>1, <2>3, <2>4
  <2>6. DoubleBlind' /\ ToldIsVisible' /\ ListIsPast'
    BY <2>1, <2>2, StillBlindly, StillTold DEF IInv, Visible, ListIsPast
  <2> QED BY <2>1, <2>2, <2>3, <2>5, <2>6 DEF IInv, Kinds
<1> QED BY <1>1, <1>2, <1>3, <1>4

-----------------------------------------------------------------------------
(* The theorems. *)

\* Nothing has been written.
LEMMA InitInv == Init => IInv
<1> SUFFICES ASSUME Init PROVE IInv
  OBVIOUS
<1>1. RowsOK
  BY DEF Init, RowsOK, Row, NoReview, Written
<1>2. Kinds
  BY Constants, IdleIsFine DEF Init, Kinds, CallRecord, Idle
<1>3. \A h \in Handlers : HandlerOK(h)
  BY DEF Init, Idle, HandlerOK, KnowsItsPlace, PeeksTooLate, MayPublish, HasPublished
<1>4. ListIsPast /\ DoubleBlind /\ ToldIsVisible
  BY DEF Init, ListIsPast, DoubleBlind, ToldIsVisible, Visible, NoReview
<1> QED BY <1>1, <1>2, <1>3, <1>4 DEF IInv

\* Each step keeps the invariant, and lets rows only grow.
LEMMA NextStep == IInv /\ [Next]_vars => IInv' /\ (RowsOnlyGrow \/ UNCHANGED vars)
<1> SUFFICES ASSUME IInv, [Next]_vars PROVE IInv' /\ (RowsOnlyGrow \/ UNCHANGED vars)
  OBVIOUS
<1>1. CASE UNCHANGED vars
  <2>1. UNCHANGED <<completed, review, call, due, told, peeked, faults>>
    BY <1>1 DEF vars
  <2>2. RowsOnlyGrow /\ RowsOK'
    BY <2>1, SameRows DEF IInv
  <2>3. \A h \in Handlers : HandlerOK(h)'
    BY <2>1, <2>2, OthersStay DEF IInv
  <2>4. DoubleBlind' /\ ToldIsVisible' /\ ListIsPast'
    BY <2>1, <2>2, StillBlindly, StillTold, StillPast DEF IInv, Visible
  <2> QED BY <1>1, <2>1, <2>2, <2>3, <2>4 DEF IInv, Kinds
<1>2. ASSUME NEW h \in Handlers, Continue(h) PROVE IInv' /\ RowsOnlyGrow
  BY <1>2, CheckStep, InsertStep, UpdateStep, ReplyStep, ReadBothStep, PublishStep, TellStep DEF Continue
<1> QED BY <1>1, <1>2, SendStep, SweepStep, OutsideStep DEF Next

\* What every handler's read still implies when it writes is inductive.
THEOREM Inductive == Spec => []IInv
BY InitInv, NextStep, PTL DEF Spec

\* The types of every variable, and that what was not written has nothing about it.
THEOREM TypeCorrect == Spec => []TypeOK
<1>1. IInv => TypeOK
  BY DEF IInv, RowsOK, Kinds, Row, CallRecord, TypeOK
<1> QED BY <1>1, Inductive, PTL

\* Reviews are written blind, and published with the other's or late
\* (assertReviewable, publishIfBothWritten and sweepBlindReviews against each other).
THEOREM WrittenBlindPublishedTogether == Spec => []DoubleBlind
BY Inductive, PTL DEF IInv

\* Nobody is told of a review that cannot be read (publishReviewsForBooking comes
\* before its notifications, and nothing is hidden again).
THEOREM NotificationsAreTrue == Spec => []ToldIsVisible
BY Inductive, PTL DEF IInv

\* What is visible stays visible, in the same words (updateReview's WHERE).
THEOREM WordsAreFinal == Spec => PublishedIsFinal
<1>1. IInv /\ [Next]_vars =>
        [\A b \in Bookings, p \in Parties :
           Visible(b, p) => Visible(b, p)' /\ review'[b][p].text = review[b][p].text]_vars
  BY NextStep DEF RowsOnlyGrow
<1> QED BY <1>1, Inductive, PTL DEF Spec, PublishedIsFinal

-----------------------------------------------------------------------------
(* The handlers implement the exchange of sealed pages. *)

\* A column of which one entry changes.
LEMMA OneEntry ==
  ASSUME NEW S, NEW f \in [Bookings -> [Parties -> S]], NEW g \in [Bookings -> [Parties -> S]],
         NEW b \in Bookings, NEW p \in Parties,
         \A c \in Bookings, q \in Parties : c # b \/ q # p => g[c][q] = f[c][q]
  PROVE  g = [f EXCEPT ![b][p] = g[b][p]]
<1>1. /\ g[b] \in [Parties -> S] /\ f[b] \in [Parties -> S]
      /\ \A q \in Parties \ {p} : g[b][q] = f[b][q]
  OBVIOUS
<1>2. g[b] = [f[b] EXCEPT ![p] = g[b][p]]
  BY <1>1
<1>3. ASSUME NEW c \in Bookings, c # b PROVE g[c] = f[c]
  <2>1. g[c] \in [Parties -> S] /\ f[c] \in [Parties -> S] /\ \A q \in Parties : g[c][q] = f[c][q]
    BY <1>3
  <2> QED BY <2>1
<1> QED BY <1>2, <1>3

\* The columns have their types, whatever the rows are.
LEMMA Columns ==
  ASSUME RowsOK
  PROVE  /\ Texted \in [Bookings -> [Parties -> Texts \cup {None}]]
         /\ Opened \in [Bookings -> [Parties -> BOOLEAN]]
         /\ Overdue \in [Bookings -> [Parties -> BOOLEAN]]
         /\ Replies \in [Bookings -> [Parties -> Calls \cup {None}]]
BY DEF Texted, Opened, Overdue, Replies, RowsOK, Row, Visible

\* Rows alike in a field are alike in its column.
LEMMA SameColumns ==
  /\ (\A b \in Bookings, p \in Parties : review'[b][p].text = review[b][p].text) => Texted' = Texted
  /\ (\A b \in Bookings, p \in Parties : Visible(b, p)' = Visible(b, p)) => Opened' = Opened
  /\ (\A b \in Bookings, p \in Parties : (review'[b][p].age = "past") = (review[b][p].age = "past"))
       => Overdue' = Overdue
  /\ (\A b \in Bookings, p \in Parties : review'[b][p].reply = review[b][p].reply) => Replies' = Replies
BY DEF Texted, Opened, Overdue, Replies

\* The columns of the rows after a step.
LEMMA ColumnsNext ==
  ASSUME RowsOK'
  PROVE  /\ Texted' \in [Bookings -> [Parties -> Texts \cup {None}]]
         /\ Overdue' \in [Bookings -> [Parties -> BOOLEAN]]
         /\ Replies' \in [Bookings -> [Parties -> Calls \cup {None}]]
BY DEF Texted, Overdue, Replies, RowsOK, Row

\* A text put into a row that is not visible words a sealed page.
LEMMA RewordIsWord ==
  ASSUME RowsOK, RowsOK', NEW b \in Bookings, NEW p \in Parties, Reword(b, p), ~Visible(b, p)
  PROVE  \E t \in Texts : Promise!Word(b, p, t)
<1>1. PICK t \in Texts : review' = [review EXCEPT ![b][p].text = t]
  BY DEF Reword
<1> DEFINE row == [review[b][p] EXCEPT !.text = t]
<1>2. review[b][p] \in Row
  BY DEF RowsOK
<1>3. /\ row \in Row /\ row.text = t /\ row.published = review[b][p].published
      /\ row.age = review[b][p].age /\ row.reply = review[b][p].reply
  BY <1>2 DEF Row
<1>4. review' = [review EXCEPT ![b] = [review[b] EXCEPT ![p] = row]]
  BY <1>1
<1> HIDE DEF row
<1>5. /\ review'[b][p] = row
      /\ \A c \in Bookings, q \in Parties : c # b \/ q # p => review'[c][q] = review[c][q]
  BY <1>3, <1>4, OneRow
<1>6. Opened' = Opened /\ Overdue' = Overdue /\ Replies' = Replies
  BY <1>3, <1>5, SameColumns DEF Visible
<1>7. Texted' = [Texted EXCEPT ![b][p] = Texted'[b][p]]
  <2>1. \A c \in Bookings, q \in Parties : c # b \/ q # p => Texted'[c][q] = Texted[c][q]
    BY <1>5 DEF Texted
  <2> QED BY <2>1, Columns, ColumnsNext, OneEntry
<1>8. Texted'[b][p] = t /\ ~Opened[b][p]
  BY <1>3, <1>5 DEF Texted, Opened
<1> QED BY <1>6, <1>7, <1>8 DEF Promise!Word

\* Time either runs out for a written page or does nothing to see.
LEMMA AgeIsExpire ==
  ASSUME RowsOK, RowsOK', NEW b \in Bookings, NEW p \in Parties, Age(b, p)
  PROVE  Promise!Expire(b, p) \/ UNCHANGED <<Texted, Opened, Overdue, Replies>>
<1> DEFINE older == IF review[b][p].age = "new" THEN "settled" ELSE "past"
           row == [review[b][p] EXCEPT !.age = older]
<1>1. review[b][p] \in Row /\ review[b][p].text # None /\ review[b][p].age # "past"
  BY DEF RowsOK, Age, Written
<1>2. /\ row \in Row /\ row.text = review[b][p].text /\ row.published = review[b][p].published
      /\ row.age = older /\ row.reply = review[b][p].reply
  BY <1>1 DEF Row
<1>3. review' = [review EXCEPT ![b] = [review[b] EXCEPT ![p] = row]]
  BY DEF Age
<1>4. older = IF review[b][p].age = "new" THEN "settled" ELSE "past"
  OBVIOUS
<1> HIDE DEF row, older
<1>5. /\ review'[b][p] = row
      /\ \A c \in Bookings, q \in Parties : c # b \/ q # p => review'[c][q] = review[c][q]
  BY <1>2, <1>3, OneRow
<1>6. Texted' = Texted /\ Opened' = Opened /\ Replies' = Replies
  <2>1. ASSUME NEW c \in Bookings, NEW q \in Parties
        PROVE  /\ review'[c][q].text = review[c][q].text /\ Visible(c, q)' = Visible(c, q)
               /\ review'[c][q].reply = review[c][q].reply
    BY <1>2, <1>5 DEF Visible
  <2> QED BY <2>1, SameColumns
<1>7. CASE review[b][p].age = "new"
  <2>1. ASSUME NEW c \in Bookings, NEW q \in Parties
        PROVE  (review'[c][q].age = "past") = (review[c][q].age = "past")
    BY <1>1, <1>2, <1>5, <1>7, <1>4
  <2>2. Overdue' = Overdue
    BY <2>1, SameColumns
  <2> QED BY <1>6, <2>2
<1>8. CASE review[b][p].age # "new"
  <2>1. Overdue' = [Overdue EXCEPT ![b][p] = Overdue'[b][p]]
    <3>1. \A c \in Bookings, q \in Parties : c # b \/ q # p => Overdue'[c][q] = Overdue[c][q]
      BY <1>5 DEF Overdue
    <3> QED BY <3>1, Columns, ColumnsNext, OneEntry
  <2>2. Overdue'[b][p] = TRUE /\ Texted[b][p] # None
    BY <1>1, <1>2, <1>5, <1>8, <1>4 DEF Overdue, Texted
  <2> QED BY <1>6, <2>1, <2>2 DEF Promise!Expire
<1> QED BY <1>7, <1>8

\* A reply that is stored is the first to an open page.
LEMMA ReplyIsReply ==
  ASSUME RowsOK, RowsOK', NEW b \in Bookings, NEW p \in Parties, NEW c \in Calls,
         Visible(b, p), NoReplyYet(b, p), Replied(b, p, c)
  PROVE  Promise!Reply(b, p, c)
<1> DEFINE row == [review[b][p] EXCEPT !.reply = c]
<1>1. review[b][p] \in Row
  BY DEF RowsOK
<1>2. /\ row \in Row /\ row.text = review[b][p].text /\ row.published = review[b][p].published
      /\ row.age = review[b][p].age /\ row.reply = c
  BY <1>1 DEF Row
<1>3. review' = [review EXCEPT ![b] = [review[b] EXCEPT ![p] = row]]
  BY DEF Replied
<1> HIDE DEF row
<1>4. /\ review'[b][p] = row
      /\ \A d \in Bookings, q \in Parties : d # b \/ q # p => review'[d][q] = review[d][q]
  BY <1>2, <1>3, OneRow
<1>5. Texted' = Texted /\ Opened' = Opened /\ Overdue' = Overdue
  BY <1>2, <1>4, SameColumns DEF Visible
<1>6. Replies' = [Replies EXCEPT ![b][p] = Replies'[b][p]]
  <2>1. \A d \in Bookings, q \in Parties : d # b \/ q # p => Replies'[d][q] = Replies[d][q]
    BY <1>4 DEF Replies
  <2> QED BY <2>1, Columns, ColumnsNext, OneEntry
<1>7. Replies'[b][p] = c /\ Replies[b][p] = None /\ Opened[b][p]
  BY <1>2, <1>4 DEF Replies, Opened, NoReplyYet
<1> QED BY <1>5, <1>6, <1>7 DEF Promise!Reply

\* A publication opens the written pages of a booking, both being written or the
\* time of one having run out.
LEMMA PublishIsOpen ==
  ASSUME IInv, RowsOK', NEW h \in Handlers, PublishReviews(h)
  PROVE  \E b \in Bookings : Promise!Open(b)
<1>1. call[h].pc = "publishing"
  BY DEF PublishReviews
<1>2. PICK b \in Bookings : b = call[h].booking
  BY <1>1 DEF IInv, HandlerOK, KnowsItsPlace
<1>3. (\A p \in Parties : Written(b, p)) \/ (\E p \in Parties : Past(b, p))
  BY <1>1, <1>2 DEF IInv, HandlerOK, MayPublish
<1> DEFINE shown == [p \in Parties |-> [review[b][p] EXCEPT !.published = @ \/ p \in Blind(b)]]
<1>4. review' = [review EXCEPT ![b] = shown]
  BY <1>2 DEF PublishReviews, Publishable
<1>5. ASSUME NEW p \in Parties
      PROVE  /\ shown[p].text = review[b][p].text /\ shown[p].age = review[b][p].age
             /\ shown[p].reply = review[b][p].reply
             /\ shown[p].published = Written(b, p)
  <2>1. review[b][p] \in Row /\ (review[b][p].published => Written(b, p))
    BY DEF IInv, RowsOK, NoReview, Written
  <2>2. p \in Blind(b) <=> Written(b, p) /\ ~review[b][p].published
    BY DEF Blind, WrittenOf, Visible
  <2>3. shown[p] = [review[b][p] EXCEPT !.published = @ \/ p \in Blind(b)]
    OBVIOUS
  <2> HIDE DEF shown
  <2>4. CASE p \in Blind(b)
    <3>1. shown[p] = [review[b][p] EXCEPT !.published = TRUE]
      BY <2>1, <2>3, <2>4 DEF Row
    <3> QED BY <2>1, <2>2, <2>4, <3>1 DEF Row, Written
  <2>5. CASE p \notin Blind(b)
    <3>1. shown[p] = review[b][p]
      BY <2>1, <2>3, <2>5 DEF Row
    <3> QED BY <2>1, <2>2, <2>5, <3>1 DEF Row, Written
  <2> QED BY <2>4, <2>5
<1> HIDE DEF shown
<1>6. review'[b] = shown /\ \A c \in Bookings \ {b} : review'[c] = review[c]
  BY <1>4 DEF IInv, RowsOK
<1>7. ASSUME NEW c \in Bookings, NEW q \in Parties
      PROVE  /\ review'[c][q].text = review[c][q].text /\ review'[c][q].age = review[c][q].age
             /\ review'[c][q].reply = review[c][q].reply
  BY <1>5, <1>6
<1>8. Texted' = Texted /\ Overdue' = Overdue /\ Replies' = Replies
  BY <1>7, SameColumns
<1>9. Opened' = [Opened EXCEPT ![b] = [p \in Parties |-> Texted[b][p] # None]]
  <2>1. \A p \in Parties : Visible(b, p)' = (Texted[b][p] # None)
    BY <1>5, <1>6 DEF Visible, Written, Texted
  <2>2. \A c \in Bookings \ {b}, p \in Parties : Visible(c, p)' = Visible(c, p)
    BY <1>6 DEF Visible
  <2> QED BY <2>1, <2>2 DEF Opened
<1>10. (\A p \in Parties : Texted[b][p] # None) \/ (\E p \in Parties : Overdue[b][p])
  BY <1>3 DEF Texted, Overdue, Written, Past
<1> QED BY <1>8, <1>9, <1>10 DEF Promise!Open

\* What is seen of a step of a handler.
LEMMA ContinueIsSeen ==
  ASSUME IInv, IInv', NEW h \in Handlers, Continue(h)
  PROVE  Promise!Next \/ UNCHANGED review
<1>1. RowsOK /\ RowsOK'
  BY DEF IInv
<1>2. CASE InsertReview(h)
  <2>1. CASE Written(call[h].booking, call[h].party)
    BY <1>2, <2>1 DEF InsertReview
  <2>2. CASE ~Written(call[h].booking, call[h].party)
    <3>1. PICK b \in Bookings, p \in Parties : b = call[h].booking /\ p = call[h].party
      BY <1>2 DEF InsertReview, IInv, HandlerOK, KnowsItsPlace
    <3>2. Reword(b, p) /\ ~Visible(b, p)
      BY <1>1, <1>2, <2>2, <3>1 DEF InsertReview, RowsOK, Visible, Written, NoReview
    <3> QED BY <1>1, <3>2, RewordIsWord DEF Promise!Next
  <2> QED BY <2>1, <2>2
<1>3. CASE UpdateReview(h)
  <2>1. PICK b \in Bookings, p \in Parties : b = call[h].booking /\ p = call[h].party
    BY <1>3 DEF UpdateReview, IInv, HandlerOK, KnowsItsPlace
  <2>2. UNCHANGED review \/ (Reword(b, p) /\ ~Visible(b, p))
    BY <1>3, <2>1 DEF UpdateReview, StillBlind
  <2> QED BY <1>1, <2>2, RewordIsWord DEF Promise!Next
<1>4. CASE InsertReply(h)
  <2>1. PICK b \in Bookings, p \in Parties : b = call[h].booking /\ p = Other(call[h].party)
    BY <1>4 DEF InsertReply, IInv, HandlerOK, KnowsItsPlace, Other, Parties
  <2>2. h \in Calls
    BY <1>4 DEF InsertReply, IInv, HandlerOK, KnowsItsPlace
  <2>3. UNCHANGED review \/ (Visible(b, p) /\ NoReplyYet(b, p) /\ Replied(b, p, h))
    BY <1>4, <2>1 DEF InsertReply, Replied
  <2> QED BY <1>1, <2>2, <2>3, ReplyIsReply DEF Promise!Next
<1>5. CASE PublishReviews(h)
  BY <1>1, <1>5, PublishIsOpen DEF Promise!Next
<1>6. CASE \/ AssertReviewable(h) \/ ReadBoth(h) \/ TellPublished(h)
          \/ CheckEditable(h) \/ CheckRepliable(h)
  BY <1>6 DEF AssertReviewable, ReadBoth, TellPublished, CheckEditable, CheckRepliable, Answer
<1> QED BY <1>2, <1>3, <1>4, <1>5, <1>6 DEF Continue

\* Seen from the pages, every step of every handler, the sweep and the clock words a
\* sealed page, lets time run out, opens a booking's pages when it may, answers an
\* open page once, or changes nothing (reviewService.js against its own races).
THEOREM ReviewsKeepThePromise == Spec => KeepsThePromise
<1>1. Init => Promise!Init
  <2> SUFFICES ASSUME Init PROVE Promise!Init
    OBVIOUS
  <2>1. ASSUME NEW b \in Bookings, NEW p \in Parties PROVE review[b][p] = NoReview
    BY DEF Init
  <2>2. Texted = Promise!Everywhere(None) /\ Replies = Promise!Everywhere(None)
    BY <2>1 DEF NoReview, Texted, Replies, Promise!Everywhere
  <2>3. Opened = Promise!Everywhere(FALSE) /\ Overdue = Promise!Everywhere(FALSE)
    <3>1. ASSUME NEW b \in Bookings, NEW p \in Parties
          PROVE  Visible(b, p) = FALSE /\ (review[b][p].age = "past") = FALSE
      BY <2>1 DEF NoReview, Visible
    <3> QED BY <3>1 DEF Opened, Overdue, Promise!Everywhere
  <2> QED BY <2>2, <2>3 DEF Promise!Init
<1>2. IInv /\ IInv' /\ [Next]_vars => [Promise!Next]_(Promise!pages)
  <2> SUFFICES ASSUME IInv, IInv', [Next]_vars
               PROVE  Promise!Next \/ UNCHANGED Promise!pages
    OBVIOUS
  <2>1. UNCHANGED review => UNCHANGED Promise!pages
    BY DEF Promise!pages, Texted, Opened, Overdue, Replies, Visible
  <2>2. ASSUME NEW b \in Bookings, NEW p \in Parties, Age(b, p)
        PROVE  Promise!Next \/ UNCHANGED Promise!pages
    BY <2>2, AgeIsExpire DEF IInv, Promise!Next, Promise!pages
  <2>3. ASSUME NEW h \in Handlers, Continue(h)
        PROVE  Promise!Next \/ UNCHANGED Promise!pages
    BY <2>1, <2>3, ContinueIsSeen
  <2>4. \/ \E b \in Bookings, p \in Parties : Age(b, p)
        \/ \E h \in Handlers : Continue(h)
        \/ UNCHANGED review
    <3>1. ASSUME NEW c \in Calls, NEW b \in Bookings, NEW p \in Parties, NEW op \in Ops,
                 Send(c, b, p, op)
          PROVE  UNCHANGED review
      BY <3>1 DEF Send
    <3>2. ASSUME NEW h \in Handlers, CallFails(h) PROVE UNCHANGED review
      BY <3>2 DEF CallFails
    <3>3. SweepTick \/ SweepEnds \/ Crash => UNCHANGED review
      BY DEF SweepTick, SweepEnds, Crash
    <3>4. ASSUME NEW b \in Bookings, SweepRead(b) \/ Complete(b) PROVE UNCHANGED review
      BY <3>4 DEF SweepRead, Complete
    <3>5. UNCHANGED vars => UNCHANGED review
      BY DEF vars
    <3> QED BY <3>1, <3>2, <3>3, <3>4, <3>5 DEF Next, Sweep
  <2> QED BY <2>1, <2>2, <2>3, <2>4
<1> QED BY <1>1, <1>2, Inductive, PTL DEF Spec, KeepsThePromise, Promise!Spec
=============================================================================

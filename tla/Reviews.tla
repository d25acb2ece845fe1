------------------------------- MODULE Reviews ------------------------------
(***************************************************************************)
(* services/reviewService.js over the reviews table of migration 011: each *)
(* party of a completed booking writes about the other, blind; a review    *)
(* becomes visible when both are written or when its fourteen days are up. *)
(*                                                                         *)
(* A request is composed before it arrives, and every await of its handler *)
(* is a step of its own, so a review can be published between the check a  *)
(* handler makes and the row it writes.  A review's text is a member of a   *)
(* small set, enough to tell a rewording.                                  *)
(***************************************************************************)
EXTENDS Naturals

CONSTANTS
  Bookings,   \* the bookings
  Calls,      \* request handlers that may be in flight at once
  Sweeper,    \* the scheduler's handler
  None,       \* no value
  Texts,      \* what a review may say
  MaxFaults   \* bound on crashes and failed database calls

ASSUME ReviewsAssumption ==
  /\ Sweeper \notin Calls
  /\ None \notin Calls \cup Bookings \cup Texts
  /\ MaxFaults \in Nat

VARIABLES
  completed,  \* bookings whose rental is complete
  review,     \* booking -> author -> the row; its text is None before it is written
  call,       \* what each handler is doing, and what it read
  due,        \* bookings on the running sweep's list; None when no sweep runs
  told,       \* REVIEW_PUBLISHED notifications: [booking, author] of the review told of
  peeked,     \* ghost: texts composed when the other party's review could be read
  faults      \* crashes and failed database calls so far

vars == <<completed, review, call, due, told, peeked, faults>>

Parties == {"owner", "renter"}
Other(p) == IF p = "owner" THEN "renter" ELSE "owner"
Handlers == Calls \cup {Sweeper}

Written(b, p) == review[b][p].text # None
Visible(b, p) == review[b][p].published
WrittenOf(b) == {p \in Parties : Written(b, p)}
Blind(b) == {p \in WrittenOf(b) : ~Visible(b, p)}

NoReview == [text |-> None, published |-> FALSE, age |-> "new", reply |-> None]
Idle == [pc |-> "idle", op |-> None, booking |-> None, party |-> None,
         couldRead |-> FALSE, read |-> {}]

Goto(h, pc) == call' = [call EXCEPT ![h].pc = pc]
Finish(h) == call' = [call EXCEPT ![h] = Idle]
Reword(b, p) == \E t \in Texts : review' = [review EXCEPT ![b][p].text = t]

Init ==
  /\ completed = {}
  /\ review = [b \in Bookings |-> [p \in Parties |-> NoReview]]
  /\ call = [h \in Handlers |-> Idle]
  /\ due = None
  /\ told = {}
  /\ peeked = {}
  /\ faults = 0

-----------------------------------------------------------------------------
(* A party composes a review, an edit of it, or a reply, and sends it. *)

Send(c, b, p, op) ==
  /\ call[c].pc = "idle"
  /\ call' = [call EXCEPT ![c] = [pc |-> "sent", op |-> op, booking |-> b, party |-> p,
                                  couldRead |-> Visible(b, Other(p)), read |-> {}]]
  /\ UNCHANGED <<completed, review, due, told, peeked, faults>>

Answer(c, ok, pc) ==
  /\ IF ok THEN Goto(c, pc) ELSE Finish(c)
  /\ UNCHANGED <<completed, review, due, told, peeked, faults>>

OnlyCompleted(b, p) == b \in completed

\* writeReview: assertReviewable.  A party who has written passes it, whatever is
\* published, and is left to the unique constraint.
Reviewable(b, p) ==
  /\ b \in completed
  /\ Written(b, p) \/ \A q \in Parties : ~Visible(b, q)

AssertReviewable(c) ==
  /\ call[c].pc = "sent" /\ call[c].op = "write"
  /\ Answer(c, Reviewable(call[c].booking, call[c].party), "asserted")

\* insertReview, under uq_review_per_author_per_booking.
Peek(c) ==
  IF call[c].couldRead
  THEN peeked \cup {[booking |-> call[c].booking, party |-> call[c].party, op |-> call[c].op]}
  ELSE peeked

InsertReview(c) ==
  LET b == call[c].booking
      p == call[c].party
  IN  /\ call[c].pc = "asserted"
      /\ IF Written(b, p)
         THEN Finish(c) /\ UNCHANGED <<review, peeked>>
         ELSE /\ Reword(b, p)
              /\ peeked' = Peek(c)
              /\ Goto(c, "inserted")
      /\ UNCHANGED <<completed, due, told, faults>>

\* publishIfBothWritten: both rows are read first.
OneIsEnough(b) == WrittenOf(b) # {}
BothWritten(b) == WrittenOf(b) = Parties

ReadBoth(c) ==
  /\ call[c].pc = "inserted"
  /\ IF BothWritten(call[c].booking)
     THEN call' = [call EXCEPT ![c].pc = "publishing", ![c].read = WrittenOf(call[c].booking)]
     ELSE Finish(c)
  /\ UNCHANGED <<completed, review, due, told, peeked, faults>>

PastOnly(b) == {p \in Blind(b) : review[b][p].age = "past"}

\* publishReviewsForBooking: every review of the booking not published yet.
Publishable(b) == Blind(b)

\* When there was none to publish, nobody is told.
PublishReviews(h) ==
  LET b == call[h].booking
      rows == Publishable(b)
  IN  /\ call[h].pc = "publishing"
      /\ review' = [review EXCEPT ![b] =
                      [p \in Parties |-> [review[b][p] EXCEPT !.published = @ \/ p \in rows]]]
      /\ IF rows = {} \/ call[h].read = {} THEN Finish(h) ELSE Goto(h, "telling")
      /\ UNCHANGED <<completed, due, told, peeked, faults>>

\* notifyReviewPublished to the subject of each review that was read, one at a
\* time; a notification that fails is swallowed.
TellPublished(h) ==
  \E p \in call[h].read :
     /\ call[h].pc = "telling"
     /\ \/ told' = told \cup {[booking |-> call[h].booking, party |-> p]} /\ UNCHANGED faults
        \/ faults < MaxFaults /\ faults' = faults + 1 /\ UNCHANGED told
     /\ IF call[h].read = {p} THEN Finish(h)
        ELSE call' = [call EXCEPT ![h].read = @ \ {p}]
     /\ UNCHANGED <<completed, review, due, peeked>>

\* editReview: its own review, not visible yet, within the 48 hours.
CheckEditable(c) ==
  /\ call[c].pc = "sent" /\ call[c].op = "edit"
  /\ LET r == review[call[c].booking][call[c].party]
     IN  Answer(c, r.text # None /\ ~r.published /\ r.age = "new", "editable")

\* updateReview carries the rule in its WHERE, all but the 48 hours.
AnyReview(b, p) == TRUE
StillBlind(b, p) == ~Visible(b, p)

UpdateReview(c) ==
  LET b == call[c].booking
      p == call[c].party
  IN  /\ call[c].pc = "editable"
      /\ IF StillBlind(b, p)
         THEN Reword(b, p) /\ peeked' = Peek(c)
         ELSE UNCHANGED <<review, peeked>>
      /\ Finish(c)
      /\ UNCHANGED <<completed, due, told, faults>>

\* replyToReview: the subject's, of a review that is visible and has no reply.
CheckRepliable(c) ==
  /\ call[c].pc = "sent" /\ call[c].op = "reply"
  /\ LET r == review[call[c].booking][Other(call[c].party)]
     IN  Answer(c, r.published /\ r.reply = None, "repliable")

\* insertReply: reply_at IS NULL makes it one-shot.
NoReplyYet(b, p) == review[b][p].reply = None

InsertReply(c) ==
  LET b == call[c].booking
      p == Other(call[c].party)
  IN  /\ call[c].pc = "repliable"
      /\ IF Visible(b, p) /\ NoReplyYet(b, p)
         THEN review' = [review EXCEPT ![b][p].reply = c] ELSE UNCHANGED review
      /\ Finish(c)
      /\ UNCHANGED <<completed, due, told, peeked, faults>>

-----------------------------------------------------------------------------
(* sweepBlindReviews, the last of the scheduler's sweeps. *)

\* findReviewsPastBlindPeriod, grouped by booking.
NeverPast == {}
PastBlindPeriod == {b \in Bookings : \E p \in Blind(b) : review[b][p].age = "past"}

SweepTick ==
  /\ due = None
  /\ due' = PastBlindPeriod
  /\ UNCHANGED <<completed, review, call, told, peeked, faults>>

\* The reviews are read, and those not published yet are the ones to tell of.
SweepRead(b) ==
  /\ due # None /\ b \in due
  /\ call[Sweeper].pc = "idle"
  /\ call' = [call EXCEPT ![Sweeper] = [Idle EXCEPT !.pc = "publishing", !.booking = b,
                                                    !.read = Blind(b)]]
  /\ due' = due \ {b}
  /\ UNCHANGED <<completed, review, told, peeked, faults>>

SweepEnds ==
  /\ due = {}
  /\ call[Sweeper].pc = "idle"
  /\ due' = None
  /\ UNCHANGED <<completed, review, call, told, peeked, faults>>

-----------------------------------------------------------------------------
(* The rental, the clock, and what can go wrong. *)

Complete(b) ==
  /\ b \notin completed
  /\ completed' = completed \cup {b}
  /\ UNCHANGED <<review, call, due, told, peeked, faults>>

\* The 48 hours of a review run out, and then its fourteen days.
Age(b, p) ==
  /\ Written(b, p)
  /\ review[b][p].age # "past"
  /\ review' = [review EXCEPT ![b][p].age = IF @ = "new" THEN "settled" ELSE "past"]
  /\ UNCHANGED <<completed, call, due, told, peeked, faults>>

\* A database call fails: the request is answered with an error, the sweep counts
\* the booking as failed.
CallFails(h) ==
  /\ faults < MaxFaults
  /\ call[h].pc \notin {"idle", "telling"}
  /\ Finish(h)
  /\ faults' = faults + 1
  /\ UNCHANGED <<completed, review, due, told, peeked>>

Crash ==
  /\ faults < MaxFaults
  /\ call' = [h \in Handlers |-> Idle]
  /\ due' = None
  /\ faults' = faults + 1
  /\ UNCHANGED <<completed, review, told, peeked>>

-----------------------------------------------------------------------------

Ops == {"write", "edit", "reply"}

Continue(h) ==
  \/ AssertReviewable(h) \/ InsertReview(h) \/ ReadBoth(h)
  \/ PublishReviews(h) \/ TellPublished(h)
  \/ CheckEditable(h) \/ UpdateReview(h)
  \/ CheckRepliable(h) \/ InsertReply(h)

Sweep == SweepTick \/ SweepEnds \/ \E b \in Bookings : SweepRead(b)

Next ==
  \/ \E c \in Calls, b \in Bookings, p \in Parties, op \in Ops : Send(c, b, p, op)
  \/ \E h \in Handlers : Continue(h) \/ CallFails(h)
  \/ Sweep
  \/ \E b \in Bookings : Complete(b) \/ \E p \in Parties : Age(b, p)
  \/ Crash

Spec == Init /\ [][Next]_vars

\* Started handlers run on, the timer fires and the clock runs; nobody has to write.
Fairness ==
  /\ \A h \in Handlers : WF_vars(Continue(h))
  /\ WF_vars(Sweep)
  /\ \A b \in Bookings, p \in Parties : WF_vars(Age(b, p))

FairSpec == Spec /\ Fairness

-----------------------------------------------------------------------------
(* Properties *)

\* The rows, the handlers and the sweep hold values of their kind, and a review
\* that is published, aged or replied to has been written.
TypeOK ==
  /\ completed \subseteq Bookings
  /\ review \in [Bookings -> [Parties ->
                    [text : Texts \cup {None}, published : BOOLEAN,
                     age : {"new", "settled", "past"}, reply : Calls \cup {None}]]]
  /\ \A b \in Bookings, p \in Parties :
        /\ review[b][p].text = None => review[b][p] = NoReview
        /\ Written(b, p) => b \in completed
  /\ call \in [Handlers -> [pc : {"idle", "sent", "asserted", "inserted", "publishing",
                                  "telling", "editable", "repliable"},
                            op : Ops \cup {None}, booking : Bookings \cup {None},
                            party : Parties \cup {None}, couldRead : BOOLEAN,
                            read : SUBSET Parties]]
  /\ due = None \/ due \subseteq Bookings
  /\ told \subseteq [booking : Bookings, party : Parties]
  /\ peeked \subseteq [booking : Bookings, party : Parties, op : {"write", "edit"}]
  /\ faults \in 0..MaxFaults

\* FR-805 as reviewService.js reads it: once you can see theirs, you can no longer
\* change yours in response.
EditedBlind == \A r \in peeked : r.op # "edit"

\* FR-805: what has been published is never reworded, by an edit that was checked
\* before the publication either, and it never disappears again.
PublishedIsFinal ==
  [][\A b \in Bookings, p \in Parties :
       Visible(b, p) => Visible(b, p)' /\ review'[b][p].text = review[b][p].text]_vars

\* FR-804, the two sides of the double blind: whatever raced, nobody's first text
\* was composed when the other party's review could already be read, and a review
\* whose fourteen days are not up is only published with, or after, the other's.
DoubleBlind ==
  /\ \A r \in peeked : r.op # "write"
  /\ \A b \in Bookings, p \in Parties :
       Visible(b, p) => review[b][p].age = "past" \/ Written(b, Other(p))

\* FR-987: who is told that reviews are visible can read the one about them.
ToldIsVisible == \A t \in told : Visible(t.booking, t.party)

\* FR-804: no review stays hidden for good, whatever the other party does.
EveryReviewIsPublished ==
  \A b \in Bookings, p \in Parties : Written(b, p) ~> Visible(b, p)

\* notificationService.js: the end of the blind period is told "by either trigger".
\* Nothing failed, every handler is done: the subject of each visible review knows.
EveryPublicationIsTold ==
  faults = 0 /\ (\A h \in Handlers : call[h].pc = "idle") =>
     \A b \in Bookings, p \in Parties :
        Visible(b, p) => [booking |-> b, party |-> p] \in told

-----------------------------------------------------------------------------
(* The two pages of each booking as its parties see them. *)

Texted == [b \in Bookings |-> [p \in Parties |-> review[b][p].text]]
Opened == [b \in Bookings |-> [p \in Parties |-> Visible(b, p)]]
Overdue == [b \in Bookings |-> [p \in Parties |-> review[b][p].age = "past"]]
Replies == [b \in Bookings |-> [p \in Parties |-> review[b][p].reply]]

Promise == INSTANCE BlindExchange WITH
             Answers <- Calls, Nothing <- None,
             text <- Texted, open <- Opened, overdue <- Overdue, answer <- Replies

\* FR-804, FR-805 and FR-808 as one promise (reviewService.js): seen from the pages, every step
\* of every handler, whatever raced or failed, words a sealed page, opens the pages of
\* a booking that may be opened, answers an open page once, or changes nothing.
KeepsThePromise == Promise!Spec
=============================================================================

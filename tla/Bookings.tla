------------------------------ MODULE Bookings ------------------------------
(***************************************************************************)
(* services/bookingService.js over the tables of migrations 006, 007 and   *)
(* 008: requesting a booking, acting on one, and the scheduler's two       *)
(* booking sweeps, run by concurrent handlers of the Node process.         *)
(*                                                                         *)
(* A handler is a sequence of awaits, and every await is a step of its     *)
(* own: other handlers run between the read of a row, the overlap query,   *)
(* the transaction and the notifications that follow it.  A transaction    *)
(* (the guarded UPDATE or the INSERT, with its event) is one step: row     *)
(* locks and the exclusion constraint make concurrent ones wait for each   *)
(* other, and withTransaction rolls a failed one back.                     *)
(*                                                                         *)
(* The immutable columns of a booking's row (listing, renter, period) are  *)
(* constant functions of its id; a period is the set of days it covers.    *)
(***************************************************************************)
EXTENDS BookingRules, Naturals, Sequences

CONSTANTS
  BookingIds,      \* the rows that may come to exist
  Listings,        \* the listings they are of
  Users,           \* owners and renters
  Days,            \* the days periods are made of
  ListingOf,       \* booking -> listing
  RenterOf,        \* booking -> user
  PeriodOf,        \* booking -> the days it covers
  OwnerOf,         \* listing -> user
  BlackoutPeriods, \* the periods an owner may black out
  Calls,           \* request handlers that may be in flight at once
  Sweeper,         \* the scheduler's handler
  System,          \* the null actor of a swept transition
  None,            \* no value
  MaxFaults        \* bound on crashes and failed database calls

ASSUME BookingsAssumption ==
  /\ ListingOf \in [BookingIds -> Listings]
  /\ RenterOf \in [BookingIds -> Users]
  /\ PeriodOf \in [BookingIds -> SUBSET Days]
  /\ OwnerOf \in [Listings -> Users]
  /\ BlackoutPeriods \subseteq SUBSET Days
  /\ Sweeper \notin Calls
  /\ System \notin Users
  /\ None \notin Users \cup BookingIds \cup {System}
  /\ MaxFaults \in Nat

VARIABLES
  status,     \* bookings.status, "NONE" before the row exists
  trail,      \* booking_events of each booking, in the order they were committed
  waited,     \* bookings that have sat in a stalling status past the 48 hours
  blackouts,  \* availability_blocks, as [listing, period]
  bookable,   \* listings PUBLISHED by an ACTIVE owner
  call,       \* what each handler is doing, and what it read
  sweep,      \* the running sweep: its phase, and the rows it read and still has to visit
  notices,    \* notifications inserted, as [booking, action, to]
  lines,      \* SYSTEM lines posted, as [booking, action]
  faults      \* crashes and failed database calls so far

tables == <<status, trail, waited>>
told == <<notices, lines>>
vars == <<tables, blackouts, bookable, call, sweep, told, faults>>

Handlers == Calls \cup {Sweeper}
Actors == Users \cup {System}
OwnerOfBooking(b) == OwnerOf[ListingOf[b]]

\* roleInBooking: the renter is looked for first.  The sweep has no actor.
RoleIn(b, u) ==
  IF u = System THEN "system"
  ELSE IF u = RenterOf[b] THEN "renter"
  ELSE IF u = OwnerOfBooking(b) THEN "owner" ELSE "none"

Holds(b) == status[b] \in DatesHeldStatuses

\* findOverlappingBooking: another booking of the listing holds some of b's days.
Clash(b) ==
  \E o \in BookingIds \ {b} :
     ListingOf[o] = ListingOf[b] /\ Holds(o) /\ Overlap(PeriodOf[o], PeriodOf[b])

\* findOverlappingBlackout
BlockedOut(b) ==
  \E k \in blackouts : k.listing = ListingOf[b] /\ Overlap(k.period, PeriodOf[b])

Idle == [pc |-> "idle", booking |-> None, actor |-> None, action |-> None, seen |-> None]

Goto(h, pc) == call' = [call EXCEPT ![h].pc = pc]
Finish(h) == call' = [call EXCEPT ![h] = Idle]

Init ==
  /\ status = [b \in BookingIds |-> "NONE"]
  /\ trail = [b \in BookingIds |-> <<>>]
  /\ waited = {}
  /\ blackouts = {}
  /\ bookable = Listings
  /\ call = [h \in Handlers |-> Idle]
  /\ sweep = [phase |-> "off", due |-> {}]
  /\ notices = {}
  /\ lines = {}
  /\ faults = 0

-----------------------------------------------------------------------------
(* requestBooking *)

\* The listing is read and the refusals that need no other row are made: hidden
\* listing, own listing.  The row will get an id no other request has.
RequestBooking(c, b) ==
  /\ call[c].pc = "idle"
  /\ status[b] = "NONE"
  /\ \A d \in Calls : call[d].booking # b
  /\ ListingOf[b] \in bookable
  /\ RenterOf[b] # OwnerOfBooking(b)
  /\ call' = [call EXCEPT ![c] = [pc |-> "asked", booking |-> b, actor |-> RenterOf[b],
                                  action |-> "REQUEST", seen |-> "NONE"]]
  /\ UNCHANGED <<tables, blackouts, bookable, sweep, told, faults>>

\* The overlap query, then the blackout query: a hit refuses the request.
CheckDates(c) ==
  /\ call[c].pc = "asked"
  /\ IF Clash(call[c].booking) THEN Finish(c) ELSE Goto(c, "datesChecked")
  /\ UNCHANGED <<tables, blackouts, bookable, sweep, told, faults>>

CheckBlackouts(c) ==
  /\ call[c].pc = "datesChecked"
  /\ IF BlockedOut(call[c].booking) THEN Finish(c) ELSE Goto(c, "cleared")
  /\ UNCHANGED <<tables, blackouts, bookable, sweep, told, faults>>

\* One transaction: the row, REQUESTED by default, and its opening event.
InsertBooking(c) ==
  LET b == call[c].booking
  IN  /\ call[c].pc = "cleared"
      /\ call[c].action = "REQUEST"
      /\ status' = [status EXCEPT ![b] = "REQUESTED"]
      /\ trail' = [trail EXCEPT ![b] =
                     Append(@, [from |-> "NONE", to |-> "REQUESTED", actor |-> call[c].actor])]
      /\ Goto(c, "committed")
      /\ UNCHANGED <<waited, blackouts, bookable, sweep, told, faults>>

-----------------------------------------------------------------------------
(* actOnBooking *)

\* The row is read and checkTransition asked; a refusal ends the call there.
\* Only an action that claims dates runs the overlap query next.
Load(h, b, u, a) ==
  /\ call[h].pc = "idle"
  /\ status[b] # "NONE"
  /\ CheckTransition(a, status[b], RoleIn(b, u))
  /\ call' = [call EXCEPT ![h] =
                [pc |-> IF BookingActions[a].claimsDates THEN "loaded" ELSE "cleared",
                 booking |-> b, actor |-> u, action |-> a, seen |-> status[b]]]

ActOnBooking(c, b, u, a) ==
  /\ u \in {RenterOf[b], OwnerOfBooking(b)}
  /\ Load(c, b, u, a)
  /\ UNCHANGED <<tables, blackouts, bookable, sweep, told, faults>>

\* The friendly overlap query before the transaction.
PreCheck(h) ==
  /\ call[h].pc = "loaded"
  /\ IF Clash(call[h].booking) THEN Finish(h) ELSE Goto(h, "cleared")
  /\ UNCHANGED <<tables, blackouts, bookable, sweep, told, faults>>

NoConstraint(b, to) == TRUE

\* bookings_no_double_booking: no two held bookings of a listing may overlap.
ExclusionHolds(b, to) == to \in DatesHeldStatuses => ~Clash(b)

AnyStatus(h) == TRUE

\* updateBookingStatus only matches a row still in the status that was read.
StillAsRead(h) == status[call[h].booking] = call[h].seen

\* updated_at := now() restarts the 48 hours.
ClockRestarted(b) == waited \ {b}

\* One transaction: the guarded UPDATE and the event that records it.
CommitTransition(h) ==
  LET b  == call[h].booking
      to == BookingActions[call[h].action].to
  IN  /\ call[h].pc = "cleared"
      /\ call[h].action # "REQUEST"
      /\ StillAsRead(h)
      /\ ExclusionHolds(b, to)
      /\ status' = [status EXCEPT ![b] = to]
      /\ trail' = [trail EXCEPT ![b] =
                     Append(@, [from |-> call[h].seen, to |-> to, actor |-> call[h].actor])]
      /\ waited' = ClockRestarted(b)
      /\ Goto(h, "committed")
      /\ UNCHANGED <<blackouts, bookable, sweep, told, faults>>

\* A refused transition that is announced all the same.
RefuseAndTell(h) ==
  /\ call[h].pc = "cleared"
  /\ call[h].action # "REQUEST"
  /\ ~StillAsRead(h)
  /\ Goto(h, "committed")
  /\ UNCHANGED <<tables, blackouts, bookable, sweep, told, faults>>

\* 409: the row has moved on, or the constraint refused it.  Rolled back.
RefuseTransition(h) ==
  /\ call[h].pc = "cleared"
  /\ call[h].action # "REQUEST"
  /\ \/ ~StillAsRead(h)
     \/ ~ExclusionHolds(call[h].booking, BookingActions[call[h].action].to)
  /\ Finish(h)
  /\ UNCHANGED <<tables, blackouts, bookable, sweep, told, faults>>

-----------------------------------------------------------------------------
(* What follows a commit: the notification, the thread line, the invitations.  *)
(* Each is written on its own; a write that fails is swallowed and logged.     *)

NotifiedParty(b, action) ==
  IF action = "REQUEST" \/ NotifiedRole[action] = "owner" THEN OwnerOfBooking(b)
  ELSE RenterOf[b]

\* Where a handler goes after its notification, and after its thread line.
AfterNotice(action) == IF action \in SystemLines THEN "line" ELSE "done"
AfterLine(action) == IF action = "COMPLETE" THEN "invite" ELSE "done"
Advance(h, next) == IF next = "done" THEN Finish(h) ELSE Goto(h, next)

\* notify swallows its own failure: the handler goes on without the row.
Written(rows, row) ==
  \/ rows' = rows \cup row /\ UNCHANGED faults
  \/ faults < MaxFaults /\ faults' = faults + 1 /\ UNCHANGED rows

\* notifyBookingRequested, notifyBookingTransition: never the actor.
Notify(h) ==
  LET b  == call[h].booking
      to == NotifiedParty(b, call[h].action)
  IN  /\ call[h].pc = "committed"
      /\ Written(notices, IF to = call[h].actor THEN {}
                          ELSE {[booking |-> b, action |-> call[h].action, to |-> to]})
      /\ Advance(h, AfterNotice(call[h].action))
      /\ UNCHANGED <<tables, blackouts, bookable, sweep, lines>>

PostSystemMessage(h) ==
  /\ call[h].pc = "line"
  /\ Written(lines, {[booking |-> call[h].booking, action |-> call[h].action]})
  /\ Advance(h, AfterLine(call[h].action))
  /\ UNCHANGED <<tables, blackouts, bookable, sweep, notices>>

\* The two parties are invited one after the other: the owner, then the renter.
NotifyReviewInvited(h) ==
  LET b == call[h].booking
      invite(p) == {[booking |-> b, action |-> "INVITE", to |-> p]}
  IN  /\ \/ /\ call[h].pc = "invite"
            /\ Written(notices, invite(OwnerOfBooking(b)))
            /\ Goto(h, "inviteRenter")
         \/ /\ call[h].pc = "inviteRenter"
            /\ Written(notices, invite(RenterOf[b]))
            /\ Finish(h)
      /\ UNCHANGED <<tables, blackouts, bookable, sweep, lines>>

-----------------------------------------------------------------------------
(* The scheduler: runSweeps takes the sweeps in sequence, each over the list  *)
(* it read when it began, and a tick that finds one running does nothing.     *)

StaleAtOnce(phase) == {b \in BookingIds : status[b] = SweptStatus[phase]}

\* findExpiredRequests and findAwaitingConfirmation: rows past the 48 hours.
Stale(phase) == {b \in BookingIds : status[b] = SweptStatus[phase] /\ b \in waited}

SweepTick ==
  /\ sweep.phase = "off"
  /\ sweep' = [phase |-> "requests", due |-> Stale("requests")]
  /\ UNCHANGED <<tables, blackouts, bookable, call, told, faults>>

\* Each listed booking is acted on as it is now, with no actor.
SweepVisit(b) ==
  /\ sweep.phase # "off"
  /\ b \in sweep.due
  /\ Load(Sweeper, b, System, SweptAction[sweep.phase])
  /\ sweep' = [sweep EXCEPT !.due = @ \ {b}]
  /\ UNCHANGED <<tables, blackouts, bookable, told, faults>>

\* A booking somebody moved a moment ago is counted as failed and passed over.
SweepPassOver(b) ==
  /\ sweep.phase # "off"
  /\ b \in sweep.due
  /\ call[Sweeper].pc = "idle"
  /\ ~CheckTransition(SweptAction[sweep.phase], status[b], "system")
  /\ sweep' = [sweep EXCEPT !.due = @ \ {b}]
  /\ UNCHANGED <<tables, blackouts, bookable, call, told, faults>>

SweepNext ==
  /\ sweep.phase # "off"
  /\ sweep.due = {}
  /\ call[Sweeper].pc = "idle"
  /\ LET next == NextPhase[sweep.phase]
     IN  sweep' = [phase |-> next, due |-> IF next = "off" THEN {} ELSE Stale(next)]
  /\ UNCHANGED <<tables, blackouts, bookable, call, told, faults>>

\* A list query fails.  Without the requests the confirmations are still swept;
\* without either list of confirmations sweepStalledConfirmations is over.
SweepQueryFails ==
  /\ faults < MaxFaults
  /\ sweep.phase # "returns"
  /\ sweep.due = {}
  /\ call[Sweeper].pc = "idle"
  /\ sweep' = IF sweep.phase = "off"
              THEN [phase |-> "receipts", due |-> Stale("receipts")]
              ELSE [phase |-> "off", due |-> {}]
  /\ faults' = faults + 1
  /\ UNCHANGED <<tables, blackouts, bookable, call, told>>

-----------------------------------------------------------------------------
(* The owner's calendar, the clock, and what can go wrong. *)

\* insertBlackout: the exclusion constraint of 007 and the trigger of 008.
AddBlackout(l, p) ==
  /\ \A k \in blackouts : k.listing = l => ~Overlap(k.period, p)
  /\ \A b \in BookingIds : ListingOf[b] = l /\ Holds(b) => ~Overlap(PeriodOf[b], p)
  /\ blackouts' = blackouts \cup {[listing |-> l, period |-> p]}
  /\ UNCHANGED <<tables, bookable, call, sweep, told, faults>>

RemoveBlackout(k) ==
  /\ k \in blackouts
  /\ blackouts' = blackouts \ {k}
  /\ UNCHANGED <<tables, bookable, call, sweep, told, faults>>

\* publishListing and unpublishListing, as far as a request can tell.
ChangeVisibility(l) ==
  /\ bookable' = IF l \in bookable THEN bookable \ {l} ELSE bookable \cup {l}
  /\ UNCHANGED <<tables, blackouts, call, sweep, told, faults>>

\* Forty-eight hours pass without an answer.
Wait(b) ==
  /\ status[b] \in StallingStatuses
  /\ b \notin waited
  /\ waited' = waited \cup {b}
  /\ UNCHANGED <<status, trail, blackouts, bookable, call, sweep, told, faults>>

\* A failure after the UPDATE that is not rolled back: the event is missing.
FailsHalfway(h) ==
  /\ faults < MaxFaults
  /\ call[h].pc = "cleared"
  /\ call[h].action # "REQUEST"
  /\ status' = [status EXCEPT ![call[h].booking] = BookingActions[call[h].action].to]
  /\ Finish(h)
  /\ faults' = faults + 1
  /\ UNCHANGED <<trail, waited, blackouts, bookable, sweep, told>>

\* A database call fails: before the commit the transaction is rolled back, and
\* an answer lost after it leaves the rows in place and the handler unaware.
CallFails(h) ==
  /\ faults < MaxFaults
  /\ call[h].pc \in {"asked", "datesChecked", "loaded", "cleared", "committed"}
  /\ Finish(h)
  /\ faults' = faults + 1
  /\ UNCHANGED <<tables, blackouts, bookable, sweep, told>>

\* The process dies and restarts: every handler and the running sweep are gone.
Crash ==
  /\ faults < MaxFaults
  /\ call' = [h \in Handlers |-> Idle]
  /\ sweep' = [phase |-> "off", due |-> {}]
  /\ faults' = faults + 1
  /\ UNCHANGED <<tables, blackouts, bookable, told>>

-----------------------------------------------------------------------------

Request(c) == CheckDates(c) \/ CheckBlackouts(c) \/ InsertBooking(c)

Transition(h) ==
  \/ PreCheck(h)
  \/ CommitTransition(h)
  \/ RefuseTransition(h)

Tell(h) == Notify(h) \/ PostSystemMessage(h) \/ NotifyReviewInvited(h)

Continue(h) == Request(h) \/ Transition(h) \/ Tell(h)

Sweep ==
  \/ SweepTick
  \/ \E b \in BookingIds : SweepVisit(b) \/ SweepPassOver(b)
  \/ SweepNext

Party ==
  \/ \E c \in Calls, b \in BookingIds : RequestBooking(c, b)
  \/ \E c \in Calls, b \in BookingIds, u \in Users, a \in ActionNames : ActOnBooking(c, b, u, a)

Calendar ==
  \/ \E l \in Listings, p \in BlackoutPeriods : AddBlackout(l, p)
  \/ \E k \in blackouts : RemoveBlackout(k)
  \/ \E l \in Listings : ChangeVisibility(l)

Next ==
  \/ Party
  \/ Calendar
  \/ \E h \in Handlers : Continue(h)
  \/ Sweep
  \/ \E b \in BookingIds : Wait(b)
  \/ \E h \in Handlers : CallFails(h)
  \/ SweepQueryFails
  \/ Crash

Spec == Init /\ [][Next]_vars

\* The clock runs, the interval timer fires and a started handler runs on; no
\* party ever has to act.
Fairness ==
  /\ \A b \in BookingIds : WF_vars(Wait(b))
  /\ WF_vars(Sweep)
  /\ \A h \in Handlers : WF_vars(Continue(h))

FairSpec == Spec /\ Fairness

-----------------------------------------------------------------------------
(* Properties *)

Pcs == {"idle", "asked", "datesChecked", "loaded", "cleared", "committed", "line", "invite",
        "inviteRenter"}

\* What a handler remembers: where it is, the booking, who acts, the action, and
\* the status it read.
CallRecords ==
  [pc : Pcs, booking : BookingIds \cup {None}, actor : Actors \cup {None},
   action : ActionNames \cup {"REQUEST", None}, seen : BookingStates \cup {"NONE", None}]

Events == [from : BookingStates \cup {"NONE"}, to : BookingStates, actor : Actors]
Notices == [booking : BookingIds, action : ActionNames \cup {"REQUEST", "INVITE"}, to : Users]

\* Every row and every handler holds values of its kind, and the 48 hours only
\* run on a booking that is waiting for an answer (updated_at restarts them).
TypeOK ==
  /\ status \in [BookingIds -> BookingStates \cup {"NONE"}]
  /\ trail \in [BookingIds -> Seq(Events)]
  /\ waited \subseteq {b \in BookingIds : status[b] \in StallingStatuses}
  /\ blackouts \subseteq [listing : Listings, period : BlackoutPeriods]
  /\ bookable \subseteq Listings
  /\ call \in [Handlers -> CallRecords]
  /\ sweep \in [phase : SweepPhases \cup {"off"}, due : SUBSET BookingIds]
  /\ notices \subseteq Notices
  /\ lines \subseteq [booking : BookingIds, action : SystemLines]
  /\ faults \in 0..MaxFaults

\* FR-202, FR-514: two bookings of one listing that both hold their dates never
\* share a day, whatever accepts, handovers and sweeps were in flight together.
NoDoubleBooking ==
  \A a, b \in BookingIds :
     a # b /\ ListingOf[a] = ListingOf[b] /\ Holds(a) /\ Holds(b)
       => ~Overlap(PeriodOf[a], PeriodOf[b])

\* FR-511: the trail has no hole.  It opens with the request, each event leaves
\* the status the one before it reached, and the last one reached the row's.
TrailIsUnbroken ==
  \A b \in BookingIds :
     /\ trail[b] = <<>> <=> status[b] = "NONE"
     /\ trail[b] # <<>> => trail[b][1].from = "NONE" /\ trail[b][Len(trail[b])].to = status[b]
     /\ \A i \in 1..Len(trail[b]) - 1 : trail[b][i].to = trail[b][i + 1].from

\* FR-506, FR-708: every recorded event is a move the state machine gives to the
\* party it names, so no status was reached by the wrong party's word.
EveryMoveWasAllowed ==
  \A b \in BookingIds : \A i \in 1..Len(trail[b]) :
     LET e == trail[b][i]
     IN  \/ e.from = "NONE" /\ e.to = "REQUESTED" /\ e.actor = RenterOf[b]
         \/ \E a \in ActionNames :
               /\ e.from \in BookingActions[a].from /\ e.to = BookingActions[a].to
               /\ RoleIn(b, e.actor) \in BookingActions[a].actors

\* How far a booking is along: every legal move goes up.
Rank ==
  [NONE |-> 0, REQUESTED |-> 1, ACCEPTED |-> 2, HANDED_OVER |-> 3, ACTIVE |-> 4,
   RETURNED |-> 5, COMPLETED |-> 6, DECLINED |-> 6, CANCELLED |-> 6, EXPIRED |-> 6]

\* A booking never goes back and never leaves a terminal status, however late a
\* handler that read an earlier status gets to its transaction.
OnlyForward ==
  [][\A b \in BookingIds : status'[b] # status[b] => Rank[status'[b]] > Rank[status[b]]]_vars

\* FR-508, FR-708: the system speaks for a silent party only when that party has
\* been silent, in the very status the move leaves, for the whole 48 hours: a
\* list read earlier in the sweep never cuts the time of a fresh wait short.
SystemOnlyAfterTheWait ==
  [][\A b \in BookingIds :
       status'[b] # status[b] /\ trail'[b][Len(trail'[b])].actor = System => b \in waited]_vars

\* Who is recorded to have taken an action: some event of the trail reached
\* its status.
Recorded(b, action) ==
  \E i \in 1..Len(trail[b]) :
     trail[b][i].to = IF action = "REQUEST" THEN "REQUESTED"
                      ELSE IF action = "INVITE" THEN "COMPLETED" ELSE BookingActions[action].to

\* What is told has happened: a notification or a thread line never describes a
\* transition the trail does not contain.
TellsOnlyTheTrail ==
  /\ \A n \in notices : Recorded(n.booking, n.action)
  /\ \A l \in lines : Recorded(l.booking, l.action)

\* FR-508, FR-708: nobody's silence keeps a booking waiting for good.
SilenceEnds ==
  \A b \in BookingIds : \A s \in StallingStatuses : status[b] = s ~> status[b] # s

\* bookingStateMachine.js: a renter who never answers must not leave the
\* booking holding its dates forever; the system's confirmation is there for it.
SilentRenterFreesTheDates ==
  \A b \in BookingIds : status[b] = "HANDED_OVER" ~>
     ~Holds(b) \/ trail[b][Len(trail[b])].actor = RenterOf[b]

\* messageService.js: the thread line of a confirmed receipt says the renter
\* confirmed it; the trail must then name the renter.
ThreadSaysWhoConfirmed ==
  \A l \in lines : l.action = "CONFIRM_RECEIPT" =>
     \E i \in 1..Len(trail[l.booking]) :
        trail[l.booking][i].to = "ACTIVE" /\ trail[l.booking][i].actor = RenterOf[l.booking]

\* FR-206: a blackout does not cover a booking the owner has committed to.
BlackoutsRespectBookings == \A b \in BookingIds : Holds(b) => ~BlockedOut(b)

\* Whose the item is, day by day: the abstract calendar read off the table.
HoldsDay(b, l, d) == ListingOf[b] = l /\ Holds(b) /\ d \in PeriodOf[b]

Holder ==
  [l \in Listings |-> [d \in Days |->
     IF \E b \in BookingIds : HoldsDay(b, l, d)
     THEN CHOOSE b \in BookingIds : HoldsDay(b, l, d) ELSE None]]

Promise == INSTANCE RentalCalendar WITH holder <- Holder, Free <- None

\* FR-201, FR-202: the transactions of all these handlers, seen from the
\* calendar, only ever take a whole free period or give a whole period back.
KeepsTheCalendar == Promise!Spec
=============================================================================

--------------------------- MODULE BookingsProofs ---------------------------
(***************************************************************************)
(* The safety properties of Bookings, for every set of bookings, listings, *)
(* people, days and handlers.                                              *)
(***************************************************************************)
EXTENDS BookingsInvariant, TLAPS

\* The state machine of bookingStateMachine.js: every action leaves statuses of
\* the machine for one of the machine, and every move goes up.
LEMMA RulesGoUp ==
  ASSUME NEW a \in ActionNames
  PROVE  /\ BookingActions[a].from \subseteq BookingStates
         /\ BookingActions[a].to \in BookingStates
         /\ BookingActions[a].actors \subseteq Roles
         /\ \A s \in BookingActions[a].from : Rank[BookingActions[a].to] > Rank[s]
<1>1. /\ BookingActions[a].from \subseteq BookingStates
      /\ BookingActions[a].to \in BookingStates
      /\ BookingActions[a].actors \subseteq Roles
  BY DEF ActionNames, BookingActions, BookingStates, Roles
<1>2. ASSUME NEW s \in BookingActions[a].from PROVE Rank[BookingActions[a].to] > Rank[s]
  BY DEF ActionNames, BookingActions, Rank
<1>. QED  BY <1>1, <1>2

\* The rank of a status is a number, and nothing is below a booking not made yet.
LEMMA RankIsNat ==
  /\ \A s \in BookingStates \cup {"NONE"} : Rank[s] \in Nat
  /\ \A s \in BookingStates : Rank[s] >= 1 /\ s # "NONE"
  /\ Rank["NONE"] = 0
  BY DEF BookingStates, Rank

\* The sweeps take actions of the machine, each from the status it looks for.
LEMMA SweepRules ==
  ASSUME NEW p \in SweepPhases
  PROVE  /\ SweptAction[p] \in ActionNames
         /\ SweptStatus[p] \in StallingStatuses
         /\ SweptStatus[p] \in BookingStates
         /\ BookingActions[SweptAction[p]].from = {SweptStatus[p]}
         /\ NextPhase[p] \in SweepPhases \cup {"off"}
  BY DEF SweepPhases, SweptAction, SweptStatus, NextPhase, ActionNames, StallingStatuses,
         BookingStates, BookingActions

\* What a handler that goes on keeps, and what it leaves to the others.
LEMMA GotoKeeps ==
  ASSUME TypeOK, NEW h \in Handlers, NEW q \in Pcs, Goto(h, q)
  PROVE  /\ call' \in [Handlers -> CallRecords]
         /\ call'[h].pc = q
         /\ call'[h].booking = call[h].booking
         /\ call'[h].actor = call[h].actor
         /\ call'[h].action = call[h].action
         /\ call'[h].seen = call[h].seen
         /\ \A g \in Handlers \ {h} : call'[g] = call[g]
  BY DEF TypeOK, Goto, CallRecords

\* A handler that is done remembers nothing.
LEMMA FinishForgets ==
  ASSUME TypeOK, NEW h \in Handlers, Finish(h)
  PROVE  /\ call' \in [Handlers -> CallRecords]
         /\ call'[h] = Idle
         /\ call'[h].pc = "idle"
         /\ \A g \in Handlers \ {h} : call'[g] = call[g]
  BY DEF TypeOK, Finish, CallRecords, Idle, Pcs

\* A handler that loads a booking remembers what it read of it.
LEMMA LoadReads ==
  ASSUME TypeOK, NEW h \in Handlers, NEW b \in BookingIds, NEW u \in Actors,
         NEW a \in ActionNames, Load(h, b, u, a)
  PROVE  /\ call' \in [Handlers -> CallRecords]
         /\ call'[h].pc \in {"loaded", "cleared"}
         /\ call'[h].booking = b
         /\ call'[h].actor = u
         /\ call'[h].action = a
         /\ call'[h].seen = status[b]
         /\ status[b] \in BookingStates
         /\ CheckTransition(a, status[b], RoleIn(b, u))
         /\ \A g \in Handlers \ {h} : call'[g] = call[g]
<1>1. status[b] \in BookingStates
  BY DEF TypeOK, Load
<1>. QED
  BY <1>1 DEF TypeOK, Load, CallRecords, Pcs

\* Every step keeps every variable in its type.
LEMMA TypeStep == IInv /\ [Next]_vars => TypeOK'
<1>. SUFFICES ASSUME IInv, [Next]_vars PROVE TypeOK'
  OBVIOUS
<1>. USE BookingsAssumption DEF IInv, tables, told
<1>1. ASSUME NEW c \in Calls, NEW b \in BookingIds, RequestBooking(c, b) PROVE TypeOK'
  <2>1. call' \in [Handlers -> CallRecords]
    BY <1>1 DEF RequestBooking, TypeOK, CallRecords, Pcs, Handlers, Actors
  <2>. QED
    BY <1>1, <2>1 DEF RequestBooking, TypeOK
<1>2. ASSUME NEW h \in Handlers, CheckDates(h) \/ CheckBlackouts(h) \/ PreCheck(h) PROVE TypeOK'
  <2>1. Finish(h) \/ Goto(h, "datesChecked") \/ Goto(h, "cleared")
    BY <1>2 DEF CheckDates, CheckBlackouts, PreCheck
  <2>2. call' \in [Handlers -> CallRecords]
    BY <2>1, FinishForgets, GotoKeeps DEF Pcs
  <2>. QED
    BY <1>2, <2>2 DEF CheckDates, CheckBlackouts, PreCheck, TypeOK
<1>3. ASSUME NEW h \in Handlers, InsertBooking(h) PROVE TypeOK'
  <2>1. /\ call' \in [Handlers -> CallRecords]
        /\ call[h].booking \in BookingIds
        /\ call[h].actor \in Actors
    BY <1>3, GotoKeeps DEF InsertBooking, CallShape, WellShaped, Pcs
  <2>2. /\ status' \in [BookingIds -> BookingStates \cup {"NONE"}]
        /\ waited' \subseteq {b \in BookingIds : status'[b] \in StallingStatuses}
    BY <1>3, <2>1 DEF InsertBooking, TypeOK, BookingStates, StallingStatuses
  <2>3. [from |-> "NONE", to |-> "REQUESTED", actor |-> call[h].actor] \in Events
    BY <2>1 DEF Events, BookingStates
  <2>4. trail' \in [BookingIds -> Seq(Events)]
    BY <1>3, <2>1, <2>3 DEF InsertBooking, TypeOK
  <2>. QED
    BY <1>3, <2>1, <2>2, <2>4 DEF InsertBooking, TypeOK
<1>4. ASSUME NEW c \in Calls, NEW b \in BookingIds, NEW u \in Users, NEW a \in ActionNames,
             ActOnBooking(c, b, u, a)
      PROVE  TypeOK'
  BY <1>4, LoadReads DEF ActOnBooking, TypeOK, Handlers, Actors
<1>5. ASSUME NEW h \in Handlers, CommitTransition(h) PROVE TypeOK'
  <2>. DEFINE to == BookingActions[call[h].action].to
  <2>1. /\ call' \in [Handlers -> CallRecords]
        /\ call[h].booking \in BookingIds
        /\ call[h].actor \in Actors
        /\ call[h].action \in ActionNames
        /\ call[h].seen \in BookingStates \cup {"NONE"}
    BY <1>5, GotoKeeps DEF CommitTransition, CallShape, WellShaped, Pcs
  <2>2. to \in BookingStates
    BY <2>1, RulesGoUp
  <2>3. [from |-> call[h].seen, to |-> to, actor |-> call[h].actor] \in Events
    BY <2>1, <2>2 DEF Events
  <2>4. /\ status' \in [BookingIds -> BookingStates \cup {"NONE"}]
        /\ waited' \subseteq {b \in BookingIds : status'[b] \in StallingStatuses}
    BY <1>5, <2>1, <2>2 DEF CommitTransition, ClockRestarted, TypeOK
  <2>5. trail' \in [BookingIds -> Seq(Events)]
    BY <1>5, <2>1, <2>3 DEF CommitTransition, TypeOK
  <2>. QED
    BY <1>5, <2>1, <2>4, <2>5 DEF CommitTransition, TypeOK
<1>6. ASSUME NEW h \in Handlers, RefuseTransition(h) PROVE TypeOK'
  BY <1>6, FinishForgets DEF RefuseTransition, TypeOK
<1>7. ASSUME NEW h \in Handlers, Notify(h) \/ PostSystemMessage(h) \/ NotifyReviewInvited(h)
      PROVE  TypeOK'
  <2>1. Finish(h) \/ Goto(h, "line") \/ Goto(h, "invite") \/ Goto(h, "inviteRenter")
    BY <1>7 DEF Notify, PostSystemMessage, NotifyReviewInvited, Advance, AfterNotice, AfterLine
  <2>2. call' \in [Handlers -> CallRecords]
    BY <2>1, FinishForgets, GotoKeeps DEF Pcs
  <2>3. /\ call[h].booking \in BookingIds
        /\ OwnerOfBooking(call[h].booking) \in Users
        /\ RenterOf[call[h].booking] \in Users
    BY <1>7 DEF Notify, PostSystemMessage, NotifyReviewInvited, CallShape, WellShaped, OwnerOfBooking
  <2>4. faults' \in 0..MaxFaults
    BY <1>7 DEF Notify, PostSystemMessage, NotifyReviewInvited, Written, TypeOK
  <2>5. notices' \subseteq Notices
    <3>1. CASE Notify(h)
      BY <1>7, <2>3, <3>1 DEF Notify, NotifiedParty, Written, TypeOK, CallShape, WellShaped, Notices
    <3>2. CASE PostSystemMessage(h)
      BY <3>2 DEF PostSystemMessage, TypeOK
    <3>3. CASE NotifyReviewInvited(h)
      BY <2>3, <3>3 DEF NotifyReviewInvited, Written, TypeOK, Notices
    <3>. QED
      BY <1>7, <3>1, <3>2, <3>3
  <2>6. lines' \subseteq [booking : BookingIds, action : SystemLines]
    BY <1>7, <2>3 DEF Notify, PostSystemMessage, NotifyReviewInvited, Written, TypeOK, CallShape, WellShaped
  <2>. QED
    BY <1>7, <2>2, <2>4, <2>5, <2>6 DEF Notify, PostSystemMessage, NotifyReviewInvited, TypeOK
<1>8. ASSUME SweepTick \/ SweepNext \/ SweepQueryFails PROVE TypeOK'
  <2>1. sweep' \in [phase : SweepPhases \cup {"off"}, due : SUBSET BookingIds]
    BY <1>8, SweepRules DEF SweepTick, SweepNext, SweepQueryFails, Stale, SweepPhases, TypeOK
  <2>. QED
    BY <1>8, <2>1 DEF SweepTick, SweepNext, SweepQueryFails, TypeOK
<1>9. ASSUME NEW b \in BookingIds, SweepVisit(b) PROVE TypeOK'
  <2>1. SweptAction[sweep.phase] \in ActionNames
    BY <1>9, SweepRules DEF SweepVisit, TypeOK
  <2>2. call' \in [Handlers -> CallRecords]
    BY <1>9, <2>1, LoadReads DEF SweepVisit, Handlers, Actors
  <2>. QED
    BY <1>9, <2>2 DEF SweepVisit, TypeOK
<1>10. ASSUME NEW b \in BookingIds, SweepPassOver(b) PROVE TypeOK'
  BY <1>10 DEF SweepPassOver, TypeOK
<1>11. ASSUME NEW l \in Listings, NEW p \in BlackoutPeriods, AddBlackout(l, p) PROVE TypeOK'
  BY <1>11 DEF AddBlackout, TypeOK
<1>12. ASSUME NEW k \in blackouts, RemoveBlackout(k) PROVE TypeOK'
  BY <1>12 DEF RemoveBlackout, TypeOK
<1>13. ASSUME NEW l \in Listings, ChangeVisibility(l) PROVE TypeOK'
  BY <1>13 DEF ChangeVisibility, TypeOK
<1>14. ASSUME NEW b \in BookingIds, Wait(b) PROVE TypeOK'
  BY <1>14 DEF Wait, TypeOK
<1>15. ASSUME NEW h \in Handlers, CallFails(h) PROVE TypeOK'
  BY <1>15, FinishForgets DEF CallFails, TypeOK
<1>16. ASSUME Crash PROVE TypeOK'
  <2>1. Idle \in CallRecords
    BY DEF Idle, CallRecords, Pcs
  <2>. QED
    BY <1>16, <2>1 DEF Crash, TypeOK, SweepPhases
<1>17. ASSUME UNCHANGED vars PROVE TypeOK'
  BY <1>17 DEF vars, TypeOK
<1>. QED
  BY <1>1, <1>2, <1>3, <1>4, <1>5, <1>6, <1>7, <1>8, <1>9, <1>10, <1>11, <1>12, <1>13, <1>14,
     <1>15, <1>16, <1>17
  DEF Next, Party, Calendar, Continue, Request, Transition, Tell, Sweep

-----------------------------------------------------------------------------
(* What the two transactions do. *)

\* A committed request makes its own row, which was not there.
LEMMA InsertMakesRow ==
  ASSUME IInv, NEW h \in Handlers, InsertBooking(h)
  PROVE  LET b == call[h].booking
         IN  /\ b \in BookingIds
             /\ call[h].actor = RenterOf[b] /\ call[h].actor # System
             /\ status[b] = "NONE"
             /\ status' = [status EXCEPT ![b] = "REQUESTED"]
             /\ trail' = [trail EXCEPT ![b] =
                  Append(@, [from |-> "NONE", to |-> "REQUESTED", actor |-> call[h].actor])]
             /\ waited' = waited
  BY BookingsAssumption DEF InsertBooking, IInv, CallShape, WellShaped, RequestsOwnTheirRow, Requesting

\* A committed transition moves the booking up, by a move its actor was allowed.
LEMMA CommitMovesUp ==
  ASSUME IInv, NEW h \in Handlers, CommitTransition(h)
  PROVE  LET b  == call[h].booking
             a  == call[h].action
             to == BookingActions[a].to
         IN  /\ b \in BookingIds /\ a \in ActionNames /\ call[h].actor \in Actors
             /\ status[b] = call[h].seen
             /\ CheckTransition(a, status[b], RoleIn(b, call[h].actor))
             /\ to \in BookingStates /\ status[b] \in BookingStates
             /\ Rank[to] > Rank[status[b]] /\ to # status[b]
             /\ call[h].actor = System => b \in waited
             /\ ExclusionHolds(b, to)
             /\ status' = [status EXCEPT ![b] = to]
             /\ trail' = [trail EXCEPT ![b] =
                  Append(@, [from |-> status[b], to |-> to, actor |-> call[h].actor])]
             /\ waited' = waited \ {b}
<1>. DEFINE b  == call[h].booking
            a  == call[h].action
            to == BookingActions[a].to
<1>1. /\ b \in BookingIds /\ a \in ActionNames /\ call[h].actor \in Actors
      /\ Acting(h)
  BY DEF CommitTransition, IInv, CallShape, WellShaped, Acting
<1>2. /\ status[b] = call[h].seen
      /\ ExclusionHolds(b, to)
      /\ status' = [status EXCEPT ![b] = to]
      /\ trail' = [trail EXCEPT ![b] =
           Append(@, [from |-> call[h].seen, to |-> to, actor |-> call[h].actor])]
      /\ waited' = waited \ {b}
  BY DEF CommitTransition, StillAsRead, ClockRestarted
<1>3. CheckTransition(a, call[h].seen, RoleIn(b, call[h].actor))
  BY <1>1 DEF IInv, ActsWereLegal
<1>4. call[h].seen \in BookingActions[a].from
  BY <1>3 DEF CheckTransition
<1>5. /\ to \in BookingStates /\ call[h].seen \in BookingStates
      /\ Rank[to] > Rank[call[h].seen]
  BY <1>1, <1>4, RulesGoUp
<1>6. to # call[h].seen
  BY <1>5, RankIsNat
<1>7. call[h].actor = System => b \in waited
  BY <1>1, <1>2 DEF IInv, SweeperHasWaited
<1>. QED
  BY <1>1, <1>2, <1>3, <1>5, <1>6, <1>7

\* Nothing else touches a booking's row or its trail; only the clock, its wait.
LEMMA OnlyTransactionsMove ==
  ASSUME [Next]_vars
  PROVE  \/ UNCHANGED <<status, trail, waited>>
         \/ \E b \in BookingIds : Wait(b)
         \/ \E h \in Handlers : InsertBooking(h)
         \/ \E h \in Handlers : CommitTransition(h)
  BY DEF Next, vars, tables, told, Party, RequestBooking, ActOnBooking, Calendar, AddBlackout,
     RemoveBlackout, ChangeVisibility, Continue, Request, CheckDates, CheckBlackouts, Transition,
     PreCheck, RefuseTransition, Tell, Notify, PostSystemMessage, NotifyReviewInvited, Sweep,
     SweepTick, SweepVisit, SweepPassOver, SweepNext, CallFails, SweepQueryFails, Crash

\* A step that changes a booking's status moves it up, and restarts its wait.
LEMMA MovesGoUp ==
  ASSUME IInv, [Next]_vars, NEW b \in BookingIds, status'[b] # status[b]
  PROVE  Rank[status'[b]] > Rank[status[b]]
<1>1. CASE UNCHANGED <<status, trail, waited>>
  BY <1>1
<1>2. ASSUME NEW c \in BookingIds, Wait(c) PROVE FALSE
  BY <1>2 DEF Wait
<1>3. ASSUME NEW h \in Handlers, InsertBooking(h) PROVE Rank[status'[b]] > Rank[status[b]]
  <2>1. /\ status' = [status EXCEPT ![call[h].booking] = "REQUESTED"]
        /\ status[call[h].booking] = "NONE"
    BY <1>3, InsertMakesRow
  <2>2. status'[b] = "REQUESTED" /\ status[b] = "NONE"
    BY <2>1 DEF IInv, TypeOK
  <2>. QED
    BY <2>2 DEF Rank
<1>4. ASSUME NEW h \in Handlers, CommitTransition(h) PROVE Rank[status'[b]] > Rank[status[b]]
  BY <1>4, CommitMovesUp DEF IInv, TypeOK
<1>. QED
  BY <1>1, <1>2, <1>3, <1>4, OnlyTransactionsMove

\* The trail only grows: what has been recorded stays recorded.
LEMMA RecordedStays ==
  ASSUME IInv, [Next]_vars, NEW b \in BookingIds, NEW a, Recorded(b, a)
  PROVE  Recorded(b, a)'
<1>1. trail[b] \in Seq(Events)
  BY DEF IInv, TypeOK
<1>2. trail'[b] = trail[b] \/ \E e : trail'[b] = Append(trail[b], e)
  <2>1. CASE UNCHANGED trail
    BY <2>1
  <2>2. ASSUME NEW h \in Handlers, InsertBooking(h) PROVE \E e : trail'[b] = Append(trail[b], e) \/ trail'[b] = trail[b]
    BY <2>2 DEF InsertBooking, IInv, TypeOK
  <2>3. ASSUME NEW h \in Handlers, CommitTransition(h) PROVE \E e : trail'[b] = Append(trail[b], e) \/ trail'[b] = trail[b]
    BY <2>3 DEF CommitTransition, IInv, TypeOK
  <2>. QED
    BY <2>1, <2>2, <2>3, OnlyTransactionsMove DEF Wait
<1>3. /\ Len(trail[b]) \in Nat
      /\ \A i \in 1..Len(trail[b]) : i \in 1..Len(trail'[b]) /\ trail'[b][i] = trail[b][i]
  <2>1. CASE trail'[b] = trail[b]
    BY <1>1, <2>1
  <2>2. ASSUME NEW e, trail'[b] = Append(trail[b], e)
        PROVE  \A i \in 1..Len(trail[b]) : i \in 1..Len(trail'[b]) /\ trail'[b][i] = trail[b][i]
    BY <1>1, <2>2
  <2>. QED
    BY <1>1, <1>2, <2>1, <2>2
<1>. QED
  BY <1>3 DEF Recorded

\* A committed transaction is recorded.
LEMMA CommitIsRecorded ==
  ASSUME IInv, NEW h \in Handlers, InsertBooking(h) \/ CommitTransition(h),
         NEW b, NEW a, b = call[h].booking, a = call[h].action
  PROVE  Recorded(b, a)'
<1>1. ASSUME NEW e \in Events, trail' = [trail EXCEPT ![b] = Append(@, e)], b \in BookingIds
      PROVE  Len(trail'[b]) \in 1..Len(trail'[b]) /\ trail'[b][Len(trail'[b])] = e
  BY <1>1 DEF IInv, TypeOK
<1>2. CASE InsertBooking(h)
  <2>. DEFINE e == [from |-> "NONE", to |-> "REQUESTED", actor |-> call[h].actor]
  <2>1. /\ b \in BookingIds /\ trail' = [trail EXCEPT ![b] = Append(@, e)]
        /\ call[h].actor \in Actors /\ a = "REQUEST"
    BY <1>2, InsertMakesRow DEF InsertBooking, IInv, CallShape, WellShaped
  <2>2. e \in Events
    BY <2>1 DEF Events, BookingStates
  <2>3. Len(trail'[b]) \in 1..Len(trail'[b]) /\ trail'[b][Len(trail'[b])] = e
    BY <1>1, <2>1, <2>2
  <2>. QED
    BY <2>1, <2>3 DEF Recorded
<1>3. CASE CommitTransition(h)
  <2>. DEFINE e == [from |-> status[b], to |-> BookingActions[a].to, actor |-> call[h].actor]
  <2>1. /\ b \in BookingIds /\ trail' = [trail EXCEPT ![b] = Append(@, e)]
        /\ a \in ActionNames /\ e \in Events
    BY <1>3, CommitMovesUp DEF Events
  <2>2. Len(trail'[b]) \in 1..Len(trail'[b]) /\ trail'[b][Len(trail'[b])] = e
    BY <1>1, <2>1
  <2>3. a # "REQUEST" /\ a # "INVITE"
    BY <2>1 DEF ActionNames
  <2>. QED
    BY <2>1, <2>2, <2>3 DEF Recorded
<1>. QED
  BY <1>2, <1>3

-----------------------------------------------------------------------------
(* What a step does to the handlers.  Every conjunct of IInv that speaks of   *)
(* handlers speaks of one at a time, so it is enough to look at the one that  *)
(* moved, and at what the others see.                                         *)

\* What a step can do to one handler.
LEMMA HandlerSteps ==
  ASSUME IInv, [Next]_vars, NEW g \in Handlers
  PROVE  \/ call'[g] = call[g]
         \/ call'[g] = Idle
         \/ \E b \in BookingIds : g \in Calls /\ RequestBooking(g, b)
         \/ \E b \in BookingIds, u \in Users, a \in ActionNames :
               g \in Calls /\ ActOnBooking(g, b, u, a)
         \/ g = Sweeper /\ \E b \in BookingIds : SweepVisit(b)
         \/ InsertBooking(g)
         \/ CommitTransition(g)
         \/ /\ UNCHANGED <<status, trail, waited>>
            /\ \/ Goto(g, "datesChecked") /\ call[g].pc = "asked"
               \/ Goto(g, "cleared") /\ call[g].pc \in {"datesChecked", "loaded"}
               \/ Goto(g, "line") /\ call[g].action \in SystemLines /\ call[g].pc = "committed"
               \/ Goto(g, "invite") /\ call[g].action = "COMPLETE" /\ call[g].pc = "line"
               \/ Goto(g, "inviteRenter") /\ call[g].action = "COMPLETE" /\ call[g].pc = "invite"
<1>. USE DEF tables, told
<1>1. TypeOK
  BY DEF IInv
<1>2. ASSUME NEW c \in Calls, NEW b \in BookingIds, RequestBooking(c, b)
      PROVE  call'[g] = call[g] \/ g = c
  BY <1>1, <1>2 DEF RequestBooking, TypeOK
<1>3. ASSUME NEW h \in Handlers, Finish(h) PROVE call'[g] = call[g] \/ call'[g] = Idle
  BY <1>1, <1>3, FinishForgets
<1>4. ASSUME NEW h \in Handlers, NEW q \in Pcs, Goto(h, q) PROVE call'[g] = call[g] \/ g = h
  BY <1>1, <1>4, GotoKeeps
<1>5. ASSUME NEW h \in Handlers, NEW b \in BookingIds, NEW u \in Actors, NEW a \in ActionNames,
             Load(h, b, u, a)
      PROVE  call'[g] = call[g] \/ g = h
  BY <1>1, <1>5, LoadReads
<1>. DEFINE Still == call'[g] = call[g] \/ call'[g] = Idle
            Went  == /\ UNCHANGED <<status, trail, waited>>
                     /\ \/ Goto(g, "datesChecked") /\ call[g].pc = "asked"
                        \/ Goto(g, "cleared") /\ call[g].pc \in {"datesChecked", "loaded"}
                        \/ Goto(g, "line") /\ call[g].action \in SystemLines /\ call[g].pc = "committed"
                        \/ Goto(g, "invite") /\ call[g].action = "COMPLETE" /\ call[g].pc = "line"
                        \/ Goto(g, "inviteRenter") /\ call[g].action = "COMPLETE" /\ call[g].pc = "invite"
<1>6. CASE Party
  <2>1. ASSUME NEW c \in Calls, NEW b \in BookingIds, NEW u \in Users, NEW a \in ActionNames,
               ActOnBooking(c, b, u, a)
        PROVE  call'[g] = call[g] \/ g = c
    BY <1>5, <2>1 DEF ActOnBooking, Handlers, Actors
  <2>. QED
    BY <1>2, <1>6, <2>1 DEF Party
<1>7. CASE Calendar
  BY <1>7 DEF Calendar, AddBlackout, RemoveBlackout, ChangeVisibility
<1>8. ASSUME NEW h \in Handlers, Continue(h)
      PROVE  Still \/ Went \/ InsertBooking(g) \/ CommitTransition(g)
  <2>1. CASE CheckDates(h) \/ CheckBlackouts(h) \/ PreCheck(h)
    BY <1>3, <1>4, <2>1 DEF CheckDates, CheckBlackouts, PreCheck, Pcs
  <2>2. CASE InsertBooking(h) \/ CommitTransition(h)
    BY <1>4, <2>2 DEF InsertBooking, CommitTransition, Pcs
  <2>3. CASE RefuseTransition(h)
    BY <1>3, <2>3 DEF RefuseTransition
  <2>4. CASE Notify(h)
    BY <1>3, <1>4, <2>4 DEF Notify, Advance, AfterNotice, Pcs
  <2>5. CASE PostSystemMessage(h)
    BY <1>3, <1>4, <2>5 DEF PostSystemMessage, Advance, AfterLine, Pcs
  <2>6. CASE NotifyReviewInvited(h)
    BY <1>1, <1>3, <1>4, <2>6 DEF NotifyReviewInvited, CallShape, WellShaped, IInv, Pcs
  <2>. QED
    BY <1>8, <2>1, <2>2, <2>3, <2>4, <2>5, <2>6 DEF Continue, Request, Transition, Tell
<1>9. CASE Sweep
  <2>1. ASSUME NEW b \in BookingIds, SweepVisit(b) PROVE call'[g] = call[g] \/ g = Sweeper
    <3>1. SweptAction[sweep.phase] \in ActionNames
      BY <1>1, <2>1, SweepRules DEF SweepVisit, TypeOK
    <3>. QED
      BY <1>5, <2>1, <3>1 DEF SweepVisit, Handlers, Actors
  <2>. QED
    BY <1>9, <2>1 DEF Sweep, SweepTick, SweepPassOver, SweepNext
<1>10. ASSUME NEW b \in BookingIds, Wait(b) PROVE call'[g] = call[g]
  BY <1>10 DEF Wait
<1>11. ASSUME NEW h \in Handlers, CallFails(h) PROVE Still
  BY <1>3, <1>11 DEF CallFails
<1>12. CASE SweepQueryFails \/ Crash \/ UNCHANGED vars
  BY <1>12 DEF SweepQueryFails, Crash, vars
<1>. QED
  BY <1>6, <1>7, <1>8, <1>9, <1>10, <1>11, <1>12 DEF Next

-----------------------------------------------------------------------------
(* The inductive invariant is kept. *)

\* Every handler in flight has read a booking it knows the action for.
LEMMA CallShapeStep == IInv /\ [Next]_vars => CallShape'
<1>. SUFFICES ASSUME IInv, [Next]_vars, NEW g \in Handlers PROVE WellShaped(call'[g])
  BY DEF CallShape, WellShaped
<1>. USE DEF IInv
<1>1. CASE call'[g] = call[g]
  BY <1>1 DEF CallShape
<1>2. CASE call'[g] = Idle
  BY <1>2 DEF WellShaped, Idle
<1>3. ASSUME NEW b \in BookingIds, g \in Calls, RequestBooking(g, b) PROVE WellShaped(call'[g])
  <2>1. call'[g] = [pc |-> "asked", booking |-> b, actor |-> RenterOf[b],
                    action |-> "REQUEST", seen |-> "NONE"]
    BY <1>3 DEF RequestBooking, TypeOK
  <2>. QED
    BY <2>1, BookingsAssumption DEF WellShaped, Actors
<1>4. ASSUME NEW b \in BookingIds, NEW u \in Actors, NEW a \in ActionNames, Load(g, b, u, a)
      PROVE  WellShaped(call'[g])
  BY <1>4, LoadReads DEF WellShaped, ActionNames
<1>5. ASSUME NEW b \in BookingIds, g = Sweeper, SweepVisit(b) PROVE WellShaped(call'[g])
  <2>1. SweptAction[sweep.phase] \in ActionNames /\ System \in Actors
    BY <1>5, SweepRules DEF SweepVisit, TypeOK, Actors
  <2>. QED
    BY <1>4, <1>5, <2>1 DEF SweepVisit
<1>6. ASSUME NEW q \in Pcs \ {"idle"}, Goto(g, q), call[g].pc # "idle",
             q = "datesChecked" => call[g].action = "REQUEST",
             q \notin {"asked", "loaded"},
             q = "line" => call[g].action \in SystemLines,
             q \in {"invite", "inviteRenter"} => call[g].action = "COMPLETE"
      PROVE  WellShaped(call'[g])
  BY <1>6, GotoKeeps DEF CallShape, WellShaped
<1>7. CASE InsertBooking(g) \/ CommitTransition(g)
  BY <1>6, <1>7 DEF InsertBooking, CommitTransition, Pcs
<1>8. CASE Goto(g, "datesChecked") /\ call[g].pc = "asked"
  BY <1>6, <1>8 DEF CallShape, WellShaped, Pcs
<1>9. CASE \/ Goto(g, "cleared") /\ call[g].pc \in {"datesChecked", "loaded"}
           \/ Goto(g, "line") /\ call[g].action \in SystemLines /\ call[g].pc = "committed"
           \/ Goto(g, "invite") /\ call[g].action = "COMPLETE" /\ call[g].pc = "line"
           \/ Goto(g, "inviteRenter") /\ call[g].action = "COMPLETE" /\ call[g].pc = "invite"
  BY <1>6, <1>9 DEF Pcs
<1>10. ASSUME NEW b \in BookingIds, NEW u \in Users, NEW a \in ActionNames,
              ActOnBooking(g, b, u, a)
       PROVE  WellShaped(call'[g])
  BY <1>4, <1>10 DEF ActOnBooking, Actors
<1>. QED
  BY <1>1, <1>2, <1>3, <1>5, <1>7, <1>8, <1>9, <1>10, HandlerSteps

\* A request in flight was in flight before, for the same row, or begins here.
LEMMA RequestsPersist ==
  ASSUME IInv, [Next]_vars, NEW g \in Handlers, Requesting(g)'
  PROVE  \/ /\ Requesting(g) /\ call'[g].pc # "committed"
            /\ call'[g].booking = call[g].booking /\ call'[g].actor = call[g].actor
         \/ g \in Calls /\ \E b \in BookingIds : RequestBooking(g, b)
<1>. USE DEF IInv
<1>1. call'[g].pc \in {"asked", "datesChecked", "cleared"} /\ call'[g].action = "REQUEST"
  BY DEF Requesting
<1>2. CASE call'[g] = call[g]
  BY <1>1, <1>2 DEF Requesting
<1>3. CASE call'[g] = Idle
  BY <1>1, <1>3 DEF Idle
<1>4. ASSUME NEW b \in BookingIds, NEW u \in Actors, NEW a \in ActionNames, Load(g, b, u, a)
      PROVE  FALSE
  BY <1>1, <1>4, LoadReads DEF ActionNames
<1>5. ASSUME NEW b \in BookingIds, g = Sweeper, SweepVisit(b) PROVE FALSE
  <2>1. SweptAction[sweep.phase] \in ActionNames /\ System \in Actors
    BY <1>5, SweepRules DEF SweepVisit, TypeOK, Actors
  <2>. QED
    BY <1>4, <1>5, <2>1 DEF SweepVisit
<1>6. ASSUME NEW b \in BookingIds, NEW u \in Users, NEW a \in ActionNames, ActOnBooking(g, b, u, a)
      PROVE  FALSE
  BY <1>4, <1>6 DEF ActOnBooking, Actors
<1>7. ~(InsertBooking(g) \/ CommitTransition(g))
  BY <1>1, GotoKeeps DEF InsertBooking, CommitTransition, Pcs
<1>8. ASSUME NEW q \in {"datesChecked", "cleared"}, Goto(g, q),
             call[g].pc \in {"asked", "datesChecked", "loaded"}
      PROVE  /\ Requesting(g) /\ call'[g].pc # "committed"
             /\ call'[g].booking = call[g].booking /\ call'[g].actor = call[g].actor
  BY <1>1, <1>8, GotoKeeps DEF CallShape, WellShaped, Requesting, Pcs
<1>9. ~Goto(g, "line") /\ ~Goto(g, "invite") /\ ~Goto(g, "inviteRenter")
  BY <1>1, GotoKeeps DEF Pcs
<1>. QED
  BY <1>2, <1>3, <1>5, <1>6, <1>7, <1>8, <1>9, HandlerSteps

\* No two requests in flight are for the same row, and none is for a row that is there.
LEMMA RequestsStep == IInv /\ [Next]_vars => RequestsOwnTheirRow'
<1>. SUFFICES ASSUME IInv, [Next]_vars PROVE RequestsOwnTheirRow'
  OBVIOUS
<1>. USE DEF IInv
<1>1. ASSUME NEW b \in BookingIds, NEW g \in Calls, RequestBooking(g, b)
      PROVE  /\ call'[g].booking = b /\ call'[g].actor = RenterOf[b]
             /\ status'[b] = "NONE" /\ call[g].pc = "idle" /\ call'[g].pc = "asked"
             /\ \A d \in Calls : call[d].booking # b
             /\ \A d \in Handlers \ {g} : call'[d] = call[d]
  BY <1>1 DEF RequestBooking, TypeOK, Handlers, tables
<1>2. ASSUME NEW g \in Handlers, Requesting(g), call'[g].pc # "committed"
      PROVE  status'[call[g].booking] = "NONE"
  <2>. DEFINE b == call[g].booking
  <2>1. b \in BookingIds /\ status[b] = "NONE"
    BY <1>2 DEF RequestsOwnTheirRow, CallShape, WellShaped, Requesting
  <2>2. ASSUME NEW h \in Handlers, InsertBooking(h) PROVE status'[b] = "NONE"
    <3>1. Requesting(h) /\ call'[h].pc = "committed"
      BY <2>2, GotoKeeps DEF InsertBooking, Requesting, Pcs
    <3>2. call[h].booking # b
      BY <1>2, <3>1 DEF RequestsOwnTheirRow
    <3>. QED
      BY <2>1, <2>2, <3>2 DEF InsertBooking, TypeOK
  <2>3. ASSUME NEW h \in Handlers, CommitTransition(h) PROVE status'[b] = "NONE"
    BY <2>1, <2>3, CommitMovesUp, RankIsNat DEF TypeOK
  <2>. QED
    BY <2>1, <2>2, <2>3, OnlyTransactionsMove DEF Wait
<1>3. ASSUME NEW g \in Handlers, Requesting(g)'
      PROVE  /\ g \in Calls /\ call'[g].actor = RenterOf[call'[g].booking]
             /\ status'[call'[g].booking] = "NONE"
  BY <1>1, <1>2, <1>3, RequestsPersist DEF RequestsOwnTheirRow
<1>4. ASSUME NEW c \in Handlers, NEW d \in Handlers, Requesting(c)', Requesting(d)',
             call'[c].booking = call'[d].booking
      PROVE  c = d
  <2>1. CASE Requesting(c) /\ Requesting(d) /\ call'[c].booking = call[c].booking
             /\ call'[d].booking = call[d].booking
    BY <1>4, <2>1 DEF RequestsOwnTheirRow
  <2>2. ASSUME NEW e \in Calls, NEW f \in Handlers, NEW b \in BookingIds, RequestBooking(e, b),
               Requesting(f)', call'[f].booking = b
        PROVE  e = f
    <3>1. SUFFICES ASSUME e # f PROVE FALSE
      OBVIOUS
    <3>2. call'[f] = call[f] /\ f \in Calls
      BY <1>1, <1>3, <2>2, <3>1
    <3>. QED
      BY <1>1, <2>2, <3>2
  <2>. QED
    BY <1>1, <1>4, <2>1, <2>2, RequestsPersist
<1>. QED
  BY <1>3, <1>4 DEF RequestsOwnTheirRow, Requesting

\* A transition in flight was in flight before, or its handler loads a booking
\* here, for a party or for the sweep.
LEMMA ActsPersist ==
  ASSUME IInv, [Next]_vars, NEW g \in Handlers, Acting(g)'
  PROVE  \/ /\ Acting(g)
            /\ call'[g].booking = call[g].booking /\ call'[g].actor = call[g].actor
            /\ call'[g].action = call[g].action /\ call'[g].seen = call[g].seen
         \/ /\ UNCHANGED <<status, trail, waited>>
            /\ \E b \in BookingIds, u \in Actors, a \in ActionNames :
                  /\ Load(g, b, u, a)
                  /\ u = System => /\ sweep.phase \in SweepPhases /\ b \in sweep.due
                                   /\ a = SweptAction[sweep.phase]
<1>. USE DEF IInv
<1>1. call'[g].pc \in {"loaded", "cleared"} /\ call'[g].action # "REQUEST"
  BY DEF Acting
<1>2. CASE call'[g] = call[g]
  BY <1>1, <1>2 DEF Acting
<1>3. CASE call'[g] = Idle
  BY <1>1, <1>3 DEF Idle
<1>4. ASSUME NEW b \in BookingIds, RequestBooking(g, b) PROVE FALSE
  BY <1>1, <1>4 DEF RequestBooking, TypeOK
<1>5. ASSUME NEW b \in BookingIds, NEW u \in Users, NEW a \in ActionNames, ActOnBooking(g, b, u, a)
      PROVE  /\ UNCHANGED <<status, trail, waited>> /\ Load(g, b, u, a)
             /\ u \in Actors /\ u # System
  BY <1>5, BookingsAssumption DEF ActOnBooking, Actors, tables
<1>6. ASSUME NEW b \in BookingIds, g = Sweeper, SweepVisit(b)
      PROVE  /\ UNCHANGED <<status, trail, waited>> /\ sweep.phase \in SweepPhases
             /\ b \in sweep.due
             /\ System \in Actors /\ SweptAction[sweep.phase] \in ActionNames
             /\ Load(g, b, System, SweptAction[sweep.phase])
  BY <1>6, SweepRules DEF SweepVisit, TypeOK, Actors, tables
<1>7. ~(InsertBooking(g) \/ CommitTransition(g))
  BY <1>1, GotoKeeps DEF InsertBooking, CommitTransition, Pcs
<1>8. ASSUME NEW q \in {"datesChecked", "cleared"}, Goto(g, q),
             call[g].pc \in {"asked", "datesChecked", "loaded"}
      PROVE  /\ Acting(g)
             /\ call'[g].booking = call[g].booking /\ call'[g].actor = call[g].actor
             /\ call'[g].action = call[g].action /\ call'[g].seen = call[g].seen
  BY <1>1, <1>8, GotoKeeps DEF CallShape, WellShaped, Acting, Pcs
<1>9. ~Goto(g, "line") /\ ~Goto(g, "invite") /\ ~Goto(g, "inviteRenter")
  BY <1>1, GotoKeeps DEF Pcs
<1>. QED
  BY <1>2, <1>3, <1>4, <1>5, <1>6, <1>7, <1>8, <1>9, HandlerSteps

\* The status a handler read stays legal for what it is about to do, and the row
\* only moves up from it.
LEMMA ActsStep == IInv /\ [Next]_vars => ActsWereLegal'
<1>. SUFFICES ASSUME IInv, [Next]_vars, NEW g \in Handlers, Acting(g)'
              PROVE  /\ CheckTransition(call'[g].action, call'[g].seen,
                                        RoleIn(call'[g].booking, call'[g].actor))
                     /\ Rank[status'[call'[g].booking]] >= Rank[call'[g].seen]
  BY DEF ActsWereLegal, Acting, CheckTransition, RoleIn, OwnerOfBooking
<1>. USE DEF IInv
<1>1. CASE Acting(g) /\ call'[g].booking = call[g].booking /\ call'[g].actor = call[g].actor
           /\ call'[g].action = call[g].action /\ call'[g].seen = call[g].seen
  <2>. DEFINE b == call[g].booking
  <2>1. /\ b \in BookingIds /\ Rank[status[b]] >= Rank[call[g].seen]
        /\ call[g].seen \in BookingStates \cup {"NONE"}
    BY <1>1 DEF ActsWereLegal, CallShape, WellShaped, Acting
  <2>2. /\ status[b] \in BookingStates \cup {"NONE"}
        /\ status'[b] \in BookingStates \cup {"NONE"}
    BY <2>1, TypeStep DEF TypeOK
  <2>3. Rank[status'[b]] >= Rank[status[b]]
    BY <2>1, <2>2, MovesGoUp, RankIsNat
  <2>4. Rank[status'[b]] >= Rank[call[g].seen]
    BY <2>1, <2>2, <2>3, RankIsNat
  <2>. QED
    BY <1>1, <2>4 DEF ActsWereLegal
<1>2. ASSUME UNCHANGED <<status, trail, waited>>, NEW b \in BookingIds, NEW u \in Actors,
             NEW a \in ActionNames, Load(g, b, u, a)
      PROVE  /\ CheckTransition(call'[g].action, call'[g].seen,
                                RoleIn(call'[g].booking, call'[g].actor))
             /\ Rank[status'[call'[g].booking]] >= Rank[call'[g].seen]
  BY <1>2, LoadReads, RankIsNat
<1>. QED
  BY <1>1, <1>2, ActsPersist

\* A booking that is still where it was has waited for as long as it had.
LEMMA WaitIsKept ==
  ASSUME IInv, [Next]_vars, NEW b \in BookingIds, status'[b] = status[b], b \in waited
  PROVE  b \in waited'
<1>1. ASSUME NEW h \in Handlers, InsertBooking(h) PROVE b \in waited'
  BY <1>1, InsertMakesRow
<1>2. ASSUME NEW h \in Handlers, CommitTransition(h) PROVE b \in waited'
  BY <1>2, CommitMovesUp DEF IInv, TypeOK
<1>. QED
  BY <1>1, <1>2, OnlyTransactionsMove DEF Wait

\* So what the sweep decided on before a query or a failed visit holds after it.
LEMMA SweeperStep == IInv /\ [Next]_vars => SweeperHasWaited'
<1>. SUFFICES ASSUME IInv, [Next]_vars, NEW g \in Handlers, Acting(g)', call'[g].actor = System,
                     status'[call'[g].booking] = call'[g].seen
              PROVE  call'[g].booking \in waited'
  BY DEF SweeperHasWaited, Acting
<1>. USE DEF IInv
<1>1. CASE Acting(g) /\ call'[g].booking = call[g].booking /\ call'[g].actor = call[g].actor
           /\ call'[g].action = call[g].action /\ call'[g].seen = call[g].seen
  <2>. DEFINE b == call[g].booking
  <2>1. /\ b \in BookingIds /\ Rank[status[b]] >= Rank[call[g].seen]
        /\ call[g].seen \in BookingStates \cup {"NONE"}
        /\ status[b] \in BookingStates \cup {"NONE"}
    BY <1>1 DEF ActsWereLegal, CallShape, WellShaped, Acting, TypeOK
  <2>2. status'[b] = status[b]
    BY <1>1, <2>1, MovesGoUp, RankIsNat
  <2>3. b \in waited
    BY <1>1, <2>2 DEF SweeperHasWaited
  <2>. QED
    BY <1>1, <2>1, <2>2, <2>3, WaitIsKept
<1>2. ASSUME UNCHANGED <<status, trail, waited>>, NEW b \in BookingIds, NEW a \in ActionNames,
             Load(g, b, System, a), sweep.phase \in SweepPhases, b \in sweep.due,
             a = SweptAction[sweep.phase]
      PROVE  call'[g].booking \in waited'
  <2>1. call'[g].booking = b /\ CheckTransition(a, status[b], RoleIn(b, System))
    BY <1>2, LoadReads DEF Actors
  <2>2. status[b] = SweptStatus[sweep.phase]
    BY <1>2, <2>1, SweepRules DEF CheckTransition
  <2>. QED
    BY <1>2, <2>1, <2>2 DEF ListHasWaited
<1>3. ASSUME NEW b \in BookingIds, NEW u \in Actors, NEW a \in ActionNames, Load(g, b, u, a)
      PROVE  u = System
  BY <1>3, LoadReads
<1>. QED
  BY <1>1, <1>2, <1>3, ActsPersist

\* A listed booking was listed before, or is listed here as one that has waited.
LEMMA ListStep == IInv /\ [Next]_vars => ListHasWaited'
<1>. SUFFICES ASSUME IInv, [Next]_vars, NEW b \in sweep'.due
              PROVE  /\ sweep'.phase # "off"
                     /\ Rank[status'[b]] >= Rank[SweptStatus[sweep'.phase]]
                     /\ status'[b] = SweptStatus[sweep'.phase] => b \in waited'
  BY DEF ListHasWaited
<1>. USE DEF IInv
<1>1. \/ b \in sweep.due /\ sweep'.phase = sweep.phase
      \/ /\ UNCHANGED <<status, trail, waited>>
         /\ sweep'.phase \in SweepPhases /\ b \in Stale(sweep'.phase)
  <2>1. CASE SweepTick \/ SweepNext \/ SweepQueryFails
    <3>1. \/ sweep' = [phase |-> "off", due |-> {}]
          \/ /\ sweep'.phase \in SweepPhases /\ sweep'.due = Stale(sweep'.phase)
             /\ UNCHANGED <<status, trail, waited>>
      BY <2>1, SweepRules
      DEF SweepTick, SweepNext, SweepQueryFails, TypeOK, SweepPhases, NextPhase, tables
    <3>. QED
      BY <3>1
  <2>2. ASSUME NEW c \in BookingIds, SweepVisit(c) \/ SweepPassOver(c)
        PROVE  b \in sweep.due /\ sweep'.phase = sweep.phase
    BY <2>2 DEF SweepVisit, SweepPassOver, TypeOK
  <2>3. CASE Crash
    BY <2>3 DEF Crash
  <2>4. CASE UNCHANGED sweep
    BY <2>4
  <2>. QED
    BY <2>1, <2>2, <2>3, <2>4
    DEF Next, vars, Party, RequestBooking, ActOnBooking, Calendar, AddBlackout, RemoveBlackout,
        ChangeVisibility, Continue, Request, CheckDates, CheckBlackouts, InsertBooking,
        Transition, PreCheck, CommitTransition, RefuseTransition, Tell, Notify,
        PostSystemMessage, NotifyReviewInvited, Sweep, Wait, CallFails
<1>2. CASE b \in sweep.due /\ sweep'.phase = sweep.phase
  <2>1. /\ b \in BookingIds /\ sweep.phase \in SweepPhases
        /\ Rank[status[b]] >= Rank[SweptStatus[sweep.phase]]
        /\ SweptStatus[sweep.phase] \in BookingStates
        /\ status[b] \in BookingStates \cup {"NONE"}
    BY <1>2, SweepRules DEF ListHasWaited, TypeOK
  <2>2. status'[b] \in BookingStates \cup {"NONE"}
    BY <2>1, TypeStep DEF TypeOK
  <2>3. status'[b] # status[b] => Rank[status'[b]] > Rank[SweptStatus[sweep.phase]]
    BY <2>1, <2>2, MovesGoUp, RankIsNat
  <2>4. status'[b] = SweptStatus[sweep.phase] => status'[b] = status[b] /\ b \in waited
    BY <1>2, <2>1, <2>3, RankIsNat DEF ListHasWaited
  <2>5. Rank[status'[b]] >= Rank[SweptStatus[sweep.phase]]
    BY <2>1, <2>2, <2>3, RankIsNat
  <2>. QED
    BY <1>2, <2>1, <2>4, <2>5, WaitIsKept DEF SweepPhases
<1>3. ASSUME UNCHANGED <<status, trail, waited>>, sweep'.phase \in SweepPhases,
             b \in Stale(sweep'.phase)
      PROVE  /\ sweep'.phase # "off"
             /\ Rank[status'[b]] >= Rank[SweptStatus[sweep'.phase]]
             /\ status'[b] = SweptStatus[sweep'.phase] => b \in waited'
  BY <1>3, SweepRules, RankIsNat DEF Stale, SweepPhases
<1>. QED
  BY <1>1, <1>2, <1>3

\* What a handler goes on to tell was committed by itself, and stays in the trail.
LEMMA TellersStep == IInv /\ [Next]_vars => TellersHaveCommitted'
<1>. SUFFICES ASSUME IInv, [Next]_vars, NEW g \in Handlers,
                     call'[g].pc \in {"committed", "line", "invite", "inviteRenter"},
                     NEW b, NEW a, b = call'[g].booking, a = call'[g].action
              PROVE  Recorded(b, a)'
  BY DEF TellersHaveCommitted, Recorded
<1>. USE DEF IInv
<1>1. ASSUME call[g].pc \in {"committed", "line", "invite", "inviteRenter"}, b = call[g].booking,
             a = call[g].action
      PROVE  Recorded(b, a)'
  BY <1>1, RecordedStays DEF TellersHaveCommitted, CallShape, WellShaped
<1>2. CASE call'[g] = call[g]
  BY <1>1, <1>2
<1>3. CASE InsertBooking(g) \/ CommitTransition(g)
  <2>1. b = call[g].booking /\ a = call[g].action
    BY <1>3, GotoKeeps DEF InsertBooking, CommitTransition, Pcs
  <2>. QED
    BY <1>3, <2>1, CommitIsRecorded
<1>4. ASSUME NEW q \in {"line", "invite", "inviteRenter"}, Goto(g, q),
             call[g].pc \in {"committed", "line", "invite"}
      PROVE  Recorded(b, a)'
  BY <1>1, <1>4, GotoKeeps DEF Pcs
<1>5. ~Goto(g, "datesChecked") /\ ~Goto(g, "cleared") /\ call'[g] # Idle
  BY GotoKeeps DEF Pcs, Idle
<1>6. ASSUME NEW c \in BookingIds, RequestBooking(g, c) PROVE FALSE
  BY <1>6 DEF RequestBooking, TypeOK
<1>7. ASSUME NEW c \in BookingIds, NEW u \in Actors, NEW x \in ActionNames, Load(g, c, u, x)
      PROVE  FALSE
  BY <1>7, LoadReads
<1>8. ASSUME NEW c \in BookingIds, g = Sweeper, SweepVisit(c) PROVE FALSE
  <2>1. SweptAction[sweep.phase] \in ActionNames /\ System \in Actors
    BY <1>8, SweepRules DEF SweepVisit, TypeOK, Actors
  <2>. QED
    BY <1>7, <1>8, <2>1 DEF SweepVisit
<1>9. ASSUME NEW c \in BookingIds, NEW u \in Users, NEW x \in ActionNames, ActOnBooking(g, c, u, x)
      PROVE  FALSE
  BY <1>7, <1>9 DEF ActOnBooking, Actors
<1>. QED
  BY <1>2, <1>3, <1>4, <1>5, <1>6, <1>8, <1>9, HandlerSteps

-----------------------------------------------------------------------------
(* The theorems. *)

\* IInv holds in every reachable state.
THEOREM Inductive == Spec => []IInv
<1>1. Init => IInv
  <2>. SUFFICES ASSUME Init PROVE IInv
    OBVIOUS
  <2>1. TypeOK
    <3>1. Idle \in CallRecords
      BY DEF Idle, CallRecords, Pcs
    <3>2. \A b \in BookingIds : trail[b] \in Seq(Events)
      BY DEF Init
    <3>. QED
      BY <3>1, <3>2, BookingsAssumption DEF Init, TypeOK, SweepPhases
  <2>2. \A h \in Handlers : call[h] = Idle
    BY DEF Init
  <2>3. sweep.due = {}
    BY DEF Init
  <2>. QED
    BY <2>1, <2>2, <2>3 DEF IInv, CallShape, WellShaped, RequestsOwnTheirRow, Requesting,
       ActsWereLegal, Acting, SweeperHasWaited, ListHasWaited, TellersHaveCommitted, Idle
<1>2. IInv /\ [Next]_vars => IInv'
  BY TypeStep, CallShapeStep, RequestsStep, ActsStep, SweeperStep, ListStep, TellersStep
  DEF IInv
<1>. QED
  BY <1>1, <1>2, PTL DEF Spec

\* Every variable keeps its type.
THEOREM TypeCorrect == Spec => []TypeOK
  BY Inductive, PTL DEF IInv

\* No two handlers, whatever they read and however late they commit, ever double-book.
THEOREM DatesAreExclusive == Spec => []NoDoubleBooking
<1>1. Init => NoDoubleBooking
  BY DEF Init, NoDoubleBooking, Holds, DatesHeldStatuses
<1>2. IInv /\ NoDoubleBooking /\ [Next]_vars => NoDoubleBooking'
  <2>. SUFFICES ASSUME IInv, NoDoubleBooking, [Next]_vars,
                       NEW a \in BookingIds, NEW b \in BookingIds, a # b,
                       ListingOf[a] = ListingOf[b], Holds(a)', Holds(b)'
                PROVE  ~Overlap(PeriodOf[a], PeriodOf[b])
    BY DEF NoDoubleBooking, Holds
  <2>. USE DEF IInv, TypeOK
  <2>1. CASE UNCHANGED status
    BY <2>1 DEF NoDoubleBooking, Holds
  <2>2. ASSUME NEW h \in Handlers, InsertBooking(h)
        PROVE  \A c \in BookingIds : Holds(c)' => Holds(c)
    BY <2>2, InsertMakesRow DEF Holds, DatesHeldStatuses
  <2>3. ASSUME NEW h \in Handlers, CommitTransition(h)
        PROVE  ~Overlap(PeriodOf[a], PeriodOf[b])
    <3>. DEFINE x == call[h].booking
    <3>0. PICK to : status' = [status EXCEPT ![x] = to]
      BY <2>3, CommitMovesUp
    <3>1. \A c \in BookingIds \ {x} : Holds(c)' => Holds(c)
      BY <3>0 DEF Holds
    <3>2. ASSUME NEW c \in BookingIds, NEW d \in BookingIds, c = call[h].booking, c # d,
                 Holds(c)', Holds(d), ListingOf[c] = ListingOf[d]
          PROVE  ~Overlap(PeriodOf[d], PeriodOf[c])
      <4>1. ~Clash(c)
        BY <2>3, <3>2, CommitMovesUp DEF Holds, ExclusionHolds
      <4>. QED
        BY <3>2, <4>1 DEF Clash
    <3>3. Overlap(PeriodOf[a], PeriodOf[b]) <=> Overlap(PeriodOf[b], PeriodOf[a])
      BY DEF Overlap
    <3>. QED
      BY <3>1, <3>2, <3>3 DEF NoDoubleBooking
  <2>. QED
    BY <2>1, <2>2, <2>3, OnlyTransactionsMove DEF NoDoubleBooking, Wait
<1>. QED
  BY <1>1, <1>2, Inductive, PTL DEF Spec

\* A booking only moves forward.
THEOREM BookingsOnlyGoForward == Spec => OnlyForward
<1>1. IInv /\ [Next]_vars =>
        [\A b \in BookingIds : status'[b] # status[b] => Rank[status'[b]] > Rank[status[b]]]_vars
  BY MovesGoUp
<1>. QED
  BY <1>1, Inductive, PTL DEF Spec, OnlyForward

\* The system never cuts a wait short.
THEOREM NobodyIsCutShort == Spec => SystemOnlyAfterTheWait
<1>1. IInv /\ [Next]_vars =>
        [\A b \in BookingIds :
           status'[b] # status[b] /\ trail'[b][Len(trail'[b])].actor = System => b \in waited]_vars
  <2>. SUFFICES ASSUME IInv, [Next]_vars, NEW b \in BookingIds, status'[b] # status[b],
                       trail'[b][Len(trail'[b])].actor = System
                PROVE  b \in waited
    OBVIOUS
  <2>1. trail[b] \in Seq(Events) /\ status \in [BookingIds -> BookingStates \cup {"NONE"}]
        /\ trail \in [BookingIds -> Seq(Events)]
    BY DEF IInv, TypeOK
  <2>2. ASSUME NEW e \in Events, trail'[b] = Append(trail[b], e)
        PROVE  e.actor = System
    BY <2>1, <2>2
  <2>3. ASSUME NEW h \in Handlers, InsertBooking(h) PROVE FALSE
    <3>1. b = call[h].booking /\ call[h].actor \in Actors /\ call[h].actor # System
      BY <2>1, <2>3, InsertMakesRow DEF IInv, CallShape, WellShaped, InsertBooking
    <3>2. [from |-> "NONE", to |-> "REQUESTED", actor |-> call[h].actor] \in Events
      BY <3>1 DEF Events, BookingStates
    <3>3. trail'[b] = Append(trail[b], [from |-> "NONE", to |-> "REQUESTED",
                                        actor |-> call[h].actor])
      BY <2>1, <2>3, <3>1, InsertMakesRow
    <3>. QED
      BY <2>2, <3>1, <3>2, <3>3
  <2>4. ASSUME NEW h \in Handlers, CommitTransition(h) PROVE b \in waited
    <3>. DEFINE to == BookingActions[call[h].action].to
    <3>1. b = call[h].booking /\ call[h].actor \in Actors /\ to \in BookingStates
          /\ status[b] \in BookingStates
      BY <2>1, <2>4, CommitMovesUp
    <3>2. [from |-> status[b], to |-> to, actor |-> call[h].actor] \in Events
      BY <3>1 DEF Events
    <3>3. trail'[b] = Append(trail[b], [from |-> status[b], to |-> to, actor |-> call[h].actor])
      BY <2>1, <2>4, <3>1, CommitMovesUp
    <3>4. call[h].actor = System
      BY <2>2, <3>2, <3>3
    <3>. QED
      BY <2>4, <3>1, <3>4, CommitMovesUp
  <2>. QED
    BY <2>3, <2>4, OnlyTransactionsMove DEF Wait
<1>. QED
  BY <1>1, Inductive, PTL DEF Spec, SystemOnlyAfterTheWait

\* The last event of an extended trail is the new one, and the rest is as it was.
LEMMA TrailGrows ==
  ASSUME NEW t \in Seq(Events), NEW e \in Events
  PROVE  /\ Append(t, e) # <<>> /\ Append(t, e) \in Seq(Events)
         /\ Len(t) \in Nat /\ Len(Append(t, e)) = Len(t) + 1
         /\ Append(t, e)[Len(t) + 1] = e
         /\ \A i \in 1..Len(t) : Append(t, e)[i] = t[i]
         /\ t = <<>> <=> Len(t) = 0
  OBVIOUS

\* The trail of every booking leads without a hole to the status of its row.
THEOREM TrailsAreUnbroken == Spec => []TrailIsUnbroken
<1>1. Init => TrailIsUnbroken
  BY DEF Init, TrailIsUnbroken
<1>2. IInv /\ TrailIsUnbroken /\ [Next]_vars => TrailIsUnbroken'
  <2>. SUFFICES ASSUME IInv, TrailIsUnbroken, [Next]_vars, NEW b \in BookingIds
                PROVE  /\ trail'[b] = <<>> <=> status'[b] = "NONE"
                       /\ trail'[b] # <<>> => /\ trail'[b][1].from = "NONE"
                                              /\ trail'[b][Len(trail'[b])].to = status'[b]
                       /\ \A i \in 1..Len(trail'[b]) - 1 : trail'[b][i].to = trail'[b][i + 1].from
    BY DEF TrailIsUnbroken
  <2>1. trail \in [BookingIds -> Seq(Events)] /\ status \in [BookingIds -> BookingStates \cup {"NONE"}]
    BY DEF IInv, TypeOK
  <2>2. CASE trail'[b] = trail[b] /\ status'[b] = status[b]
    BY <2>2 DEF TrailIsUnbroken
  <2>3. ASSUME NEW e \in Events, trail'[b] = Append(trail[b], e), e.from = status[b],
               e.to = status'[b]
        PROVE  /\ trail'[b] = <<>> <=> status'[b] = "NONE"
               /\ trail'[b] # <<>> => /\ trail'[b][1].from = "NONE"
                                      /\ trail'[b][Len(trail'[b])].to = status'[b]
               /\ \A i \in 1..Len(trail'[b]) - 1 : trail'[b][i].to = trail'[b][i + 1].from
    <3>1. e.to \in BookingStates /\ e.to # "NONE"
      BY RankIsNat DEF Events
    <3>2. CASE trail[b] = <<>>
      BY <2>1, <2>3, <3>1, <3>2, TrailGrows DEF TrailIsUnbroken
    <3>3. CASE trail[b] # <<>>
      <4>1. /\ trail[b][1].from = "NONE" /\ trail[b][Len(trail[b])].to = e.from
            /\ \A i \in 1..Len(trail[b]) - 1 : trail[b][i].to = trail[b][i + 1].from
            /\ Len(trail[b]) \in Nat \ {0}
        BY <2>1, <2>3, <3>3, TrailGrows DEF TrailIsUnbroken
      <4>2. \A i \in 1..Len(trail'[b]) - 1 : trail'[b][i].to = trail'[b][i + 1].from
        BY <2>1, <2>3, <4>1, TrailGrows
      <4>. QED
        BY <2>1, <2>3, <3>1, <4>1, <4>2, TrailGrows
    <3>. QED
      BY <3>2, <3>3
  <2>4. ASSUME NEW h \in Handlers, InsertBooking(h), b = call[h].booking
        PROVE  \E e \in Events : /\ trail'[b] = Append(trail[b], e)
                                 /\ e.from = status[b] /\ e.to = status'[b]
    <3>. DEFINE e == [from |-> "NONE", to |-> "REQUESTED", actor |-> call[h].actor]
    <3>1. /\ trail'[b] = Append(trail[b], e) /\ status[b] = "NONE" /\ status'[b] = "REQUESTED"
          /\ call[h].actor \in Actors
      BY <2>1, <2>4, InsertMakesRow DEF IInv, CallShape, WellShaped, InsertBooking
    <3>2. e \in Events
      BY <3>1 DEF Events, BookingStates
    <3>. QED
      BY <3>1, <3>2
  <2>5. ASSUME NEW h \in Handlers, CommitTransition(h), b = call[h].booking
        PROVE  \E e \in Events : /\ trail'[b] = Append(trail[b], e)
                                 /\ e.from = status[b] /\ e.to = status'[b]
    <3>. DEFINE to == BookingActions[call[h].action].to
                e == [from |-> status[b], to |-> to, actor |-> call[h].actor]
    <3>1. /\ trail'[b] = Append(trail[b], e) /\ status'[b] = to /\ to \in BookingStates
          /\ status[b] \in BookingStates /\ call[h].actor \in Actors
      BY <2>1, <2>5, CommitMovesUp
    <3>2. e \in Events
      BY <3>1 DEF Events
    <3>. QED
      BY <3>1, <3>2
  <2>6. ASSUME NEW h \in Handlers, InsertBooking(h) \/ CommitTransition(h), b # call[h].booking
        PROVE  trail'[b] = trail[b] /\ status'[b] = status[b]
    BY <2>1, <2>6 DEF InsertBooking, CommitTransition
  <2>. QED
    BY <2>2, <2>3, <2>4, <2>5, <2>6, OnlyTransactionsMove DEF Wait
<1>. QED
  BY <1>1, <1>2, Inductive, PTL DEF Spec

\* Every recorded event was its actor's to bring about.
THEOREM MovesAreAllowed == Spec => []EveryMoveWasAllowed
<1>. DEFINE Allowed(b, e) ==
              \/ e.from = "NONE" /\ e.to = "REQUESTED" /\ e.actor = RenterOf[b]
              \/ \E a \in ActionNames :
                    /\ e.from \in BookingActions[a].from /\ e.to = BookingActions[a].to
                    /\ RoleIn(b, e.actor) \in BookingActions[a].actors
<1>1. Init => EveryMoveWasAllowed
  BY DEF Init, EveryMoveWasAllowed
<1>2. IInv /\ EveryMoveWasAllowed /\ [Next]_vars => EveryMoveWasAllowed'
  <2>. SUFFICES ASSUME IInv, EveryMoveWasAllowed, [Next]_vars, NEW b \in BookingIds,
                       NEW i \in 1..Len(trail'[b])
                PROVE  Allowed(b, trail'[b][i])
    BY DEF EveryMoveWasAllowed, RoleIn, OwnerOfBooking
  <2>1. trail \in [BookingIds -> Seq(Events)] /\ status \in [BookingIds -> BookingStates \cup {"NONE"}]
    BY DEF IInv, TypeOK
  <2>2. CASE trail'[b] = trail[b]
    BY <2>2 DEF EveryMoveWasAllowed
  <2>3. ASSUME NEW e \in Events, trail'[b] = Append(trail[b], e), Allowed(b, e)
        PROVE  Allowed(b, trail'[b][i])
    <3>1. CASE i = Len(trail[b]) + 1
      BY <2>1, <2>3, <3>1, TrailGrows
    <3>2. CASE i # Len(trail[b]) + 1
      <4>1. i \in 1..Len(trail[b]) /\ trail'[b][i] = trail[b][i]
        BY <2>1, <2>3, <3>2, TrailGrows
      <4>. QED
        BY <4>1 DEF EveryMoveWasAllowed
    <3>. QED
      BY <3>1, <3>2
  <2>4. ASSUME NEW h \in Handlers, InsertBooking(h), b = call[h].booking
        PROVE  \E e \in Events : trail'[b] = Append(trail[b], e) /\ Allowed(b, e)
    <3>. DEFINE e == [from |-> "NONE", to |-> "REQUESTED", actor |-> call[h].actor]
    <3>1. /\ trail'[b] = Append(trail[b], e) /\ call[h].actor = RenterOf[b]
          /\ call[h].actor \in Actors
      BY <2>1, <2>4, InsertMakesRow DEF IInv, CallShape, WellShaped, InsertBooking
    <3>2. e \in Events
      BY <3>1 DEF Events, BookingStates
    <3>3. Allowed(b, e)
      BY <3>1
    <3>. QED
      BY <3>1, <3>2, <3>3
  <2>5. ASSUME NEW h \in Handlers, CommitTransition(h), b = call[h].booking
        PROVE  \E e \in Events : trail'[b] = Append(trail[b], e) /\ Allowed(b, e)
    <3>. DEFINE to == BookingActions[call[h].action].to
                e == [from |-> status[b], to |-> to, actor |-> call[h].actor]
    <3>1. /\ trail'[b] = Append(trail[b], e) /\ to \in BookingStates
          /\ status[b] \in BookingStates /\ call[h].actor \in Actors
          /\ call[h].action \in ActionNames
          /\ CheckTransition(call[h].action, status[b], RoleIn(b, call[h].actor))
      BY <2>1, <2>5, CommitMovesUp
    <3>2. e \in Events
      BY <3>1 DEF Events
    <3>3. Allowed(b, e)
      BY <3>1 DEF CheckTransition
    <3>. QED
      BY <3>1, <3>2, <3>3
  <2>6. ASSUME NEW h \in Handlers, InsertBooking(h) \/ CommitTransition(h), b # call[h].booking
        PROVE  trail'[b] = trail[b]
    BY <2>1, <2>6 DEF InsertBooking, CommitTransition
  <2>. QED
    BY <2>2, <2>3, <2>4, <2>5, <2>6, OnlyTransactionsMove DEF Wait
<1>. QED
  BY <1>1, <1>2, Inductive, PTL DEF Spec

\* Nothing is told, to a party or in a thread, that did not happen.
THEOREM OnlyTheTrailIsTold == Spec => []TellsOnlyTheTrail
<1>1. Init => TellsOnlyTheTrail
  BY DEF Init, TellsOnlyTheTrail
<1>2. IInv /\ TellsOnlyTheTrail /\ [Next]_vars => TellsOnlyTheTrail'
  <2>. SUFFICES ASSUME IInv, TellsOnlyTheTrail, [Next]_vars PROVE TellsOnlyTheTrail'
    OBVIOUS
  <2>1. ASSUME NEW n \in notices' PROVE n \in notices \/ (n.booking \in BookingIds /\ Recorded(n.booking, n.action))
    <3>1. CASE UNCHANGED notices
      BY <3>1
    <3>2. ASSUME NEW h \in Handlers, Notify(h), n \notin notices
          PROVE  n.booking \in BookingIds /\ Recorded(n.booking, n.action)
      <4>1. n.booking = call[h].booking /\ n.action = call[h].action
        BY <3>2 DEF Notify, Written
      <4>. QED
        BY <3>2, <4>1 DEF Notify, IInv, TellersHaveCommitted, CallShape, WellShaped
    <3>3. ASSUME NEW h \in Handlers, NotifyReviewInvited(h), n \notin notices
          PROVE  n.booking \in BookingIds /\ Recorded(n.booking, n.action)
      <4>1. n.booking = call[h].booking /\ n.action = "INVITE"
        BY <3>3 DEF NotifyReviewInvited, Written
      <4>2. call[h].booking \in BookingIds /\ Recorded(call[h].booking, "COMPLETE")
        BY <3>3 DEF NotifyReviewInvited, IInv, TellersHaveCommitted, CallShape, WellShaped
      <4>3. \A b : Recorded(b, "COMPLETE") => Recorded(b, "INVITE")
        BY DEF Recorded, BookingActions
      <4>. QED
        BY <4>1, <4>2, <4>3
    <3>. QED
      BY <2>1, <3>1, <3>2, <3>3
      DEF Next, vars, told, Party, RequestBooking, ActOnBooking, Calendar, AddBlackout,
          RemoveBlackout, ChangeVisibility, Continue, Request, CheckDates, CheckBlackouts,
          InsertBooking, Transition, PreCheck, CommitTransition, RefuseTransition, Tell,
          PostSystemMessage, Sweep, SweepTick, SweepVisit, SweepPassOver, SweepNext, Wait,
          CallFails, SweepQueryFails, Crash
  <2>2. ASSUME NEW l \in lines' PROVE l \in lines \/ (l.booking \in BookingIds /\ Recorded(l.booking, l.action))
    <3>1. CASE UNCHANGED lines
      BY <3>1
    <3>2. ASSUME NEW h \in Handlers, PostSystemMessage(h), l \notin lines
          PROVE  l.booking \in BookingIds /\ Recorded(l.booking, l.action)
      <4>1. l.booking = call[h].booking /\ l.action = call[h].action
        BY <3>2 DEF PostSystemMessage, Written
      <4>. QED
        BY <3>2, <4>1 DEF PostSystemMessage, IInv, TellersHaveCommitted, CallShape, WellShaped
    <3>. QED
      BY <2>2, <3>1, <3>2
      DEF Next, vars, told, Party, RequestBooking, ActOnBooking, Calendar, AddBlackout,
          RemoveBlackout, ChangeVisibility, Continue, Request, CheckDates, CheckBlackouts,
          InsertBooking, Transition, PreCheck, CommitTransition, RefuseTransition, Tell,
          Notify, NotifyReviewInvited, Sweep, SweepTick, SweepVisit, SweepPassOver, SweepNext,
          Wait, CallFails, SweepQueryFails, Crash
  <2>3. \A n \in notices : n.booking \in BookingIds /\ Recorded(n.booking, n.action)
    BY DEF IInv, TypeOK, Notices, TellsOnlyTheTrail
  <2>4. \A l \in lines : l.booking \in BookingIds /\ Recorded(l.booking, l.action)
    BY DEF IInv, TypeOK, TellsOnlyTheTrail
  <2>5. \A n \in notices' : Recorded(n.booking, n.action)'
    BY <2>1, <2>3, RecordedStays
  <2>6. \A l \in lines' : Recorded(l.booking, l.action)'
    BY <2>2, <2>4, RecordedStays
  <2>. QED
    BY <2>5, <2>6 DEF TellsOnlyTheTrail
<1>. QED
  BY <1>1, <1>2, Inductive, PTL DEF Spec

-----------------------------------------------------------------------------
(* The handlers implement the calendar. *)

\* Read off a table without double bookings, a day has the one holder it has.
LEMMA HolderIsUnique ==
  NoDoubleBooking =>
    \A l \in Listings, d \in Days :
       /\ \A b \in BookingIds : HoldsDay(b, l, d) => Holder[l][d] = b
       /\ (\A b \in BookingIds : ~HoldsDay(b, l, d)) => Holder[l][d] = None
<1>. SUFFICES ASSUME NoDoubleBooking, NEW l \in Listings, NEW d \in Days
              PROVE  /\ \A b \in BookingIds : HoldsDay(b, l, d) => Holder[l][d] = b
                     /\ (\A b \in BookingIds : ~HoldsDay(b, l, d)) => Holder[l][d] = None
  OBVIOUS
<1>1. Holder[l][d] = IF \E b \in BookingIds : HoldsDay(b, l, d)
                     THEN CHOOSE b \in BookingIds : HoldsDay(b, l, d) ELSE None
  BY DEF Holder
<1>2. ASSUME NEW b \in BookingIds, HoldsDay(b, l, d) PROVE Holder[l][d] = b
  <2>1. PICK c \in BookingIds : HoldsDay(c, l, d) /\ Holder[l][d] = c
    BY <1>1, <1>2
  <2>. QED
    BY <1>2, <2>1 DEF NoDoubleBooking, HoldsDay, Overlap
<1>. QED
  BY <1>1, <1>2

LEMMA HolderIsUniqueNext ==
  NoDoubleBooking' =>
    \A l \in Listings, d \in Days :
       /\ \A b \in BookingIds : HoldsDay(b, l, d)' => Holder'[l][d] = b
       /\ (\A b \in BookingIds : ~HoldsDay(b, l, d)') => Holder'[l][d] = None
<1>. SUFFICES ASSUME NoDoubleBooking', NEW l \in Listings, NEW d \in Days
              PROVE  /\ \A b \in BookingIds : HoldsDay(b, l, d)' => Holder'[l][d] = b
                     /\ (\A b \in BookingIds : ~HoldsDay(b, l, d)') => Holder'[l][d] = None
  OBVIOUS
<1>1. Holder'[l][d] = IF \E b \in BookingIds : HoldsDay(b, l, d)'
                      THEN CHOOSE b \in BookingIds : HoldsDay(b, l, d)' ELSE None
  BY DEF Holder
<1>2. ASSUME NEW b \in BookingIds, HoldsDay(b, l, d)' PROVE Holder'[l][d] = b
  <2>1. PICK c \in BookingIds : HoldsDay(c, l, d)' /\ Holder'[l][d] = c
    BY <1>1, <1>2
  <2>. QED
    BY <1>2, <2>1 DEF NoDoubleBooking, HoldsDay, Overlap, Holds
<1>. QED
  BY <1>1, <1>2

\* A step that changes no booking's hold changes no day.
LEMMA SameHolds ==
  ASSUME NoDoubleBooking, NoDoubleBooking', \A b \in BookingIds : Holds(b)' <=> Holds(b)
  PROVE  Holder' = Holder
<1>1. ASSUME NEW l \in Listings, NEW d \in Days PROVE Holder'[l][d] = Holder[l][d]
  <2>1. \A b \in BookingIds : HoldsDay(b, l, d)' <=> HoldsDay(b, l, d)
    BY DEF HoldsDay, Holds
  <2>. QED
    BY <2>1, HolderIsUnique, HolderIsUniqueNext
<1>2. /\ Holder = [l \in Listings |-> [d \in Days |-> Holder[l][d]]]
      /\ Holder' = [l \in Listings |-> [d \in Days |-> Holder'[l][d]]]
  BY DEF Holder
<1>. QED
  BY <1>1, <1>2

\* Only the booking that moved can have begun, or ceased, to hold its days; it
\* claims all of them or releases all of them.
LEMMA MoverClaims ==
  ASSUME NoDoubleBooking, NoDoubleBooking', NEW b \in BookingIds,
         \A c \in BookingIds \ {b} : Holds(c)' <=> Holds(c), Holds(b)', ~Holds(b)
  PROVE  Promise!Claim(b)
<1>. USE BookingsAssumption
<1>1. ASSUME NEW d \in PeriodOf[b] PROVE Holder[ListingOf[b]][d] = None
  <2>1. \A c \in BookingIds : ~HoldsDay(c, ListingOf[b], d)
    BY <1>1 DEF HoldsDay, NoDoubleBooking, Overlap, Holds
  <2>. QED
    BY <1>1, <2>1, HolderIsUnique
<1>2. ASSUME NEW l \in Listings, NEW d \in Days
      PROVE  Holder'[l][d] = IF l = ListingOf[b] /\ d \in PeriodOf[b] THEN b ELSE Holder[l][d]
  <2>1. CASE l = ListingOf[b] /\ d \in PeriodOf[b]
    <3>1. HoldsDay(b, l, d)'
      BY <2>1 DEF HoldsDay, Holds
    <3>. QED
      BY <2>1, <3>1, HolderIsUniqueNext
  <2>2. CASE ~(l = ListingOf[b] /\ d \in PeriodOf[b])
    <3>1. \A c \in BookingIds : HoldsDay(c, l, d)' <=> HoldsDay(c, l, d)
      BY <2>2 DEF HoldsDay, Holds
    <3>. QED
      BY <2>2, <3>1, HolderIsUnique, HolderIsUniqueNext
  <2>. QED
    BY <2>1, <2>2
<1>3. Holder' = [l \in Listings |-> [d \in Days |-> Holder'[l][d]]]
  BY DEF Holder
<1>4. Holder' = [l \in Listings |-> [d \in Days |->
                  IF l = ListingOf[b] /\ d \in PeriodOf[b] THEN b ELSE Holder[l][d]]]
  BY <1>2, <1>3
<1>. QED
  BY <1>1, <1>4 DEF Promise!Claim

LEMMA MoverReleases ==
  ASSUME NoDoubleBooking, NoDoubleBooking', NEW b \in BookingIds,
         \A c \in BookingIds \ {b} : Holds(c)' <=> Holds(c), ~Holds(b)', Holds(b)
  PROVE  Promise!Release(b)
<1>. USE BookingsAssumption
<1>1. ASSUME NEW d \in PeriodOf[b] PROVE Holder[ListingOf[b]][d] = b
  <2>1. HoldsDay(b, ListingOf[b], d)
    BY <1>1 DEF HoldsDay
  <2>. QED
    BY <1>1, <2>1, HolderIsUnique
<1>2. ASSUME NEW l \in Listings, NEW d \in Days
      PROVE  Holder'[l][d] = IF l = ListingOf[b] /\ d \in PeriodOf[b] THEN None ELSE Holder[l][d]
  <2>1. CASE l = ListingOf[b] /\ d \in PeriodOf[b]
    <3>1. \A c \in BookingIds : ~HoldsDay(c, l, d)'
      BY <2>1 DEF HoldsDay, NoDoubleBooking, Overlap, Holds
    <3>. QED
      BY <2>1, <3>1, HolderIsUniqueNext
  <2>2. CASE ~(l = ListingOf[b] /\ d \in PeriodOf[b])
    <3>1. \A c \in BookingIds : HoldsDay(c, l, d)' <=> HoldsDay(c, l, d)
      BY <2>2 DEF HoldsDay, Holds
    <3>. QED
      BY <2>2, <3>1, HolderIsUnique, HolderIsUniqueNext
  <2>. QED
    BY <2>1, <2>2
<1>3. Holder' = [l \in Listings |-> [d \in Days |-> Holder'[l][d]]]
  BY DEF Holder
<1>4. Holder' = [l \in Listings |-> [d \in Days |->
                  IF l = ListingOf[b] /\ d \in PeriodOf[b] THEN None ELSE Holder[l][d]]]
  BY <1>2, <1>3
<1>. QED
  BY <1>1, <1>4 DEF Promise!Release

\* Seen from the calendar, every step of every handler claims a free period
\* whole, gives one back whole, or changes nothing.
THEOREM BookingsImplementCalendar == Spec => KeepsTheCalendar
<1>1. Init => Promise!Init
  <2>. SUFFICES ASSUME Init PROVE Holder = [l \in Listings |-> [d \in Days |-> None]]
    BY DEF Promise!Init
  <2>1. \A b \in BookingIds, l \in Listings, d \in Days : ~HoldsDay(b, l, d)
    BY DEF Init, HoldsDay, Holds, DatesHeldStatuses
  <2>. QED
    BY <2>1 DEF Holder
<1>2. IInv /\ NoDoubleBooking /\ NoDoubleBooking' /\ [Next]_vars => [Promise!Next]_Holder
  <2>. SUFFICES ASSUME IInv, NoDoubleBooking, NoDoubleBooking', [Next]_vars
                PROVE  [Promise!Next]_Holder
    OBVIOUS
  <2>1. \/ \A b \in BookingIds : Holds(b)' <=> Holds(b)
        \/ \E b \in BookingIds : \A c \in BookingIds \ {b} : Holds(c)' <=> Holds(c)
    <3>1. ASSUME NEW h \in Handlers, InsertBooking(h) \/ CommitTransition(h)
          PROVE  \E b \in BookingIds : \A c \in BookingIds \ {b} : Holds(c)' <=> Holds(c)
      <4>1. call[h].booking \in BookingIds
        BY <3>1, InsertMakesRow, CommitMovesUp
      <4>2. \A c \in BookingIds \ {call[h].booking} : status'[c] = status[c]
        BY <3>1 DEF InsertBooking, CommitTransition, IInv, TypeOK
      <4>. QED
        BY <4>1, <4>2 DEF Holds
    <3>2. CASE UNCHANGED status
      BY <3>2 DEF Holds
    <3>. QED
      BY <3>1, <3>2, OnlyTransactionsMove DEF Wait
  <2>. QED
    BY <2>1, SameHolds, MoverClaims, MoverReleases DEF Promise!Next, Holds
<1>. QED
  BY <1>1, <1>2, Inductive, DatesAreExclusive, PTL DEF Spec, KeepsTheCalendar, Promise!Spec
================

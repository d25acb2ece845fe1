---------------------------- MODULE BookingRules ----------------------------
(***************************************************************************)
(* The booking state machine of services/bookingStateMachine.js, as data:  *)
(* the statuses, the table of actions, and the questions asked of it.      *)
(* The tables kept beside it are here too: who is told of which action,    *)
(* which actions leave a line in the thread, and when a booking may be     *)
(* photographed.                                                           *)
(*                                                                         *)
(* "NONE" is the status of a booking that has no row yet; it doubles as    *)
(* the null from_status of a booking's first event.                        *)
(***************************************************************************)

BookingStates == {"REQUESTED", "ACCEPTED", "HANDED_OVER", "ACTIVE", "RETURNED",
                  "COMPLETED", "DECLINED", "CANCELLED", "EXPIRED"}

TerminalStates == {"COMPLETED", "DECLINED", "CANCELLED", "EXPIRED"}

\* The statuses the exclusion constraint and the overlap queries look at.
DatesHeldStatuses == {"ACCEPTED", "HANDED_OVER", "ACTIVE"}

ActionNames == {"ACCEPT", "DECLINE", "CANCEL", "CANCEL_AS_OWNER", "EXPIRE",
                "START", "CONFIRM_RECEIPT", "RETURN", "COMPLETE"}

Roles == {"owner", "renter", "system"}

\* Each action: the statuses it leaves, the one it reaches, who may take it,
\* and whether the overlap question is asked first.
BookingActions ==
  [ACCEPT          |-> [from |-> {"REQUESTED"}, to |-> "ACCEPTED",
                        actors |-> {"owner"}, claimsDates |-> TRUE],
   DECLINE         |-> [from |-> {"REQUESTED"}, to |-> "DECLINED",
                        actors |-> {"owner"}, claimsDates |-> FALSE],
   CANCEL          |-> [from |-> {"REQUESTED", "ACCEPTED"}, to |-> "CANCELLED",
                        actors |-> {"renter"}, claimsDates |-> FALSE],
   CANCEL_AS_OWNER |-> [from |-> {"ACCEPTED"}, to |-> "CANCELLED",
                        actors |-> {"owner"}, claimsDates |-> FALSE],
   EXPIRE          |-> [from |-> {"REQUESTED"}, to |-> "EXPIRED",
                        actors |-> {"system"}, claimsDates |-> FALSE],
   START           |-> [from |-> {"ACCEPTED"}, to |-> "HANDED_OVER",
                        actors |-> {"owner"}, claimsDates |-> TRUE],
   CONFIRM_RECEIPT |-> [from |-> {"HANDED_OVER"}, to |-> "ACTIVE",
                        actors |-> {"renter", "system"}, claimsDates |-> TRUE],
   RETURN          |-> [from |-> {"HANDED_OVER", "ACTIVE"}, to |-> "RETURNED",
                        actors |-> {"renter"}, claimsDates |-> FALSE],
   COMPLETE        |-> [from |-> {"RETURNED"}, to |-> "COMPLETED",
                        actors |-> {"owner", "system"}, claimsDates |-> FALSE]]

AnyParty(action, status, role) == status \in BookingActions[action].from

\* Mutant: the returns are the owner's alone to complete.
OwnerAloneCompletes(action, status, role) ==
  /\ role \in BookingActions[action].actors
  /\ status \in BookingActions[action].from
  /\ action = "COMPLETE" => role # "system"

\* The actor is asked about first and the status second in the code; both must
\* hold for the transition to be legal.
CheckTransition(action, status, role) ==
  /\ role \in BookingActions[action].actors
  /\ status \in BookingActions[action].from

\* Which party BOOKING_NOTIFICATIONS tells of an action.
NotifiedRole ==
  [ACCEPT |-> "renter", DECLINE |-> "renter", CANCEL |-> "owner",
   CANCEL_AS_OWNER |-> "renter", EXPIRE |-> "renter", START |-> "renter",
   CONFIRM_RECEIPT |-> "owner", RETURN |-> "owner", COMPLETE |-> "renter"]

\* The actions that leave a SYSTEM line in the booking's thread.
SystemLines == {"ACCEPT", "START", "CONFIRM_RECEIPT", "RETURN", "COMPLETE"}

\* The sweeps of the scheduler that move bookings, in the order they run: the
\* status each looks for and the action it takes.
SweepPhases == {"requests", "receipts", "returns"}
SweptStatus == [requests |-> "REQUESTED", receipts |-> "HANDED_OVER", returns |-> "RETURNED"]
SweptAction == [requests |-> "EXPIRE", receipts |-> "CONFIRM_RECEIPT", returns |-> "COMPLETE"]
ReceiptsLast == [requests |-> "receipts", receipts |-> "off", returns |-> "off"]
NextPhase == [requests |-> "receipts", receipts |-> "returns", returns |-> "off"]

\* The statuses a booking sits in waiting for the other party's answer.
StallingStatuses == {"REQUESTED", "HANDED_OVER", "RETURNED"}

\* Two half-open periods overlap: here a period is the set of days it covers.
Overlap(p, q) == p \cap q # {}
=============================================================================

----------------------------- MODULE MCBookings -----------------------------
(***************************************************************************)
(* Small instances of Bookings: b1 and b2 are requests of two renters for  *)
(* overlapping days of one listing.                                        *)
(***************************************************************************)
EXTENDS BookingsInvariant, TLC

CONSTANTS b1, b2, camera, owner, ana, ben

MCListingOf == [b \in BookingIds |-> camera]
MCRenterOf == [b \in BookingIds |-> IF b = b2 THEN ben ELSE ana]
MCPeriodOf == [b \in BookingIds |-> IF b = b2 THEN {2, 3} ELSE {1, 2}]
MCOwnerOf == [l \in Listings |-> owner]
MCBlackouts == {{1}}

\* The parties alone, with no scheduler and no clock: the races between two
\* people's handlers.
RaceSpec == Init /\ [][Party \/ Calendar \/ \E c \in Calls : Continue(c)]_vars

\* The parties against the scheduler, with failures, on a calendar nobody edits.
SweepSpec ==
  Init /\ [][\/ Party
             \/ \E h \in Handlers : Continue(h) \/ CallFails(h)
             \/ Sweep \/ SweepQueryFails \/ Crash
             \/ \E b \in BookingIds : Wait(b)]_vars

CallSymmetry == Permutations(Calls)
=============================================================================

-------------------------- MODULE RentalCalendar ----------------------------
(***************************************************************************)
(* What the bookings of a listing promise, with nothing of how they are    *)
(* made: a calendar that says, for every listing and day, whose the item   *)
(* is.  A rental takes all of its days at once, only when every one of     *)
(* them is free, and gives all of them back at once.                       *)
(***************************************************************************)
CONSTANTS
  BookingIds, Listings, Days,
  ListingOf,  \* booking -> listing
  PeriodOf,   \* booking -> set of days
  Free        \* the holder of a day nobody holds

VARIABLE holder  \* listing -> day -> the booking that holds it, or Free

Init == holder = [l \in Listings |-> [d \in Days |-> Free]]

\* A booking takes every day of its period.
Claim(b) ==
  /\ \A d \in PeriodOf[b] : holder[ListingOf[b]][d] = Free
  /\ holder' = [l \in Listings |-> [d \in Days |->
       IF l = ListingOf[b] /\ d \in PeriodOf[b] THEN b ELSE holder[l][d]]]

\* A booking that holds its period gives every day of it back.
Release(b) ==
  /\ \A d \in PeriodOf[b] : holder[ListingOf[b]][d] = b
  /\ holder' = [l \in Listings |-> [d \in Days |->
       IF l = ListingOf[b] /\ d \in PeriodOf[b] THEN Free ELSE holder[l][d]]]

Next == \E b \in BookingIds : Claim(b) \/ Release(b)

Spec == Init /\ [][Next]_holder
=============================================================================

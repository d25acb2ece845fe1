--------------------------- MODULE AccountClosure ---------------------------
(***************************************************************************)
(* Closing an account (profileService.deleteOwnAccount) against what the   *)
(* rest of the service has under way for it: bookings being requested and  *)
(* acted on, and listings being published.                                 *)
(*                                                                         *)
(* Each handler reads in one step and writes in a later one; nothing but   *)
(* the condition of the write is checked again.  A session is checked when *)
(* its request arrives, never after.                                       *)
(***************************************************************************)
EXTENDS BookingRules, FiniteSets

CONSTANTS User, Listing, Booking,
          OwnerOf,     \* listing -> user
          ListingOf,   \* booking -> listing
          RenterOf,    \* booking -> user
          Handler,     \* requests in flight at once
          Sweeper,     \* the scheduler's handler
          System       \* the actor of a swept transition

VARIABLES account,   \* users.status
          listing,   \* listings.status
          booking,   \* bookings.status, "NONE" before there is a row
          call       \* what each handler is about to write

vars == <<account, listing, booking, call>>

Owner(b) == OwnerOf[ListingOf[b]]
Party(b) == {Owner(b), RenterOf[b]}
Open(b) == booking[b] \notin TerminalStates \cup {"NONE"}
Active(u) == account[u] = "ACTIVE"
RoleIn(b, u) == IF u = System THEN "system" ELSE IF u = RenterOf[b] THEN "renter" ELSE "owner"

Idle == [at |-> "idle"]
Do(h, what) == call[h] = Idle /\ call' = [call EXCEPT ![h] = what]
Done(h) == call' = [call EXCEPT ![h] = Idle]

Init ==
    /\ account = [u \in User |-> "ACTIVE"]
    /\ listing \in [Listing -> {"DRAFT", "PUBLISHED"}]
    /\ booking = [b \in Booking |-> "NONE"]
    /\ call = [h \in Handler \cup {Sweeper} |-> Idle]

-----------------------------------------------------------------------------
(* requestBooking: the listing is read with its owner's status; the dates  *)
(* and the price are worked out; then the row is inserted.                 *)
RequestBooking(h, b) ==
    /\ booking[b] = "NONE"
    /\ \A g \in Handler : call[g] # [at |-> "insert", on |-> b]
    /\ Active(RenterOf[b]) /\ Active(Owner(b)) /\ listing[ListingOf[b]] = "PUBLISHED"
    /\ Do(h, [at |-> "insert", on |-> b])
    /\ UNCHANGED <<account, listing, booking>>
InsertBooking(h) ==
    /\ call[h].at = "insert"
    /\ booking' = [booking EXCEPT ![call[h].on] = "REQUESTED"]
    /\ Done(h)
    /\ UNCHANGED <<account, listing>>

(* actOnBooking, by a party or by the sweep for a party silent too long. *)
ActOnBooking(h, b, u, action) ==
    /\ Open(b)
    /\ CheckTransition(action, booking[b], RoleIn(b, u))
    /\ Do(h, [at |-> "transition", on |-> b, from |-> booking[b], to |-> BookingActions[action].to])
    /\ UNCHANGED <<account, listing, booking>>
UpdateBookingStatus(h) ==
    /\ call[h].at = "transition"
    /\ booking' = IF booking[call[h].on] = call[h].from
                  THEN [booking EXCEPT ![call[h].on] = call[h].to] ELSE booking
    /\ Done(h)
    /\ UNCHANGED <<account, listing>>

(* publishListing and unpublishListing: the update asks for the id alone. *)
ChangeVisibility(h, l, to) ==
    /\ Active(OwnerOf[l])
    /\ to = "PUBLISHED" => listing[l] # "PUBLISHED"
    /\ Do(h, [at |-> "visibility", on |-> l, to |-> to])
    /\ UNCHANGED <<account, listing, booking>>
UpdateListingStatus(h) ==
    /\ call[h].at = "visibility"
    /\ listing' = [listing EXCEPT ![call[h].on] = call[h].to]
    /\ Done(h)
    /\ UNCHANGED <<account, booking>>

-----------------------------------------------------------------------------
(* deleteOwnAccount: look for open bookings, then delete and unpublish in  *)
(* one transaction that does not look again.                               *)
FindOpenBookings(h, u) ==
    /\ Active(u)
    /\ \A b \in Booking : u \in Party(b) => ~Open(b)
    /\ Do(h, [at |-> "delete", on |-> u])
    /\ UNCHANGED <<account, listing, booking>>
(* Mutant: gives the listings the account's own status. *)
DeleteListingsToo(h) ==
    /\ call[h].at = "delete"
    /\ account' = [account EXCEPT ![call[h].on] = "DELETED"]
    /\ listing' = [l \in Listing |-> IF OwnerOf[l] = call[h].on THEN "DELETED" ELSE listing[l]]
    /\ Done(h)
    /\ UNCHANGED booking
DeleteOwnAccount(h) ==
    /\ call[h].at = "delete"
    /\ account' = [account EXCEPT ![call[h].on] = "DELETED"]
    /\ listing' = [l \in Listing |-> IF OwnerOf[l] = call[h].on /\ listing[l] = "PUBLISHED"
                                     THEN "UNPUBLISHED" ELSE listing[l]]
    /\ Done(h)
    /\ UNCHANGED booking

Serve(h) ==
    \/ \E b \in Booking : RequestBooking(h, b)
    \/ InsertBooking(h)
    \/ \E b \in Booking, action \in ActionNames :
         \E u \in {v \in Party(b) : Active(v)} : ActOnBooking(h, b, u, action)
    \/ UpdateBookingStatus(h)
    \/ \E l \in Listing, to \in {"PUBLISHED", "UNPUBLISHED"} : ChangeVisibility(h, l, to)
    \/ UpdateListingStatus(h)
    \/ \E u \in User : FindOpenBookings(h, u)
    \/ DeleteOwnAccount(h)
(* A request that dies or loses its connection leaves its write undone. *)
Abandon(h) == call[h] # Idle /\ Done(h) /\ UNCHANGED <<account, listing, booking>>
(* Mutant: a sweep that no longer looks for unanswered requests. *)
SweepConfirmationsOnly(b) ==
    \E phase \in SweepPhases \ {"requests"} : ActOnBooking(Sweeper, b, System, SweptAction[phase])
Sweep(b) ==
    \E phase \in SweepPhases : ActOnBooking(Sweeper, b, System, SweptAction[phase])
SweepStep == (\E b \in Booking : Sweep(b)) \/ UpdateBookingStatus(Sweeper)

Next == (\E h \in Handler : Serve(h) \/ Abandon(h)) \/ SweepStep

Spec == Init /\ [][Next]_vars
(* The scheduler ticks as long as the process runs, and gets to every row  *)
(* its query finds.                                                        *)
FairSpec == Spec /\ \A b \in Booking : WF_vars(Sweep(b) \/ UpdateBookingStatus(Sweeper))

-----------------------------------------------------------------------------
(* Every variable has the shape its table or handler gives it. *)
TypeOK ==
    /\ account \in [User -> {"ACTIVE", "DELETED"}]
    /\ listing \in [Listing -> {"DRAFT", "PUBLISHED", "UNPUBLISHED"}]
    /\ booking \in [Booking -> BookingStates \cup {"NONE"}]
    /\ \A h \in Handler \cup {Sweeper} :
         call[h] \in {Idle} \cup [at : {"insert"}, on : Booking]
                \cup [at : {"transition"}, on : Booking, from : BookingStates, to : BookingStates]
                \cup [at : {"visibility"}, on : Listing, to : {"PUBLISHED", "UNPUBLISHED"}]
                \cup [at : {"delete"}, on : User]

(* A booking that outlives its owner's account, however far the race took  *)
(* it, never traps the renter: somebody other than the owner can still     *)
(* move it.                                                                *)
RenterHasAWayOut ==
    \A b \in Booking : Open(b) /\ ~Active(Owner(b)) =>
        \E action \in ActionNames, role \in {"renter", "system"} :
            CheckTransition(action, booking[b], role)

(* FR-508 for a request nobody is left to answer: it does not stay.        *)
UnansweredRequestsLapse ==
    \A b \in Booking :
        booking[b] = "REQUESTED" /\ ~Active(Owner(b)) ~> booking[b] # "REQUESTED"

(* profileService.js says deletion is reached only with nothing open, so   *)
(* that unpublishing can never strand a rental.                            *)
ClosedAccountsOweNothing ==
    \A b \in Booking : Open(b) => \A u \in Party(b) : Active(u)

=============================================================================

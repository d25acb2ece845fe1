-------------------------- MODULE BookingsInvariant -------------------------
(***************************************************************************)
(* The inductive invariant behind the safety properties of Bookings: what  *)
(* a handler in flight still knows about the row it read, and what the     *)
(* running sweep still knows about the rows it listed.                     *)
(***************************************************************************)
EXTENDS Bookings

\* A request whose row is not inserted yet, and a transition not committed yet.
Requesting(h) == call[h].pc \in {"asked", "datesChecked", "cleared"} /\ call[h].action = "REQUEST"
Acting(h) == call[h].pc \in {"loaded", "cleared"} /\ call[h].action # "REQUEST"

\* An idle handler remembers nothing; one in flight has read a booking, and is
\* only ever at the awaits of its own action.
WellShaped(k) ==
  /\ k.pc = "idle" => k = Idle
  /\ k.pc # "idle" => /\ k.booking \in BookingIds
                      /\ k.actor \in Actors
                      /\ k.action \in ActionNames \cup {"REQUEST"}
                      /\ k.seen \in BookingStates \cup {"NONE"}
  /\ k.pc \in {"asked", "datesChecked"} => k.action = "REQUEST"
  /\ k.pc = "loaded" => k.action # "REQUEST"
  /\ k.pc = "line" => k.action \in SystemLines
  /\ k.pc \in {"invite", "inviteRenter"} => k.action = "COMPLETE"

CallShape == \A h \in Handlers : WellShaped(call[h])

\* A request in flight is the renter's, for a row of its own that is not there yet.
RequestsOwnTheirRow ==
  /\ \A h \in Handlers : Requesting(h) =>
        h \in Calls /\ call[h].actor = RenterOf[call[h].booking] /\ status[call[h].booking] = "NONE"
  /\ \A c, d \in Handlers :
        Requesting(c) /\ Requesting(d) /\ call[c].booking = call[d].booking => c = d

\* A transition in flight was legal for its actor from the status that was
\* read, and the row can only have moved on since.
ActsWereLegal ==
  \A h \in Handlers : Acting(h) =>
     /\ CheckTransition(call[h].action, call[h].seen, RoleIn(call[h].booking, call[h].actor))
     /\ Rank[status[call[h].booking]] >= Rank[call[h].seen]

\* The null actor is the sweep's, and the booking it is about to move has waited
\* unless somebody has moved it since.
SweeperHasWaited ==
  \A h \in Handlers :
     Acting(h) /\ call[h].actor = System /\ status[call[h].booking] = call[h].seen
       => call[h].booking \in waited

\* The same of every booking still on the sweep's list.
ListHasWaited ==
  \A b \in sweep.due :
     /\ sweep.phase # "off"
     /\ Rank[status[b]] >= Rank[SweptStatus[sweep.phase]]
     /\ status[b] = SweptStatus[sweep.phase] => b \in waited

\* What a handler goes on to tell is in the trail.
TellersHaveCommitted ==
  \A h \in Handlers : call[h].pc \in {"committed", "line", "invite", "inviteRenter"} =>
     Recorded(call[h].booking, call[h].action)

\* The inductive invariant: the types, and what handlers, requests and the sweep
\* know in the middle of their work is still true of the rows.
IInv ==
  /\ TypeOK
  /\ CallShape
  /\ RequestsOwnTheirRow
  /\ ActsWereLegal
  /\ SweeperHasWaited
  /\ ListHasWaited
  /\ TellersHaveCommitted
=============================================================================

------------------------------ MODULE Pricing ------------------------------
(***************************************************************************)
(* From the price a renter is shown to the price that is booked: the       *)
(* request page (BookingRequestPage.jsx) asks for a new quote whenever the *)
(* dates change, and requestBooking quotes again from the listing row it   *)
(* reads; nothing carries the price from one to the other.  What a pair of *)
(* dates and a rate card costs is Quote's subject: here the pair itself    *)
(* stands for the price.  A rate card is numbered by the owner's edits.    *)
(***************************************************************************)
EXTENDS Integers, FiniteSets

CONSTANTS
  Dates,        \* choices of dates
  Blank,        \* a date field that is empty
  Barred,       \* pairs of dates and card outside the card's minimum or maximum
  NoCard,       \* not read yet, or the quote failed
  MaxEdits,     \* bound: edits of the listing by its owner
  MaxAsked      \* bound: quotes on their way at once

VARIABLES
  card,         \* the listing's rates and limits
  dates,        \* the form's dates
  quote,        \* what the page shows
  asked,        \* quotes on their way, the effect that asked still current or not
  request,      \* the POST, with what the page showed when it was sent
  booking       \* what the row says was charged for

vars == <<card, dates, quote, asked, request, booking>>

Quoted == [status : {"idle", "ready", "failed"}, dates : Dates \cup {Blank}, card : 0..MaxEdits \cup {NoCard}]
NoQuote(status) == [status |-> status, dates |-> Blank, card |-> NoCard]
Priced(d, c) == [status |-> "ready", dates |-> d, card |-> c]
Asking(d) == [dates |-> d, card |-> NoCard, active |-> TRUE]
NoRequest == [stage |-> "none", dates |-> Blank, card |-> NoCard, shown |-> NoQuote("idle"), awaited |-> FALSE]
NoBooking == NoQuote("idle")

Init ==
  /\ card = 0
  /\ dates \in Dates
  /\ quote = NoQuote("idle")
  /\ asked = {Asking(dates)}
  /\ request = NoRequest
  /\ booking = NoBooking

\* The clean-up of an effect: its answers are no longer for this page.
\* Mutant: an effect that leaves its question current.
StillCurrent == asked
Superseded == {[a EXCEPT !.active = FALSE] : a \in asked}

\* A date field changes; the last quote stays on the page until the next one.
ChangeDates(d) ==
  /\ d # dates /\ Cardinality(asked) < MaxAsked
  /\ dates' = d
  /\ asked' = Superseded \cup (IF d = Blank THEN {} ELSE {Asking(d)})
  /\ UNCHANGED <<card, quote, request, booking>>

QuoteListing(a) ==
  /\ a.card = NoCard
  /\ asked' = (asked \ {a}) \cup {[a EXCEPT !.card = card]}
  /\ UNCHANGED <<card, dates, quote, request, booking>>

\* The answer arrives, in any order.
Answered(a) ==
  /\ a.card # NoCard
  /\ quote' = IF a.active THEN Priced(a.dates, a.card) ELSE quote
  /\ asked' = asked \ {a}
  /\ UNCHANGED <<card, dates, request, booking>>

Failed(a) ==
  /\ quote' = IF a.active THEN NoQuote("failed") ELSE quote
  /\ asked' = asked \ {a}
  /\ UNCHANGED <<card, dates, request, booking>>

Blocked == quote.status # "ready" \/ <<quote.dates, quote.card>> \in Barred

HandleSubmit ==
  /\ ~Blocked /\ dates # Blank /\ request.stage = "none" /\ booking = NoBooking
  /\ request' = [stage |-> "sent", dates |-> dates, card |-> NoCard, shown |-> quote,
                 awaited |-> \E a \in asked : a.active /\ a.dates = dates]
  /\ UNCHANGED <<card, dates, quote, asked, booking>>

FindListing ==
  /\ request.stage = "sent"
  /\ request' = [request EXCEPT !.stage = "read", !.card = card]
  /\ UNCHANGED <<card, dates, quote, asked, booking>>

\* Quoted again from the row just read.
RequestBooking ==
  /\ request.stage = "read" /\ <<request.dates, request.card>> \notin Barred
  /\ booking' = Priced(request.dates, request.card)
  /\ request' = [request EXCEPT !.stage = "done"]
  /\ UNCHANGED <<card, dates, quote, asked>>

\* Outside the limits, or for a reason this module leaves out: the dates are
\* taken, the notice is too short, the listing is gone.  The form comes back.
Refused ==
  /\ request.stage = "read"
  /\ request' = NoRequest
  /\ UNCHANGED <<card, dates, quote, asked, booking>>

EditListing ==
  /\ card < MaxEdits
  /\ card' = card + 1
  /\ UNCHANGED <<dates, quote, asked, request, booking>>

Next ==
  \/ \E d \in Dates \cup {Blank} : ChangeDates(d)
  \/ \E a \in asked : QuoteListing(a) \/ Answered(a) \/ Failed(a)
  \/ HandleSubmit \/ FindListing \/ RequestBooking \/ Refused \/ EditListing

Spec == Init /\ [][Next]_vars
-----------------------------------------------------------------------------
TypeOK ==
  /\ card \in 0..MaxEdits
  /\ dates \in Dates \cup {Blank}
  /\ quote \in Quoted
  /\ asked \subseteq [dates : Dates, card : 0..MaxEdits \cup {NoCard}, active : BOOLEAN]
  /\ Cardinality(asked) <= MaxAsked
  /\ request \in [stage : {"none", "sent", "read", "done"}, dates : Dates \cup {Blank},
                  card : 0..MaxEdits \cup {NoCard}, shown : Quoted, awaited : BOOLEAN]
  /\ booking \in Quoted

\* A renter pays for other dates than the price on the page was for only when
\* the button was pressed while the price for the new dates was on its way,
\* and at other rates only when the owner has edited them since: an answer
\* that comes late or out of order never leaves an old price beside new dates
\* (the `active` guard of BookingRequestPage's quote effect, requestBooking).
PricedForTheDates ==
  booking # NoBooking =>
    /\ request.shown.dates = booking.dates \/ request.awaited
    /\ request.shown.card <= booking.card
=============================================================================

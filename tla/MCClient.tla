------------------------------ MODULE MCClient ------------------------------
(***************************************************************************)
(* Small instances of the models of the browser's pages and of what they   *)
(* ask of the server, side by side: the session of a tab, looking for a    *)
(* listing, the form of a listing, the price of a request, and the page of *)
(* a booking.  They share no state: a behaviour moves one of them, the one *)
(* it picks at the start.                                                  *)
(***************************************************************************)
EXTENDS BookingPage, Sequences

CONSTANTS Users, Nobody, MaxEdits, MaxPending,           \* of Session
          City, Rate, Mine, Prices, Unset, PageSize, MaxQuestions, MaxChanges,  \* of Browse
          None, MaxPhotos, MaxChecklists, MaxAtOnce, MaxElsewhere,  \* of ListingForm
          Dates, d1, d2, Blank, Barred, NoCard, MaxQuotes  \* of Pricing

\* Four listings of two places, one without the price asked about, one the visitor's.
FourPlaces == <<"pune", "goa", "pune", "pune">>
FourRates == <<3, 9, Unset, 4>>

\* The second dates are shorter than the first card allows.
TooShort == {<<d2, 0>>}

VARIABLES
  part,                                                                     \* the model that moves
  cookie, details, user, loading, pending, socket, behind, inherited,       \* Session's
  shelf, url, box, view, questions, changes, strayed,                       \* Browse's
  row, verified, form, shown, readiness, saving, photoBusy, getting, checklists, elsewhere,
  unsure,                                                                   \* ListingForm's
  card, dates, quote, quotes, request, booking                              \* Pricing's

session == <<cookie, details, user, loading, pending, socket, behind, inherited>>
browse == <<shelf, url, box, view, questions, changes, strayed>>
listing == <<row, verified, form, shown, readiness, saving, photoBusy, getting, checklists, elsewhere, unsure>>
pricing == <<card, dates, quote, quotes, request, booking>>
detail == vars
everything == <<part, session, browse, listing, pricing, detail>>

S == INSTANCE Session
B == INSTANCE Browse WITH asked <- questions, MaxAsked <- MaxQuestions
F == INSTANCE ListingForm WITH asked <- checklists, loading <- getting, behind <- unsure, MaxAsked <- MaxChecklists
P == INSTANCE Pricing WITH asked <- quotes, MaxAsked <- MaxQuotes

\* The bounds are bounds, and what stands for nothing is nothing else.
ASSUME ClientAssumption ==
  /\ {MaxEdits, MaxPending, MaxQuestions, MaxChanges, MaxChecklists, MaxAtOnce, MaxElsewhere, Batch} \subseteq Nat
  /\ {PageSize, MaxPhotos, MaxQuotes} \subseteq Nat \ {0}
  /\ Users \intersect {Nobody, "none", "refused"} = {}
  /\ None \notin F!Listing
  /\ Len(City) \in Nat \ {0}

\* A part that does not move starts in one state, so that it is not counted again.
AllInit ==
  /\ part \in {"session", "browse", "listing", "pricing", "detail"}
  /\ S!Init /\ B!Init /\ F!Init /\ P!Init /\ Init
  /\ part # "session" => cookie = Nobody
  /\ part # "browse" => shelf = {} /\ url = B!NoFilters
  /\ part # "listing" => row = None /\ verified = FALSE
  /\ part # "pricing" => dates = d1
  /\ part # "detail" => me = "owner" /\ status = "REQUESTED"

AllNext ==
  /\ UNCHANGED part
  /\ \/ part = "session" /\ S!Next /\ UNCHANGED <<browse, listing, pricing, detail>>
     \/ part = "browse" /\ B!Next /\ UNCHANGED <<session, listing, pricing, detail>>
     \/ part = "listing" /\ F!Next /\ UNCHANGED <<session, browse, pricing, detail>>
     \/ part = "pricing" /\ P!Next /\ UNCHANGED <<session, browse, listing, detail>>
     \/ part = "detail" /\ Next /\ UNCHANGED <<session, browse, listing, pricing>>

AllSpec == AllInit /\ [][AllNext]_everything

\* Of the part that moves; the others stand in their initial states.
AllTypesOK ==
  /\ part = "session" => S!TypeOK
  /\ part = "browse" => B!TypeOK
  /\ part = "listing" => F!TypeOK
  /\ part = "pricing" => P!TypeOK
  /\ part = "detail" => TypeOK
OneUserAtATime == S!OneUserAtATime
ResultsTellTheTruth == B!ResultsTellTheTruth
QuietFormIsTrue == F!QuietFormIsTrue
PricedForTheDates == P!PricedForTheDates
=============================================================================

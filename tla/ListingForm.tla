---------------------------- MODULE ListingForm ----------------------------
(***************************************************************************)
(* An owner at the form of a listing (ListingFormPage.jsx): create, then   *)
(* edit on the same page; save, publish or hide; photos, which have a busy *)
(* flag of their own; and the checklist, asked for after whatever could    *)
(* have changed it.  What is typed is either enough to publish with (a     *)
(* price, a place) or not.  A request runs in two statements, of which the *)
(* last reads the photos; how a photo is stored is Listings' subject.      *)
(***************************************************************************)
EXTENDS Integers, FiniteSets

CONSTANTS
  None,         \* nothing created, shown, sent or known yet
  MaxPhotos,    \* the most photos a listing has
  MaxAsked,     \* bound: checklists on their way at once
  MaxAtOnce,    \* bound: other requests of the page on their way at once
  MaxElsewhere  \* bound: changes made in another tab or by a link in a letter

VARIABLES
  row,          \* the listing's row and its photos
  verified,     \* the owner's address is confirmed
  form,         \* what is typed is enough to publish with
  shown,        \* setListing's value
  readiness,    \* what the checklist last said: may it be published
  saving,       \* the request that disables the form and the publish button
  photoBusy,    \* the request that disables the photo manager
  loading,      \* the page's own GET
  asked,        \* checklists on their way, awaited by `saving` or not
  elsewhere,    \* how often something changed elsewhere
  behind        \* why the page may be wrong

vars == <<row, verified, form, shown, readiness, saving, photoBusy, loading, asked, elsewhere, behind>>
requests == <<saving, photoBusy, loading>>

Listing == [enough : BOOLEAN, live : BOOLEAN, photos : 0..MaxPhotos]
Kinds == {"none", "create", "save", "publish", "unpublish", "checklist", "add", "remove", "get", "reread"}
Request == [kind : Kinds, at : {"sent", "half", "answered"}, enough : BOOLEAN, listing : Listing \cup {None}]
Idle == [kind |-> "none", at |-> "sent", enough |-> FALSE, listing |-> None]
Sent(kind) == [Idle EXCEPT !.kind = kind, !.enough = form /\ kind \in {"create", "save"}]

\* publishBlockers: an address confirmed, a photo, a price and a place.
CanPublish(l) == verified /\ l.photos > 0 /\ l.enough

Quiet == saving = Idle /\ photoBusy = Idle /\ loading = Idle /\ asked = {}
Room == Cardinality({r \in {saving, photoBusy, loading} : r # Idle}) < MaxAtOnce
\* Answers of requests that overlap may be applied in either order.
Overlap == behind' = IF Quiet THEN behind ELSE behind \cup {"overlapped"}

Init ==
  /\ row \in {None, [enough |-> FALSE, live |-> FALSE, photos |-> 0], [enough |-> TRUE, live |-> TRUE, photos |-> 1]}
  /\ verified \in BOOLEAN
  /\ form = FALSE /\ shown = None /\ readiness = None
  /\ saving = Idle /\ photoBusy = Idle
  /\ loading = IF row = None THEN Idle ELSE Sent("get")
  /\ asked = {} /\ elsewhere = 0 /\ behind = {}

\* The fields are never disabled, only hidden while a page that opens on a
\* listing waits for its GET; after a creation they stay.
FormShown == loading.kind # "get"
Type ==
  /\ FormShown /\ form' = ~form
  /\ UNCHANGED <<row, verified, shown, readiness, requests, asked, elsewhere, behind>>

\* Creating is offered until the page is the edit page of what was created.
HandleSubmit ==
  /\ FormShown /\ saving = Idle /\ Room
  /\ saving' = Sent(IF row = None THEN "create" ELSE "save")
  /\ Overlap
  /\ UNCHANGED <<row, verified, form, shown, readiness, photoBusy, loading, asked, elsewhere>>

Disabled == ~shown.live /\ readiness = FALSE
HandlePublishToggle ==
  /\ shown # None /\ saving = Idle /\ ~Disabled /\ Room
  /\ saving' = Sent(IF shown.live THEN "unpublish" ELSE "publish")
  /\ Overlap
  /\ UNCHANGED <<row, verified, form, shown, readiness, photoBusy, loading, asked, elsewhere>>

\* The order of the photos is left out: it changes neither what is counted nor shown here.
PhotoManager ==
  /\ shown # None /\ photoBusy = Idle /\ Room
  /\ \/ shown.photos < MaxPhotos /\ photoBusy' = Sent("add")
     \/ shown.photos > 0 /\ photoBusy' = Sent("remove")
  /\ Overlap
  /\ UNCHANGED <<row, verified, form, shown, readiness, saving, loading, asked, elsewhere>>

\* The statement that matters, with the row it returns, and whether it is refused.
Effect(r) ==
  CASE r.kind = "create" -> [enough |-> r.enough, live |-> FALSE, photos |-> 0]
    [] r.kind = "save" -> [row EXCEPT !.enough = r.enough]
    [] r.kind = "add" -> [row EXCEPT !.photos = IF @ < MaxPhotos THEN @ + 1 ELSE @]
    [] r.kind = "remove" -> [row EXCEPT !.photos = IF @ > 0 THEN @ - 1 ELSE @]
    [] OTHER -> row
Refused(r) == r.kind = "publish" /\ ~row.live /\ ~CanPublish(row)

First(r) ==
  /\ r.at = "sent" /\ r.kind \notin {"none", "checklist"} /\ ~Refused(r)
  /\ row' = Effect(r)

Started(r) == [r EXCEPT !.at = "half", !.enough = FALSE, !.listing = row']

\* Publishing checked in the statement before; now it writes, then reads the photos.
Second(r) ==
  /\ r.at = "half"
  /\ row' = [row EXCEPT !.live = IF r.kind \in {"publish", "unpublish"} THEN r.kind = "publish" ELSE @]

Done(r) == [r EXCEPT !.at = "answered",
                     !.listing = IF r.kind \in {"save", "get", "reread"} THEN [r.listing EXCEPT !.photos = row.photos] ELSE row']

ServeSaving ==
  /\ \/ First(saving) /\ saving' = Started(saving)
     \/ Second(saving) /\ saving' = Done(saving)
  /\ UNCHANGED <<verified, form, shown, readiness, photoBusy, loading, asked, elsewhere, behind>>
ServePhoto ==
  /\ \/ First(photoBusy) /\ photoBusy' = Started(photoBusy)
     \/ Second(photoBusy) /\ photoBusy' = Done(photoBusy)
  /\ UNCHANGED <<verified, form, shown, readiness, saving, loading, asked, elsewhere, behind>>
ServeLoad ==
  /\ \/ First(loading) /\ loading' = Started(loading)
     \/ Second(loading) /\ loading' = Done(loading)
  /\ UNCHANGED <<verified, form, shown, readiness, saving, photoBusy, asked, elsewhere, behind>>

\* refreshReadiness, by a handler that awaits it, by one that does not, or by both.
RefreshReadiness(awaited) ==
  /\ Cardinality(asked) + Cardinality(awaited) <= MaxAsked
  /\ asked' = asked \cup {[may |-> None, awaited |-> w] : w \in awaited}

\* Created: the same page becomes the edit page and reads the listing.
CreateArrives ==
  /\ saving.kind = "create" /\ saving.at = "answered"
  /\ saving' = Idle /\ loading' = Sent("reread")
  /\ UNCHANGED <<row, verified, form, shown, readiness, photoBusy, asked, elsewhere, behind>>

\* A listing shown for the first time has its checklist asked for once more.
SaveArrives ==
  /\ saving.kind = "save" /\ saving.at = "answered"
  /\ shown' = saving.listing
  /\ saving' = Sent("checklist")
  /\ RefreshReadiness(IF shown = None THEN {TRUE, FALSE} ELSE {TRUE})
  /\ behind' = IF asked = {} /\ shown # None THEN behind ELSE behind \cup {"overlapped"}
  /\ UNCHANGED <<row, verified, form, readiness, photoBusy, loading, elsewhere>>

ToggleArrives ==
  /\ saving.kind \in {"publish", "unpublish"} /\ saving.at = "answered"
  /\ shown' = saving.listing /\ saving' = Idle
  /\ UNCHANGED <<row, verified, form, readiness, photoBusy, loading, asked, elsewhere, behind>>

\* Refused, or the answer lost; only the publish button asks again.  A draft
\* whose answer is lost stays behind: the page is still the one that creates.
SavingFails ==
  /\ saving.kind \notin {"none", "checklist"}
  /\ \/ saving.kind \in {"publish", "unpublish"} /\ saving' = Sent("checklist") /\ RefreshReadiness({TRUE})
     \/ saving.kind \in {"create", "save"} /\ saving' = Idle /\ UNCHANGED asked
  /\ behind' = behind \cup (IF saving.at = "sent" THEN {} ELSE {"lost"}) \cup (IF asked = {} THEN {} ELSE {"overlapped"})
  /\ row' = IF saving.kind = "create" THEN None ELSE row
  /\ UNCHANGED <<verified, form, shown, readiness, photoBusy, loading, elsewhere>>

\* Mutant: a changed photo does not ask for the checklist again.
PhotoArrivesQuietly ==
  /\ photoBusy.at = "answered"
  /\ shown' = photoBusy.listing
  /\ photoBusy' = Idle
  /\ UNCHANGED <<row, verified, form, readiness, saving, loading, asked, elsewhere, behind>>
PhotoArrives ==
  /\ photoBusy.at = "answered"
  /\ shown' = photoBusy.listing
  /\ photoBusy' = Idle /\ RefreshReadiness({FALSE})
  /\ behind' = IF asked = {} THEN behind ELSE behind \cup {"overlapped"}
  /\ UNCHANGED <<row, verified, form, readiness, saving, loading, elsewhere>>

PhotoFails ==
  /\ photoBusy # Idle
  /\ photoBusy' = Idle
  /\ behind' = behind \cup (IF photoBusy.at = "sent" THEN {} ELSE {"lost"})
  /\ UNCHANGED <<row, verified, form, shown, readiness, saving, loading, asked, elsewhere>>

\* What was typed meanwhile is replaced by the row; a first listing asks for its checklist.
LoadArrives ==
  /\ loading.at = "answered"
  /\ form' = loading.listing.enough /\ shown' = loading.listing /\ loading' = Idle
  /\ IF shown = None THEN RefreshReadiness({FALSE}) ELSE UNCHANGED asked
  /\ UNCHANGED <<row, verified, readiness, saving, photoBusy, elsewhere, behind>>

LoadFails ==
  /\ loading # Idle
  /\ loading' = Idle /\ behind' = behind \cup {"lost"}
  /\ UNCHANGED <<row, verified, form, shown, readiness, saving, photoBusy, asked, elsewhere>>

GetPublishReadiness(a) ==
  /\ a.may = None
  /\ asked' = (asked \ {a}) \cup {[a EXCEPT !.may = CanPublish(row)]}
  /\ UNCHANGED <<row, verified, form, shown, readiness, requests, elsewhere, behind>>

\* The page knows better again when its last answer says how things are.
Settled == IF Quiet' /\ shown = row /\ readiness' = CanPublish(row) THEN {} ELSE behind

ReadinessArrives(a) ==
  /\ a.may # None
  /\ readiness' = a.may /\ asked' = asked \ {a}
  /\ saving' = IF a.awaited THEN Idle ELSE saving
  /\ UNCHANGED <<row, verified, form, shown, photoBusy, loading, elsewhere>>
  /\ behind' = Settled

ReadinessFails(a) ==
  /\ asked' = asked \ {a}
  /\ saving' = IF a.awaited THEN Idle ELSE saving
  /\ behind' = behind \cup {"lost"}
  /\ UNCHANGED <<row, verified, form, shown, readiness, photoBusy, loading, elsewhere>>

\* Another tab of the owner's, or the link in the verification letter.
Elsewhere ==
  /\ elsewhere < MaxElsewhere /\ shown # None
  /\ elsewhere' = elsewhere + 1
  /\ \/ ~verified /\ verified' = TRUE /\ UNCHANGED row
     \/ row' \in {[row EXCEPT !.live = FALSE], [row EXCEPT !.photos = 0]} \ {row}
        /\ UNCHANGED verified
  /\ behind' = behind \cup {"elsewhere"}
  /\ UNCHANGED <<form, shown, readiness, requests, asked>>

Next ==
  \/ Type \/ HandleSubmit \/ HandlePublishToggle \/ PhotoManager
  \/ ServeSaving \/ ServePhoto \/ ServeLoad
  \/ CreateArrives \/ SaveArrives \/ ToggleArrives \/ SavingFails
  \/ PhotoArrives \/ PhotoFails \/ LoadArrives \/ LoadFails
  \/ \E a \in asked : GetPublishReadiness(a) \/ ReadinessArrives(a) \/ ReadinessFails(a)
  \/ Elsewhere

Spec == Init /\ [][Next]_vars
-----------------------------------------------------------------------------
TypeOK ==
  /\ row \in Listing \cup {None} /\ verified \in BOOLEAN /\ form \in BOOLEAN
  /\ shown \in Listing \cup {None} /\ readiness \in BOOLEAN \cup {None}
  /\ saving \in Request /\ photoBusy \in Request /\ loading \in Request
  /\ asked \subseteq [may : BOOLEAN \cup {None}, awaited : BOOLEAN]
  /\ elsewhere \in 0..MaxElsewhere
  /\ behind \subseteq {"overlapped", "lost", "elsewhere"}

\* With nothing on its way the page shows the listing as it is and offers to
\* publish exactly what the server would publish, unless two requests
\* overlapped, an answer was lost or something changed elsewhere since it was
\* last right (handleSubmit, handlePublishToggle, PhotoManager, refreshReadiness).
QuietFormIsTrue ==
  Quiet /\ behind = {} /\ shown # None =>
    shown = row /\ readiness \in {None, CanPublish(row)}

\* "Disabled only when we KNOW it would fail" (PublishPanel): an older
\* checklist, or one from before the address was confirmed, disables it too.
DisabledOnlyIfItWouldFail == shown # None /\ saving = Idle /\ Disabled => ~CanPublish(row)
=============================================================================

---------------------------- MODULE BookingPage ----------------------------
(***************************************************************************)
(* One party's booking page (BookingDetailPage.jsx, ConditionPhotos.jsx)   *)
(* and what it calls: the actions it offers, and the condition photos of a *)
(* handover and a return, whose handler (addBookingPhotos) checks the      *)
(* status once and then stores a batch of private images, one upload after *)
(* the other, before it records them.  Two phases may be uploading while   *)
(* an action is on its way, and each that succeeds loads the page again;   *)
(* the answers come back in any order.                                     *)
(***************************************************************************)
EXTENDS Integers, FiniteSets, BookingRules

CONSTANTS
  Batch,        \* photos chosen in one upload
  NotRead,      \* a request of a load that the server has not answered
  MaxLoads      \* bound: loads of the page on their way at once

VARIABLES
  me,           \* the reader's side of the booking
  status,       \* bookings.status
  rows,         \* booking_photos
  images,       \* what the image store holds
  page,         \* what the page shows
  loads,        \* loads of the page on their way
  acting,       \* the action on its way
  upload,       \* one upload in each phase
  astray,       \* images whose upload failed past the clean-up or lost its answer, or
                \* whose clean-up failed
  excuse        \* why the page may be behind: see QuietPageIsCurrent

vars == <<me, status, rows, images, page, loads, acting, upload, astray, excuse>>

Phases == {"HANDOVER", "RETURN"}
PhotoPhases == [HANDOVER |-> {"ACCEPTED", "HANDED_OVER", "ACTIVE"},
                RETURN   |-> {"ACTIVE", "HANDED_OVER", "RETURNED"}]
Image == Phases \X (1..Batch)
Shown == [status : {"loading", "ready", "failed"}, booking : BookingStates, photos : SUBSET Image]
NewLoad(by) == [by |-> by, booking |-> NotRead, photos |-> NotRead]

AvailableActions(s, role) == {a \in ActionNames : CheckTransition(a, s, role)}

Init ==
  /\ me \in {"owner", "renter"}
  /\ status \in {"REQUESTED", "HANDED_OVER"}
  /\ rows = {} /\ images = {}
  /\ page = [status |-> "loading", booking |-> status, photos |-> {}]
  /\ loads = {NewLoad("effect")}
  /\ acting = [stage |-> "none", action |-> "ACCEPT"]
  /\ upload = [p \in Phases |-> [stage |-> "none", kept |-> {}]]
  /\ astray = {} /\ excuse = {}

server == <<status, rows, images, astray>>

\* load(): two requests at once, answered on their own; photos that cannot be
\* had count as none.
Reload(by) ==
  /\ Cardinality(loads) < MaxLoads
  /\ loads' = loads \cup {NewLoad(by)}

Overlapping == IF loads = {} THEN excuse ELSE excuse \cup {"overlapped"}

GetBooking(l) ==
  /\ l.booking = NotRead
  /\ loads' = (loads \ {l}) \cup {[l EXCEPT !.booking = status]}
  /\ UNCHANGED <<me, server, page, acting, upload, excuse>>

ListBookingPhotos(l) ==
  /\ l.photos = NotRead
  /\ \E found \in {rows, {}} : loads' = (loads \ {l}) \cup {[l EXCEPT !.photos = found]}
  /\ UNCHANGED <<me, server, page, acting, upload, excuse>>

\* run() holds its buttons until its own load is over.
Released(l) == IF l.by = "run" THEN [acting EXCEPT !.stage = "none"] ELSE acting

Loaded(l) ==
  /\ l.booking # NotRead /\ l.photos # NotRead
  /\ page' = [status |-> "ready", booking |-> l.booking, photos |-> l.photos]
  /\ loads' = loads \ {l}
  /\ acting' = Released(l)
  /\ excuse' = IF loads' = {} /\ l.booking = status THEN {} ELSE excuse
  /\ UNCHANGED <<me, server, upload>>

LoadFails(l) ==
  /\ page' = [page EXCEPT !.status = "failed"]
  /\ loads' = loads \ {l}
  /\ acting' = Released(l)
  /\ UNCHANGED <<me, server, upload, excuse>>

\* A button the page shows: whatever was possible when it was loaded.
Run(a) ==
  /\ page.status = "ready" /\ acting.stage = "none"
  /\ a \in AvailableActions(page.booking, me)
  /\ acting' = [stage |-> "sent", action |-> a]
  /\ UNCHANGED <<me, server, page, loads, upload, excuse>>

ActOnBooking ==
  /\ acting.stage = "sent"
  /\ IF CheckTransition(acting.action, status, me)
     THEN /\ status' = BookingActions[acting.action].to
          /\ acting' = [acting EXCEPT !.stage = "done"]
     ELSE /\ acting' = [acting EXCEPT !.stage = "refused"]
          /\ UNCHANGED status
  /\ UNCHANGED <<me, rows, images, astray, page, loads, upload, excuse>>

\* A refused action leaves the page as it was; so does one whose answer is lost.
\* Mutant: an action that succeeded does not load the page again.
RunEndsAtOnce ==
  /\ acting.stage \in {"done", "refused"}
  /\ acting' = [acting EXCEPT !.stage = "none"]
  /\ UNCHANGED <<me, server, page, loads, upload, excuse>>
RunEnds ==
  \/ /\ acting.stage = "done"
     /\ Reload("run") /\ excuse' = Overlapping
     /\ acting' = [acting EXCEPT !.stage = "loading"]
     /\ UNCHANGED <<me, server, page, upload>>
  \/ /\ acting.stage = "refused"
     /\ acting' = [acting EXCEPT !.stage = "none"]
     /\ UNCHANGED <<me, server, page, loads, upload, excuse>>
  \/ /\ acting.stage = "done"
     /\ acting' = [acting EXCEPT !.stage = "none"] /\ excuse' = excuse \cup {"lost"}
     /\ UNCHANGED <<me, server, page, loads, upload>>

\* The other party, or the sweep.
OtherActs ==
  \E role \in Roles \ {me}, a \in ActionNames :
    /\ CheckTransition(a, status, role)
    /\ status' = BookingActions[a].to /\ excuse' = excuse \cup {"other"}
    /\ UNCHANGED <<me, rows, images, astray, page, loads, acting, upload>>

\* The photo panel: the phases the page believes to be open.
Upload(p) ==
  /\ page.status = "ready" /\ page.booking \in PhotoPhases[p]
  /\ upload[p].stage = "none"
  /\ upload' = [upload EXCEPT ![p].stage = "sent"]
  /\ UNCHANGED <<me, server, page, loads, acting, excuse>>

AddBookingPhotos(p) ==
  /\ upload[p].stage = "sent"
  /\ upload' = [upload EXCEPT ![p].stage = IF status \in PhotoPhases[p] THEN "storing" ELSE "failed"]
  /\ UNCHANGED <<me, server, page, loads, acting, excuse>>

\* Mutant: one image more than was chosen.
UploadOneMore(p) ==
  /\ upload[p].stage = "storing" /\ Cardinality(upload[p].kept) <= Batch
  /\ LET i == <<p, Cardinality(upload[p].kept) + 1>> IN
       /\ images' = images \cup {i}
       /\ upload' = [upload EXCEPT ![p].kept = @ \cup {i}]
  /\ UNCHANGED <<me, status, rows, astray, page, loads, acting, excuse>>
UploadPrivateAsset(p) ==
  /\ upload[p].stage = "storing" /\ Cardinality(upload[p].kept) < Batch
  /\ LET i == <<p, Cardinality(upload[p].kept) + 1>> IN
       /\ images' = images \cup {i}
       /\ upload' = [upload EXCEPT ![p].kept = @ \cup {i}]
  /\ UNCHANGED <<me, status, rows, astray, page, loads, acting, excuse>>

\* Mutant: the earlier images of the batch are forgotten.
UploadFailsOutright(p) ==
  /\ upload[p].stage = "storing" /\ Cardinality(upload[p].kept) < Batch
  /\ upload' = [upload EXCEPT ![p] = [stage |-> "failed", kept |-> {}]]
  /\ UNCHANGED <<me, server, page, loads, acting, excuse>>
\* It failed, or its answer was lost when the image had been stored.
UploadFails(p) ==
  /\ upload[p].stage = "storing" /\ Cardinality(upload[p].kept) < Batch
  /\ \/ UNCHANGED <<images, astray>>
     \/ LET i == <<p, Cardinality(upload[p].kept) + 1>> IN
          images' = images \cup {i} /\ astray' = astray \cup {i}
  /\ upload' = [upload EXCEPT ![p].stage = "cleaning"]
  /\ UNCHANGED <<me, status, rows, page, loads, acting, excuse>>

\* Best effort: a destroy that fails is logged.
DestroyPrivateAsset(p) ==
  /\ upload[p].stage = "cleaning"
  /\ IF upload[p].kept = {}
     THEN /\ upload' = [upload EXCEPT ![p].stage = "failed"]
          /\ UNCHANGED <<images, astray>>
     ELSE \E i \in upload[p].kept :
            /\ upload' = [upload EXCEPT ![p].kept = @ \ {i}]
            /\ \/ images' = images \ {i} /\ UNCHANGED astray
               \/ astray' = astray \cup {i} /\ UNCHANGED images
  /\ UNCHANGED <<me, status, rows, page, loads, acting, excuse>>

\* One statement; the status is not asked about again.
InsertBookingPhotos(p) ==
  /\ upload[p].stage = "storing" /\ Cardinality(upload[p].kept) = Batch
  /\ rows' = rows \cup upload[p].kept
  /\ upload' = [upload EXCEPT ![p] = [stage |-> "done", kept |-> {}]]
  /\ UNCHANGED <<me, status, images, astray, page, loads, acting, excuse>>

\* The insert fails, or the process dies at any point of the upload: nothing
\* cleans up after either.
Abandon(p) ==
  /\ upload[p].stage \in {"sent", "storing", "cleaning"}
  /\ astray' = astray \cup upload[p].kept
  /\ upload' = [upload EXCEPT ![p] = [stage |-> "failed", kept |-> {}]]
  /\ UNCHANGED <<me, status, rows, images, page, loads, acting, excuse>>

\* onAdded() is not awaited: the panel is free at once.
UploadEnds(p) ==
  \/ /\ upload[p].stage = "done"
     /\ Reload(p) /\ excuse' = Overlapping
     /\ upload' = [upload EXCEPT ![p].stage = "over"]
     /\ UNCHANGED <<me, server, page, acting>>
  \/ /\ upload[p].stage \in {"done", "failed"}
     /\ upload' = [upload EXCEPT ![p].stage = "over"]
     /\ UNCHANGED <<me, server, page, loads, acting, excuse>>

Next ==
  \/ \E l \in loads : GetBooking(l) \/ ListBookingPhotos(l) \/ Loaded(l) \/ LoadFails(l)
  \/ \E a \in ActionNames : Run(a)
  \/ ActOnBooking \/ RunEnds \/ OtherActs
  \/ \E p \in Phases : \/ Upload(p) \/ AddBookingPhotos(p)
                       \/ UploadPrivateAsset(p) \/ UploadFails(p) \/ DestroyPrivateAsset(p)
                       \/ InsertBookingPhotos(p) \/ Abandon(p) \/ UploadEnds(p)

Spec == Init /\ [][Next]_vars
-----------------------------------------------------------------------------
TypeOK ==
  /\ me \in {"owner", "renter"} /\ status \in BookingStates
  /\ rows \subseteq Image /\ images \subseteq Image /\ astray \subseteq Image
  /\ page \in Shown
  /\ loads \subseteq [by : {"effect", "run"} \cup Phases, booking : BookingStates \cup {NotRead},
                      photos : (SUBSET Image) \cup {NotRead}]
  /\ acting \in [stage : {"none", "sent", "done", "refused", "loading"}, action : ActionNames]
  /\ upload \in [Phases -> [stage : {"none", "sent", "storing", "cleaning", "done", "failed", "over"},
                            kept : SUBSET Image]]
  /\ excuse \subseteq {"other", "lost", "overlapped"}

\* No row ever points at an image the store does not hold, and an image no row
\* points at is part of an upload in progress, or was left by an insert, a
\* process or a destroy that failed or by an answer that was lost
\* (addBookingPhotos' clean-up covers what it knows to be stored).
PrivateImagesAccounted ==
  /\ rows \subseteq images
  /\ images \ rows \subseteq astray \cup UNION {upload[p].kept : p \in Phases}

\* Once everything the page asked for has come back it shows the booking as it
\* is, unless the other side has moved it, the answer to an action was lost, or
\* two loads of the page overlapped and the older one came last (load and run).
QuietPageIsCurrent ==
  loads = {} /\ acting.stage = "none" /\ page.status = "ready" /\ excuse = {} =>
    page.booking = status

\* "They close at COMPLETED.  After that the record is settled" (PHOTO_PHASES,
\* bookingService.js): the status is asked about before the images are stored
\* and not when they are recorded.
SettledAtCompleted == [][status = "COMPLETED" => rows' = rows]_vars
=============================================================================

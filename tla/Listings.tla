------------------------------ MODULE Listings ------------------------------
(***************************************************************************)
(* A listing's life and its photos: listingService.js over the listings    *)
(* and listing_photos tables (migration 004) and the images kept at the    *)
(* media provider (config/cloudinary.js).                                  *)
(*                                                                         *)
(* A request runs its handler one statement or one provider call at a      *)
(* time.  An image is named after the request that uploaded it and its     *)
(* place in the batch.  Prices, places and texts matter only as what the   *)
(* publish gate asks for.                                                  *)
(***************************************************************************)
EXTENDS Naturals, FiniteSets, Sequences, FiniteSetsExt, SequencesExt

CONSTANTS Listing,     \* rows the listings table may hold
          Request,     \* the requests of a run, each served once
          Operation,   \* which operations they perform
          Need,        \* what the gate asks of the row: a rate, a place
          MaxFiles,    \* files one upload may carry
          MaxPhotos,   \* MAX_PHOTOS_PER_LISTING
          Faults       \* which of "crash", "upload" and "destroy" may fail

ASSUME ListingsAssumption == MaxFiles \in Nat \ {0} /\ MaxPhotos \in Nat

VARIABLES listings,   \* the listings table
          booked,     \* listings some booking refers to
          photos,     \* listing_photos
          assets,     \* images at the provider
          astray,     \* images no request can deal with any more: deleting one
                       \* failed, or the answer to its upload was lost
          req         \* the requests

vars == <<listings, booked, photos, assets, astray, req>>

Gone == {"ABSENT", "REMOVED"}
Asset == Request \X (1..MaxFiles)
Row == [status : Gone \cup {"DRAFT", "PUBLISHED", "UNPUBLISHED"},
        launched : BOOLEAN,        \* published_at is set
        has : SUBSET Need]
Photo == [listing : Listing, asset : Asset, position : Nat]
Step == {"unsent", "create", "update", "countForPublish", "updateStatus", "unpublish",
         "findPhotos", "deleteListing", "destroy", "count", "upload", "cleanup",
         "insertStart", "insertPhotos", "deletePhoto", "checkOrder", "reorder", "done"}

Idle == [at |-> "unsent", on |-> {}, files |-> 0, held |-> {}, has |-> {}, start |-> 0,
         order |-> <<>>, answer |-> "none"]

On(r) == CHOOSE l \in req[r].on : TRUE
Exists(l) == listings[l].status \notin Gone
PhotosOf(l) == {p \in photos : p.listing = l}
AssetsOf(l) == {p.asset : p \in PhotosOf(l)}
Attached == {p.asset : p \in photos}

At(r, step) == req[r].at = step
Go(r, step) == req' = [req EXCEPT ![r].at = step]
Answer(r, what) ==
    req' = [req EXCEPT ![r] = [Idle EXCEPT !.at = "done", !.on = req[r].on, !.answer = what]]

Init ==
    /\ listings \in [Listing -> {[status |-> "ABSENT", launched |-> FALSE, has |-> {}]}
                          \cup {[status |-> "DRAFT", launched |-> FALSE, has |-> h] : h \in SUBSET Need}]
    /\ booked = {} /\ photos = {} /\ assets = {} /\ astray = {}
    /\ req = [r \in Request |-> Idle]

-----------------------------------------------------------------------------
(* Every operation but creation starts with loadOwnListing; a listing that *)
(* is already PUBLISHED is not published again.                            *)
FirstStep ==
    [edit |-> "update", publish |-> "countForPublish", unpublish |-> "unpublish",
     remove |-> "findPhotos", add |-> "count", removePhoto |-> "deletePhoto",
     reorder |-> "checkOrder"]
Arrive(r) ==
    /\ At(r, "unsent")
    /\ \/ /\ "create" \in Operation
          /\ req' = [req EXCEPT ![r].at = "create"]
       \/ \E op \in Operation \cap DOMAIN FirstStep, l \in {k \in Listing : Exists(k)} :
            /\ op = "publish" => listings[l].status # "PUBLISHED"
            /\ \E n \in IF op = "add" THEN 1..MaxFiles ELSE {0},
                  a \in IF op = "removePhoto" THEN {{x} : x \in AssetsOf(l)} ELSE {{}} :
                 req' = [req EXCEPT ![r] = [Idle EXCEPT !.at = FirstStep[op], !.on = {l},
                             !.files = n, !.held = a, !.has = listings[l].has]]
    /\ UNCHANGED <<listings, booked, photos, assets, astray>>

CreateListing(r) ==
    /\ At(r, "create")
    /\ \E l \in Listing, has \in SUBSET Need :
         /\ listings[l].status = "ABSENT"
         /\ listings' = [listings EXCEPT ![l] = [status |-> "DRAFT", launched |-> FALSE, has |-> has]]
    /\ Answer(r, "ok")
    /\ UNCHANGED <<booked, photos, assets, astray>>

UpdateListing(r) ==
    /\ At(r, "update")
    /\ IF Exists(On(r))
       THEN /\ \E has \in SUBSET Need : listings' = [listings EXCEPT ![On(r)].has = has]
            /\ Answer(r, "ok")
       ELSE Answer(r, "notFound") /\ UNCHANGED listings
    /\ UNCHANGED <<booked, photos, assets, astray>>

(* publishListing: the row as it was loaded, then a count, then an update  *)
(* that asks for nothing but the id.                                       *)
CountForPublish(r) ==
    /\ At(r, "countForPublish")
    /\ IF PhotosOf(On(r)) # {} /\ req[r].has = Need THEN Go(r, "updateStatus")
                                                   ELSE Answer(r, "refused")
    /\ UNCHANGED <<listings, booked, photos, assets, astray>>
SetStatus(l, status) ==
    listings' = [listings EXCEPT ![l] =
        IF @.status \in Gone THEN @
        ELSE [@ EXCEPT !.status = status,
                       !.launched = listings[l].launched \/ status = "PUBLISHED"]]
PublishListing(r) ==
    /\ At(r, "updateStatus")
    /\ SetStatus(On(r), "PUBLISHED")
    /\ Answer(r, "ok")
    /\ UNCHANGED <<booked, photos, assets, astray>>
UnpublishListing(r) ==
    /\ At(r, "unpublish")
    /\ SetStatus(On(r), "UNPUBLISHED")
    /\ Answer(r, "ok")
    /\ UNCHANGED <<booked, photos, assets, astray>>

-----------------------------------------------------------------------------
(* removeListing: note the photos, delete the row (its photo rows cascade, *)
(* its bookings forbid it), then destroy what was noted, best effort.      *)
FindPhotosForListing(r) ==
    /\ At(r, "findPhotos")
    /\ req' = [req EXCEPT ![r].at = "deleteListing", ![r].held = AssetsOf(On(r))]
    /\ UNCHANGED <<listings, booked, photos, assets, astray>>
(* Mutant: goes on to the images although the delete was refused. *)
DeleteAndDestroyRegardless(r) ==
    /\ At(r, "deleteListing")
    /\ IF On(r) \in booked
       THEN UNCHANGED <<listings, photos>>
       ELSE /\ listings' = [listings EXCEPT ![On(r)].status = "REMOVED"]
            /\ photos' = photos \ PhotosOf(On(r))
    /\ Go(r, "destroy")
    /\ UNCHANGED <<booked, assets, astray>>
DeleteListing(r) ==
    /\ At(r, "deleteListing")
    /\ IF On(r) \in booked
       THEN Answer(r, "conflict") /\ UNCHANGED <<listings, photos>>
       ELSE /\ listings' = [listings EXCEPT ![On(r)].status = "REMOVED"]
            /\ photos' = photos \ PhotosOf(On(r))
            /\ Go(r, "destroy")
    /\ UNCHANGED <<booked, assets, astray>>
(* destroyListingPhoto never throws; it logs what it could not delete. *)
DestroyListingPhoto(r) ==
    /\ At(r, "destroy") \/ At(r, "cleanup")
    /\ IF req[r].held = {}
       THEN /\ Answer(r, IF At(r, "destroy") THEN "ok" ELSE "notUploaded")
            /\ UNCHANGED <<assets, astray>>
       ELSE \E a \in req[r].held :
              /\ \/ assets' = assets \ {a} /\ UNCHANGED astray
                 \/ "destroy" \in Faults /\ astray' = astray \cup {a} /\ UNCHANGED assets
              /\ req' = [req EXCEPT ![r].held = @ \ {a}]
    /\ UNCHANGED <<listings, booked, photos>>

-----------------------------------------------------------------------------
(* addPhotos: count, upload one by one, insert in one statement. *)
CountPhotos(r) ==
    /\ At(r, "count")
    /\ IF Cardinality(PhotosOf(On(r))) + req[r].files > MaxPhotos
       THEN Answer(r, "refused") ELSE Go(r, "upload")
    /\ UNCHANGED <<listings, booked, photos, assets, astray>>
(* Mutant: a failed upload is reported and the earlier ones forgotten. *)
UploadWithoutCleanup(r) ==
    /\ At(r, "upload")
    /\ IF Cardinality(req[r].held) = req[r].files
       THEN Go(r, "insertStart") /\ UNCHANGED assets
       ELSE \/ LET a == <<r, Cardinality(req[r].held) + 1>> IN
               /\ assets' = assets \cup {a}
               /\ req' = [req EXCEPT ![r].held = @ \cup {a}]
            \/ "upload" \in Faults /\ Answer(r, "notUploaded") /\ UNCHANGED assets
    /\ UNCHANGED <<listings, booked, photos, astray>>
(* A failed upload may have been stored: its answer was lost (cloudinary.js). *)
UploadListingPhoto(r) ==
    /\ At(r, "upload")
    /\ LET a == <<r, Cardinality(req[r].held) + 1>> IN
       IF Cardinality(req[r].held) = req[r].files
       THEN Go(r, "insertStart") /\ UNCHANGED <<assets, astray>>
       ELSE \/ /\ assets' = assets \cup {a} /\ UNCHANGED astray
               /\ req' = [req EXCEPT ![r].held = @ \cup {a}]
            \/ /\ "upload" \in Faults
               /\ Go(r, "cleanup")
               /\ \/ UNCHANGED <<assets, astray>>
                  \/ assets' = assets \cup {a} /\ astray' = astray \cup {a}
    /\ UNCHANGED <<listings, booked, photos>>
(* The statement's snapshot, in which the next position is computed.  Two  *)
(* inserts may share it; the constraint is checked when each commits.      *)
NextPosition(l) == IF PhotosOf(l) = {} THEN 0 ELSE Max({p.position : p \in PhotosOf(l)}) + 1
InsertStart(r) ==
    /\ At(r, "insertStart")
    /\ req' = [req EXCEPT ![r].at = "insertPhotos", ![r].start = NextPosition(On(r))]
    /\ UNCHANGED <<listings, booked, photos, assets, astray>>
NewRows(r) ==
    {[listing |-> On(r), asset |-> a, position |-> req[r].start + a[2] - 1] : a \in req[r].held}
(* uq_listing_photo_position *)
Distinct(rows) == \A p, q \in rows :
    p.listing = q.listing /\ p.position = q.position => p = q
(* Mutant: ON CONFLICT DO NOTHING. *)
InsertWhatFits(r) ==
    /\ At(r, "insertPhotos")
    /\ IF Exists(On(r))
       THEN photos' = photos \cup {n \in NewRows(r) : Distinct(photos \cup {n})} /\ Answer(r, "ok")
       ELSE Answer(r, "error") /\ UNCHANGED photos
    /\ UNCHANGED <<listings, booked, assets, astray>>
InsertPhotos(r) ==
    /\ At(r, "insertPhotos")
    /\ IF Exists(On(r)) /\ Distinct(photos \cup NewRows(r))
       THEN photos' = photos \cup NewRows(r) /\ Answer(r, "ok")
       ELSE Answer(r, "error") /\ UNCHANGED photos
    /\ UNCHANGED <<listings, booked, assets, astray>>

DeletePhoto(r) ==
    /\ At(r, "deletePhoto")
    /\ IF req[r].held \subseteq AssetsOf(On(r))
       THEN /\ photos' = {p \in photos : p.asset \notin req[r].held}
            /\ Go(r, "destroy")
       ELSE Answer(r, "notFound") /\ UNCHANGED photos
    /\ UNCHANGED <<listings, booked, assets, astray>>

(* reorderListingPhotos: the body must be a permutation of what is there;  *)
(* the update moves the rows that still are.                               *)
CheckOrder(r) ==
    /\ At(r, "checkOrder")
    /\ \/ Answer(r, "refused")
       \/ \E order \in SetToSeqs(AssetsOf(On(r))) :
            req' = [req EXCEPT ![r].at = "reorder", ![r].order = order]
    /\ UNCHANGED <<listings, booked, photos, assets, astray>>
Reordered(p, l, order) ==
    IF p.listing = l /\ \E i \in DOMAIN order : order[i] = p.asset
    THEN [p EXCEPT !.position = (CHOOSE i \in DOMAIN order : order[i] = p.asset) - 1]
    ELSE p
ReorderPhotos(r) ==
    /\ At(r, "reorder")
    /\ LET moved == {Reordered(p, On(r), req[r].order) : p \in photos} IN
       IF Distinct(moved) THEN photos' = moved /\ Answer(r, "ok")
                          ELSE Answer(r, "error") /\ UNCHANGED photos
    /\ UNCHANGED <<listings, booked, assets, astray>>

-----------------------------------------------------------------------------
(* bookingService.js inserts a booking of a listing it once read as        *)
(* PUBLISHED; the foreign key wants the row to be there still.             *)
InsertBooking(l) ==
    /\ "book" \in Operation
    /\ listings[l].launched /\ Exists(l) /\ l \notin booked
    /\ booked' = booked \cup {l}
    /\ UNCHANGED <<listings, photos, assets, astray, req>>
(* The process dies in a request: what it held in memory is only known to *)
(* the model.                                                             *)
Abandon(r) ==
    /\ "crash" \in Faults
    /\ req[r].at \notin {"unsent", "done"}
    /\ Go(r, "done")
    /\ UNCHANGED <<listings, booked, photos, assets, astray>>

Serve(r) ==
    \/ CreateListing(r) \/ UpdateListing(r)
    \/ CountForPublish(r) \/ PublishListing(r) \/ UnpublishListing(r)
    \/ FindPhotosForListing(r) \/ DeleteListing(r) \/ DestroyListingPhoto(r)
    \/ CountPhotos(r) \/ UploadListingPhoto(r) \/ InsertStart(r) \/ InsertPhotos(r)
    \/ DeletePhoto(r) \/ CheckOrder(r) \/ ReorderPhotos(r)
Next == \/ \E r \in Request : Arrive(r) \/ Serve(r) \/ Abandon(r)
        \/ \E l \in Listing : InsertBooking(l)
Spec == Init /\ [][Next]_vars

-----------------------------------------------------------------------------
(* Every variable has the shape its table or handler gives it. *)
TypeOK ==
    /\ listings \in [Listing -> Row]
    /\ booked \subseteq Listing
    /\ photos \subseteq Photo
    /\ assets \subseteq Asset /\ astray \subseteq Asset
    /\ req \in [Request -> [at : Step, on : {{}} \cup {{l} : l \in Listing}, files : 0..MaxFiles,
                            held : SUBSET Asset, has : SUBSET Need, start : Nat,
                            order : Seq(Asset),
                            answer : {"none", "ok", "notFound", "refused", "conflict",
                                      "error", "notUploaded"}]]

(* No listing shows a picture that is gone: removals, refused removals,    *)
(* failed uploads and reorders race one another, and none of them destroys *)
(* an image while a row shows it or before the request holding it attaches *)
(* it.                                                                     *)
PhotosHaveAssets ==
    /\ Attached \subseteq assets
    /\ \A p, q \in photos : p.asset = q.asset => p = q

(* An image nothing refers to, and no request is about to deal with, has   *)
(* one of five reasons: its deletion failed and was logged, the answer to   *)
(* its upload was lost, its request died holding it, its insert failed, or *)
(* the listing it was uploaded for has been deleted since.  Nothing else   *)
(* leaks storage.                                                         *)
Held == UNION {req[r].held : r \in Request}
LeftoversAreExplained ==
    \A a \in assets : \/ a \in Attached \cup Held \cup astray
                      \/ req[a[1]].answer = "error"
                      \/ \E l \in req[a[1]].on : listings[l].status = "REMOVED"

(* Rows and images account for one another, but for those reasons.         *)
ImagesAccountedFor == PhotosHaveAssets /\ LeftoversAreExplained

(* docs/6.media-storage.md gives a failed insert and a crash as the ways   *)
(* to an image with no row.                                                *)
OrphansNeedAFailure ==
    \A a \in assets : a \in Attached \cup Held \/ req[a[1]].answer = "error"

(* The message of addPhotos and the requirements give a maximum number of  *)
(* photos per listing.                                                     *)
AtMostEight == \A l \in Listing : Cardinality(PhotosOf(l)) <= MaxPhotos

(* insertPhotos says it appends after whatever is already there. *)
AppendsAfterWhatIsThere ==
    [][\A p \in photos', q \in photos :
        p.asset \notin Attached /\ p.listing = q.listing => q.position < p.position]_vars

(* quote.test.js says a PUBLISHED listing without a rate is unreachable. *)
PublishedHasARate == \A l \in Listing : listings[l].status = "PUBLISHED" => listings[l].has = Need

(* 004_create_listings.sql says an UNPUBLISHED listing was visible once. *)
UnpublishedWasVisible ==
    \A l \in Listing : listings[l].status = "UNPUBLISHED" => listings[l].launched

-----------------------------------------------------------------------------
(* The gallery that listings implement. *)
Wall == {[image |-> p.asset, place |-> p.listing] : p \in photos}
Phase == [r \in Request |-> CASE At(r, "done") -> "over"
                              [] At(r, "cleanup") -> "clearing"
                              [] OTHER -> "adding"]
Promise == INSTANCE Gallery
    WITH Contributor <- Request, Most <- MaxFiles, Place <- Listing,
         stored <- assets, wall <- Wall, phase <- Phase

(* Uploads, removals, refused removals, failed uploads, reorders and their *)
(* failures implement the gallery: a batch is shown as a whole or not at   *)
(* all, an image is stored once and shown once, and what is destroyed is   *)
(* neither shown nor ever will be.                                         *)
KeepsTheGallery == Promise!Spec
=============================================================================

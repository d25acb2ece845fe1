---------------------------- MODULE ListingsProofs ----------------------------
(***************************************************************************)
(* What listings and their photos promise, for any number of listings,     *)
(* requests and files.  ListingsInv says whose an image is at every step:  *)
(* a request that adds holds only images it named itself, and none of them *)
(* has a row before it is over (RowsAreSettled); one that removes holds    *)
(* only images of requests that are over, so what has lost its row never   *)
(* gets another.  A request that has only noted what to remove may still   *)
(* forget it (Noting): until it deletes the rows, they account for it.     *)
(***************************************************************************)
EXTENDS Listings, FiniteSetTheorems, TLAPS

\* A finite set of numbers that is not empty has a largest.
LEMMA MaxIsThere ==
  ASSUME NEW S \in SUBSET Nat, IsFiniteSet(S), S # {}
  PROVE  Max(S) \in Nat
<1> DEFINE Above(x) == {y \in S : y > x}
           Tops == {Above(x) : x \in S}
<1>1. \A x \in S : Above(x) \subseteq S /\ IsFiniteSet(Above(x))
  BY FS_Subset
<1>2. Tops \subseteq FiniteSubsetsOf(S)
  BY <1>1 DEF FiniteSubsetsOf
<1>3. PICK U \in Tops : \A V \in Tops : <<V, U>> \notin StrictSubsetOrdering(S)
  <2>1. Tops # {} /\ IsWellFoundedOn(StrictSubsetOrdering(S), FiniteSubsetsOf(S))
    BY FS_StrictSubsetOrderingWellFounded
  <2> HIDE DEF Tops
  <2> QED BY <1>2, <2>1, WFMin
<1>4. PICK x \in S : U = Above(x)
  OBVIOUS
<1>5. \A y \in S : x >= y
  <2> SUFFICES ASSUME NEW y \in S, ~(x >= y) PROVE FALSE
    OBVIOUS
  <2>1. x \in Nat /\ y \in Nat /\ y > x
    OBVIOUS
  <2>2. y \in Above(x) /\ y \notin Above(y) /\ Above(y) \subseteq Above(x)
    <3> HIDE DEF Tops
    <3>1. \A z \in S : z > y => z > x
      BY <2>1
    <3>2. y \in Above(x) /\ y \notin Above(y)
      BY <2>1
    <3>3. Above(y) \subseteq Above(x)
      BY <3>1
    <3> QED BY <3>2, <3>3
  <2>4. Above(y) \in Tops
    OBVIOUS
  <2> HIDE DEF Above, Tops
  <2>3. <<Above(y), U>> \in StrictSubsetOrdering(S)
    BY <1>1, <1>4, <2>2 DEF StrictSubsetOrdering
  <2> QED BY <1>3, <2>3, <2>4
<1> QED BY <1>5 DEF Max

\* The photos of a listing can be counted.
LEMMA AssetsAreFinite ==
  ASSUME TypeOK, IsFiniteSet(photos), NEW l
  PROVE  AssetsOf(l) \in SUBSET Asset /\ IsFiniteSet(AssetsOf(l))
<1> DEFINE rows == PhotosOf(l)
           image == [p \in rows |-> p.asset]
<1>1. rows \subseteq photos /\ IsFiniteSet(rows)
  BY FS_Subset DEF PhotosOf
<1>2. image \in Surjection(rows, AssetsOf(l))
  BY DEF Surjection, AssetsOf
<1>3. IsFiniteSet(AssetsOf(l))
  <2> HIDE DEF rows, image
  <2> QED BY <1>1, <1>2, FS_Surjection
<1>4. AssetsOf(l) \in SUBSET Asset
  BY <1>1 DEF AssetsOf, TypeOK, Photo
<1> QED BY <1>3, <1>4

\* They can be put in order.
LEMMA OrdersAreSequences ==
  ASSUME NEW S \in SUBSET Asset, IsFiniteSet(S), NEW order \in SetToSeqs(S)
  PROVE  order \in Seq(Asset)
<1>1. Cardinality(S) \in Nat
  BY FS_CardinalityType
<1>2. order \in [1..Cardinality(S) -> Asset]
  BY DEF SetToSeqs
<1> QED BY <1>1, <1>2

\* The first k files of a request are k images.
LEMMA FirstFiles ==
  ASSUME NEW r, NEW k \in Nat
  PROVE  /\ IsFiniteSet({r} \X (1..k)) /\ Cardinality({r} \X (1..k)) = k
         /\ {r} \X (1..(k + 1)) = ({r} \X (1..k)) \cup {<<r, k + 1>>}
<1> DEFINE f == [i \in 1..k |-> <<r, i>>]
<1>1. IsFiniteSet(1..k) /\ Cardinality(1..k) = k
  BY FS_Interval
<1>2. f \in [1..k -> {r} \X (1..k)]
  OBVIOUS
<1>3. \A i, j \in 1..k : f[i] = f[j] => i = j
  OBVIOUS
<1>4. \A t \in {r} \X (1..k) : \E i \in 1..k : f[i] = t
  OBVIOUS
<1>5. ExistsBijection(1..k, {r} \X (1..k))
  <2> HIDE DEF f
  <2> QED BY <1>2, <1>3, <1>4 DEF ExistsBijection, Bijection, Injection, Surjection, IsInjective
<1>6. {r} \X (1..(k + 1)) = ({r} \X (1..k)) \cup {<<r, k + 1>>}
  OBVIOUS
<1> QED BY <1>1, <1>5, <1>6, FS_Bijection

-----------------------------------------------------------------------------
\* Requests that noted images for a later step, and those that add some.
Noting == {"deleteListing", "deletePhoto"}
Adding == {"upload", "insertStart", "insertPhotos"}

RequestRecord ==
  [at : Step, on : {{}} \cup {{l} : l \in Listing}, files : 0..MaxFiles,
   held : SUBSET Asset, has : SUBSET Need, start : Nat, order : Seq(Asset),
   answer : {"none", "ok", "notFound", "refused", "conflict", "error", "notUploaded"}]

\* A request not sent, or answered.
LEMMA IdleRecord == Idle \in RequestRecord
<1>1. <<>> \in Seq(Asset) /\ 0 \in 0..MaxFiles
  BY ListingsAssumption
<1> QED BY <1>1 DEF Idle, RequestRecord, Step

\* What a request's step says of the rest of its record: it knows its listing,
\* holds images only where it has to do with some, and those it adds are its own.
InStep(r, q) ==
  /\ q.at \notin {"unsent", "create", "done"} => q.on # {}
  /\ q.at = "unsent" => q.on = {}
  /\ q.at # "done" => q.answer = "none"
  /\ q.at \notin Noting \cup Adding \cup {"destroy", "cleanup", "done"} => q.held = {}
  /\ q.at \in Adding \cup {"cleanup"} => \A a \in q.held : a[1] = r
  /\ q.at = "upload" => \E k \in 0..q.files : q.held = {r} \X (1..k)
  /\ IsFiniteSet(q.held)

\* And of the images it holds: what it is adding is there and not shown yet, and
\* what it is removing was added by a request that is over and will not return.
HeldInStep(q) ==
  /\ q.at \in Adding => q.held \subseteq assets
  /\ q.at \in Noting \cup {"destroy"} => \A a \in q.held : req[a[1]].at = "done"
  /\ q.at = "destroy" => q.held \cap Attached = {}
  /\ q.at = "deleteListing" => \A p \in photos : p.asset \in q.held => q.on = {p.listing}

\* A row is of a request that is over, and of its listing.
RowsAreSettled ==
  \A p \in photos : req[p.asset[1]].at = "done" /\ req[p.asset[1]].on = {p.listing}

\* What a request has only noted it may still forget.
Kept(a) == \E r \in Request : req[r].at \notin Noting /\ a \in req[r].held
Explained(a) ==
  \/ a \in Attached \cup astray \/ Kept(a)
  \/ req[a[1]].answer = "error"
  \/ \E l \in req[a[1]].on : listings[l].status = "REMOVED"

ListingsInv ==
  /\ TypeOK /\ IsFiniteSet(photos)
  /\ \A r \in Request : InStep(r, req[r]) /\ HeldInStep(req[r])
  /\ RowsAreSettled /\ PhotosHaveAssets
  /\ \A a \in assets : Explained(a)

\* No request has been sent, and nothing is stored.
LEMMA ListingsInit == Init => ListingsInv
<1> SUFFICES ASSUME Init PROVE ListingsInv
  OBVIOUS
<1>1. TypeOK
  <2>1. \A has \in SUBSET Need : /\ [status |-> "ABSENT", launched |-> FALSE, has |-> {}] \in Row
                                 /\ [status |-> "DRAFT", launched |-> FALSE, has |-> has] \in Row
    BY SMT DEF Row, Gone
  <2>2. listings \in [Listing -> Row]
    <3>1. \A l \in Listing : listings[l] \in Row
      <4> SUFFICES ASSUME NEW l \in Listing PROVE listings[l] \in Row
        OBVIOUS
      <4>1. listings[l] \in {[status |-> "ABSENT", launched |-> FALSE, has |-> {}]}
                        \cup {[status |-> "DRAFT", launched |-> FALSE, has |-> h] : h \in SUBSET Need}
        BY DEF Init
      <4> QED BY <2>1, <4>1, Zenon
    <3>2. listings = [l \in Listing |-> listings[l]]
      BY DEF Init
    <3> QED BY <3>1, <3>2
  <2> QED BY IdleRecord, <2>2 DEF Init, TypeOK, RequestRecord
<1>2. photos = {} /\ assets = {} /\ \A r \in Request : req[r] = Idle
  BY DEF Init
<1>3. \A r \in Request : InStep(r, Idle) /\ HeldInStep(Idle)
  BY FS_EmptySet DEF InStep, HeldInStep, Idle, Noting, Adding
<1> QED BY <1>1, <1>2, <1>3, FS_EmptySet DEF ListingsInv, RowsAreSettled, PhotosHaveAssets, Attached

\* Which listing a request is on.
LEMMA OnType ==
  ASSUME TypeOK, NEW r \in Request, req[r].on # {}
  PROVE  On(r) \in Listing /\ req[r].on = {On(r)}
BY DEF TypeOK, On

\* The record of a request.
LEMMA RecordType ==
  ASSUME TypeOK, NEW r \in Request
  PROVE  req[r] \in RequestRecord /\ req \in [Request -> RequestRecord]
BY DEF TypeOK, RequestRecord

\* What it refers to.
LEMMA RecordRefers ==
  ASSUME NEW q \in RequestRecord
  PROVE  q.on \subseteq Listing /\ q.held \subseteq Asset
BY DEF RequestRecord

\* A listing that was removed stays removed.
StaysRemoved == \A l \in Listing : listings[l].status = "REMOVED" => listings'[l].status = "REMOVED"

\* A request moves on, rows stay as they are, and what images are added nobody
\* knows of: what it held it holds on to, had only noted, or leaves behind in
\* its error.
LEMMA LeaveStep ==
  ASSUME ListingsInv, NEW r \in Request, req[r].at # "done", NEW q \in RequestRecord,
         req' = [req EXCEPT ![r] = q], UNCHANGED photos,
         NEW lost \in SUBSET Asset, assets' = assets \cup lost, astray' = astray \cup lost,
         listings' \in [Listing -> Row], StaysRemoved, booked' \subseteq Listing,
         InStep(r, q), HeldInStep(q), req[r].on \subseteq q.on,
         \A a \in req[r].held : \/ req[r].at \in Noting
                                \/ a \in q.held /\ q.at \notin Noting
                                \/ a[1] = r /\ q.answer = "error"
  PROVE  ListingsInv'
<1>1. req' \in [Request -> RequestRecord]
  BY RecordType DEF ListingsInv
<1>2. TypeOK' /\ IsFiniteSet(photos')
  BY <1>1 DEF ListingsInv, TypeOK, RequestRecord
<1>3. req \in [Request -> RequestRecord] /\ req'[r] = q /\ \A s \in Request \ {r} : req'[s] = req[s]
  BY RecordType DEF ListingsInv
<1>4. \A s \in Request : req[s].at = "done" => s # r /\ req'[s] = req[s]
  BY <1>3
<1>5. ASSUME NEW a \in Asset PROVE a[1] \in Request
  BY DEF Asset
<1>6. \A s \in Request : req[s].held \subseteq Asset
  BY <1>3 DEF RequestRecord
<1>6a. q.held \subseteq Asset
  BY DEF RequestRecord
<1>7. ASSUME NEW c \in RequestRecord, HeldInStep(c) PROVE HeldInStep(c)'
  <2>1. \A a \in c.held : req[a[1]].at = "done" => req'[a[1]].at = "done"
    BY <1>4, <1>5 DEF RequestRecord
  <2> QED BY <1>7, <2>1 DEF HeldInStep, Attached
<1>8. ASSUME NEW s \in Request PROVE (InStep(s, req[s]) /\ HeldInStep(req[s]))'
  <2>1. PICK c \in RequestRecord : c = req'[s] /\ InStep(s, c) /\ HeldInStep(c)
    BY <1>3 DEF ListingsInv
  <2>2. HeldInStep(c)'
    BY <1>7, <2>1
  <2> QED BY <2>1, <2>2 DEF HeldInStep, InStep
<1>9. RowsAreSettled'
  <2>1. \A p \in photos : p.asset \in Asset
    BY DEF ListingsInv, TypeOK, Photo
  <2> QED BY <1>4, <1>5, <2>1 DEF ListingsInv, RowsAreSettled
<1>10. PhotosHaveAssets'
  BY DEF ListingsInv, PhotosHaveAssets, Attached
<1>11. ASSUME NEW a \in assets PROVE Explained(a)'
  <2>0. a \in Asset /\ a[1] \in Request /\ Explained(a)
    BY <1>5 DEF ListingsInv, TypeOK
  <2>1. CASE a \in Attached \cup astray
    BY <2>1 DEF Explained, Attached
  <2>2. ASSUME NEW s \in Request, req[s].at \notin Noting, a \in req[s].held PROVE Explained(a)'
    <3>1. CASE s = r /\ a[1] = r /\ q.answer = "error"
      BY <1>3, <3>1 DEF Explained
    <3>2. CASE s = r /\ a \in q.held /\ q.at \notin Noting
      BY <1>3, <3>2 DEF Explained, Kept
    <3>3. CASE s # r
      BY <1>3, <2>2, <3>3 DEF Explained, Kept
    <3> QED BY <2>2, <3>1, <3>2, <3>3
  <2>3. CASE req[a[1]].answer = "error"
    <3>1. a[1] # r
      BY <2>3 DEF ListingsInv, InStep
    <3> QED BY <1>3, <2>0, <2>3, <3>1 DEF Explained
  <2>4. ASSUME NEW l \in req[a[1]].on, listings[l].status = "REMOVED" PROVE Explained(a)'
    <3>1. l \in Listing
      BY <1>3, <2>0, RecordRefers
    <3>2. l \in req'[a[1]].on
      BY <1>3, <2>0
    <3> QED BY <2>4, <3>1, <3>2 DEF Explained, StaysRemoved
  <2> QED BY <2>0, <2>1, <2>2, <2>3, <2>4 DEF Explained, Kept
<1>12. ASSUME NEW a \in lost PROVE Explained(a)'
  BY DEF Explained
<1> QED BY <1>2, <1>8, <1>9, <1>10, <1>11, <1>12 DEF ListingsInv

\* A request moves on, and rows and images stay as they are.
LEMMA MoveStep ==
  ASSUME ListingsInv, NEW r \in Request, req[r].at # "done", NEW q \in RequestRecord,
         req' = [req EXCEPT ![r] = q], UNCHANGED <<photos, assets, astray>>,
         listings' \in [Listing -> Row], StaysRemoved, booked' \subseteq Listing,
         InStep(r, q), HeldInStep(q), req[r].on \subseteq q.on,
         \A a \in req[r].held : \/ req[r].at \in Noting
                                \/ a \in q.held /\ q.at \notin Noting
                                \/ a[1] = r /\ q.answer = "error"
  PROVE  ListingsInv'
<1>1. {} \in SUBSET Asset /\ assets' = assets \cup {} /\ astray' = astray \cup {}
  OBVIOUS
<1> QED BY <1>1, LeaveStep

\* It only goes on to another step, and does nothing else.
LEMMA GoStep ==
  ASSUME ListingsInv, NEW r \in Request, req[r].at # "done", NEW step \in Step, Go(r, step),
         UNCHANGED <<listings, booked, photos, assets, astray>>,
         InStep(r, [req[r] EXCEPT !.at = step]), HeldInStep([req[r] EXCEPT !.at = step]),
         req[r].held = {} \/ step \notin Noting
  PROVE  ListingsInv'
<1> DEFINE q == [req[r] EXCEPT !.at = step]
<1>1. TypeOK /\ req[r] \in RequestRecord
  BY RecordType DEF ListingsInv
<1>2. q \in RequestRecord /\ q.held = req[r].held /\ q.on = req[r].on /\ q.at = step
  BY <1>1 DEF RequestRecord
<1>3. req' = [req EXCEPT ![r] = q]
  BY DEF Go
<1>4. listings' \in [Listing -> Row] /\ StaysRemoved /\ booked' \subseteq Listing
  BY <1>1 DEF TypeOK, StaysRemoved
<1> HIDE DEF q
<1> QED BY <1>2, <1>3, <1>4, MoveStep DEF q

\* It answers, and lets go of nothing it still had to deal with.
LEMMA AnswerStep ==
  ASSUME ListingsInv, NEW r \in Request, req[r].at # "done",
         NEW what \in {"ok", "notFound", "refused", "conflict", "error", "notUploaded"}, Answer(r, what),
         listings' \in [Listing -> Row], StaysRemoved, UNCHANGED <<booked, photos, assets, astray>>,
         \/ req[r].held = {} \/ req[r].at \in Noting
         \/ what = "error" /\ \A a \in req[r].held : a[1] = r
  PROVE  ListingsInv'
<1> DEFINE q == [Idle EXCEPT !.at = "done", !.on = req[r].on, !.answer = what]
<1>1. TypeOK /\ req[r] \in RequestRecord
  BY RecordType DEF ListingsInv
<1>2. /\ q.at = "done" /\ q.on = req[r].on /\ q.answer = what
      /\ q \in RequestRecord
  BY <1>1, IdleRecord DEF RequestRecord, Step
<1>3. q.held = {}
  BY DEF Idle
<1>5. req' = [req EXCEPT ![r] = q]
  BY DEF Answer
<1> HIDE DEF q
<1>6. InStep(r, q) /\ HeldInStep(q)
  BY <1>2, <1>3, FS_EmptySet DEF InStep, HeldInStep, Adding, Noting
<1>7. booked' \subseteq Listing
  BY <1>1 DEF TypeOK
<1> QED BY <1>2, <1>3, <1>5, <1>6, <1>7, MoveStep

\* A listing that is there changes in place.
LEMMA RowStep ==
  ASSUME ListingsInv, NEW l \in Listing, NEW row \in Row,
         listings' = [listings EXCEPT ![l] = row], listings[l].status # "REMOVED"
  PROVE  listings' \in [Listing -> Row] /\ StaysRemoved
BY DEF ListingsInv, TypeOK, StaysRemoved

\* createListing, updateListing, publishListing, unpublishListing.
LEMMA RowSteps ==
  ASSUME ListingsInv, NEW r \in Request,
         CreateListing(r) \/ UpdateListing(r) \/ PublishListing(r) \/ UnpublishListing(r)
  PROVE  ListingsInv'
<1>1. req[r].at \in {"create", "update", "updateStatus", "unpublish"}
  BY DEF CreateListing, UpdateListing, PublishListing, UnpublishListing, At
<1>2. req[r].held = {} /\ req[r].at # "done"
  BY <1>1 DEF ListingsInv, InStep, Noting, Adding
<1>3. TypeOK
  BY DEF ListingsInv
<1>4. CASE CreateListing(r)
  <2>1. PICK l \in Listing, has \in SUBSET Need :
          /\ listings[l].status = "ABSENT"
          /\ listings' = [listings EXCEPT ![l] = [status |-> "DRAFT", launched |-> FALSE, has |-> has]]
    BY <1>4 DEF CreateListing
  <2>2. [status |-> "DRAFT", launched |-> FALSE, has |-> has] \in Row
    BY DEF Row
  <2>3. listings' \in [Listing -> Row] /\ StaysRemoved
    BY <2>1, <2>2, RowStep
  <2> QED BY <1>2, <1>4, <2>3, AnswerStep DEF CreateListing
<1>5. req[r].at # "create" => req[r].on # {}
  BY <1>1 DEF ListingsInv, InStep
<1>6. ~CreateListing(r) => On(r) \in Listing
  <2>1. ~CreateListing(r) => req[r].at # "create"
    BY DEF UpdateListing, PublishListing, UnpublishListing, At
  <2> QED BY <1>3, <1>5, <2>1, OnType
<1>7. CASE UpdateListing(r) /\ ~CreateListing(r)
  <2>1. CASE Exists(On(r))
    <3>1. PICK has \in SUBSET Need : listings' = [listings EXCEPT ![On(r)].has = has]
      BY <1>7, <2>1 DEF UpdateListing
    <3>2. listings' \in [Listing -> Row] /\ StaysRemoved
      BY <1>3, <1>6, <1>7, <3>1 DEF TypeOK, Row, StaysRemoved
    <3> QED BY <1>2, <1>7, <2>1, <3>2, AnswerStep DEF UpdateListing
  <2>2. CASE ~Exists(On(r))
    <3>1. listings' \in [Listing -> Row] /\ StaysRemoved
      BY <1>3, <1>7, <2>2 DEF UpdateListing, TypeOK, StaysRemoved
    <3> QED BY <1>2, <1>7, <2>2, <3>1, AnswerStep DEF UpdateListing
  <2> QED BY <2>1, <2>2
<1>8. ASSUME NEW status \in {"PUBLISHED", "UNPUBLISHED"}, SetStatus(On(r), status), ~CreateListing(r)
      PROVE  listings' \in [Listing -> Row] /\ StaysRemoved
  <2> DEFINE l == On(r)
             row == IF listings[l].status \in Gone THEN listings[l]
                    ELSE [listings[l] EXCEPT !.status = status, !.launched = listings[l].launched \/ status = "PUBLISHED"]
  <2>1. l \in Listing /\ listings[l] \in Row
    BY <1>3, <1>6, <1>8 DEF TypeOK
  <2>2. listings' = [listings EXCEPT ![l] = row]
    BY <1>8 DEF SetStatus
  <2>3. row \in Row
    BY <2>1 DEF Row
  <2>4. listings[l].status = "REMOVED" => row = listings[l]
    BY DEF Gone
  <2> HIDE DEF l, row
  <2> QED BY <1>3, <2>1, <2>2, <2>3, <2>4 DEF TypeOK, StaysRemoved
<1>9. CASE PublishListing(r) /\ ~CreateListing(r)
  BY <1>2, <1>8, <1>9, AnswerStep DEF PublishListing
<1>10. CASE UnpublishListing(r) /\ ~CreateListing(r)
  BY <1>2, <1>8, <1>10, AnswerStep DEF UnpublishListing
<1> QED BY <1>4, <1>7, <1>9, <1>10

\* A request arrives, and knows its listing and the photo it is to remove.
LEMMA ArriveStep == ASSUME ListingsInv, NEW r \in Request, Arrive(r) PROVE ListingsInv'
<1>1. /\ req[r].at = "unsent" /\ req[r].held = {} /\ req[r].on = {} /\ req[r].answer = "none"
      /\ TypeOK /\ req[r] \in RequestRecord
  BY RecordType DEF Arrive, At, ListingsInv, InStep, Noting, Adding
<1>2. listings' \in [Listing -> Row] /\ StaysRemoved /\ booked' \subseteq Listing
  BY <1>1 DEF Arrive, TypeOK, StaysRemoved
<1>3. CASE req' = [req EXCEPT ![r].at = "create"]
  <2>1. "create" \in Step
    BY DEF Step
  <2>2. [req[r] EXCEPT !.at = "create"].on = {} /\ [req[r] EXCEPT !.at = "create"].held = {}
        /\ [req[r] EXCEPT !.at = "create"].at = "create" /\ [req[r] EXCEPT !.at = "create"].answer = "none"
    BY <1>1 DEF RequestRecord
  <2>3. InStep(r, [req[r] EXCEPT !.at = "create"]) /\ HeldInStep([req[r] EXCEPT !.at = "create"])
    BY <2>2, FS_EmptySet DEF InStep, HeldInStep, Noting, Adding
  <2> QED BY <1>1, <1>3, <2>1, <2>3, GoStep DEF Arrive, Go
<1>4. ASSUME NEW op \in DOMAIN FirstStep, NEW l \in Listing,
             NEW n \in IF op = "add" THEN 1..MaxFiles ELSE {0},
             NEW a \in IF op = "removePhoto" THEN {{x} : x \in AssetsOf(l)} ELSE {{}},
             req' = [req EXCEPT ![r] = [Idle EXCEPT !.at = FirstStep[op], !.on = {l},
                        !.files = n, !.held = a, !.has = listings[l].has]]
      PROVE  ListingsInv'
  <2> DEFINE q == [Idle EXCEPT !.at = FirstStep[op], !.on = {l}, !.files = n, !.held = a,
                               !.has = listings[l].has]
  <2>1. /\ FirstStep[op] \in {"update", "countForPublish", "unpublish", "findPhotos", "count",
                              "deletePhoto", "checkOrder"}
        /\ FirstStep[op] = "deletePhoto" <=> op = "removePhoto"
    BY DEF FirstStep
  <2>2. a \subseteq Attached /\ a \subseteq Asset /\ IsFiniteSet(a) /\ (op # "removePhoto" => a = {})
    <3>1. CASE op = "removePhoto"
      <4>1. PICK x \in AssetsOf(l) : a = {x}
        BY <3>1
      <4>2. x \in Attached /\ x \in Asset
        BY <1>1 DEF AssetsOf, PhotosOf, Attached, TypeOK, Photo
      <4> QED BY <3>1, <4>1, <4>2, FS_Singleton
    <3>2. CASE op # "removePhoto"
      BY <3>2, FS_EmptySet
    <3> QED BY <3>1, <3>2
  <2>3. n \in 0..MaxFiles /\ listings[l].has \in SUBSET Need
    BY <1>1, ListingsAssumption DEF TypeOK, Row
  <2>4. /\ q.at = FirstStep[op] /\ q.on = {l} /\ q.held = a
        /\ q \in RequestRecord
    BY <2>1, <2>2, <2>3, IdleRecord DEF RequestRecord, Step
  <2>5. q.answer = "none"
    BY DEF Idle
  <2> HIDE DEF q
  <2>6. InStep(r, q)
    BY <2>1, <2>2, <2>4, <2>5 DEF InStep, Noting, Adding
  <2>7. HeldInStep(q)
    <3>1. \A x \in a : req[x[1]].at = "done"
      BY <2>2 DEF ListingsInv, RowsAreSettled, Attached
    <3> QED BY <2>1, <2>4, <3>1 DEF HeldInStep, Noting, Adding
  <2> QED BY <1>1, <1>2, <1>4, <2>4, <2>6, <2>7, MoveStep DEF Arrive, q
<1> QED BY <1>3, <1>4 DEF Arrive

\* A request with nothing in hand, and one that only looks.
LEMMA LookSteps ==
  ASSUME ListingsInv, NEW r \in Request, CountForPublish(r) \/ CountPhotos(r) \/ InsertStart(r)
  PROVE  ListingsInv'
<1>1. TypeOK /\ req[r] \in RequestRecord /\ InStep(r, req[r]) /\ HeldInStep(req[r]) /\ IsFiniteSet(photos)
  BY RecordType DEF ListingsInv
<1>2. /\ listings' \in [Listing -> Row] /\ StaysRemoved /\ booked' \subseteq Listing
      /\ UNCHANGED <<listings, booked, photos, assets, astray>>
  BY <1>1 DEF CountForPublish, CountPhotos, InsertStart, TypeOK, StaysRemoved
<1>3. CASE CountForPublish(r)
  <2>1. req[r].at = "countForPublish" /\ req[r].held = {}
    BY <1>1, <1>3 DEF CountForPublish, At, InStep, Noting, Adding
  <2>2. CASE Go(r, "updateStatus")
    <3>1. "updateStatus" \in Step
      BY DEF Step
    <3>2. InStep(r, [req[r] EXCEPT !.at = "updateStatus"]) /\ HeldInStep([req[r] EXCEPT !.at = "updateStatus"])
      BY <1>1, <2>1 DEF RequestRecord, InStep, HeldInStep, Noting, Adding
    <3> QED BY <1>2, <2>1, <2>2, <3>1, <3>2, GoStep
  <2> QED BY <1>2, <1>3, <2>1, <2>2, AnswerStep DEF CountForPublish
<1>4. CASE CountPhotos(r)
  <2>1. req[r].at = "count" /\ req[r].held = {}
    BY <1>1, <1>4 DEF CountPhotos, At, InStep, Noting, Adding
  <2>2. CASE Go(r, "upload")
    <3>1. "upload" \in Step
      BY DEF Step
    <3>2. 0 \in 0..req[r].files /\ {} = {r} \X (1..0)
      BY <1>1 DEF RequestRecord
    <3>3. InStep(r, [req[r] EXCEPT !.at = "upload"]) /\ HeldInStep([req[r] EXCEPT !.at = "upload"])
      BY <1>1, <2>1, <3>2 DEF RequestRecord, InStep, HeldInStep, Noting, Adding
    <3> QED BY <1>2, <2>1, <2>2, <3>1, <3>3, GoStep
  <2> QED BY <1>2, <1>4, <2>1, <2>2, AnswerStep DEF CountPhotos
<1>5. CASE InsertStart(r)
  <2> DEFINE q == [req[r] EXCEPT !.at = "insertPhotos", !.start = NextPosition(On(r))]
  <2>1. req[r].at = "insertStart" /\ req' = [req EXCEPT ![r] = q]
    BY <1>1, <1>5 DEF InsertStart, At
  <2>2. NextPosition(On(r)) \in Nat
    <3> DEFINE rows == PhotosOf(On(r))
               places == {p.position : p \in rows}
               place == [p \in rows |-> p.position]
    <3>1. rows \subseteq photos /\ IsFiniteSet(rows)
      BY <1>1, FS_Subset DEF PhotosOf
    <3>2. place \in Surjection(rows, places)
      BY DEF Surjection
    <3>3. IsFiniteSet(places)
      <4> HIDE DEF rows, places, place
      <4> QED BY <3>1, <3>2, FS_Surjection
    <3>4. places \in SUBSET Nat /\ (rows # {} => places # {})
      BY <1>1, <3>1 DEF TypeOK, Photo
    <3>5. rows # {} => Max(places) \in Nat
      <4> HIDE DEF places
      <4> QED BY <3>3, <3>4, MaxIsThere
    <3> QED BY <3>5 DEF NextPosition
  <2>3. /\ q \in RequestRecord /\ q.at = "insertPhotos" /\ q.on = req[r].on /\ q.held = req[r].held
        /\ q.answer = req[r].answer
    BY <1>1, <2>2 DEF RequestRecord, Step
  <2> HIDE DEF q
  <2>4. InStep(r, q) /\ HeldInStep(q)
    BY <1>1, <2>1, <2>3 DEF InStep, HeldInStep, Noting, Adding
  <2>5. "insertPhotos" \notin Noting /\ req[r].at # "done"
    BY <2>1 DEF Noting
  <2> QED BY <1>2, <2>1, <2>3, <2>4, <2>5, MoveStep
<1> QED BY <1>3, <1>4, <1>5

\* The order of a listing's photos is asked for.
LEMMA CheckOrderStep == ASSUME ListingsInv, NEW r \in Request, CheckOrder(r) PROVE ListingsInv'
<1>1. TypeOK /\ req[r] \in RequestRecord /\ InStep(r, req[r]) /\ HeldInStep(req[r]) /\ IsFiniteSet(photos)
  BY RecordType DEF ListingsInv
<1>2. /\ listings' \in [Listing -> Row] /\ StaysRemoved /\ booked' \subseteq Listing
      /\ UNCHANGED <<listings, booked, photos, assets, astray>>
      /\ req[r].at = "checkOrder" /\ req[r].held = {}
  BY <1>1 DEF CheckOrder, TypeOK, StaysRemoved, At, InStep, Noting, Adding
<1>3. ASSUME NEW order \in SetToSeqs(AssetsOf(On(r))),
             req' = [req EXCEPT ![r].at = "reorder", ![r].order = order]
      PROVE  ListingsInv'
  <2> DEFINE q == [req[r] EXCEPT !.at = "reorder", !.order = order]
  <2>1. req' = [req EXCEPT ![r] = q]
    BY <1>1, <1>3, RecordType
  <2>2. order \in Seq(Asset)
    BY <1>1, OrdersAreSequences, AssetsAreFinite
  <2>3. q \in RequestRecord /\ q.at = "reorder" /\ q.on = req[r].on /\ q.held = {} /\ q.answer = req[r].answer
    BY <1>1, <1>2, <2>2 DEF RequestRecord, Step
  <2> HIDE DEF q
  <2>4. InStep(r, q) /\ HeldInStep(q)
    BY <1>1, <1>2, <2>3, FS_EmptySet DEF InStep, HeldInStep, Noting, Adding
  <2> QED BY <1>2, <2>1, <2>3, <2>4, MoveStep
<1>4. CASE Answer(r, "refused")
  BY <1>2, <1>4, AnswerStep
<1> QED BY <1>3, <1>4 DEF CheckOrder

\* The photos of a listing are noted.
LEMMA FindPhotosStep == ASSUME ListingsInv, NEW r \in Request, FindPhotosForListing(r) PROVE ListingsInv'
<1>1. TypeOK /\ req[r] \in RequestRecord /\ InStep(r, req[r]) /\ IsFiniteSet(photos)
  BY RecordType DEF ListingsInv
<1>2. /\ listings' \in [Listing -> Row] /\ StaysRemoved /\ booked' \subseteq Listing
      /\ UNCHANGED <<listings, booked, photos, assets, astray>>
      /\ req[r].at = "findPhotos" /\ req[r].held = {} /\ req[r].on # {}
  BY <1>1 DEF FindPhotosForListing, TypeOK, StaysRemoved, At, InStep, Noting, Adding
<1> DEFINE q == [req[r] EXCEPT !.at = "deleteListing", !.held = AssetsOf(On(r))]
<1>3. req' = [req EXCEPT ![r] = q]
  BY <1>1, RecordType DEF FindPhotosForListing
<1>4. AssetsOf(On(r)) \subseteq Asset /\ IsFiniteSet(AssetsOf(On(r))) /\ AssetsOf(On(r)) \subseteq Attached
  BY <1>1, AssetsAreFinite DEF AssetsOf, PhotosOf, Attached
<1>5. /\ q \in RequestRecord /\ q.at = "deleteListing" /\ q.on = req[r].on /\ q.held = AssetsOf(On(r))
      /\ q.answer = req[r].answer
  BY <1>1, <1>4 DEF RequestRecord, Step
<1> HIDE DEF q
<1>6. InStep(r, q)
  BY <1>1, <1>2, <1>4, <1>5 DEF InStep, Noting, Adding
<1>7. HeldInStep(q)
  <2>1. \A a \in q.held : req[a[1]].at = "done"
    BY <1>4, <1>5 DEF ListingsInv, RowsAreSettled, Attached
  <2>2. ASSUME NEW p \in photos, p.asset \in q.held PROVE q.on = {p.listing}
    <3>1. PICK o \in photos : o.asset = p.asset /\ o.listing = On(r)
      BY <1>5, <2>2 DEF AssetsOf, PhotosOf
    <3>2. p = o
      BY <3>1 DEF ListingsInv, PhotosHaveAssets
    <3> QED BY <1>1, <1>2, <1>5, <3>1, <3>2, OnType
  <2> QED BY <1>5, <2>1, <2>2 DEF HeldInStep, Noting, Adding
<1> QED BY <1>2, <1>3, <1>5, <1>6, <1>7, MoveStep

\* The process dies.
LEMMA AbandonStep == ASSUME ListingsInv, NEW r \in Request, Abandon(r) PROVE ListingsInv'
<1>1. TypeOK /\ req[r] \in RequestRecord /\ InStep(r, req[r])
  BY RecordType DEF ListingsInv
<1>2. req[r].at # "done" /\ "done" \in Step /\ "done" \notin Noting
  BY DEF Abandon, Step, Noting
<1>3. InStep(r, [req[r] EXCEPT !.at = "done"]) /\ HeldInStep([req[r] EXCEPT !.at = "done"])
  BY <1>1 DEF RequestRecord, InStep, HeldInStep, Noting, Adding
<1> QED BY <1>2, <1>3, GoStep DEF Abandon

\* What a step that changes rows or images starts from.
LEMMA Before ==
  ASSUME ListingsInv
  PROVE  /\ TypeOK /\ req \in [Request -> RequestRecord] /\ IsFiniteSet(photos)
         /\ \A r \in Request : InStep(r, req[r]) /\ HeldInStep(req[r])
         /\ \A a \in Asset : a[1] \in Request
         /\ \A r \in Request : req[r].held \subseteq Asset
         /\ \A p \in photos : p.asset \in Asset /\ p.listing \in Listing
BY RecordType, RecordRefers DEF ListingsInv, Asset, TypeOK, Photo

\* The file after the first k.
LEMMA NextFile ==
  ASSUME NEW r, NEW files \in 0..MaxFiles, NEW k \in 0..files, Cardinality({r} \X (1..k)) # files
  PROVE  /\ k + 1 \in 0..files /\ k + 1 \in 1..MaxFiles /\ Cardinality({r} \X (1..k)) = k
         /\ ({r} \X (1..k)) \cup {<<r, k + 1>>} = {r} \X (1..(k + 1))
         /\ IsFiniteSet(({r} \X (1..k)) \cup {<<r, k + 1>>})
<1>1. k \in Nat /\ files \in Nat /\ files <= MaxFiles /\ k <= files
  BY ListingsAssumption
<1>2. /\ IsFiniteSet({r} \X (1..k)) /\ Cardinality({r} \X (1..k)) = k
      /\ ({r} \X (1..k)) \cup {<<r, k + 1>>} = {r} \X (1..(k + 1))
  BY <1>1, FirstFiles
<1>3. IsFiniteSet(({r} \X (1..k)) \cup {<<r, k + 1>>})
  BY <1>2, FS_AddElement
<1>4. k + 1 \in 0..files /\ k + 1 \in 1..MaxFiles
  BY <1>1, <1>2, ListingsAssumption
<1> QED BY <1>2, <1>3, <1>4

\* The file after those a request has uploaded is an image nobody has.
LEMMA NextImage ==
  ASSUME ListingsInv, NEW r \in Request, req[r].at = "upload",
         Cardinality(req[r].held) # req[r].files,
         NEW a, a = <<r, Cardinality(req[r].held) + 1>>
  PROVE  a \in Asset /\ a[1] = r /\ a[2] \in 1..MaxFiles /\ a \notin req[r].held
<1>0. InStep(r, req[r]) /\ req[r].files \in 0..MaxFiles
  BY Before DEF RequestRecord
<1>1. PICK k \in 0..req[r].files : req[r].held = {r} \X (1..k)
  BY <1>0 DEF InStep
<1> DEFINE files == req[r].files
           n == Cardinality({r} \X (1..k))
<1>2. n # files /\ a = <<r, n + 1>>
  BY <1>1
<1>3. k + 1 \in 1..MaxFiles /\ n = k
  BY <1>0, <1>2, NextFile
<1> HIDE DEF files, n
<1> QED BY <1>1, <1>2, <1>3 DEF Asset

\* The answer to an upload is lost: the image is there and nobody knows of it.
LEMMA LostStep ==
  ASSUME ListingsInv, NEW r \in Request, req[r].at = "upload",
         Cardinality(req[r].held) # req[r].files,
         NEW a, a = <<r, Cardinality(req[r].held) + 1>>,
         assets' = assets \cup {a}, astray' = astray \cup {a},
         Go(r, "cleanup"), UNCHANGED <<listings, booked, photos>>
  PROVE  ListingsInv'
<1> DEFINE q == [req[r] EXCEPT !.at = "cleanup"]
<1>1. TypeOK /\ req[r] \in RequestRecord /\ InStep(r, req[r]) /\ HeldInStep(req[r])
  BY Before, RecordType DEF ListingsInv
<1>2. q \in RequestRecord /\ q.held = req[r].held /\ q.on = req[r].on /\ q.at \notin Noting
  BY <1>1 DEF RequestRecord, Step, Noting
<1>3. req' = [req EXCEPT ![r] = q]
  BY DEF Go
<1>4. InStep(r, q) /\ HeldInStep(q)
  BY <1>1 DEF RequestRecord, InStep, HeldInStep, Noting, Adding
<1>5. {a} \in SUBSET Asset
  BY NextImage
<1>6. listings' \in [Listing -> Row] /\ StaysRemoved /\ booked' \subseteq Listing
  BY <1>1 DEF TypeOK, StaysRemoved
<1> HIDE DEF q
<1> QED BY <1>2, <1>3, <1>4, <1>5, <1>6, LeaveStep

\* One more file is uploaded.
LEMMA UploadedStep ==
  ASSUME ListingsInv, NEW r \in Request, req[r].at = "upload", Cardinality(req[r].held) # req[r].files,
         NEW a, a = <<r, Cardinality(req[r].held) + 1>>, assets' = assets \cup {a},
         req' = [req EXCEPT ![r].held = @ \cup {a}], UNCHANGED <<listings, booked, photos, astray>>
  PROVE  ListingsInv'
<1>0. InStep(r, req[r]) /\ req[r].files \in 0..MaxFiles
  BY Before DEF RequestRecord
<1>1. PICK k \in 0..req[r].files : req[r].held = {r} \X (1..k)
  BY <1>0 DEF InStep
<1>2. /\ k + 1 \in 0..req[r].files /\ k + 1 \in 1..MaxFiles /\ a = <<r, k + 1>>
      /\ req[r].held \cup {a} = {r} \X (1..(k + 1)) /\ IsFiniteSet(req[r].held \cup {a})
  <2> DEFINE k1 == k + 1
             files == req[r].files
             held == {r} \X (1..k)
  <2>1. Cardinality(held) # files
    BY <1>1
  <2>2. /\ k1 \in 0..files /\ k1 \in 1..MaxFiles /\ Cardinality(held) = k
        /\ held \cup {<<r, k1>>} = {r} \X (1..k1) /\ IsFiniteSet(held \cup {<<r, k1>>})
    BY <1>0, <2>1, NextFile
  <2>3. req[r].held = held /\ a = <<r, k1>>
    BY <1>1, <2>2
  <2> HIDE DEF k1, files, held
  <2>4. k1 \in 0..files /\ k1 \in 1..MaxFiles /\ a = <<r, k1>>
        /\ req[r].held \cup {a} = {r} \X (1..k1) /\ IsFiniteSet(req[r].held \cup {a})
    BY <2>2, <2>3
  <2> QED BY <2>4 DEF k1, files
<1> USE Before
<1>3. a \in Asset
  BY <1>2 DEF Asset
<1>4. /\ \A s \in Request \ {r} : req'[s] = req[s]
      /\ req'[r] = [req[r] EXCEPT !.held = req[r].held \cup {a}]
      /\ req' \in [Request -> RequestRecord]
  BY <1>3 DEF RequestRecord
<1>5. \A s \in Request : /\ req'[s].at = req[s].at /\ req'[s].on = req[s].on /\ req'[s].answer = req[s].answer
                         /\ req[s].held \subseteq req'[s].held
  BY <1>4 DEF RequestRecord
<1>6. TypeOK'
  BY <1>3, <1>4 DEF TypeOK, RequestRecord
<1>7. InStep(r, req'[r])
  <2>1. \A b \in req[r].held \cup {a} : b[1] = r
    BY DEF InStep, Adding
  <2> QED BY <1>2, <1>4, <2>1 DEF InStep, RequestRecord, Noting, Adding
<1>8. HeldInStep(req[r])'
  <2>1. req'[r].held \subseteq assets'
    BY <1>4 DEF HeldInStep, Adding, RequestRecord
  <2> QED BY <1>5, <2>1 DEF HeldInStep, Noting
<1>9. ASSUME NEW s \in Request \ {r} PROVE (InStep(s, req[s]) /\ HeldInStep(req[s]))'
  <2>1. HeldInStep(req[s]) /\ InStep(s, req[s]) /\ req[s].held \subseteq Asset /\ req'[s] = req[s]
    BY <1>4
  <2>2. \A b \in req[s].held : req'[b[1]].at = req[b[1]].at
    BY <1>5, <2>1
  <2> QED BY <2>1, <2>2 DEF HeldInStep, InStep, Attached
<1>10. RowsAreSettled' /\ PhotosHaveAssets'
  BY <1>5 DEF ListingsInv, RowsAreSettled, PhotosHaveAssets, Attached
<1>11. ASSUME NEW b \in assets' PROVE Explained(b)'
  <2>1. CASE b = a
    BY <1>4, <2>1 DEF Explained, Kept, RequestRecord, Noting
  <2>2. CASE b \in assets
    <3>1. Explained(b) /\ b[1] \in Request
      BY <2>2 DEF ListingsInv, TypeOK
    <3> QED BY <1>5, <3>1 DEF Explained, Kept, Attached
  <2> QED BY <2>1, <2>2
<1> QED BY <1>6, <1>7, <1>8, <1>9, <1>10, <1>11 DEF ListingsInv

\* The upload of a batch.
LEMMA UploadStep == ASSUME ListingsInv, NEW r \in Request, UploadListingPhoto(r) PROVE ListingsInv'
<1>1. req[r].at = "upload" /\ InStep(r, req[r]) /\ HeldInStep(req[r]) /\ req[r] \in RequestRecord
  BY Before DEF UploadListingPhoto, At
<1>2. ASSUME NEW step \in {"insertStart", "cleanup"}, Go(r, step), UNCHANGED <<assets, astray>>
      PROVE  ListingsInv'
  <2>1. InStep(r, [req[r] EXCEPT !.at = step]) /\ HeldInStep([req[r] EXCEPT !.at = step])
    BY <1>1 DEF RequestRecord, InStep, HeldInStep, Noting, Adding
  <2>2. step \in Step /\ step \notin Noting
    BY DEF Step, Noting
  <2> QED BY <1>1, <1>2, <2>1, <2>2, GoStep DEF UploadListingPhoto
<1>3. CASE Cardinality(req[r].held) = req[r].files
  BY <1>2, <1>3 DEF UploadListingPhoto
<1>4. CASE Cardinality(req[r].held) # req[r].files
  <2> DEFINE a == <<r, Cardinality(req[r].held) + 1>>
  <2>1. CASE /\ assets' = assets \cup {a} /\ UNCHANGED astray
             /\ req' = [req EXCEPT ![r].held = @ \cup {a}]
    BY <1>1, <1>4, <2>1, UploadedStep DEF UploadListingPhoto
  <2>2. CASE /\ assets' = assets \cup {a} /\ astray' = astray \cup {a}
             /\ Go(r, "cleanup")
    BY <1>1, <1>4, <2>2, LostStep DEF UploadListingPhoto
  <2> QED BY <1>2, <1>4, <2>1, <2>2 DEF UploadListingPhoto
<1> QED BY <1>3, <1>4

\* An image is deleted, or its deletion is logged as failed.
LEMMA DestroyStep == ASSUME ListingsInv, NEW r \in Request, DestroyListingPhoto(r) PROVE ListingsInv'
<1> USE Before
<1>1. req[r].at \in {"destroy", "cleanup"}
  BY DEF DestroyListingPhoto, At
<1>2. CASE req[r].held = {}
  <2>1. listings' \in [Listing -> Row] /\ StaysRemoved /\ UNCHANGED <<booked, photos, assets, astray>>
    BY <1>2 DEF DestroyListingPhoto, TypeOK, StaysRemoved
  <2> QED BY <1>1, <1>2, <2>1, AnswerStep DEF DestroyListingPhoto
<1>3. ASSUME NEW a \in req[r].held, req' = [req EXCEPT ![r].held = @ \ {a}],
             \/ assets' = assets \ {a} /\ UNCHANGED astray
             \/ astray' = astray \cup {a} /\ UNCHANGED assets
      PROVE  ListingsInv'
  <2>1. a \in Asset /\ a \notin Attached /\ (req[a[1]].at = "done" \/ a[1] = r)
    BY <1>1 DEF ListingsInv, HeldInStep, InStep, RowsAreSettled, Attached
  <2>2. UNCHANGED <<listings, booked, photos>>
    BY DEF DestroyListingPhoto
  <2>3. /\ \A s \in Request \ {r} : req'[s] = req[s]
        /\ req'[r] = [req[r] EXCEPT !.held = req[r].held \ {a}]
        /\ req' \in [Request -> RequestRecord]
    BY <1>3 DEF RequestRecord
  <2>4. \A s \in Request : /\ req'[s].at = req[s].at /\ req'[s].on = req[s].on /\ req'[s].answer = req[s].answer
                           /\ req[s].held \ {a} \subseteq req'[s].held /\ req'[s].held \subseteq req[s].held
    BY <2>3 DEF RequestRecord
  <2>5. TypeOK'
    BY <1>3, <2>1, <2>2, <2>3 DEF TypeOK, RequestRecord
  <2>6. ASSUME NEW s \in Request PROVE InStep(s, req[s])'
    <3>1. IsFiniteSet(req'[s].held)
      BY <2>4, FS_Subset DEF InStep
    <3>2. CASE s = r
      BY <1>1, <2>4, <3>1, <3>2 DEF InStep, Noting, Adding
    <3>3. CASE s # r
      BY <2>3, <3>3 DEF InStep
    <3> QED BY <3>2, <3>3
  <2>7. ASSUME NEW s \in Request PROVE HeldInStep(req[s])'
    <3>0. HeldInStep(req[s]) /\ InStep(s, req[s]) /\ req[s].held \subseteq Asset
      OBVIOUS
    <3>1. req[s].at \in Adding => a \notin req[s].held
      BY <1>1, <2>1, <3>0 DEF InStep, Adding
    <3>2. req'[s].at \in Adding => req'[s].held \subseteq assets'
      BY <1>3, <2>4, <3>0, <3>1 DEF HeldInStep
    <3>3. \A b \in req'[s].held : b \in req[s].held /\ req'[b[1]].at = req[b[1]].at
      BY <2>4, <3>0
    <3> QED BY <2>2, <2>4, <3>0, <3>2, <3>3 DEF HeldInStep, Attached
  <2>8. RowsAreSettled' /\ PhotosHaveAssets'
    BY <1>3, <2>1, <2>2, <2>4 DEF ListingsInv, RowsAreSettled, PhotosHaveAssets, Attached
  <2>9. ASSUME NEW b \in assets' PROVE Explained(b)'
    <3>1. CASE b = a
      BY <1>3, <3>1 DEF Explained
    <3>2. CASE b # a
      <4>1. b \in assets /\ Explained(b) /\ b[1] \in Request
        BY <1>3 DEF ListingsInv, TypeOK
      <4> QED BY <1>3, <2>2, <2>4, <3>2, <4>1 DEF Explained, Kept, Attached
    <3> QED BY <3>1, <3>2
  <2> QED BY <2>2, <2>5, <2>6, <2>7, <2>8, <2>9 DEF ListingsInv
<1> QED BY <1>2, <1>3 DEF DestroyListingPhoto

\* What was noted is deleted from the tables: the listing with its photos, or one photo.
LEMMA DeleteStep ==
  ASSUME ListingsInv, NEW r \in Request, req[r].at \in Noting, Go(r, "destroy"),
         listings' \in [Listing -> Row], StaysRemoved, photos' \subseteq photos,
         \A p \in photos' : p.asset \notin req[r].held,
         \A p \in photos \ photos' : p.asset \in req[r].held \/ listings'[p.listing].status = "REMOVED",
         UNCHANGED <<booked, assets, astray>>
  PROVE  ListingsInv'
<1> USE Before
<1>1. /\ \A s \in Request \ {r} : req'[s] = req[s]
      /\ req'[r] = [req[r] EXCEPT !.at = "destroy"]
      /\ req' \in [Request -> RequestRecord]
  <2>1. "destroy" \in Step
    BY DEF Step
  <2> QED BY <2>1 DEF RequestRecord, Go
<1>2. /\ req'[r].at = "destroy" /\ req[r].at # "done"
      /\ \A s \in Request : /\ s # r => req'[s].at = req[s].at
                            /\ req'[s].held = req[s].held /\ req'[s].on = req[s].on
                            /\ req'[s].answer = req[s].answer
  BY <1>1 DEF RequestRecord, Noting
<1>3. TypeOK' /\ IsFiniteSet(photos')
  <2>1. IsFiniteSet(photos')
    BY FS_Subset
  <2> QED BY <1>1, <2>1 DEF TypeOK, RequestRecord
<1>4. ASSUME NEW s \in Request PROVE (InStep(s, req[s]) /\ HeldInStep(req[s]))'
  <2>1. \A b \in req[s].held : req[b[1]].at = "done" => req'[b[1]].at = "done"
    BY <1>2
  <2>2. Attached' \subseteq Attached
    BY DEF Attached
  <2>3. CASE s = r
    <3>1. req'[r].held \cap Attached' = {}
      BY <1>2 DEF Attached
    <3> QED BY <1>2, <2>1, <2>3, <3>1 DEF HeldInStep, InStep, Noting, Adding
  <2>4. CASE s # r
    BY <1>1, <2>1, <2>2, <2>4 DEF HeldInStep, InStep
  <2> QED BY <2>3, <2>4
<1>5. RowsAreSettled' /\ PhotosHaveAssets'
  BY <1>2 DEF ListingsInv, RowsAreSettled, PhotosHaveAssets, Attached
<1>6. ASSUME NEW b \in assets' PROVE Explained(b)'
  <2>1. Explained(b) /\ b \in Asset /\ b[1] \in Request
    BY DEF ListingsInv, TypeOK
  <2>2. ASSUME NEW p \in photos, p.asset = b PROVE Explained(b)'
    <3>1. CASE p \in photos'
      BY <2>2, <3>1 DEF Explained, Attached
    <3>2. CASE b \in req[r].held
      BY <1>2, <3>2 DEF Explained, Kept, Noting
    <3>3. CASE listings'[p.listing].status = "REMOVED"
      <4>1. p.listing \in req'[b[1]].on
        BY <1>2, <2>1, <2>2 DEF ListingsInv, RowsAreSettled
      <4> QED BY <3>3, <4>1 DEF Explained
    <3> QED BY <2>2, <3>1, <3>2, <3>3
  <2>3. CASE b \in astray \/ req[b[1]].answer = "error"
    BY <1>2, <2>1, <2>3 DEF Explained
  <2>4. CASE Kept(b)
    BY <1>1, <1>2, <2>4 DEF Explained, Kept, Noting
  <2>5. ASSUME NEW l \in req[b[1]].on, listings[l].status = "REMOVED" PROVE Explained(b)'
    BY <1>2, <2>1, <2>5, RecordRefers DEF Explained, StaysRemoved
  <2> QED BY <2>1, <2>2, <2>3, <2>4, <2>5 DEF Explained, Attached
<1> QED BY <1>3, <1>4, <1>5, <1>6 DEF ListingsInv

\* deleteListing: its photos go with it, or a booking forbids it.
LEMMA DeleteListingStep == ASSUME ListingsInv, NEW r \in Request, DeleteListing(r) PROVE ListingsInv'
<1>1. /\ req[r].at = "deleteListing" /\ req[r].on # {} /\ TypeOK /\ HeldInStep(req[r])
      /\ On(r) \in Listing /\ req[r].on = {On(r)}
  BY Before, OnType DEF DeleteListing, At, InStep
<1>2. CASE On(r) \in booked
  <2>1. listings' \in [Listing -> Row] /\ StaysRemoved /\ UNCHANGED <<booked, photos, assets, astray>>
    BY <1>1, <1>2 DEF DeleteListing, TypeOK, StaysRemoved
  <2> QED BY <1>1, <1>2, <2>1, AnswerStep DEF DeleteListing, Noting
<1>3. CASE On(r) \notin booked
  <2>1. /\ listings' = [listings EXCEPT ![On(r)].status = "REMOVED"]
        /\ photos' = photos \ PhotosOf(On(r)) /\ Go(r, "destroy") /\ UNCHANGED <<booked, assets, astray>>
    BY <1>3 DEF DeleteListing
  <2>2. /\ listings' \in [Listing -> Row] /\ StaysRemoved
        /\ listings'[On(r)].status = "REMOVED"
    BY <1>1, <2>1 DEF TypeOK, Row, Gone, StaysRemoved
  <2>3. \A p \in photos' : p.asset \notin req[r].held
    BY <1>1, <2>1 DEF HeldInStep, PhotosOf
  <2>4. \A p \in photos \ photos' : p.listing = On(r)
    BY <2>1 DEF PhotosOf
  <2> QED BY <1>1, <2>1, <2>2, <2>3, <2>4, DeleteStep DEF Noting
<1> QED BY <1>2, <1>3

\* deletePhoto: the row goes, if it is still there.
LEMMA DeletePhotoStep == ASSUME ListingsInv, NEW r \in Request, DeletePhoto(r) PROVE ListingsInv'
<1>1. req[r].at = "deletePhoto" /\ TypeOK
  BY Before DEF DeletePhoto, At
<1>2. listings' \in [Listing -> Row] /\ StaysRemoved /\ UNCHANGED <<booked, assets, astray>>
  BY <1>1 DEF DeletePhoto, TypeOK, StaysRemoved
<1>3. CASE req[r].held \subseteq AssetsOf(On(r))
  <2>1. photos' = {p \in photos : p.asset \notin req[r].held} /\ Go(r, "destroy")
    BY <1>3 DEF DeletePhoto
  <2> QED BY <1>1, <1>2, <2>1, DeleteStep DEF Noting
<1>4. CASE ~(req[r].held \subseteq AssetsOf(On(r)))
  <2>1. Answer(r, "notFound") /\ UNCHANGED photos
    BY <1>4 DEF DeletePhoto
  <2> QED BY <1>1, <1>2, <2>1, AnswerStep DEF Noting
<1> QED BY <1>3, <1>4

\* A request that is over leaves the rows and images as the step made them:
\* rows that are all there, its own attached or another order of the same.
LEMMA WriteStep ==
  ASSUME ListingsInv, NEW r \in Request, req[r].at \in {"insertPhotos", "reorder"}, Answer(r, "ok"),
         photos' \subseteq Photo, IsFiniteSet(photos'), UNCHANGED <<listings, booked, assets, astray>>,
         Attached' = Attached \cup req[r].held,
         \A p, q \in photos' : p.asset = q.asset => p = q,
         \A p \in photos' : \/ p.asset \in req[r].held /\ req[r].on = {p.listing}
                            \/ \E o \in photos : o.asset = p.asset /\ o.listing = p.listing
  PROVE  ListingsInv'
<1> USE Before
<1> DEFINE q == [Idle EXCEPT !.at = "done", !.on = req[r].on, !.answer = "ok"]
<1>1. q \in RequestRecord /\ q.at = "done" /\ q.on = req[r].on /\ q.answer = "ok" /\ q.held = {}
  <2>1. q \in RequestRecord /\ q.at = "done" /\ q.on = req[r].on /\ q.answer = "ok"
    BY IdleRecord DEF RequestRecord, Step
  <2>2. q.held = {}
    BY DEF Idle
  <2> QED BY <2>1, <2>2
<1>2. req' = [req EXCEPT ![r] = q]
  BY DEF Answer
<1> HIDE DEF q
<1>3. /\ \A s \in Request \ {r} : req'[s] = req[s]
      /\ req'[r] = q /\ req' \in [Request -> RequestRecord]
  BY <1>1, <1>2
<1>4. TypeOK'
  BY <1>3 DEF TypeOK, RequestRecord
<1>5. /\ \A a \in req[r].held : a[1] = r /\ a \in assets
      /\ req[r].at # "done" /\ req[r].answer = "none"
  BY DEF InStep, HeldInStep, Noting, Adding
<1>6. \A s \in Request : req[s].at = "done" => s # r /\ req'[s] = req[s]
  BY <1>3, <1>5
<1>7. ASSUME NEW s \in Request PROVE (InStep(s, req[s]) /\ HeldInStep(req[s]))'
  <2>1. CASE s = r
    BY <1>1, <1>3, <2>1, FS_EmptySet DEF InStep, HeldInStep, Noting, Adding
  <2>2. CASE s # r
    <3>1. req'[s] = req[s] /\ InStep(s, req[s]) /\ HeldInStep(req[s]) /\ req[s].held \subseteq Asset
      BY <1>3, <2>2
    <3>2. \A b \in req[s].held : req[b[1]].at = "done" => req'[b[1]].at = "done" /\ b \notin req[r].held
      BY <1>5, <1>6, <3>1
    <3>3. req[s].at = "destroy" => req[s].held \cap Attached' = {}
      BY <3>1, <3>2 DEF HeldInStep, Noting
    <3>4. req[s].at = "deleteListing" => \A p \in photos' : p.asset \in req[s].held => req[s].on = {p.listing}
      BY <3>1, <3>2 DEF HeldInStep, Noting
    <3> QED BY <3>1, <3>2, <3>3, <3>4 DEF InStep, HeldInStep
  <2> QED BY <2>1, <2>2
<1>8. RowsAreSettled'
  <2> SUFFICES ASSUME NEW p \in photos'
               PROVE  req'[p.asset[1]].at = "done" /\ req'[p.asset[1]].on = {p.listing}
    BY DEF RowsAreSettled
  <2>1. CASE p.asset \in req[r].held /\ req[r].on = {p.listing}
    BY <1>1, <1>3, <1>5, <2>1
  <2>2. ASSUME NEW o \in photos, o.asset = p.asset, o.listing = p.listing
        PROVE  req'[p.asset[1]].at = "done" /\ req'[p.asset[1]].on = {p.listing}
    <3>1. req[o.asset[1]].at = "done" /\ req[o.asset[1]].on = {o.listing} /\ o.asset[1] \in Request
      BY DEF ListingsInv, RowsAreSettled
    <3> QED BY <1>6, <2>2, <3>1
  <2> QED BY <2>1, <2>2
<1>9. PhotosHaveAssets'
  <2>1. Attached \subseteq assets
    BY DEF ListingsInv, PhotosHaveAssets
  <2> QED BY <1>5, <2>1 DEF PhotosHaveAssets
<1>10. ASSUME NEW b \in assets' PROVE Explained(b)'
  <2>1. Explained(b) /\ b \in Asset /\ b[1] \in Request
    BY DEF ListingsInv, TypeOK
  <2>2. CASE b \in Attached \cup astray \cup req[r].held
    BY <2>2 DEF Explained
  <2>3. ASSUME NEW s \in Request, s # r, req[s].at \notin Noting, b \in req[s].held PROVE Explained(b)'
    BY <1>3, <2>3 DEF Explained, Kept
  <2>4. CASE req[b[1]].answer = "error"
    BY <1>3, <1>5, <2>1, <2>4 DEF Explained
  <2>5. ASSUME NEW l \in req[b[1]].on, listings[l].status = "REMOVED" PROVE Explained(b)'
    BY <1>1, <1>3, <2>1, <2>5 DEF Explained
  <2> QED BY <2>1, <2>2, <2>3, <2>4, <2>5 DEF Explained, Kept
<1> QED BY <1>4, <1>7, <1>8, <1>9, <1>10 DEF ListingsInv

\* insertPhotos: the batch becomes rows, or the statement fails and it stays behind.
LEMMA InsertStep == ASSUME ListingsInv, NEW r \in Request, InsertPhotos(r) PROVE ListingsInv'
<1>1. /\ req[r].at = "insertPhotos" /\ req[r].on # {} /\ TypeOK /\ req[r] \in RequestRecord
      /\ \A a \in req[r].held : a[1] = r
      /\ req[r].held \subseteq Asset /\ IsFiniteSet(req[r].held) /\ IsFiniteSet(photos)
  BY Before DEF InsertPhotos, At, InStep, Noting, Adding
<1>2. On(r) \in Listing /\ req[r].on = {On(r)}
  BY <1>1, OnType
<1> DEFINE new(a) == [listing |-> On(r), asset |-> a, position |-> req[r].start + a[2] - 1]
<1>3. CASE photos' = photos \cup NewRows(r) /\ Answer(r, "ok")
  <2>1. NewRows(r) = {new(a) : a \in req[r].held}
    BY DEF NewRows
  <2>2. \A a \in req[r].held : new(a) \in Photo /\ new(a).asset = a /\ new(a).listing = On(r)
    <3> SUFFICES ASSUME NEW a \in req[r].held PROVE req[r].start + a[2] - 1 \in Nat
      BY <1>1, <1>2 DEF Photo
    <3>1. a[2] \in 1..MaxFiles /\ req[r].start \in Nat
      BY <1>1 DEF Asset, RequestRecord
    <3> QED BY <3>1, ListingsAssumption
  <2>3. IsFiniteSet(NewRows(r))
    <3> DEFINE f == [a \in req[r].held |-> new(a)]
    <3>1. f \in Surjection(req[r].held, NewRows(r))
      BY <2>1 DEF Surjection
    <3> HIDE DEF f
    <3> QED BY <1>1, <3>1, FS_Surjection
  <2> HIDE DEF new
  <2>4. photos' \subseteq Photo /\ IsFiniteSet(photos')
    BY <1>1, <1>3, <2>1, <2>2, <2>3, FS_Union DEF TypeOK
  <2>5. Attached' = Attached \cup req[r].held
    <3>1. {p.asset : p \in NewRows(r)} = req[r].held
      BY <2>1, <2>2
    <3> QED BY <1>3, <3>1 DEF Attached
  <2>6. \A p \in photos : p.asset \notin req[r].held
    BY <1>1 DEF ListingsInv, RowsAreSettled
  <2>7. \A p, q \in photos' : p.asset = q.asset => p = q
    <3>1. \A p, q \in photos : p.asset = q.asset => p = q
      BY DEF ListingsInv, PhotosHaveAssets
    <3>2. \A p \in NewRows(r) : p.asset \in req[r].held /\ p = new(p.asset)
      BY <2>1, <2>2
    <3> QED BY <1>3, <2>6, <3>1, <3>2
  <2>8. \A p \in photos' : \/ p.asset \in req[r].held /\ req[r].on = {p.listing}
                           \/ \E o \in photos : o.asset = p.asset /\ o.listing = p.listing
    BY <1>2, <1>3, <2>1, <2>2
  <2> QED BY <1>1, <1>3, <2>4, <2>5, <2>7, <2>8, WriteStep DEF InsertPhotos
<1>4. CASE Answer(r, "error") /\ UNCHANGED photos
  <2>1. listings' \in [Listing -> Row] /\ StaysRemoved
    BY <1>1 DEF InsertPhotos, TypeOK, StaysRemoved
  <2> QED BY <1>1, <1>4, <2>1, AnswerStep DEF InsertPhotos
<1> QED BY <1>3, <1>4 DEF InsertPhotos

\* reorderListingPhotos: the same rows, in another order.
LEMMA ReorderStep == ASSUME ListingsInv, NEW r \in Request, ReorderPhotos(r) PROVE ListingsInv'
<1>1. /\ req[r].at = "reorder" /\ req[r].held = {} /\ TypeOK /\ req[r] \in RequestRecord
      /\ IsFiniteSet(photos) /\ req[r].order \in Seq(Asset)
  BY Before DEF ReorderPhotos, At, InStep, Noting, Adding, RequestRecord
<1> DEFINE row(p) == Reordered(p, On(r), req[r].order)
           moved == {row(p) : p \in photos}
<1>2. CASE photos' = moved /\ Answer(r, "ok")
  <2>1. \A p \in photos : row(p) \in Photo /\ row(p).asset = p.asset /\ row(p).listing = p.listing
    <3> SUFFICES ASSUME NEW p \in photos
                 PROVE  row(p) \in Photo /\ row(p).asset = p.asset /\ row(p).listing = p.listing
      OBVIOUS
    <3> DEFINE i == CHOOSE j \in DOMAIN req[r].order : req[r].order[j] = p.asset
    <3>1. p \in Photo
      BY <1>1 DEF TypeOK
    <3>2. CASE p.listing = On(r) /\ \E j \in DOMAIN req[r].order : req[r].order[j] = p.asset
      <4>1. i \in DOMAIN req[r].order
        BY <3>2
      <4>2. i - 1 \in Nat
        <5>1. i \in 1..Len(req[r].order) /\ Len(req[r].order) \in Nat
          BY <1>1, <4>1
        <5> HIDE DEF i
        <5> QED BY <5>1
      <4>3. row(p) = [p EXCEPT !.position = i - 1]
        BY <3>2 DEF Reordered
      <4> HIDE DEF i, row
      <4> QED BY <3>1, <4>2, <4>3 DEF Photo
    <3>3. CASE ~(p.listing = On(r) /\ \E j \in DOMAIN req[r].order : req[r].order[j] = p.asset)
      BY <3>1, <3>3 DEF Reordered
    <3> QED BY <3>2, <3>3
  <2> HIDE DEF row
  <2>2. photos' \subseteq Photo /\ IsFiniteSet(photos')
    <3> DEFINE f == [p \in photos |-> row(p)]
    <3>1. f \in Surjection(photos, moved)
      BY DEF Surjection
    <3>2. IsFiniteSet(moved)
      <4> HIDE DEF f, moved
      <4> QED BY <1>1, <3>1, FS_Surjection
    <3> QED BY <1>2, <2>1, <3>2
  <2>3. Attached' = Attached \cup req[r].held
    BY <1>1, <1>2, <2>1 DEF Attached
  <2>4. \A p, q \in photos' : p.asset = q.asset => p = q
    <3>1. \A p, q \in photos : p.asset = q.asset => p = q
      BY DEF ListingsInv, PhotosHaveAssets
    <3> QED BY <1>2, <2>1, <3>1
  <2>5. \A p \in photos' : \E o \in photos : o.asset = p.asset /\ o.listing = p.listing
    BY <1>2, <2>1
  <2> HIDE DEF moved
  <2> QED BY <1>1, <1>2, <2>2, <2>3, <2>4, <2>5, WriteStep DEF ReorderPhotos
<1>3. CASE Answer(r, "error") /\ UNCHANGED photos
  <2>1. listings' \in [Listing -> Row] /\ StaysRemoved
    BY <1>1 DEF ReorderPhotos, TypeOK, StaysRemoved
  <2> QED BY <1>1, <1>3, <2>1, AnswerStep DEF ReorderPhotos
<1> QED BY <1>2, <1>3 DEF ReorderPhotos

\* A booking of a listing is made, or nothing at all happens.
LEMMA OtherStep ==
  ASSUME ListingsInv, (\E l \in Listing : InsertBooking(l)) \/ UNCHANGED vars
  PROVE  ListingsInv'
<1>1. UNCHANGED <<listings, photos, assets, astray, req>> /\ booked' \subseteq Listing
  BY DEF InsertBooking, vars, ListingsInv, TypeOK
<1> QED BY <1>1 DEF ListingsInv, TypeOK, InStep, HeldInStep, RowsAreSettled, PhotosHaveAssets, Explained,
                    Kept, Attached

\* No step of any request loses an image from sight, or a row's image.
LEMMA Inductive == Spec => []ListingsInv
<1>1. ASSUME ListingsInv, [Next]_vars PROVE ListingsInv'
  <2>1. ASSUME NEW r \in Request, Serve(r) PROVE ListingsInv'
    BY <1>1, <2>1, RowSteps, LookSteps, FindPhotosStep, DeleteListingStep, DestroyStep, UploadStep,
       InsertStep, DeletePhotoStep, CheckOrderStep, ReorderStep DEF Serve
  <2> QED BY <1>1, <2>1, ArriveStep, AbandonStep, OtherStep DEF Next
<1> QED BY <1>1, ListingsInit, PTL DEF Spec

\* Types of the tables, the images and the requests (listingService.js).
THEOREM TypeCorrect == Spec => []TypeOK
<1>1. ListingsInv => TypeOK
  BY DEF ListingsInv
<1> QED BY <1>1, Inductive, PTL

\* For any number of requests, listings and files, whatever fails: no listing
\* shows a picture that is gone, and an image no row refers to is being dealt
\* with, or is left of a failed insert, a failed deletion, the lost answer of its
\* upload, a death of the process, or the deletion of the listing it was uploaded
\* for (addPhotos, removePhoto, removeListing, destroyListingPhoto).
THEOREM ImagesNeverVanish == Spec => []ImagesAccountedFor
<1>1. ASSUME ListingsInv PROVE ImagesAccountedFor
  <2>1. \A a : Kept(a) => a \in Held
    BY DEF Kept, Held
  <2> QED BY <1>1, <2>1 DEF ListingsInv, Explained, ImagesAccountedFor, LeftoversAreExplained
<1> QED BY <1>1, Inductive, PTL

-----------------------------------------------------------------------------
(* The gallery. *)

\* An image at the provider is in the hands of the request that is still adding
\* it, or of nobody that will add it.
StoredOnce ==
  \A a \in assets : \/ req[a[1]].at \in {"cleanup", "done"}
                    \/ req[a[1]].at \in Adding /\ a \in req[a[1]].held

\* Each step keeps that, and is a step of the gallery or none.
Curates == StoredOnce' /\ [Promise!Next]_(Promise!gallery)

\* The phase of a request in a step of its handler.
PhaseAt(step) == CASE step = "done" -> "over" [] step = "cleanup" -> "clearing" [] OTHER -> "adding"

LEMMA PhasesAre ==
  ASSUME NEW step
  PROVE  /\ step = "done" => PhaseAt(step) = "over"
         /\ step = "cleanup" => PhaseAt(step) = "clearing"
         /\ step \notin {"cleanup", "done"} => PhaseAt(step) = "adding"
<1>1. CASE step = "done"
  BY <1>1 DEF PhaseAt
<1>2. CASE step = "cleanup"
  BY <1>2 DEF PhaseAt
<1>3. CASE step # "done" /\ step # "cleanup"
  BY <1>3 DEF PhaseAt
<1> QED BY <1>1, <1>2, <1>3

\* The phase of every request.
LEMMA PhaseIs == Phase = [r \in Request |-> PhaseAt(req[r].at)]
BY DEF Phase, PhaseAt, At

\* One request moves, and with it its phase.
LEMMA PhaseMoves ==
  ASSUME ListingsInv, NEW r \in Request, NEW q, req' = [req EXCEPT ![r] = q]
  PROVE  /\ Phase' = [Phase EXCEPT ![r] = PhaseAt(q.at)]
         /\ Phase[r] = PhaseAt(req[r].at)
         /\ req'[r] = q /\ \A s \in Request \ {r} : req'[s] = req[s]
<1>1. req'[r] = q /\ \A s \in Request \ {r} : req'[s] = req[s]
  BY Before
<1>2. Phase' = [s \in Request |-> PhaseAt(req'[s].at)]
  BY DEF Phase, PhaseAt, At
<1> QED BY <1>1, <1>2, PhaseIs

\* What hangs is what is attached.
LEMMA WhatHangs == Promise!Hanging = Attached
<1> DEFINE hung(p) == [image |-> p.asset, place |-> p.listing]
<1>1. \A p \in photos : hung(p) \in Wall /\ hung(p).image = p.asset
  BY DEF Wall
<1>2. \A h \in Wall : \E p \in photos : h.image = p.asset
  BY DEF Wall
<1> HIDE DEF hung
<1> QED BY <1>1, <1>2 DEF Promise!Hanging, Attached

\* An image stays in the hands it was in.
LEMMA StaysStored ==
  ASSUME ListingsInv, StoredOnce, NEW r \in Request, NEW q, req' = [req EXCEPT ![r] = q],
         req[r].at # "done", UNCHANGED assets,
         \/ q.at = "done"
         \/ q.at = "cleanup"
         \/ /\ req[r].at # "cleanup" /\ q.at \notin {"cleanup", "done"}
            /\ req[r].at \in Adding => q.at \in Adding /\ q.held = req[r].held
  PROVE  StoredOnce'
<1>1. req'[r] = q /\ \A s \in Request \ {r} : req'[s] = req[s]
  BY PhaseMoves
<1> SUFFICES ASSUME NEW a \in assets
             PROVE  \/ req'[a[1]].at \in {"cleanup", "done"}
                    \/ req'[a[1]].at \in Adding /\ a \in req'[a[1]].held
  BY DEF StoredOnce
<1>2. a[1] \in Request
  BY Before DEF ListingsInv, TypeOK
<1>3. CASE a[1] = r
  BY <1>1, <1>3 DEF StoredOnce
<1>4. CASE a[1] # r
  BY <1>1, <1>2, <1>4 DEF StoredOnce
<1> QED BY <1>3, <1>4

\* A request goes on, gives up, or is over, and rows and images stay as they are.
LEMMA Works ==
  ASSUME ListingsInv, StoredOnce, NEW r \in Request, NEW q, req' = [req EXCEPT ![r] = q],
         req[r].at # "done", UNCHANGED assets, Wall' = Wall,
         \/ q.at = "done"
         \/ q.at = "cleanup"
         \/ /\ req[r].at # "cleanup" /\ q.at \notin {"cleanup", "done"}
            /\ req[r].at \in Adding => q.at \in Adding /\ q.held = req[r].held
  PROVE  Curates
<1>1. /\ Phase' = [Phase EXCEPT ![r] = PhaseAt(q.at)]
      /\ Phase[r] = PhaseAt(req[r].at)
      /\ req'[r] = q /\ \A s \in Request \ {r} : req'[s] = req[s]
  BY PhaseMoves
<1>2. StoredOnce'
  BY StaysStored
<1>3. CASE q.at = "done"
  <2>1. Phase[r] # "over" /\ PhaseAt(q.at) = "over"
    BY <1>1, <1>3, PhasesAre
  <2>2. Promise!Finish(r)
    BY <1>1, <2>1 DEF Promise!Finish
  <2> QED BY <1>2, <2>2 DEF Curates, Promise!Next
<1>4. CASE q.at = "cleanup" /\ req[r].at # "cleanup"
  <2>1. Phase[r] = "adding" /\ PhaseAt(q.at) = "clearing"
    BY <1>1, <1>4, PhasesAre
  <2>2. Promise!GiveUp(r)
    BY <1>1, <2>1 DEF Promise!GiveUp
  <2> QED BY <1>2, <2>2 DEF Curates, Promise!Next
<1>5. CASE PhaseAt(q.at) = PhaseAt(req[r].at)
  <2>1. Phase' = Phase
    BY <1>1, <1>5, PhaseIs
  <2> QED BY <1>2, <2>1 DEF Curates, Promise!gallery
<1>6. \/ q.at = "done"
      \/ q.at = "cleanup" /\ req[r].at # "cleanup"
      \/ PhaseAt(q.at) = PhaseAt(req[r].at)
  <2>1. CASE q.at = "cleanup" /\ req[r].at = "cleanup"
    BY <2>1
  <2>2. CASE req[r].at # "cleanup" /\ q.at \notin {"cleanup", "done"}
    <3>1. PhaseAt(q.at) = "adding"
      BY <2>2, PhasesAre
    <3>2. req[r].at \notin {"cleanup", "done"}
      BY <2>2
    <3>3. PhaseAt(req[r].at) = "adding"
      BY <3>2, PhasesAre
    <3> QED BY <3>1, <3>3
  <2> QED BY <2>1, <2>2
<1> QED BY <1>3, <1>4, <1>5, <1>6

\* It answers.
LEMMA Answers ==
  ASSUME ListingsInv, StoredOnce, NEW r \in Request, NEW what, Answer(r, what),
         req[r].at # "done", UNCHANGED assets, Wall' = Wall
  PROVE  Curates
<1> DEFINE q == [Idle EXCEPT !.at = "done", !.on = req[r].on, !.answer = what]
<1>1. q.at = "done" /\ req' = [req EXCEPT ![r] = q]
  BY DEF Answer, Idle
<1> HIDE DEF q
<1> QED BY <1>1, Works

\* It only goes on.
LEMMA Goes ==
  ASSUME ListingsInv, StoredOnce, NEW r \in Request, NEW step, Go(r, step),
         req[r].at # "done", UNCHANGED assets, Wall' = Wall,
         \/ step \in {"done", "cleanup"}
         \/ req[r].at # "cleanup" /\ (req[r].at \in Adding => step \in Adding)
  PROVE  Curates
<1> DEFINE q == [req[r] EXCEPT !.at = step]
<1>1. req[r] \in RequestRecord
  BY Before
<1>2. q.at = step /\ q.held = req[r].held /\ req' = [req EXCEPT ![r] = q]
  BY <1>1 DEF RequestRecord, Go
<1> HIDE DEF q
<1>3. \/ q.at = "done" \/ q.at = "cleanup"
      \/ /\ req[r].at # "cleanup" /\ q.at \notin {"cleanup", "done"}
         /\ req[r].at \in Adding => q.at \in Adding /\ q.held = req[r].held
  BY <1>2
<1> QED BY <1>2, <1>3, Works

\* The rows are as they were.
LEMMA SameWall == ASSUME UNCHANGED photos PROVE Wall' = Wall
BY DEF Wall

\* A request arrives.
LEMMA ArriveCurates ==
  ASSUME ListingsInv, StoredOnce, NEW r \in Request, Arrive(r)
  PROVE  Curates
<1>0. req[r].at = "unsent" /\ UNCHANGED <<photos, assets>>
  BY Zenon DEF Arrive, At
<1>1. req[r].at = "unsent" /\ UNCHANGED assets /\ Wall' = Wall
  BY <1>0, SameWall
<1>2. "unsent" \notin Adding
  BY DEF Adding
<1>3. CASE req' = [req EXCEPT ![r].at = "create"]
  <2>1. Go(r, "create")
    BY <1>3 DEF Go
  <2> QED BY <1>1, <1>2, <2>1, Goes
<1>4. ASSUME NEW op \in DOMAIN FirstStep, NEW l \in Listing,
             NEW n \in IF op = "add" THEN 1..MaxFiles ELSE {0},
             NEW a \in IF op = "removePhoto" THEN {{x} : x \in AssetsOf(l)} ELSE {{}},
             req' = [req EXCEPT ![r] = [Idle EXCEPT !.at = FirstStep[op], !.on = {l},
                        !.files = n, !.held = a, !.has = listings[l].has]]
      PROVE  Curates
  <2> DEFINE q == [Idle EXCEPT !.at = FirstStep[op], !.on = {l}, !.files = n, !.held = a,
                               !.has = listings[l].has]
  <2>1. FirstStep[op] \notin {"cleanup", "done"}
    BY DEF FirstStep
  <2>2. q.at \notin {"cleanup", "done"} /\ req' = [req EXCEPT ![r] = q]
    BY <1>4, <2>1 DEF Idle
  <2> HIDE DEF q
  <2> QED BY <1>1, <1>2, <2>2, Works
<1>5. \/ req' = [req EXCEPT ![r].at = "create"]
      \/ \E op \in DOMAIN FirstStep, l \in Listing :
            \E n \in IF op = "add" THEN 1..MaxFiles ELSE {0},
               a \in IF op = "removePhoto" THEN {{x} : x \in AssetsOf(l)} ELSE {{}} :
              req' = [req EXCEPT ![r] = [Idle EXCEPT !.at = FirstStep[op], !.on = {l},
                        !.files = n, !.held = a, !.has = listings[l].has]]
  BY Zenon DEF Arrive
<1> QED BY <1>3, <1>4, <1>5, Zenon

\* createListing, updateListing, publishListing, unpublishListing answer.
LEMMA RowsCurate ==
  ASSUME ListingsInv, StoredOnce, NEW r \in Request,
         CreateListing(r) \/ UpdateListing(r) \/ PublishListing(r) \/ UnpublishListing(r)
  PROVE  Curates
<1>1. UNCHANGED assets /\ Wall' = Wall
  BY SameWall DEF CreateListing, UpdateListing, PublishListing, UnpublishListing
<1>2. req[r].at # "done" /\ \E what \in {"ok", "notFound"} : Answer(r, what)
  BY DEF CreateListing, UpdateListing, PublishListing, UnpublishListing, At
<1> QED BY <1>1, <1>2, Answers

\* A request looks, and goes on with what it had.
LEMMA LooksCurate ==
  ASSUME ListingsInv, StoredOnce, NEW r \in Request,
         CountForPublish(r) \/ CountPhotos(r) \/ FindPhotosForListing(r) \/ CheckOrder(r) \/ InsertStart(r)
  PROVE  Curates
<1>1. UNCHANGED assets /\ Wall' = Wall
  BY SameWall DEF CountForPublish, CountPhotos, FindPhotosForListing, CheckOrder, InsertStart
<1>2. req[r] \in RequestRecord /\ req \in [Request -> RequestRecord]
  BY Before
<1>3. CASE CountForPublish(r)
  BY <1>1, <1>3, Answers, Goes DEF CountForPublish, At, Adding
<1>4. CASE CountPhotos(r)
  BY <1>1, <1>4, Answers, Goes DEF CountPhotos, At, Adding
<1>5. CASE FindPhotosForListing(r)
  <2> DEFINE q == [req[r] EXCEPT !.at = "deleteListing", !.held = AssetsOf(On(r))]
  <2>1. req[r].at = "findPhotos" /\ req' = [req EXCEPT ![r] = q] /\ q.at = "deleteListing"
    BY <1>2, <1>5 DEF FindPhotosForListing, At, RequestRecord
  <2> HIDE DEF q
  <2> QED BY <1>1, <2>1, Works DEF Adding
<1>6. CASE CheckOrder(r)
  <2>1. req[r].at = "checkOrder"
    BY <1>6 DEF CheckOrder, At
  <2>2. CASE Answer(r, "refused")
    BY <1>1, <2>1, <2>2, Answers
  <2>3. ASSUME NEW order, req' = [req EXCEPT ![r].at = "reorder", ![r].order = order]
        PROVE  Curates
    <3> DEFINE q == [req[r] EXCEPT !.at = "reorder", !.order = order]
    <3>1. req' = [req EXCEPT ![r] = q] /\ q.at = "reorder"
      BY <1>2, <2>3 DEF RequestRecord
    <3> HIDE DEF q
    <3> QED BY <1>1, <2>1, <3>1, Works DEF Adding
  <2> QED BY <1>6, <2>2, <2>3 DEF CheckOrder
<1>7. CASE InsertStart(r)
  <2> DEFINE q == [req[r] EXCEPT !.at = "insertPhotos", !.start = NextPosition(On(r))]
  <2>1. /\ req[r].at = "insertStart" /\ req' = [req EXCEPT ![r] = q]
        /\ q.at = "insertPhotos" /\ q.held = req[r].held
    BY <1>2, <1>7 DEF InsertStart, At, RequestRecord
  <2> HIDE DEF q
  <2> QED BY <1>1, <2>1, Works DEF Adding
<1> QED BY <1>3, <1>4, <1>5, <1>6, <1>7

\* The process dies in a request.
LEMMA AbandonCurates ==
  ASSUME ListingsInv, StoredOnce, NEW r \in Request, Abandon(r)
  PROVE  Curates
BY SameWall, Goes DEF Abandon

\* What a request holds changes, and nothing else of it.
LEMMA HandsChange ==
  ASSUME ListingsInv, NEW r \in Request, NEW held, req' = [req EXCEPT ![r].held = held]
  PROVE  /\ Phase' = Phase
         /\ req'[r].held = held /\ req'[r].at = req[r].at
         /\ \A s \in Request \ {r} : req'[s] = req[s]
<1> DEFINE q == [req[r] EXCEPT !.held = held]
<1>1. req[r] \in RequestRecord
  BY Before
<1>2. q.held = held /\ q.at = req[r].at /\ req' = [req EXCEPT ![r] = q]
  BY <1>1 DEF RequestRecord
<1> HIDE DEF q
<1>3. /\ Phase' = [Phase EXCEPT ![r] = PhaseAt(q.at)] /\ Phase[r] = PhaseAt(req[r].at)
      /\ req'[r] = q /\ \A s \in Request \ {r} : req'[s] = req[s]
  BY <1>2, PhaseMoves
<1>4. Phase' = Phase
  BY <1>2, <1>3, PhaseIs
<1> QED BY <1>2, <1>3, <1>4

\* The next file is an image that was never stored.
LEMMA ImageIsNew ==
  ASSUME ListingsInv, StoredOnce, NEW r \in Request, req[r].at = "upload",
         Cardinality(req[r].held) # req[r].files,
         NEW a, a = <<r, Cardinality(req[r].held) + 1>>
  PROVE  a \in Promise!By(r) /\ a[1] = r /\ a \notin req[r].held /\ a \notin assets
<1>1. a \in Asset /\ a[1] = r /\ a[2] \in 1..MaxFiles /\ a \notin req[r].held
  BY NextImage
<1>2. a \in Promise!By(r)
  BY <1>1 DEF Promise!By, Asset
<1>3. a \notin assets
  BY <1>1 DEF StoredOnce
<1> QED BY <1>1, <1>2, <1>3

\* The answer to its upload is lost: it was stored in vain.
LEMMA LostCurates ==
  ASSUME ListingsInv, StoredOnce, NEW r \in Request, req[r].at = "upload",
         Cardinality(req[r].held) # req[r].files, UNCHANGED photos,
         NEW a, a = <<r, Cardinality(req[r].held) + 1>>, assets' = assets \cup {a},
         Go(r, "cleanup")
  PROVE  Curates
<1> DEFINE q == [req[r] EXCEPT !.at = "cleanup"]
<1>1. req[r] \in RequestRecord
  BY Before
<1>2. q.at = "cleanup" /\ req' = [req EXCEPT ![r] = q]
  BY <1>1 DEF RequestRecord, Go
<1> HIDE DEF q
<1>3. a \in Promise!By(r) /\ a[1] = r /\ a \notin assets
  BY ImageIsNew
<1>4. /\ Phase' = [Phase EXCEPT ![r] = PhaseAt(q.at)] /\ Phase[r] = PhaseAt(req[r].at)
      /\ req'[r] = q /\ \A s \in Request \ {r} : req'[s] = req[s]
  BY <1>2, PhaseMoves
<1>5. PhaseAt(q.at) = "clearing" /\ PhaseAt(req[r].at) = "adding"
  BY <1>2, PhasesAre
<1>6. StoredOnce'
  <2> SUFFICES ASSUME NEW b \in assets'
               PROVE  \/ req'[b[1]].at \in {"cleanup", "done"}
                      \/ req'[b[1]].at \in Adding /\ b \in req'[b[1]].held
    BY DEF StoredOnce
  <2>1. CASE b[1] = r
    BY <1>2, <1>4, <2>1
  <2>2. CASE b[1] # r
    <3>1. b \in assets /\ b[1] \in Request
      BY <1>3, <2>2, Before DEF ListingsInv, TypeOK
    <3> QED BY <1>4, <2>2, <3>1 DEF StoredOnce
  <2> QED BY <2>1, <2>2
<1>7. Promise!StoreInVain(r)
  BY <1>3, <1>4, <1>5, SameWall DEF Promise!StoreInVain
<1> QED BY <1>6, <1>7 DEF Curates, Promise!Next

\* One more file is uploaded: an image that was not there.
LEMMA StoreCurates ==
  ASSUME ListingsInv, StoredOnce, NEW r \in Request, req[r].at = "upload",
         Cardinality(req[r].held) # req[r].files, UNCHANGED photos,
         NEW a, a = <<r, Cardinality(req[r].held) + 1>>, assets' = assets \cup {a},
         req' = [req EXCEPT ![r].held = req[r].held \cup {a}]
  PROVE  Curates
<1>3. a \in Promise!By(r) /\ a[1] = r /\ a \notin req[r].held /\ a \notin assets
  BY ImageIsNew
<1>5. /\ Phase' = Phase
      /\ req'[r].held = req[r].held \cup {a} /\ req'[r].at = req[r].at
      /\ \A s \in Request \ {r} : req'[s] = req[s]
  BY HandsChange
<1>6. StoredOnce'
  <2> SUFFICES ASSUME NEW b \in assets'
               PROVE  \/ req'[b[1]].at \in {"cleanup", "done"}
                      \/ req'[b[1]].at \in Adding /\ b \in req'[b[1]].held
    BY DEF StoredOnce
  <2>1. CASE b = a
    BY <1>3, <1>5, <2>1 DEF Adding
  <2>2. CASE b \in assets
    <3>1. b[1] \in Request
      BY <2>2, Before DEF ListingsInv, TypeOK
    <3>2. \/ req[b[1]].at \in {"cleanup", "done"}
          \/ req[b[1]].at \in Adding /\ b \in req[b[1]].held
      BY <2>2 DEF StoredOnce
    <3>3. CASE b[1] = r
      BY <1>5, <3>2, <3>3
    <3>4. CASE b[1] # r
      BY <1>5, <3>1, <3>2, <3>4
    <3> QED BY <3>3, <3>4
  <2> QED BY <2>1, <2>2
<1>7. Phase[r] = "adding"
  BY PhaseIs, PhasesAre
<1>8. Promise!Store(r)
  BY <1>3, <1>5, <1>7, SameWall DEF Promise!Store
<1> QED BY <1>6, <1>8 DEF Curates, Promise!Next

\* The upload of a batch.
LEMMA UploadCurates ==
  ASSUME ListingsInv, StoredOnce, NEW r \in Request, UploadListingPhoto(r)
  PROVE  Curates
<1>1. req[r].at = "upload" /\ UNCHANGED photos /\ Wall' = Wall
  BY SameWall DEF UploadListingPhoto, At
<1>2. CASE Go(r, "insertStart") /\ UNCHANGED assets
  BY <1>1, <1>2, Goes DEF Adding
<1>3. CASE Go(r, "cleanup") /\ UNCHANGED assets
  BY <1>1, <1>3, Goes
<1> DEFINE a == <<r, Cardinality(req[r].held) + 1>>
<1>4. CASE /\ Cardinality(req[r].held) # req[r].files /\ assets' = assets \cup {a}
           /\ req' = [req EXCEPT ![r].held = @ \cup {a}]
  BY <1>1, <1>4, StoreCurates
<1>5. CASE /\ Cardinality(req[r].held) # req[r].files /\ assets' = assets \cup {a}
           /\ Go(r, "cleanup")
  BY <1>1, <1>5, LostCurates
<1> QED BY <1>2, <1>3, <1>4, <1>5 DEF UploadListingPhoto

\* An image is deleted, or its deletion is logged as failed.
LEMMA DestroyCurates ==
  ASSUME ListingsInv, StoredOnce, NEW r \in Request, DestroyListingPhoto(r)
  PROVE  Curates
<1>1. req[r].at \in {"destroy", "cleanup"} /\ UNCHANGED photos /\ Wall' = Wall
  BY SameWall DEF DestroyListingPhoto, At
<1>2. CASE req[r].held = {}
  <2>1. UNCHANGED assets /\ \E what \in {"ok", "notUploaded"} : Answer(r, what)
    BY <1>2 DEF DestroyListingPhoto
  <2> QED BY <1>1, <2>1, Answers
<1>3. ASSUME NEW a \in req[r].held, req' = [req EXCEPT ![r].held = req[r].held \ {a}],
             assets' = assets \ {a} \/ UNCHANGED assets
      PROVE  Curates
  <2>1. /\ a \in Asset /\ a[1] \in Request /\ a \notin Attached
        /\ req[a[1]].at = "done" \/ (a[1] = r /\ req[r].at = "cleanup")
    <3>1. a \in Asset /\ a[1] \in Request /\ HeldInStep(req[r]) /\ InStep(r, req[r])
      BY Before
    <3>2. CASE req[r].at = "destroy"
      BY <3>1, <3>2 DEF HeldInStep
    <3>3. CASE req[r].at = "cleanup"
      <4>1. a[1] = r
        BY <3>1, <3>3 DEF InStep
      <4>2. a \notin Attached
        BY <3>3, <4>1 DEF ListingsInv, RowsAreSettled, Attached
      <4> QED BY <3>1, <3>3, <4>1, <4>2
    <3> QED BY <1>1, <3>2, <3>3
  <2>2. /\ Phase' = Phase
        /\ req'[r].held = req[r].held \ {a} /\ req'[r].at = req[r].at
        /\ \A s \in Request \ {r} : req'[s] = req[s]
    BY <1>3, HandsChange
  <2>3. StoredOnce'
    <3> SUFFICES ASSUME NEW b \in assets
                 PROVE  \/ req'[b[1]].at \in {"cleanup", "done"}
                        \/ req'[b[1]].at \in Adding /\ b \in req'[b[1]].held
      BY <1>3 DEF StoredOnce
    <3>1. b[1] \in Request
      BY Before DEF ListingsInv, TypeOK
    <3>2. b[1] = r => req[r].at = "cleanup"
      BY <1>1 DEF StoredOnce, Adding
    <3>3. CASE b[1] = r
      BY <2>2, <3>2, <3>3
    <3>4. CASE b[1] # r
      BY <2>2, <3>1, <3>4 DEF StoredOnce
    <3> QED BY <3>3, <3>4
  <2>4. CASE UNCHANGED assets \/ a \notin assets
    BY <1>1, <1>3, <2>2, <2>3, <2>4 DEF Curates, Promise!gallery
  <2>5. CASE assets' = assets \ {a} /\ a \in assets
    <3>1. Phase[a[1]] # "adding"
      BY <2>1, PhaseIs, PhasesAre
    <3>2. a \in Promise!By(a[1])
      BY <2>1 DEF Promise!By, Asset
    <3>3. Promise!Discard(a[1])
      BY <1>1, <2>1, <2>2, <2>5, <3>1, <3>2, WhatHangs DEF Promise!Discard
    <3> QED BY <2>1, <2>3, <3>3 DEF Curates, Promise!Next
  <2> QED BY <1>3, <2>4, <2>5
<1> QED BY <1>2, <1>3 DEF DestroyListingPhoto

\* Rows of a listing go: the listing with its photos, or one photo.
LEMMA TakenDownCurates ==
  ASSUME ListingsInv, StoredOnce, NEW r \in Request, req[r].at \in Noting, Go(r, "destroy"),
         UNCHANGED assets, photos' \subseteq photos, \A p \in photos \ photos' : p.listing = On(r)
  PROVE  Curates
<1> DEFINE q == [req[r] EXCEPT !.at = "destroy"]
<1>1. req[r] \in RequestRecord /\ InStep(r, req[r])
  BY Before
<1>2. q.at = "destroy" /\ req' = [req EXCEPT ![r] = q]
  BY <1>1 DEF RequestRecord, Go
<1>3. On(r) \in Listing
  BY <1>1, OnType DEF InStep, Noting, ListingsInv
<1> HIDE DEF q
<1>4. req[r].at \notin Adding \cup {"cleanup", "done"}
  BY DEF Noting, Adding
<1>5. StoredOnce'
  BY <1>2, <1>4, StaysStored
<1>6. /\ Phase' = [Phase EXCEPT ![r] = PhaseAt(q.at)] /\ Phase[r] = PhaseAt(req[r].at)
  BY <1>2, PhaseMoves
<1>7. PhaseAt(q.at) = "adding" /\ PhaseAt(req[r].at) = "adding"
  <2>1. q.at \notin {"cleanup", "done"} /\ req[r].at \notin {"cleanup", "done"}
    BY <1>2, <1>4
  <2> QED BY <2>1, PhasesAre
<1>8. Phase' = Phase
  BY <1>6, <1>7, PhaseIs
<1> DEFINE there == {h \in Wall : h.place = On(r)}
           gone == there \ Wall'
<1>9. Wall' = Wall \ gone
  <2>1. Wall' \subseteq Wall
    BY DEF Wall
  <2>2. ASSUME NEW h \in Wall, h \notin Wall' PROVE h.place = On(r)
    <3>1. PICK p \in photos : h = [image |-> p.asset, place |-> p.listing]
      BY DEF Wall
    <3>2. p \notin photos'
      BY <2>2, <3>1 DEF Wall
    <3> QED BY <3>1, <3>2
  <2> QED BY <2>1, <2>2
<1>10. gone \in SUBSET there
  OBVIOUS
<1> HIDE DEF gone
<1>11. Promise!TakeDown(On(r))
  BY <1>8, <1>9, <1>10 DEF Promise!TakeDown
<1> QED BY <1>3, <1>5, <1>11 DEF Curates, Promise!Next

\* deleteListing and deletePhoto.
LEMMA DeleteCurates ==
  ASSUME ListingsInv, StoredOnce, NEW r \in Request, DeleteListing(r) \/ DeletePhoto(r)
  PROVE  Curates
<1>1. req[r].at \in Noting /\ UNCHANGED assets
  BY DEF DeleteListing, DeletePhoto, At, Noting
<1>2. ASSUME NEW what, Answer(r, what), UNCHANGED photos PROVE Curates
  BY <1>1, <1>2, SameWall, Answers DEF Noting
<1>3. CASE DeleteListing(r)
  <2>1. CASE photos' = photos \ PhotosOf(On(r)) /\ Go(r, "destroy")
    BY <1>1, <2>1, TakenDownCurates DEF PhotosOf
  <2> QED BY <1>2, <1>3, <2>1 DEF DeleteListing
<1>4. CASE DeletePhoto(r)
  <2>1. CASE /\ req[r].held \subseteq AssetsOf(On(r))
             /\ photos' = {p \in photos : p.asset \notin req[r].held} /\ Go(r, "destroy")
    <3>1. ASSUME NEW p \in photos \ photos' PROVE p.listing = On(r)
      <4>1. PICK o \in PhotosOf(On(r)) : o.asset = p.asset
        BY <2>1 DEF AssetsOf
      <4> QED BY <4>1 DEF PhotosOf, ListingsInv, PhotosHaveAssets
    <3> QED BY <1>1, <2>1, <3>1, TakenDownCurates
  <2> QED BY <1>2, <1>4, <2>1 DEF DeletePhoto
<1> QED BY <1>3, <1>4

\* insertPhotos: the whole batch is hung, or nothing.
LEMMA InsertCurates ==
  ASSUME ListingsInv, StoredOnce, NEW r \in Request, InsertPhotos(r)
  PROVE  Curates
<1>1. /\ req[r].at = "insertPhotos" /\ InStep(r, req[r]) /\ HeldInStep(req[r])
      /\ req[r].held \subseteq Asset /\ UNCHANGED assets
  BY Before DEF InsertPhotos, At
<1>2. On(r) \in Listing
  BY <1>1, OnType DEF InStep, ListingsInv
<1>3. CASE Answer(r, "error") /\ UNCHANGED photos
  BY <1>1, <1>3, SameWall, Answers
<1>4. CASE photos' = photos \cup NewRows(r) /\ Answer(r, "ok")
  <2> DEFINE q == [Idle EXCEPT !.at = "done", !.on = req[r].on, !.answer = "ok"]
             hung(a) == [image |-> a, place |-> On(r)]
  <2>1. q.at = "done" /\ req' = [req EXCEPT ![r] = q]
    BY <1>4 DEF Answer, Idle
  <2> HIDE DEF q
  <2>2. StoredOnce'
    BY <1>1, <2>1, StaysStored
  <2>3. Phase[r] = "adding" /\ Phase' = [Phase EXCEPT ![r] = "over"]
    <3>1. Phase' = [Phase EXCEPT ![r] = PhaseAt(q.at)] /\ Phase[r] = PhaseAt(req[r].at)
      BY <2>1, PhaseMoves
    <3>2. PhaseAt(q.at) = "over" /\ PhaseAt(req[r].at) = "adding"
      BY <1>1, <2>1, PhasesAre
    <3> QED BY <3>1, <3>2
  <2>4. assets \cap Promise!By(r) = req[r].held
    <3>1. req[r].held \subseteq assets /\ \A a \in req[r].held : a[1] = r
      BY <1>1 DEF HeldInStep, InStep, Adding
    <3>2. req[r].held \subseteq Promise!By(r)
      BY <1>1, <3>1 DEF Promise!By, Asset
    <3>3. ASSUME NEW a \in assets \cap Promise!By(r) PROVE a \in req[r].held
      BY <1>1 DEF Promise!By, StoredOnce
    <3> QED BY <3>1, <3>2, <3>3
  <2>5. Promise!By(r) \cap Promise!Hanging = {}
    <3>1. ASSUME NEW p \in photos PROVE p.asset[1] # r
      BY <1>1 DEF ListingsInv, RowsAreSettled
    <3>2. ASSUME NEW a \in Attached PROVE a[1] # r
      BY <3>1 DEF Attached
    <3>3. ASSUME NEW a \in Promise!By(r) PROVE a[1] = r
      BY DEF Promise!By
    <3> QED BY <3>2, <3>3, WhatHangs
  <2>6. Wall' = Wall \cup {hung(a) : a \in req[r].held}
    <3> DEFINE row(a) == [listing |-> On(r), asset |-> a, position |-> req[r].start + a[2] - 1]
               picture(p) == [image |-> p.asset, place |-> p.listing]
    <3>1. NewRows(r) = {row(a) : a \in req[r].held} /\ \A a : picture(row(a)) = hung(a)
      BY DEF NewRows
    <3>2. Wall = {picture(p) : p \in photos} /\ Wall' = {picture(p) : p \in photos'}
      BY DEF Wall
    <3> HIDE DEF row, picture, hung
    <3> QED BY <1>4, <3>1, <3>2
  <2>7. Promise!Hang(r, On(r))
    BY <1>1, <2>3, <2>4, <2>5, <2>6 DEF Promise!Hang
  <2> QED BY <1>2, <2>2, <2>7 DEF Curates, Promise!Next
<1> QED BY <1>3, <1>4 DEF InsertPhotos

\* reorderListingPhotos: the same pictures in the same listings.
LEMMA ReorderCurates ==
  ASSUME ListingsInv, StoredOnce, NEW r \in Request, ReorderPhotos(r)
  PROVE  Curates
<1>1. req[r].at = "reorder" /\ UNCHANGED assets
  BY DEF ReorderPhotos, At
<1> DEFINE row(p) == Reordered(p, On(r), req[r].order)
<1>2. CASE photos' = {row(p) : p \in photos} /\ Answer(r, "ok")
  <2>1. \A p \in photos : row(p).asset = p.asset /\ row(p).listing = p.listing
    <3> SUFFICES ASSUME NEW p \in photos
                 PROVE  row(p).asset = p.asset /\ row(p).listing = p.listing
      OBVIOUS
    <3>1. p \in Photo
      BY DEF ListingsInv, TypeOK
    <3>2. \A i : [p EXCEPT !.position = i].asset = p.asset /\ [p EXCEPT !.position = i].listing = p.listing
      BY <3>1 DEF Photo
    <3> QED BY <3>2 DEF Reordered
  <2> HIDE DEF row
  <2>2. Wall' = Wall
    BY <1>2, <2>1 DEF Wall
  <2> QED BY <1>1, <1>2, <2>2, Answers
<1>3. CASE Answer(r, "error") /\ UNCHANGED photos
  BY <1>1, <1>3, SameWall, Answers
<1> QED BY <1>2, <1>3 DEF ReorderPhotos

\* A booking of a listing is made, or nothing at all happens.
LEMMA OthersCurate ==
  ASSUME StoredOnce, (\E l \in Listing : InsertBooking(l)) \/ UNCHANGED vars
  PROVE  Curates
<1>1. UNCHANGED <<photos, assets, req>>
  BY DEF InsertBooking, vars
<1> QED BY <1>1 DEF Curates, StoredOnce, Wall, Phase, At, Promise!gallery

\* Nothing is stored, nothing hangs, and everybody may still add.
LEMMA GalleryOpens ==
  ASSUME Init
  PROVE  StoredOnce /\ Promise!Init
<1>1. photos = {} /\ assets = {} /\ \A r \in Request : req[r].at = "unsent"
  BY DEF Init, Idle
<1>2. Phase = [r \in Request |-> "adding"]
  BY <1>1 DEF Phase, At
<1> QED BY <1>1, <1>2 DEF StoredOnce, Wall, Promise!Init

\* For any number of requests, listings and files, whatever fails: a batch of
\* photos is shown as a whole in one listing or not at all, an image is stored
\* once and shown once, and what is destroyed is neither shown nor ever will be
\* (addPhotos, removePhoto, removeListing, reorderPhotos in listingService.js).
THEOREM ListingsKeepTheGallery == Spec => KeepsTheGallery
<1>1. ASSUME ListingsInv, StoredOnce, [Next]_vars PROVE Curates
  <2>1. ASSUME NEW r \in Request, Serve(r) PROVE Curates
    BY <1>1, <2>1, RowsCurate, LooksCurate, DeleteCurates, DestroyCurates, UploadCurates, InsertCurates,
       ReorderCurates DEF Serve
  <2> QED BY <1>1, <2>1, ArriveCurates, AbandonCurates, OthersCurate DEF Next
<1>2. Init => StoredOnce /\ Promise!Init
  BY GalleryOpens
<1>3. ListingsInv /\ StoredOnce /\ [Next]_vars => StoredOnce' /\ [Promise!Next]_(Promise!gallery)
  BY <1>1 DEF Curates
<1> QED BY <1>2, <1>3, Inductive, PTL DEF Spec, KeepsTheGallery, Promise!Spec
=============================================================================

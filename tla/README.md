# RentEasy in TLA+

RentEasy is a peer-to-peer rental service: owners list items, renters request
them for a period, the two parties hand the item over and back, write to each
other in the booking's thread and review one another. The server is one Node
process (Express, Socket.IO) over Postgres and a media provider; the client is a
React application. These modules model the parts of it in which something can
go wrong between two steps: request handlers that read in one await and write in
a later one, a scheduler that moves what people leave lying, sockets that come and
go, and clean-up that must not outrun what it cleans up after.

Contents: [the system](#the-system) · [the modules](#the-modules) ·
[the runs](#the-runs) · [what is proved](#what-is-proved) ·
[what the code does not keep](#what-the-code-does-not-keep) ·
[left out](#left-out) · [the plan](#the-plan).

## The system

How the parts hang together: the client calls the HTTP API and holds one
socket; controllers parse and call one service function; services read and write
through repositories, one SQL statement or one transaction at a time; after a
commit they notify (the bell), post a line in the thread and push over the
sockets, best effort. The scheduler ticks in the same process and runs the
booking sweeps and the review sweep. Nothing is held in memory across requests
but the socket registry, the rate limiters' windows and the scheduler's flag.

| Part | State | Operations | What is hard | What makes it correct |
|---|---|---|---|---|
| Booking service and state machine (`bookingService`, `bookingStateMachine`, `bookingRepository`) | `bookings`, `booking_events` | request, nine actions, list, photos | two accepts of overlapping requests; a status read before two awaits; a transaction that fails; follow-ups after the commit | no double booking; an unbroken trail; only legal moves, only forward; nothing told that did not happen |
| Scheduler (`scheduler.js`, the sweeps) | a running flag, the list of the sweep under way | tick, expire, confirm, complete, publish reviews | the list is stale when used; failures and restarts mid-sweep | the system speaks only for a party that was silent for the whole wait, and always in the end |
| Availability (`listingService`, migration 006) | `listing_blackouts`, the exclusion constraints | add, remove, ask | a blackout racing an accept | see the list of what is not kept |
| Reviews (`reviewService`) | `reviews` | write, edit, reply, publish | publication between a check and a write; either trigger | written blind, published together or late, final, one reply |
| Messaging (`messageService`, `threadHandlers`, `MessageThread.jsx`) | `messages`, watermarks, rooms, each screen | send, line, list, join, leave, read, push, poll | reads and room entry are separate awaits; a push may come before any answer; sockets and answers are lost; the thread closes | nothing said after closing; a live screen misses only the gap and what was pushed before its first answer; open screens catch up |
| Presence (`connectionRegistry`, `socketServer`) | who is connected, who is in which room | connect, join, leave, disconnect | several tabs; a registry read before two awaits; a join whose tab goes while it reads | the watcher is misled in three named ways only |
| Typing (`MessageThread.jsx`, `threadHandlers`, `socketRateLimit`) | two timers, a window | key, stop, relay, expire | announcements dropped or lost | never shown past its expiry |
| Socket sessions (`socketAuth`, `socketServer`) | open sockets and their tokens | handshake, event, revalidation sweep | a handshake in flight while the account changes | ended sessions do nothing; suspended accounts' sockets close |
| Accounts (`authService`, `profileService`, `userRepository`, the two token repositories) | `users`, tokens, cookies, letters | register, verify, resend, sign in, reset, change email or password, close | every operation is three to five statements, any two requests interleave | sessions die with the password; confirmed means clicked; closed is closed |
| Listings and their photos (`listingService`, `cloudinary`) | `listings`, `listing_photos`, images at the provider | create, edit, publish, unpublish, remove, upload, remove or reorder photos | three steps per upload, clean-up after failures, crash anywhere | a row never shows a destroyed image; what leaks is accounted for |
| Account closure (`profileService.deleteOwnAccount`) | accounts, listings, bookings together | close, and everything it races | the check is over when the transaction begins | no open shop without an owner; no renter trapped |
| Notifications and the bell (`notificationService`, `NotificationBell.jsx`) | `notifications`, the number on the bell | write, count, list, mark read | written after the commit, best effort; counts asked for by pushes, polls and clicks overlap | the number becomes true again and again |
| Condition photos and the booking page (`bookingService`, `BookingDetailPage.jsx`, `ConditionPhotos.jsx`) | `booking_photos`, private images, the page | load, act, upload | a batch stored one image at a time after one look at the status; overlapping loads | no private image is lost sight of; a quiet page is current |
| Quote (`utils/quote.js`) | none | round up, search | several units at several rates | nothing that covers the duration is cheaper |
| Requesting a booking (`BookingRequestPage.jsx`, `requestBooking`) | the dates, the quote shown | change dates, quote, submit | the price is recomputed and nothing compares it | the price shown is of the dates shown |
| Browse (`HomePage.jsx`, `browseListings`) | the filters in the address, the results | filter, page, answer | answers out of order; the pager works on older ones | results are of the filters above them |
| Listing form (`ListingFormPage.jsx`) | what is typed, shown and known | create, save, publish, photos, checklist | three busy flags, each answer sets the whole listing | a quiet form is true |
| Session of a tab (`AuthContext.jsx`, `lib/socket.js`) | user, cookie, socket | sign in and out, refresh, save | tabs share the cookie; a socket keeps the identity it was opened with | screen, cookie and socket are of one user |
| HTTP rate limiter (`rateLimiter.js`) | a window and its count, in memory | count, refund, refuse | refunds in another window; a restart | failed attempts are capped |
| Migration runner (`runMigrations.js`) | files, ledger, schema | run, apply, record | overlapping runs, failures, crashes, edited files | what the ledger says was run is what was run |
| Process (`server.js`, `db.js`) | server, sockets, timer, pool | start, signal, drain, exit | handlers that outlive their connections; handshakes and a sweep astride the shutdown | nobody who is still connected is cut off |
| Controllers, routes, validators, upload parsing, seeds, the other pages | none of their own | | | not modelled, below |

PROJECT.json lists every component with its files, and every hazard with its
line and the properties that would catch it.

## The modules

| Module | Models | Remarks |
|---|---|---|
| `BookingRules` | the tables of `bookingStateMachine.js` and the questions asked of them | pure data and predicates, shared |
| `RentalCalendar` | nothing of the code: the promise that an item is one person's on any day | the abstract specification |
| `Bookings` | the booking service, the booking sweeps, blackouts | refines `RentalCalendar` |
| `BookingsInvariant`, `BookingsProofs` | the inductive invariant and nine theorems | |
| `BlindExchange` | nothing of the code: sealed pages, opened together and then left as they are | the abstract specification |
| `Reviews`, `ReviewsProofs` | the review service and its sweep; six theorems | refines `BlindExchange` |
| `Conversation` | nothing of the code: letters in order, each said once by whoever was let in, and bookmarks | the abstract specification |
| `Messaging`, `MessagingProofs` | the thread: service, socket handlers and both screens; five theorems | refines `Conversation` |
| `Typing`, `Presence` | two parts of the socket layer | |
| `SocketSessions` | handshakes, events and the revalidation sweep | proved in `ProgressProofs` |
| `Accounts` | registration to closure, with tokens and cookies | |
| `AccountsInvariant`, `AccountsProofs` | the inductive invariant and five theorems | |
| `Gallery` | nothing of the code: pictures stored once, hung together or not at all, and never thrown away while they hang | the abstract specification |
| `Listings`, `ListingsProofs` | listings, their photos, the provider; three theorems | refines `Gallery` |
| `AccountClosure` | closing an account against bookings, publishing and the sweep | extends `BookingRules` |
| `Bell` | the header's bell against the rows it counts | |
| `Quote` | the price of a duration | |
| `RateLimit` | one limiter of the HTTP API | |
| `Migrations` | the migration runner | |
| `Lifecycle` | the process from its start to its exit | |
| `Session` | the session a tab believes in | |
| `Browse` | searching, from the address bar to the shelf | |
| `ListingForm` | the owner's form | |
| `Pricing` | from the price shown to the price booked | |
| `BookingPage` | a booking's page and its condition photos | extends `BookingRules` |
| `MCProgress`, `ProgressProofs` | `Bookings`, `Reviews`, `SocketSessions` side by side, fair; five theorems | liveness |
| `MCServer`, `ServerProofs` | `Typing`, `Presence`, `Bell`, `Lifecycle`, `RateLimit`, `Migrations`, `AccountClosure`, `Quote` side by side; eight theorems | |
| `MCClient`, `ClientProofs` | `Session`, `Browse`, `ListingForm`, `Pricing`, `BookingPage` side by side; seven theorems | |
| other `MC*` | instances of one module for TLC | |

Common to all: a handler is a record of where it is and what it has read; every
`await` that other handlers can slip into is a step. A single SQL statement, or
a `withTransaction` block, is one step, because row locks, guards in the `WHERE`
and constraints decide at its commit; where the code relies on a snapshot
taken before the commit (photo positions, message timestamps) the statement is two
steps. Reads that only shape an answer have no step. Operators marked "Mutant" are
plausible bugs kept beside the definition they would replace; each property is
broken by one of them.

**Bookings.** `status` and `trail` are the row and its events, `waited` the rows
untouched for 48 hours (`Wait` is the clock), `call` the handlers, `sweep` the
scheduler's phase and the rows it has still to visit, `notices` and `lines` what
was told. `RequestBooking`–`CheckDates`–`CheckBlackouts`–`InsertBooking` is
`createBooking`; `ActOnBooking`–`PreCheck`–`CommitTransition` or
`RefuseTransition` is `actOnBooking`, whose UPDATE asks for the status that was
read (`StillAsRead`) and meets the exclusion constraint (`ExclusionHolds`);
`Notify`, `PostSystemMessage` and the two invitations of `NotifyReviewInvited`, the owner's
and then the renter's, follow the commit, each lost on its own (`Written`). `CallFails`
loses a call or a COMMIT, `Crash` everything in memory: what was still to be told is then
never told, which the code accepts ("Never rejects") and no property forbids. Periods are sets of days;
notice periods and duration limits only refuse requests and are left out.

**Reviews.** A row has a text, an age (new, past its edit window, past the blind
period), a published flag and a reply. A composed text is fixed when the request is
sent, so that whether its author could have read the other's is a fact of the
behaviour (`DoubleBlind`). A rewording is the row's text and age replaced; `told` is
who was told that which review is visible.

**Messaging.** A message is its rank among the timestamps the database gave out;
`now()` is taken when a statement starts and the row appears when it commits, so
an insert or a mark is two steps. A screen has what it holds and how it is linked
(polling, joining, live) and whether any answer has been applied to it (`loaded`): until then
`Absorb` drops what is pushed to it or comes back in an acknowledgement, as `absorb` of
`MessageThread.jsx` does. A join reads, marks, enters the room and then reads twice more before it
answers (`DescribeOtherParty`), and what the room is sent meanwhile arrives first, as one
socket keeps its order. `AckTimesOut` is the screen that gives up on an answer while the
handler runs on. `thread:leave` is handled at once; the `since` a join
sends is read by no query, and the client never relies on it. What a thread line
counts for in the unread count is as in the code: it counts, so it silences the bell.
Message reports and attachment bytes are left out.

**Typing**, **Presence**, **SocketSessions.** One typist and one reader against a
clock of seconds; one person's tabs and one watcher; several accounts' sockets
against suspension and password changes. A tab's join (`JoinThread`, then `EnterThread`) reads the
thread in between, may have lost its socket when it enters the room, and announces the arrival
all the same; the watcher's own join reads the registry (`Describe`) and is answered later
(`Acknowledge`). Ghost variables (`lost`, `unheard`, `stale`, `belated`, `late`) name the reasons for which a property makes an exception, or record
what must not happen.

**Accounts.** A request names what it mints: its link, its epoch, its password. The
age of a token is per row and only grows. Name and phone are left out. Closure's
question about open bookings may be answered either way here; `AccountClosure` has
the bookings. Expiry of the cookie (twelve hours) only ends a session sooner.

**Listings.** An image is named by the request that uploaded it and its place in
the batch. What the publish gate asks of a row is a set (`Need`). `InsertStart` is the
statement's snapshot, `InsertPhotos` its commit with the position constraint. A request that is
answered keeps the listing it was about, so that an image left behind can be laid to the removal
of that very listing.
An upload that fails may have stored its image all the same, when only the answer was lost
(`uploadListingPhoto` rejects either way). `astray` are the images no request can deal with any more: that one,
and those whose deletion failed and was logged.

**AccountClosure.** The 48 hours are abstracted: the sweep may act on any booking
in a status it looks at. Sessions are checked when a request arrives and not after.

**Bell.** `note` is a row's life (not written, unread, read), `badge` the number, `call`
the counts on their way with the answer they will bring, `pushed` the events the socket
carries. A click takes one off at once and marks later; every failure leaves the number.

**Quote.** `BillableHours` rounds up once; `Consider` is one turn of the double loop
(months outside, days inside, hours the remainder), `best` what the search keeps, by
`IsBetter` with its tie-breaks. A quote that is handed back is followed by the next one.
`PerHour`, `Day` and `Month` stand for the units' milliseconds and hours.

**Pricing.** A pair of dates and a numbered rate card stand for a price. `ChangeDates`
disowns the questions before it (the effect's `active` flag), `RequestBooking` quotes from
the row `FindListing` read, which the owner may have edited since.

**BookingPage.** A load is two requests answered on their own and applied together.
`AddBookingPhotos` is the one look at the status, `UploadPrivateAsset` one image of the
batch, `UploadFails` and `DestroyPrivateAsset` the clean-up, `InsertBookingPhotos` the
rows. `astray` are the images a failed insert, a dead process, a failed destroy or an upload
whose answer was lost leave;
`excuse` the reasons for which a page may be behind. The other party and the sweep move
the booking by the rules of `BookingRules`.

**Session.** A request carries the cookie it is sent with and its answer may come late or
never. `behind` and `inherited` are the named reasons for which the tab, or its socket,
may be wrong.

**Browse.** The address, the field that is not mirrored into it, the questions on their
way and the view; `FindPublishedListings` returns a page and the count that the same
statement makes, of the matches in order: the i-th row is the one that i - 1 are newer than. Place and highest price stand for the seven filters, which all narrow.

**ListingForm.** What is typed is enough to publish with or not; a request has a first
and a last statement, as the services read the photos after they wrote the row. Three
busy flags (`saving`, `photoBusy`, the checklist's none) let requests overlap. The form stays
while a listing just created is read again (`loading.kind = "reread"`, `FormShown`), so that typing
and saving are possible then, and the checklist is asked for twice.

**RateLimit.** One key: `hits` in the window that ends at `reset`, requests under way,
those the limiter let in that failed, and the refunds that came from an earlier window.

**Migrations.** `disk` has what each file says (the number of its edit), `ledger` what
was recorded of it, `schema` what was run, `run` the overlapping runs with what each read
of the ledger, `tx` the file whose transaction is open, `late` the files that appeared
after a later one was applied. A file's statements and its row
are one transaction, which `Crash` and `Fail` undo.

**Lifecycle.** A place has a connection (`link`: HTTP, in its handshake, a socket, dropped) and a
handler (`task`: between two queries, or inside one with a client of the pool), and either may outlive
the other: a client hangs up and its handler runs on, a connection is kept alive with nothing to
answer, and the departure of a person's last socket starts a handler of its own
(`Stamped`). `Drained`, the callback of `server.close`, waits for connections and not for
handlers; `pool.end` waits for the clients that are out and refuses new queries (`refused`). Besides:
the timer, a sweep that may hold a client, signals and the ten-second forced exit.

## The runs

Twelve, each under five minutes with two workers. Sizes are distinct states.

| Run | Instance | Shows |
|---|---|---|
| `bookings_race` (107 thousand) | 2 overlapping requests of 2 renters, 2 handlers, blackouts edited | `NoDoubleBooking`, and the refinement `KeepsTheCalendar` |
| `bookings_sweep` (1.5 million) | 2 bookings, 1 handler, the scheduler, 1 crash or failure | `TrailIsUnbroken`, `EveryMoveWasAllowed`, `TellsOnlyTheTrail`, `SystemOnlyAfterTheWait` |
| `progress` (0.25 million) | 1 booking; 1 review pair; 2 accounts with 2 sockets; 1 fault; fairness | `SilenceEnds`, `EveryReviewIsPublished`, `SuspendedSocketsClose`, `EndedSessionsDoNothing`, and the types of the three |
| `reviews_race` (1 million) | 1 booking, 2 handlers, sweep, 2 texts, 1 fault | `DoubleBlind`, `ToldIsVisible`, and the refinement `KeepsThePromise` |
| `messaging_race` (5.5 million) | 2 requests of the renter, whose tab may be hidden, 2 timestamps, lines, closing | `NothingSaidAfterClosing`, and the refinement `KeepsTheConversation` |
| `messaging_live` (0.7 million) | the owner writes, the renter's screen, 1 fault, fairness | `OnlyTheGapIsMissed`, `EveryoneCatchesUp` |
| `accounts_race` (1.7 million) | 2 accounts, 2 addresses, 3 requests of any kind, suspension, crashes | `CurrentSessionsKnowThePassword`, `AddressesAreProven`, `ClosedAccountsStayPut` |
| `listings_race` (1.4 million) | 1 listing, 4 requests, batches of 2, a maximum of 2, all faults | `ImagesAccountedFor`, and the refinement `KeepsTheGallery` |
| `server` (0.8 million) | the eight models of `MCServer` with the constants of `Server.cfg`; fairness for bell and closure | `NeverOutlivesTheTypist`, `ShownIsTrueOtherwise`, `BadgeCatchesUp`, `ExitIsExplained`, `GuessesAreCapped`, `SchemaIsReproducible`, `QuoteIsCheapest`, `RenterHasAWayOut`, `UnansweredRequestsLapse`, and the types |
| `client` (4.1 million) | the five models of `MCClient` with the constants of `Client.cfg` | `OneUserAtATime`, `ResultsTellTheTruth`, `QuietFormIsTrue`, `PricedForTheDates`, `PrivateImagesAccounted`, `QuietPageIsCurrent`, and the types |
| `listings_eight` | 3 requests, batches of 2, a maximum of 2 | that `AtMostEight` is violated |
| `messaging_catchup` | the owner's one message, the renter's screen, no fault | that `LiveScreensAreComplete` is violated |

*Bounds.* Two bookings of one listing are enough for the overlap questions, which
are asked of pairs; two handlers and the sweep give every interleaving of a pair with
the scheduler between; the proofs cover the rest. Two days of a three-day calendar
overlap in one. Reviews need both parties at once and the sweep. In `Messaging` one
bound is on timestamps (`MaxMessages`) and one on failures (`MaxFaults`): one message
can be missed, two order the watermarks. Three tabs are a last one, the one before it
and one elsewhere. Three requests are what it takes for one to mint a link, one to use it
and one to interfere; a photo maximum of 2 with batches of 2 stands for 8, and one listing
is enough to collide in (that a batch stays in its own of several is for the proof). Where a run
has `CHECK_DEADLOCK FALSE`, requests are served once and the system stops when all are.

In `Server.cfg` the clocks are as short as they can be for a window, an expiry and a
relay to come in every order; three
migration files make a gap, and two runs overlap over them with one edit; an owner and two
renters with three handlers meet one closure. `Quote` takes
units of 3 and 7 hours at 2 instants an hour: every duration around the boundaries, and
rates for which exact cover is dearer, as dear and cheaper. Three places meet one shutdown in `Lifecycle`: a connection, a
handler whose client has gone and a socket. In `Client.cfg` two requests of a
kind on their way are an older and a newer, and the form has two at most under way that may overlap
(`MaxAtOnce`); four listings fill pages of one. What two cannot
show, three loads or three questions, the proofs cover.

*Symmetry* is used on handlers, requests, accounts and addresses, texts and never
in a run with a liveness property.

*Side by side.* Models that share no state are checked in one run: `MCServer`,
`MCClient` and `MCProgress` have a variable `part`, set at the start of a behaviour and
never again, and each step is one of that model's while the others stand still in one
initial state. That checks exactly what a run for each would, and the states add up
instead of multiplying. Fairness is stated per action of the part that moves.

*Fairness.* Weak fairness of a started handler's next step: Node runs every
callback that is due, and a call that never comes back ends in a failure, which the
model has. Weak fairness of the clock and of the timers (`setInterval`). Polls have
strong fairness (`Messaging`): a poll needs one of the boundedly many request
slots, which are the model's and not the code's. Nothing obliges a person to act, a
message to be written or a fault to occur. The bell's poll and its counts are fair; so are
the revalidation sweep and the handlers of a socket. In `AccountClosure` the sweep is fair for each
booking, as its query finds every row past its wait.

## What is proved

TLAPS checks, for any number of bookings, listings, users, days, handlers and
faults (assumption `BookingsAssumption`: the functions of a row have their types,
and the names for nobody are nobody's):

| Theorem of `BookingsProofs` | States |
|---|---|
| `Inductive`, `TypeCorrect` | `Spec => []IInv`, `Spec => []TypeOK` |
| `DatesAreExclusive` | `Spec => []NoDoubleBooking` |
| `BookingsOnlyGoForward` | `Spec => OnlyForward` |
| `NobodyIsCutShort` | `Spec => SystemOnlyAfterTheWait` |
| `TrailsAreUnbroken`, `MovesAreAllowed` | `Spec => []TrailIsUnbroken`, `Spec => []EveryMoveWasAllowed` |
| `OnlyTheTrailIsTold` | `Spec => []TellsOnlyTheTrail` |
| `BookingsImplementCalendar` | `Spec => Promise!Spec`, the refinement of `RentalCalendar` |

The properties are not inductive: nothing in them says that what a handler read
is still true when it writes. `IInv` does. `ActsWereLegal`: the transition in flight was
legal for its actor from the status it read, and the row can only have moved on since
(so the guarded UPDATE either finds that status or changes nothing).
`RequestsOwnTheirRow`: two requests never insert the same row. `SweeperHasWaited` and
`ListHasWaited`: a booking on the sweep's list has waited, or has been moved by somebody
else. `TellersHaveCommitted`: what is about to be told is in the trail. The refinement
follows from `NoDoubleBooking` in both states of a step: a commit that starts to hold
dates claims a free period, one that ceases to hold them releases it, and every other
step leaves the calendar alone.

For any number of accounts, addresses and requests (assumptions `FreshNames` and
`NoneIsNothing`: what a request mints is nobody else's, and NULL is no value):

| Theorem of `AccountsProofs` | States |
|---|---|
| `Inductive`, `Typed` | `Spec => []IInv`, `Spec => []TypeOK` |
| `SessionsEndWithThePassword` | `Spec => []CurrentSessionsKnowThePassword` |
| `ClosedForGood` | `Spec => ClosedAccountsStayPut` |
| `ConfirmedMeansClicked` | `Spec => AddressesAreProven` |

`IInv` says that the epoch a request will mint is on no row and in no cookie before
it is minted (`EpochsAreFresh`), that a cookie about to be signed knows the password its
epoch goes with (`PendingSessions`), and that a token row, and the row a click has read,
are for the address their link was mailed to (`LinksAreFresh`, `ClicksKnowTheAddress`).
The freshness of 256-bit random values is the assumption the code itself makes.

The other modules with proofs of their own:

| Theorem | States | For any | Assuming |
|---|---|---|---|
| `ReviewsProofs`: `Inductive`, `TypeCorrect`, `WrittenBlindPublishedTogether`, `NotificationsAreTrue`, `WordsAreFinal`, `ReviewsKeepThePromise` | `IInv`, `TypeOK`, `DoubleBlind`, `ToldIsVisible`, `PublishedIsFinal`, `KeepsThePromise` | bookings, handlers, texts, faults | `ReviewsAssumption`: nobody and nothing are no handler and no text |
| `MessagingProofs`: `Inductive`, `TypeCorrect`, `SaidBeforeClosing`, `LiveMissesOnlyTheGap`, `ThreadKeepsTheConversation` | `IInv`, `TypeOK`, `NothingSaidAfterClosing`, `OnlyTheGapIsMissed`, `KeepsTheConversation` | requests, messages, writers and viewers, faults | `MessagingAssumption`: finitely many requests, no value is none of the names |
| `ProgressProofs`: `Inductive`, `TypeCorrect`, `EndedSessionsAreDead` | `IInv`, `TypeOK`, `EndedSessionsDoNothing` of `SocketSessions` | accounts, sockets, password changes, faults | `SocketsAssumption`: the bounds are numbers |
| `ProgressProofs`: `PartsAreThemselves`, `ProgressTypes` | `AllSpec => B!Spec /\ R!Spec /\ Spec`, `AllTypesOK` | all that the three parts have | `ProgressAssumption`: no user, request or text is the name for nobody or nothing |
| `ListingsProofs`: `TypeCorrect`, `ImagesNeverVanish`, `ListingsKeepTheGallery` | `TypeOK`, `ImagesAccountedFor`, `KeepsTheGallery` | listings, requests, batches, maximum of photos, faults | `ListingsAssumption`: a batch has a file at least, the maximum is a number |

*Reviews.* What a handler read is still so when it writes (`PeeksTooLate`, `MayPublish`,
`HasPublished`): rows only grow (`RowsOnlyGrow`), so a check that passed cannot be undone; who
could read the other's text when a request was composed has a text already, and the
insert finds it.

The refinement maps a row's text, its published flag, whether the blind period is over, and the
reply. The guards `StillBlind` and `NoReplyYet` of the UPDATEs are why only sealed pages are
reworded and an answer is given once, whatever the check before said. That pages are opened all
at once needs the invariant: publishing is one UPDATE on the booking, but who calls it decided from an
earlier read, and `MayPublish` says that both are written or one is overdue still. A second review that comes
to a published booking meets the same argument from the other side: it can only be the one
the publishing left out, which is why an insert words a sealed page.

*Messaging.* Neither property says anything of a request on its way. `Protocol` does: a
message past the check of the thread was asked for while it was open, as a closed thread
stays closed. `JoinMissesTheGap` and `LiveMissesTheGap` follow what a join has found from its
read of the thread into the room and onto the screen; every step leaves a party's share alone
or takes the party off the thread altogether (`Smooth`, `Away`), but for publishing, reading,
entering, the join's answer and a push that arrives: a live screen has been answered once, so it drops
nothing any more. `OneJoin` is why an answer that makes a screen live is the only
one. `Budget` counts the timestamps that requests in flight will still take, by the theorems
on cardinality.

The refinement of `Conversation` takes a request past the check of the thread for a letter under way
(`LetterOf`) and everything about sockets, screens, bells and answers for a stutter. `Ranked` is the
second invariant it needs: the rank of a letter is no other letter's and its place is blank, so no insert
falls on another message; what is in the thread was begun; and a watermark about to be saved is not
ahead of the clock. The step that is easy to get wrong is `MarkThreadRead`: a mark that waited longer than
a later one would move the bookmark back, and `GREATEST` makes it a stutter instead.

*SocketSessions.* Epochs only rise and accounts do not come back, so a handshake or event
that comes from an ended session finds it ended at its own read (`HandshakesFindOut`,
`EventsFindOut`).

*Side by side.* `MCProgress` makes instances of `Bookings` and `Reviews`, and to the prover these are other
definitions than those of `BookingsProofs` and `ReviewsProofs`. `ProgressProofs` makes the same
instances of the proofs and shows that initial states, steps and types agree, so that the theorems carry over; that
each part stands still while another moves is what makes `AllSpec` imply the specification of each.

*Listings.* `ImagesAccountedFor` speaks of rows and of images without one; `ListingsInv` says who
holds an image at every step. A request that adds holds only images it named itself, none of
which has a row until it is over (`RowsAreSettled`); one that removes holds only images of
requests that are over, so what has lost its row never gets another and may be destroyed. A
request that has only noted what it will remove may still be refused or lost (`Noting`), and
until it deletes the rows they account for the images. What is left behind is laid to a logged
deletion, to the lost answer of its upload, to a request that failed, or to the removal of that
request's own listing.

The refinement of `Gallery` takes a request for a contributor that is adding, clearing up or over
(`Phase`) and the rows, without their positions, for what hangs (`Wall`). It needs `StoredOnce` besides:
while a request adds, the images under its name are those it holds, which is why the next name it takes
is free and why the rows it inserts are all that it has stored. That its own images have no row yet
is `RowsAreSettled`, and it makes the insert the first and only time they hang. A deletion that
fails, a listing that is edited or published, and a reorder are stutters.

The parts that `MCServer` and `MCClient` put side by side are proved there, of `AllSpec`, so that
theorem and run are about the same definition. Each part has an invariant, with a lemma for its
initial states, one for each action and one for standing still; `ServerInv` and `ClientInv` are their
conjunctions.

| Theorem of `ServerProofs` | States | For any |
|---|---|---|
| `ServerTypes` | `AllSpec => []AllTypesOK` | all that follows |
| `ExitsExplained` | `[]ExitIsExplained` | connections with their handlers, signals |
| `GuessesCapped` | `[]GuessesAreCapped` | maximum, window, requests at once |
| `NobodyOutlivesTheTypist` | `[]NeverOutlivesTheTypist` | idle time, longer expiry, limit and window of the socket, length of the wire |
| `PresenceIsTrueOtherwise` | `[]ShownIsTrueOtherwise` | tabs, faults, length of the wire |
| `NoRenterIsTrapped` | `[]RenterHasAWayOut` | users, listings, bookings, handlers |
| `SchemasAreReproducible` | `[]SchemaIsReproducible` | files, runs, edits |
| `Cheapest` | `[]QuoteIsCheapest` | units, rates, durations |

`ServerAssumption` says that bounds are numbers and tabs, notifications and slots finitely many, that a
typist counts as idle before the reader's expiry (`TYPING_IDLE_MS`, `TYPING_EXPIRY_MS`), that files are
ordered by their numbers, and that nobody rents from themselves (`requestBooking` refuses
it). Units, rates and durations are `QuoteAssumption`'s.

*Lifecycle.* The pool is closed only after the last connection has gone and none comes back, so who
finds it closed is nobody's handler any more; the sockets go with the signal, so what a forced exit
finds holding on is something else. Handlers are another matter: `NoHandlerIsCutShort` is refuted below.

*Rate limiter.* Behind every hit of the window stands a wrong guess or a request
that may still become one, and each refund used up a request of an earlier window (`RateLimitInv`),
so guesses and requests in the window are no more than hits and refunds together: a count over
the slots, by the theorems on cardinality.
*Typing.* `TypingInv` is about clocks: a key is announced only just after it was pressed, and
its relay restarts a timer that runs out before the expiry has passed since the last key.
*Presence.* What the screen will say when all on the wire has arrived is the truth, or there is an
excuse (`EndsTrue`), since each change is the last thing on the wire when it is sent, and what it says
is so unless it announces a tab that has gone (`belated`).
*Closure.* Whatever a handler is about to write comes from the table of actions, so every
status an open booking can be in has an action of the renter or is swept.
*Migrations.* The open transaction of a run is the first file of its plan
(`TxIsOfThePlan`), and its plan has whatever the ledger lacks but for files that came late
(`PlanIsWhole`); the key of the ledger makes the second of two runs at a file fail.
*Quote.* The invariant of the double loop: `best` is no worse than any candidate tried.
Two lemmas carry it from there to all combinations: fewer hours than what is left do not
cover it, and more of a unit than the loops' bounds costs more for nothing.

| Theorem of `ClientProofs` | States | For any |
|---|---|---|
| `ClientTypes` | `AllSpec => []AllTypesOK` | all that follows |
| `OneUser` | `[]OneUserAtATime` | users, edits, requests at once |
| `ResultsAreTrue` | `[]ResultsTellTheTruth` | listings, prices, page size, questions at once |
| `QuietFormsAreTrue` | `[]QuietFormIsTrue` | photos, checklists at once, changes elsewhere |
| `PricesAreForTheDates` | `[]PricedForTheDates` | dates, edits, quotes at once |
| `NoImageIsLostSightOf` | `[]PrivateImagesAccounted` | batches |
| `QuietMeansCurrent` | `[]QuietPageIsCurrent` | loads at once |

`ClientAssumption` says that bounds are numbers, that a page, a listing's photos and the quotes on their
way have room for one at least, that there is a listing, and that the names for nobody and nothing are
nobody's and nothing's.

None of these properties is inductive, for one reason: a page that is quiet shows the last answer it was
given, so the invariants say what the answers on their way will bring.
*Session.* With nothing lost, overlapped or done elsewhere one request is on its way at most, and its
answer is how things are (`AnswersAreTrue`); whoever is shown is whom the cookie and the socket
name, unless something was inherited (`OneNameForAll`).
*Browse.* The current question is the address's and its answer what the shelf would answer still
(`QuestionsAskTheUrl`). An empty page is excused because a first page without rows means no match
(`FirstPagesMeanIt`), and a later one lies before the last match (`OffsetIsInRange`): the pager counts
in whole pages from an answer the shelf still gives. That a set of listings has exactly one of
every rank (`Ranks`) is what makes the ordered shelf as long as the set.
*Listing form.* With no excuse one thing is on its way (`OneAtATime`), and it brings listing and
checklist as they are (`AnswersAreTheListing`, `ChecklistIsTrue`).
*Pricing.* Cards are read in the order they are written (`CardsAreInOrder`), and a price of other
dates has its successor on the way (`OldPriceIsAwaited`).
*Booking page.* Images stored are kept by their upload until they are rows or astray
(`UploadsKeepTheirImages`, `RowsComeFromUploads`). With no excuse there is one load at most
(`OneLoadAtATime`) and it brings the status as it is, unless an action has been taken whose
own load is still to come (`LoadsAreCurrent`).

`TypeOK`, `IInv` and `OnlyForward` of `Bookings`, `IInv` and `TypeOK` of `Accounts`, `IInv`, `TypeOK` and
`PublishedIsFinal` of `Reviews`, and `TypeOK` of `Messaging` and of `Listings` are proved and not in a run of their own, nor are the
invariants of the others: TLC agreed with them on the instances of the runs before they were proved.
(`PublishedIsFinal` is also a consequence of `KeepsThePromise`, which has no step that touches an open page's words.)

Only model-checked are the six liveness properties (`SilenceEnds`, `EveryReviewIsPublished`,
`EveryoneCatchesUp`, `SuspendedSocketsClose`, `UnansweredRequestsLapse`, `BadgeCatchesUp`): they rest on
fairness, and `ENABLED` is out of the prover's reach.

## What the code does not keep

Comments, requirements and documents of the repository say some things of the code
that the models do not bear out. Two have runs of their own. `listings_eight`: the
requirements (`docs/7.functional-requirements.md`, FR-105) and `addPhotos` itself speak of
a maximum of eight photos, but the count, the uploads and the insert are three steps, and
two uploads that count before either inserts go past it. `messaging_catchup`: joining
"catches up on what was missed" (`threadHandlers.js:189`), but the thread is read before the room
is entered, and a message published between the two is on no screen that then goes live and stops
polling.

The others are stated in their modules, each with a comment naming its source, and TLC
refutes each when it is put in a configuration in the place of the run's properties:

| Property | Module, instance | What happens |
|---|---|---|
| `SilentRenterFreesTheDates` | `Bookings`, 1 booking, fair | the timeout turns a silent receipt into ACTIVE, which holds the dates and only the renter can leave |
| `ThreadSaysWhoConfirmed` | `Bookings`, 1 booking, fair | the sweep's confirmation is announced as the renter's own |
| `BlackoutsRespectBookings` | `Bookings`, 1 booking, fair | request, blackout, accept: accepting does not ask about blackouts |
| `EditedBlind` | `Reviews`, `Reviews_race.cfg` | a review inserted just after the sweep published the other can still be edited |
| `EveryPublicationIsTold` | `Reviews`, `Reviews_race.cfg` | the sweep publishes a review inserted after its read and tells nobody |
| `ReadWasShown` | `Messaging`, `Messaging_live.cfg` | a message inserted between the read of a thread and the mark |
| `LeftMeansLeft` | `Messaging`, `Messaging_live.cfg` | a leave overtakes the join before it |
| `UnreadRings` | `Messaging`, with 2 messages of the owner and no screen | two sends each count both messages, and neither rings |
| `LiveTypistStaysShown` | `Typing` on its own | typing is announced once a burst and never renewed |
| `LagIsOneDirectional` | `Presence` on its own | the last tab to close tells only the rooms it was in, or is announced after it has closed, by its own join |
| `PresentInTheThreadIsShown` | `Presence` on its own | a join's answer overtaken by an arrival |
| `NoHandlerIsCutShort` | `Lifecycle`, 2 places, 1 signal | a handler whose client hung up, or a socket's, is not waited for: the pool closes under it, or the process ends |
| `StaleEpochSocketsClose` | `SocketSessions` on its own, fair | the revalidation sweep looks at the status and not at the epoch |
| `LosingClickIsNoError` | `Accounts`, `Accounts_race.cfg` | the loser of two clicks looks before the winner has written |
| `OlderLinkStopsWorking` | `Accounts`, `Accounts_race.cfg` | a click has read the row when a resend gives it another link |
| `QueuedOnTheCurrentPassword` | `Accounts`, `Accounts_race.cfg` | an email change that passed its check before a reset is queued after it |
| `ClaimsAndSetsOrNeither` | `Accounts`, `Accounts_race.cfg` | the claim of a suspended account's link spends it and sets nothing |
| `ResetComesFromTheAddress` | `Accounts`, with 1 account and 5 requests | a reset link survives a change of address |
| `OrphansNeedAFailure` | `Listings`, with `Faults = {}` | photos attached while their listing is being deleted |
| `AppendsAfterWhatIsThere` | `Listings`, with 3 requests, no faults and a maximum of 4 | an insert commits at positions computed before another one's |
| `PublishedHasARate` | `Listings`, `Listings_race.cfg` | the rate of a PUBLISHED listing is edited away |
| `UnpublishedWasVisible` | `Listings`, `Listings_race.cfg` | a draft is unpublished |
| `SettledAtCompleted` | `BookingPage`, `Batch = 1`, `MaxLoads = 2` | the status is asked about before the images are stored and not when they are recorded |
| `SignInStartsFresh` | `Session`, `Client.cfg` | a failed `/auth/me` signs the tab out and leaves the socket open; the next user inherits it |
| `DisabledOnlyIfItWouldFail` | `ListingForm`, `Client.cfg` | an older checklist disables the button |
| `BindsOnlyOnGuesses` | `RateLimit`, `Max = 2`, 3 slots | sign-ins on their way hold a hit each |
| `ZeroRowsZeroMatches` | `Browse`, `Client.cfg` | a page past the end has no rows, and its count is zero |
| `NothingOutOfSync` | `Browse`, `Client.cfg` | the price field keeps its text when the filter is cleared |
| `ClosedAccountsOweNothing` | `AccountClosure`, as in `Server.cfg` | a request that read the listing before the account closed is inserted after |

Where two answers of one page may overlap (the listing form, a booking's page) nothing in the code orders
them: `QuietFormIsTrue` and `QuietPageIsCurrent` excuse the overlap by name and hold each operation to its
own answer. Nor does the code promise that an old price is refused: `requestBooking` says that it is
ignored, and FR-405 is marked unbuilt, so `PricedForTheDates` claims the right dates, and rates no older than those shown.

`ShutdownEnds` of `Lifecycle` (once signalled, the process ends) holds under `FairSpec` and has
no run: the forced exit makes it true whatever else happens.

Three more are visible in the code and not stated as properties: the poll of a hidden tab
marks the thread read, although the tab's own report waits until it is visible
(`MessageThread.jsx:395`, `messageService.js:97`); a failure of
`markThreadRead` after a message is committed is reported as a failure to send, so a
second try sends twice (`messageService.js:186`); and two follow-ups of two transitions
interleave, so their thread lines can be in either order.

## Left out

* Reads that change nothing: dashboards, listing pages, aggregates of ratings, the health endpoint.
* Controllers, routes and validators: they parse, call one service function and shape
  the answer; what they refuse never reaches the modelled operation.
* Upload parsing and image sniffing, which end before a handler runs.
* The wording of letters, notifications and lines, except where a property is about
  what is told; delivery of mail, which is best effort.
* Seeds and scripts run by hand; the pages of the client that are one request and its three
  screens, or one form and its refusal (registering, resetting, the inbox, the calendar's editor).
* Pool limits and connection loss other than as a failed call.

## The plan

What would add most from here, in this order:

1. An abstract specification of a tab's session (who is shown, what the cookie says), with `Session`
   shown to implement it as `Bookings` does `RentalCalendar`.
2. `Lifecycle` with `Bookings`: a shutdown that drains requests while the sweep holds a client,
   as one model instead of a sweep that is inside or not.
3. The order of photos in `ListingForm`, with the positions that `Listings` already has.
4. Pool limits: handlers that wait for a connection while a transaction holds the last one.

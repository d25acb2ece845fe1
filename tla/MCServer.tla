------------------------------ MODULE MCServer ------------------------------
(***************************************************************************)
(* Small instances of the models of one server process and what it talks   *)
(* to, side by side: who is shown typing and who online, the number on the *)
(* bell, the life of the process, its rate limiter, its migrations, the    *)
(* closing of an account, and what a rental costs.  They share no state,   *)
(* so a behaviour moves one of them, the one it picks at the start, and    *)
(* the states add up instead of multiplying.                               *)
(***************************************************************************)
EXTENDS Quote, Sequences, FiniteSets

CONSTANTS IdleAfter, Expiry, SocketLimit, Window,   \* of Typing
          Tabs,                                \* of Presence
          MaxWire, MaxFaults,                  \* of Typing, Presence and Bell
          Notes, Calls, NoCall, Unanswered,    \* of Bell
          Places, MaxSignals,                  \* of Lifecycle
          Max, Span, SkipSuccessfulRequests, Routes, Slots, MaxRefused, MaxTime,  \* of RateLimit
          Files, Runs, None, MaxEdits,         \* of Migrations
          User, Listing, Booking, OwnerOf, ListingOf, RenterOf,
          Handler, Sweeper, System,            \* of AccountClosure
          owner, ana, ben, b1, b2, camera      \* and who is who there

ASSUME ServerAssumption ==
  /\ IdleAfter \in Nat \ {0} /\ Expiry \in Nat /\ Expiry > IdleAfter
  /\ SocketLimit \in Nat \ {0} /\ Window \in Nat \ {0} /\ MaxWire \in Nat \ {0}
  /\ IsFiniteSet(Tabs) /\ IsFiniteSet(Notes) /\ MaxFaults \in Nat
  /\ MaxSignals \in Nat
  /\ Max \in Nat /\ Span \in Nat \ {0} /\ MaxRefused \in Nat /\ MaxTime \in Nat /\ IsFiniteSet(Slots)
  /\ Files \subseteq Nat /\ None \notin Files \cup Nat
  /\ OwnerOf \in [Listing -> User]
  /\ ListingOf \in [Booking -> Listing]
  /\ RenterOf \in [Booking -> User]
  /\ \A b \in Booking : RenterOf[b] # OwnerOf[ListingOf[b]]
  /\ Sweeper \notin Handler /\ System \notin User

MCOwnerOf == [l \in Listing |-> owner]
MCListingOf == [b \in Booking |-> camera]
MCRenterOf == [b \in Booking |-> IF b = b2 THEN ben ELSE ana]

VARIABLES
  part,                                                              \* the model that moves
  connected, sent, timer, quiet, relayed, shown, expires, opened, count, lost,  \* Typing's
  registry, joining, inRoom, watcher, answer, wire, shows, unheard, stale, belated,  \* Presence's
  note, linked, pushed, badge, call, items, listing, marking, failed,      \* Bell's
  server, link, task, interval, sweep, pool, signals, closers, refused, exit,  \* Lifecycle's
  now, hits, reset, handling, failures, refunds,                           \* RateLimit's
  disk, ledger, schema, run, tx, overdue, edits,                           \* Migrations'
  account, offered, booking, acting                                        \* AccountClosure's

typing == <<connected, sent, timer, quiet, relayed, shown, expires, opened, count, lost>>
presence == <<registry, joining, inRoom, watcher, answer, wire, shows, unheard, stale, belated>>
bell == <<note, linked, pushed, badge, call, items, listing, marking, failed>>
life == <<server, link, task, interval, sweep, pool, signals, closers, refused, exit>>
limiter == <<now, hits, reset, handling, failures, refunds>>
migrations == <<disk, ledger, schema, run, tx, overdue, edits>>
closure == <<account, offered, booking, acting>>
quote == vars
everything == <<part, typing, presence, bell, life, limiter, migrations, closure, quote>>

T == INSTANCE Typing WITH Idle <- IdleAfter, Limit <- SocketLimit
P == INSTANCE Presence
B == INSTANCE Bell WITH Free <- NoCall, Asked <- Unanswered, faults <- failed
L == INSTANCE Lifecycle WITH timer <- interval
R == INSTANCE RateLimit WITH Window <- Span
M == INSTANCE Migrations WITH late <- overdue
C == INSTANCE AccountClosure WITH listing <- offered, call <- acting

AllInit ==
  /\ part \in {"typing", "presence", "bell", "life", "limiter", "migrations", "closure", "quote"}
  /\ T!Init /\ P!Init /\ B!Init /\ L!Init /\ R!Init /\ M!Init /\ C!Init /\ Init
  \* A part that does not move starts in one state, so that it is not counted again.
  /\ part # "bell" => note = [n \in Notes |-> "none"]
  /\ part # "migrations" => disk = [f \in Files |-> None]
  /\ part # "closure" => offered = [l \in Listing |-> "DRAFT"]
  /\ part # "quote" => /\ duration = CHOOSE d \in Durations : TRUE
                       /\ rates = CHOOSE r \in [hour : HourRates, day : DayRates, month : MonthRates] : r.hour # 0

AllNext ==
  /\ UNCHANGED part
  /\ \/ part = "typing" /\ T!Next /\ UNCHANGED <<presence, bell, life, limiter, migrations, closure, quote>>
     \/ part = "presence" /\ P!Next /\ UNCHANGED <<typing, bell, life, limiter, migrations, closure, quote>>
     \/ part = "bell" /\ B!Next /\ UNCHANGED <<typing, presence, life, limiter, migrations, closure, quote>>
     \/ part = "life" /\ L!Next /\ UNCHANGED <<typing, presence, bell, limiter, migrations, closure, quote>>
     \/ part = "limiter" /\ R!Next /\ UNCHANGED <<typing, presence, bell, life, migrations, closure, quote>>
     \/ part = "migrations" /\ M!Next /\ UNCHANGED <<typing, presence, bell, life, limiter, closure, quote>>
     \/ part = "closure" /\ C!Next /\ UNCHANGED <<typing, presence, bell, life, limiter, migrations, quote>>
     \/ part = "quote" /\ Next /\ UNCHANGED <<typing, presence, bell, life, limiter, migrations, closure>>

\* Bell's fairness and AccountClosure's, action by action, of the part that moves.
ClosureMoves(A) == part = "closure" /\ A
BellMoves(A) == part = "bell" /\ A
AllFairness ==
  /\ \A b \in Booking : WF_closure(ClosureMoves(C!Sweep(b) \/ C!UpdateBookingStatus(Sweeper)))
  /\ WF_bell(BellMoves(B!Poll))
  /\ \A c \in Calls : WF_bell(BellMoves(B!CountUnread(c))) /\ WF_bell(BellMoves(B!CountArrives(c)))

AllSpec == AllInit /\ [][AllNext]_everything /\ AllFairness

\* Of the part that moves; the others stand in their initial states.
AllTypesOK ==
  /\ part = "typing" => T!TypeOK
  /\ part = "presence" => P!TypeOK
  /\ part = "bell" => B!TypeOK
  /\ part = "life" => L!TypeOK
  /\ part = "limiter" => R!TypeOK
  /\ part = "migrations" => M!TypeOK
  /\ part = "closure" => C!TypeOK
  /\ part = "quote" => TypeOK
NeverOutlivesTheTypist == T!NeverOutlivesTheTypist
ShownIsTrueOtherwise == P!ShownIsTrueOtherwise
BadgeCatchesUp == B!BadgeCatchesUp
ExitIsExplained == L!ExitIsExplained
GuessesAreCapped == R!GuessesAreCapped
SchemaIsReproducible == M!SchemaIsReproducible
RenterHasAWayOut == C!RenterHasAWayOut
UnansweredRequestsLapse == C!UnansweredRequestsLapse
=============================================================================

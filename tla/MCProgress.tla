----------------------------- MODULE MCProgress -----------------------------
(***************************************************************************)
(* Small instances of what must happen in the end whoever stays silent, or *)
(* is gone, side by side: a booking nobody acts on, a review nobody        *)
(* answers, and the sockets of an account that was suspended.  They share  *)
(* no state: a behaviour moves one of them, the one it picks at the start. *)
(***************************************************************************)
EXTENDS SocketSessions, Integers, Sequences

CONSTANTS Calls, Sweeper, System,   \* of Bookings and Reviews
          Texts,                    \* of Reviews
          owner, ana, ben, camera, b1

\* No value is no name, the scheduler is no request, and the system is nobody.
ASSUME ProgressAssumption ==
  /\ None \notin Users \cup {owner, ana, ben, b1, System} \cup Calls \cup Texts
  /\ Sweeper \notin Calls
  /\ System \notin {owner, ana, ben}

One == {b1}

VARIABLES
  part,                                                       \* the model that moves
  status, trail, waited, blackouts, bookable, acting, sweeping, notices, lines, losses,  \* Bookings'
  completed, review, writing, blind, told, peeked, slips      \* Reviews'

bookings == <<status, trail, waited, blackouts, bookable, acting, sweeping, notices, lines, losses>>
reviews == <<completed, review, writing, blind, told, peeked, slips>>
sessions == vars
everything == <<part, bookings, reviews, sessions>>

B == INSTANCE Bookings WITH
       BookingIds <- One, Listings <- {camera}, Users <- {owner, ana, ben}, Days <- 1..3,
       OwnerOf <- [l \in {camera} |-> owner], ListingOf <- [b \in One |-> camera], RenterOf <- [b \in One |-> ana],
       PeriodOf <- [b \in One |-> {1, 2}], BlackoutPeriods <- {{1}}, call <- acting,
       sweep <- sweeping, faults <- losses
R == INSTANCE Reviews WITH Bookings <- One, call <- writing, due <- blind, faults <- slips

AllInit ==
  /\ part \in {"bookings", "reviews", "sessions"}
  /\ B!Init /\ R!Init /\ Init

AllNext ==
  /\ UNCHANGED part
  /\ \/ part = "bookings" /\ B!Next /\ UNCHANGED <<reviews, sessions>>
     \/ part = "reviews" /\ R!Next /\ UNCHANGED <<bookings, sessions>>
     \/ part = "sessions" /\ Next /\ UNCHANGED <<bookings, reviews>>

\* Each module's own fairness, action by action, of the part that moves.
BookingsMove(A) == part = "bookings" /\ A
ReviewsMove(A) == part = "reviews" /\ A
SessionsMove(A) == part = "sessions" /\ A
AllFairness ==
  /\ \A b \in One : WF_bookings(BookingsMove(B!Wait(b)))
  /\ WF_bookings(BookingsMove(B!Sweep))
  /\ \A h \in Calls \cup {Sweeper} : WF_bookings(BookingsMove(B!Continue(h)))
  /\ \A h \in Calls \cup {Sweeper} : WF_reviews(ReviewsMove(R!Continue(h)))
  /\ WF_reviews(ReviewsMove(R!Sweep))
  /\ \A b \in One, p \in R!Parties : WF_reviews(ReviewsMove(R!Age(b, p)))
  /\ WF_sessions(SessionsMove(SweepTick)) /\ WF_sessions(SessionsMove(DisconnectSockets))
  /\ WF_sessions(SessionsMove(SweepEnds))
  /\ \A u \in Users : WF_sessions(SessionsMove(SweepRead(u)))
  /\ \A s \in Sockets :
       /\ WF_sessions(SessionsMove(ReadUser(s))) /\ WF_sessions(SessionsMove(Accept(s)))
       /\ WF_sessions(SessionsMove(CurrentActor(s))) /\ WF_sessions(SessionsMove(Act(s)))

AllSpec == AllInit /\ [][AllNext]_everything /\ AllFairness

AllTypesOK == /\ part = "bookings" => B!TypeOK
              /\ part = "reviews" => R!TypeOK
              /\ part = "sessions" => TypeOK
SilenceEnds == B!SilenceEnds
EveryReviewIsPublished == R!EveryReviewIsPublished
=============================================================================

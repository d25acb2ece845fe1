--------------------------- MODULE ProgressProofs ---------------------------
(***************************************************************************)
(* That a session which has ended does nothing over a socket, proved for   *)
(* any number of accounts, sockets and password changes, and whatever the  *)
(* revalidation sweep is doing meanwhile; and that the three parts side by *)
(* side are each what its own module says, so that what is proved of       *)
(* Bookings and of Reviews alone is true of them here.                     *)
(***************************************************************************)
EXTENDS MCProgress, TLAPS

\* As much of the types as the argument needs; it holds without any bound.
Shapes ==
  /\ active \subseteq Users
  /\ epoch \in [Users -> Nat]
  /\ socket \in [Sockets ->
       [state : {"new", "asking", "accepted", "open", "closed"}, user : Users \cup {None},
        epoch : Nat, ended : BOOLEAN]]
  /\ event \in [Sockets -> [pc : {"idle", "asking", "acting"}, ended : BOOLEAN]]

\* A handshake that came from an ended session will find it ended: no account
\* comes back, and no epoch does.  One that was let in had not ended.
HandshakesFindOut ==
  \A s \in Sockets :
    /\ socket[s].state # "new" => socket[s].user \in Users
    /\ socket[s].state = "asking" /\ socket[s].ended =>
         socket[s].user \notin active \/ socket[s].epoch < epoch[socket[s].user]
    /\ socket[s].state \in {"accepted", "open"} => ~socket[s].ended

\* The same of events, whose socket keeps its user for as long as they last.
EventsFindOut ==
  \A s \in Sockets :
    /\ event[s].pc # "idle" => socket[s].state \in {"open", "closed"}
    /\ event[s].pc = "asking" /\ event[s].ended => socket[s].user \notin active
    /\ event[s].pc = "acting" => ~event[s].ended

IInv == Shapes /\ HandshakesFindOut /\ EventsFindOut /\ EndedSessionsDoNothing

\* Initially no socket has asked for anything.
LEMMA InitInv == Init => IInv
BY DEF Init, IInv, Shapes, HandshakesFindOut, EventsFindOut, EndedSessionsDoNothing, Unopened, Quiet

\* The account changes under its sockets: it ends, or its epoch grows.
LEMMA AccountStep ==
  ASSUME IInv, NEW u \in Users, Suspend(u) \/ ChangePassword(u)
  PROVE  IInv'
<1> USE DEF IInv, Shapes, EndedSessionsDoNothing, account, sweep
<1>1. CASE Suspend(u)
  BY <1>1 DEF Suspend, HandshakesFindOut, EventsFindOut
<1>2. CASE ChangePassword(u)
  <2>1. /\ epoch' = [epoch EXCEPT ![u] = @ + 1]
        /\ active' = active /\ socket' = socket /\ event' = event /\ late' = late
    BY <1>2 DEF ChangePassword
  <2>2. \A v \in Users : epoch[v] <= epoch'[v] /\ epoch'[v] \in Nat
    BY <2>1
  <2>3. HandshakesFindOut'
    <3> SUFFICES ASSUME NEW s \in Sockets, socket[s].state = "asking", socket[s].ended,
                        socket[s].user \in active
                 PROVE  socket[s].epoch < epoch'[socket[s].user]
      BY <2>1 DEF HandshakesFindOut
    <3>1. socket[s].user \in Users /\ socket[s].epoch < epoch[socket[s].user]
      BY DEF HandshakesFindOut
    <3> QED BY <2>2, <3>1
  <2>4. EventsFindOut'
    BY <2>1 DEF EventsFindOut
  <2>5. epoch' \in [Users -> Nat]
    BY <2>1
  <2> QED BY <2>1, <2>3, <2>4, <2>5
<1> QED BY <1>1, <1>2

\* A socket arrives, is looked up and let in, or goes.
LEMMA HandshakeStep ==
  ASSUME IInv, NEW s \in Sockets,
         \/ \E u \in Users : \E e \in 0..epoch[u] : Handshake(s, u, e)
         \/ ReadUser(s) \/ Accept(s) \/ Close(s)
  PROVE  IInv'
<1> USE DEF IInv, Shapes, EndedSessionsDoNothing, HandshakesFindOut, EventsFindOut, account, sweep
<1>1. ASSUME NEW u \in Users, NEW e \in 0..epoch[u], Handshake(s, u, e) PROVE IInv'
  <2>1. /\ socket' = [socket EXCEPT ![s] = [state |-> "asking", user |-> u, epoch |-> e,
                                            ended |-> u \notin active \/ e # epoch[u]]]
        /\ active' = active /\ epoch' = epoch /\ event' = event /\ late' = late
    BY <1>1 DEF Handshake
  <2>2. epoch[u] \in Nat /\ e \in Nat /\ e <= epoch[u] /\ socket[s].state = "new"
    <3>1. epoch[u] \in Nat
      OBVIOUS
    <3> QED BY <1>1, <3>1 DEF Handshake
  <2>3. event[s].pc = "idle"
    BY <2>2
  <2>4. Shapes'
    BY <2>1, <2>2
  <2>5. HandshakesFindOut'
    <3>1. e # epoch[u] => e < epoch[u]
      <4> DEFINE limit == epoch[u]
      <4>1. limit \in Nat /\ e \in Nat /\ e <= limit
        BY <2>2
      <4> HIDE DEF limit
      <4>2. e # limit => e < limit
        BY <4>1
      <4> QED BY <4>2 DEF limit
    <3>2. \A t \in Sockets \ {s} : socket'[t] = socket[t]
      BY <2>1
    <3>3. socket'[s] = [state |-> "asking", user |-> u, epoch |-> e,
                        ended |-> u \notin active \/ e # epoch[u]]
      BY <2>1
    <3> QED BY <2>1, <3>1, <3>2, <3>3
  <2>6. EventsFindOut'
    BY <2>1, <2>3
  <2> QED BY <2>1, <2>4, <2>5, <2>6
<1>2. CASE ReadUser(s)
  <2> DEFINE answer == IF socket[s].user \in active /\ EpochIsCurrent(s) THEN "accepted" ELSE "closed"
  <2>1. /\ socket' = [socket EXCEPT ![s].state = answer] /\ socket[s].state = "asking"
        /\ active' = active /\ epoch' = epoch /\ event' = event /\ late' = late
    BY <1>2 DEF ReadUser
  <2>2. answer = "accepted" => ~socket[s].ended
    BY <2>1 DEF EpochIsCurrent
  <2>3. answer \in {"accepted", "closed"}
    OBVIOUS
  <2>4. event[s].pc = "idle"
    BY <2>1
  <2> HIDE DEF answer
  <2> QED BY <2>1, <2>2, <2>3, <2>4
<1>3. CASE Accept(s)
  BY <1>3 DEF Accept
<1>4. CASE Close(s)
  BY <1>4 DEF Close, IsOpen
<1> QED BY <1>1, <1>2, <1>3, <1>4

\* An event is announced, its actor looked up, and it is acted on.
LEMMA EventStep ==
  ASSUME IInv, NEW s \in Sockets, Emit(s) \/ CurrentActor(s) \/ Act(s)
  PROVE  IInv'
<1> USE DEF IInv, Shapes, EndedSessionsDoNothing, HandshakesFindOut, EventsFindOut, account, sweep
<1>1. CASE Emit(s)
  BY <1>1 DEF Emit, IsOpen
<1>2. CASE CurrentActor(s)
  <2>1. CASE MayAct(socket[s].user)
    BY <1>2, <2>1 DEF CurrentActor, MayAct
  <2>2. CASE ~MayAct(socket[s].user)
    <3>1. /\ event' = [event EXCEPT ![s] = [pc |-> "idle", ended |-> FALSE]]
          /\ socket' = [socket EXCEPT ![s].state = "closed"]
          /\ active' = active /\ epoch' = epoch /\ late' = late
      BY <1>2, <2>2 DEF CurrentActor, Quiet
    <3>2. socket[s].state # "new"
      BY <1>2 DEF CurrentActor
    <3>3. Shapes'
      BY <3>1
    <3>4. HandshakesFindOut' /\ EventsFindOut'
      BY <3>1, <3>2
    <3> QED BY <3>1, <3>3, <3>4
  <2> QED BY <2>1, <2>2
<1>3. CASE Act(s)
  BY <1>3 DEF Act, Quiet
<1> QED BY <1>1, <1>2, <1>3

\* The revalidation sweep can only close sockets.
LEMMA SweepStep ==
  ASSUME IInv, Sweep \/ (\E u \in Users : SweepReadFails(u))
  PROVE  IInv'
<1> USE DEF IInv, Shapes, EndedSessionsDoNothing, HandshakesFindOut, EventsFindOut, account, sweep
<1>1. CASE DisconnectSockets
  <2>1. /\ active' = active /\ epoch' = epoch /\ event' = event /\ late' = late
        /\ \/ socket' = socket
           \/ socket' = [s \in Sockets |-> IF s \in SocketsOf(read.user)
                                           THEN [socket[s] EXCEPT !.state = "closed"] ELSE socket[s]]
    BY <1>1 DEF DisconnectSockets
  <2>2. ASSUME NEW t \in Sockets
        PROVE  /\ socket'[t].user = socket[t].user /\ socket'[t].epoch = socket[t].epoch
               /\ socket'[t].ended = socket[t].ended
               /\ \/ socket'[t].state = socket[t].state
                  \/ socket[t].state = "open" /\ socket'[t].state = "closed"
    <3>1. CASE socket'[t] = socket[t]
      BY <3>1
    <3>2. CASE socket'[t] # socket[t]
      <4>1. socket'[t] = [socket[t] EXCEPT !.state = "closed"] /\ t \in SocketsOf(read.user)
        BY <3>2, <2>1
      <4>2. socket[t].state = "open"
        BY <4>1 DEF SocketsOf, IsOpen
      <4> QED BY <4>1, <4>2
    <3> QED BY <3>1, <3>2
  <2>3. Shapes'
    <3>1. socket' \in [Sockets ->
            [state : {"new", "asking", "accepted", "open", "closed"}, user : Users \cup {None},
             epoch : Nat, ended : BOOLEAN]]
      <4>1. CASE socket' = socket
        BY <4>1
      <4>2. CASE socket' = [s \in Sockets |-> IF s \in SocketsOf(read.user)
                                           THEN [socket[s] EXCEPT !.state = "closed"] ELSE socket[s]]
        BY <4>2
      <4> QED BY <2>1, <4>1, <4>2
    <3> QED BY <2>1, <3>1
  <2>4. HandshakesFindOut'
    BY <2>2, <2>1
  <2>5. EventsFindOut'
    BY <2>2, <2>1
  <2> QED BY <2>1, <2>3, <2>4, <2>5
<1>2. CASE SweepTick \/ (\E u \in Users : SweepRead(u) \/ SweepReadFails(u)) \/ SweepEnds
  BY <1>2 DEF SweepTick, SweepRead, SweepReadFails, SweepEnds
<1> QED BY <1>1, <1>2 DEF Sweep

\* What every socket and event in flight still implies is inductive.
THEOREM Inductive == Spec => []IInv
<1>1. IInv /\ [Next]_vars => IInv'
  <2> SUFFICES ASSUME IInv, [Next]_vars PROVE IInv'
    OBVIOUS
  <2>1. CASE UNCHANGED vars
    BY <2>1 DEF vars, account, IInv, Shapes, HandshakesFindOut, EventsFindOut, EndedSessionsDoNothing
  <2> QED BY <2>1, AccountStep, HandshakeStep, EventStep, SweepStep DEF Next
<1> QED BY InitInv, <1>1, PTL DEF Spec

\* A session that had ended when it asked opens no socket, and no event of an
\* account that had ended is acted on: authenticateSocket and currentActor each
\* read the row before they let anything through, and what they read cannot be
\* taken back.
THEOREM EndedSessionsAreDead == Spec => []EndedSessionsDoNothing
BY Inductive, PTL DEF IInv

-----------------------------------------------------------------------------
(* Types. *)

\* A password changes while the bound allows it.
LEMMA AccountTypes ==
  ASSUME TypeOK, NEW u \in Users, Suspend(u) \/ ChangePassword(u)
  PROVE  TypeOK'
<1>1. CASE Suspend(u)
  BY <1>1 DEF Suspend, TypeOK, sweep
<1>2. CASE ChangePassword(u)
  <2>1. epoch[u] + 1 \in 0..MaxEpoch
    BY <1>2, SocketsAssumption DEF ChangePassword, TypeOK
  <2> QED BY <1>2, <2>1 DEF ChangePassword, TypeOK, sweep
<1> QED BY <1>1, <1>2

\* A socket as the server knows it, and the event it may be handling.
SocketType ==
  [state : {"new", "asking", "accepted", "open", "closed"}, user : Users \cup {None},
   epoch : 0..MaxEpoch, ended : BOOLEAN]
EventType == [pc : {"idle", "asking", "acting"}, ended : BOOLEAN]

\* A token carries an epoch that its account has had.
LEMMA SocketTypes ==
  ASSUME TypeOK, NEW s \in Sockets,
         \/ \E u \in Users : \E e \in 0..epoch[u] : Handshake(s, u, e)
         \/ ReadUser(s) \/ Accept(s) \/ Close(s) \/ Emit(s) \/ CurrentActor(s) \/ Act(s)
  PROVE  TypeOK'
<1>1. socket \in [Sockets -> SocketType] /\ event \in [Sockets -> EventType]
  BY DEF TypeOK, SocketType, EventType
<1>2. socket[s] \in SocketType
  BY <1>1
<1>3. ASSUME NEW c \in {"accepted", "open", "closed"}
      PROVE  [socket EXCEPT ![s].state = c] \in [Sockets -> SocketType]
  <2>1. [socket[s] EXCEPT !.state = c] \in SocketType
    BY <1>2 DEF SocketType
  <2>2. [socket EXCEPT ![s].state = c] = [socket EXCEPT ![s] = [socket[s] EXCEPT !.state = c]]
    BY <1>1
  <2> QED BY <1>1, <2>1, <2>2
<1>4. ASSUME NEW u \in Users, NEW e \in 0..epoch[u], NEW was \in BOOLEAN
      PROVE  [state |-> "asking", user |-> u, epoch |-> e, ended |-> was] \in SocketType
  <2>1. epoch[u] \in 0..MaxEpoch
    BY DEF TypeOK
  <2>2. e \in 0..MaxEpoch
    BY <2>1, SocketsAssumption
  <2> QED BY <2>2 DEF SocketType
<1>5. Quiet \in EventType /\ \A was \in BOOLEAN : [pc |-> "asking", ended |-> was] \in EventType
  BY DEF Quiet, EventType
<1>6. [event EXCEPT ![s].pc = "acting"] \in [Sockets -> EventType]
  <2>1. event[s] \in EventType
    BY <1>1
  <2>2. [event[s] EXCEPT !.pc = "acting"] \in EventType
    BY <2>1 DEF EventType
  <2>3. [event EXCEPT ![s].pc = "acting"] = [event EXCEPT ![s] = [event[s] EXCEPT !.pc = "acting"]]
    BY <1>1
  <2> QED BY <1>1, <2>2, <2>3
<1> SUFFICES /\ socket' \in [Sockets -> SocketType] /\ event' \in [Sockets -> EventType]
             /\ late' \subseteq Sockets /\ UNCHANGED <<active, epoch, due, read, faults>>
  BY DEF TypeOK, SocketType, EventType
<1> USE DEF account, sweep
<1>7. late \subseteq Sockets
  BY DEF TypeOK
<1>8. ASSUME NEW u \in Users, NEW e \in 0..epoch[u], Handshake(s, u, e)
      PROVE  socket' \in [Sockets -> SocketType]
  <2>1. (u \notin active \/ e # epoch[u]) \in BOOLEAN
    OBVIOUS
  <2> QED BY <1>1, <1>4, <1>8, <2>1 DEF Handshake
<1>9. CASE \E u \in Users : \E e \in 0..epoch[u] : Handshake(s, u, e)
  BY <1>1, <1>7, <1>8, <1>9 DEF Handshake
<1>10. CASE ReadUser(s)
  BY <1>1, <1>3, <1>7, <1>10 DEF ReadUser
<1>11. CASE Accept(s) \/ Close(s)
  BY <1>1, <1>3, <1>7, <1>11 DEF Accept, Close
<1>12. CASE Emit(s)
  <2>1. (socket[s].user \notin active) \in BOOLEAN
    OBVIOUS
  <2> QED BY <1>1, <1>5, <1>7, <1>12, <2>1 DEF Emit
<1>13. CASE Act(s)
  BY <1>1, <1>5, <1>7, <1>13 DEF Act
<1>14. CASE CurrentActor(s)
  BY <1>1, <1>3, <1>5, <1>6, <1>7, <1>14 DEF CurrentActor
<1> QED BY <1>9, <1>10, <1>11, <1>12, <1>13, <1>14

\* The sweep looks only at users, since an open socket has one.
LEMMA SweepTypes ==
  ASSUME IInv, TypeOK, Sweep \/ (\E u \in Users : SweepReadFails(u))
  PROVE  TypeOK'
<1> USE DEF TypeOK, account
<1>1. CASE SweepTick
  <2>1. ConnectedUsers \subseteq Users
    BY DEF ConnectedUsers, IsOpen, IInv, HandshakesFindOut
  <2> QED BY <1>1, <2>1 DEF SweepTick
<1>2. ASSUME NEW u \in Users, SweepRead(u) PROVE TypeOK'
  BY <1>2 DEF SweepRead
<1>3. ASSUME NEW u \in Users, SweepReadFails(u) PROVE TypeOK'
  <2>1. faults + 1 \in 0..MaxFaults
    BY <1>3, SocketsAssumption DEF SweepReadFails
  <2>2. due \ {u} \in SUBSET Users
    BY <1>3 DEF SweepReadFails
  <2> QED BY <1>3, <2>1, <2>2 DEF SweepReadFails
<1>4. CASE DisconnectSockets
  <2>1. due \ {read.user} \in SUBSET Users
    BY <1>4 DEF DisconnectSockets
  <2>2. socket' \in [Sockets ->
          [state : {"new", "asking", "accepted", "open", "closed"}, user : Users \cup {None},
           epoch : 0..MaxEpoch, ended : BOOLEAN]]
    <3>1. CASE read.ok
      BY <1>4, <3>1 DEF DisconnectSockets
    <3>2. CASE ~read.ok
      BY <1>4, <3>2 DEF DisconnectSockets
    <3> QED BY <3>1, <3>2
  <2> QED BY <1>4, <2>1, <2>2 DEF DisconnectSockets, Nobody
<1>5. CASE SweepEnds
  BY <1>5 DEF SweepEnds
<1> QED BY <1>1, <1>2, <1>3, <1>4, <1>5 DEF Sweep

\* Every variable keeps its type, and the sweep never holds the row of a user it
\* is not looking at (revalidateConnections' loop), for any accounts and sockets.
THEOREM TypeCorrect == Spec => []TypeOK
<1>1. Init => TypeOK
  BY SocketsAssumption DEF Init, TypeOK, Unopened, Quiet, Nobody
<1>2. IInv /\ TypeOK /\ [Next]_vars => TypeOK'
  <2> SUFFICES ASSUME IInv, TypeOK, [Next]_vars PROVE TypeOK'
    OBVIOUS
  <2>1. CASE UNCHANGED vars
    BY <2>1 DEF vars, TypeOK
  <2> QED BY <2>1, AccountTypes, SocketTypes, SweepTypes DEF Next
<1> QED BY <1>1, <1>2, Inductive, PTL DEF Spec

-----------------------------------------------------------------------------
(* The three parts side by side. *)

\* The proofs about Bookings and Reviews, of the instances that MCProgress moves.
BP == INSTANCE BookingsProofs WITH
        BookingIds <- One, Listings <- {camera}, Users <- {owner, ana, ben}, Days <- 1..3,
        OwnerOf <- [l \in {camera} |-> owner], ListingOf <- [b \in One |-> camera], RenterOf <- [b \in One |-> ana],
        PeriodOf <- [b \in One |-> {1, 2}], BlackoutPeriods <- {{1}}, call <- acting,
        sweep <- sweeping, faults <- losses
RP == INSTANCE ReviewsProofs WITH Bookings <- One, call <- writing, due <- blind, faults <- slips

\* The instances have the constants those proofs ask for.
LEMMA InstancesFit == BP!BookingsAssumption /\ RP!ReviewsAssumption
BY ProgressAssumption, SocketsAssumption DEF BP!BookingsAssumption, RP!ReviewsAssumption, One

\* Both instances of Bookings have the same initial states,
LEMMA SameBookingsInit == B!Init <=> BP!Init
BY DEF B!Init, BP!Init, B!Handlers, BP!Handlers, B!Idle, BP!Idle

\* the same types,
LEMMA SameBookingsTypes == B!TypeOK <=> BP!TypeOK
BY DEF B!TypeOK, BP!TypeOK, B!BookingStates, BP!BookingStates, B!StallingStatuses,
       BP!StallingStatuses, B!ActionNames, BP!ActionNames, B!SystemLines, BP!SystemLines,
       B!SweepPhases, BP!SweepPhases, B!Pcs, BP!Pcs, B!CallRecords, BP!CallRecords, B!Events,
       BP!Events, B!Notices, BP!Notices, B!Handlers, BP!Handlers, B!Actors, BP!Actors

\* and the same steps.
LEMMA SameBookingsNext == [B!Next]_(B!vars) <=> [BP!Next]_(BP!vars)
BY DEF B!DatesHeldStatuses, BP!DatesHeldStatuses, B!ActionNames, BP!ActionNames,
       B!BookingActions, BP!BookingActions, B!CheckTransition, BP!CheckTransition,
       B!NotifiedRole, BP!NotifiedRole, B!SystemLines, BP!SystemLines, B!SweepPhases,
       BP!SweepPhases, B!SweptStatus, BP!SweptStatus, B!SweptAction, BP!SweptAction,
       B!NextPhase, BP!NextPhase, B!StallingStatuses, BP!StallingStatuses, B!Overlap,
       BP!Overlap, B!tables, BP!tables, B!told, BP!told, B!vars, BP!vars, B!Handlers,
       BP!Handlers, B!OwnerOfBooking, BP!OwnerOfBooking, B!RoleIn, BP!RoleIn, B!Holds,
       BP!Holds, B!Clash, BP!Clash, B!BlockedOut, BP!BlockedOut, B!Idle, BP!Idle, B!Goto,
       BP!Goto, B!Finish, BP!Finish, B!RequestBooking, BP!RequestBooking, B!CheckDates,
       BP!CheckDates, B!CheckBlackouts, BP!CheckBlackouts, B!InsertBooking, BP!InsertBooking,
       B!Load, BP!Load, B!ActOnBooking, BP!ActOnBooking, B!PreCheck, BP!PreCheck,
       B!ExclusionHolds, BP!ExclusionHolds, B!StillAsRead, BP!StillAsRead, B!ClockRestarted,
       BP!ClockRestarted, B!CommitTransition, BP!CommitTransition, B!RefuseTransition,
       BP!RefuseTransition, B!NotifiedParty, BP!NotifiedParty, B!AfterNotice, BP!AfterNotice,
       B!AfterLine, BP!AfterLine, B!Advance, BP!Advance, B!Written, BP!Written, B!Notify,
       BP!Notify, B!PostSystemMessage, BP!PostSystemMessage, B!NotifyReviewInvited,
       BP!NotifyReviewInvited, B!Stale, BP!Stale, B!SweepTick, BP!SweepTick, B!SweepVisit,
       BP!SweepVisit, B!SweepPassOver, BP!SweepPassOver, B!SweepNext, BP!SweepNext,
       B!SweepQueryFails, BP!SweepQueryFails, B!AddBlackout, BP!AddBlackout, B!RemoveBlackout,
       BP!RemoveBlackout, B!ChangeVisibility, BP!ChangeVisibility, B!Wait, BP!Wait,
       B!CallFails, BP!CallFails, B!Crash, BP!Crash, B!Request, BP!Request, B!Transition,
       BP!Transition, B!Tell, BP!Tell, B!Continue, BP!Continue, B!Sweep, BP!Sweep, B!Party,
       BP!Party, B!Calendar, BP!Calendar, B!Next, BP!Next

\* So have both instances of Reviews.
LEMMA SameReviews ==
  /\ R!Init <=> RP!Init
  /\ R!TypeOK <=> RP!TypeOK
  /\ [R!Next]_(R!vars) <=> [RP!Next]_(RP!vars)
<1>1. R!Init <=> RP!Init
  BY DEF R!Init, RP!Init, R!Parties, RP!Parties, R!NoReview, RP!NoReview, R!Handlers,
       RP!Handlers, R!Idle, RP!Idle
<1>2. R!TypeOK <=> RP!TypeOK
  BY DEF R!TypeOK, RP!TypeOK, R!Parties, RP!Parties, R!Written, RP!Written, R!NoReview,
       RP!NoReview, R!Handlers, RP!Handlers, R!Ops, RP!Ops
<1>3. [R!Next]_(R!vars) <=> [RP!Next]_(RP!vars)
  BY DEF R!vars, RP!vars, R!Parties, RP!Parties, R!Other, RP!Other, R!Handlers, RP!Handlers,
       R!Written, RP!Written, R!Visible, RP!Visible, R!WrittenOf, RP!WrittenOf, R!Blind,
       RP!Blind, R!Idle, RP!Idle, R!Goto, RP!Goto, R!Finish, RP!Finish, R!Reword, RP!Reword,
       R!Send, RP!Send, R!Answer, RP!Answer, R!Reviewable, RP!Reviewable, R!AssertReviewable,
       RP!AssertReviewable, R!Peek, RP!Peek, R!InsertReview, RP!InsertReview, R!BothWritten,
       RP!BothWritten, R!ReadBoth, RP!ReadBoth, R!Publishable, RP!Publishable,
       R!PublishReviews, RP!PublishReviews, R!TellPublished, RP!TellPublished, R!CheckEditable,
       RP!CheckEditable, R!StillBlind, RP!StillBlind, R!UpdateReview, RP!UpdateReview,
       R!CheckRepliable, RP!CheckRepliable, R!NoReplyYet, RP!NoReplyYet, R!InsertReply,
       RP!InsertReply, R!PastBlindPeriod, RP!PastBlindPeriod, R!SweepTick, RP!SweepTick,
       R!SweepRead, RP!SweepRead, R!SweepEnds, RP!SweepEnds, R!Complete, RP!Complete, R!Age,
       RP!Age, R!CallFails, RP!CallFails, R!Crash, RP!Crash, R!Ops, RP!Ops, R!Continue,
       RP!Continue, R!Sweep, RP!Sweep, R!Next, RP!Next
<1> QED BY <1>1, <1>2, <1>3

\* Whichever part moves, each of the three takes a step of its own or none: side by
\* side they are a booking nobody acts on, a review nobody answers and the sockets of
\* a suspended account, and nothing that is proved of one alone is lost.
THEOREM PartsAreThemselves == AllSpec => B!Spec /\ R!Spec /\ Spec
<1>1. AllInit => B!Init /\ R!Init /\ Init
  BY DEF AllInit
<1>2. [AllNext]_everything => [B!Next]_(B!vars) /\ [R!Next]_(R!vars) /\ [Next]_vars
  <2>1. UNCHANGED bookings => UNCHANGED B!vars
    BY DEF bookings, B!vars, B!tables, B!told
  <2>2. UNCHANGED reviews => UNCHANGED R!vars
    BY DEF reviews, R!vars
  <2>3. UNCHANGED sessions => UNCHANGED vars
    BY DEF sessions
  <2> QED BY <2>1, <2>2, <2>3 DEF AllNext, everything
<1> QED BY <1>1, <1>2, PTL DEF AllSpec, B!Spec, R!Spec, Spec

\* Every variable of the three parts keeps its type, from the proofs about each alone
\* (the rows and handlers of bookingService.js, reviewService.js and socketServer.js).
THEOREM ProgressTypes == AllSpec => []AllTypesOK
<1>1. AllSpec => BP!Spec
  BY PartsAreThemselves, SameBookingsInit, SameBookingsNext, PTL DEF B!Spec, BP!Spec
<1>2. AllSpec => RP!Spec
  BY PartsAreThemselves, SameReviews, PTL DEF R!Spec, RP!Spec
<1>3. BP!Spec => []BP!TypeOK
  BY InstancesFit, BP!TypeCorrect
<1>4. RP!Spec => []RP!TypeOK
  BY InstancesFit, RP!TypeCorrect
<1>5. BP!TypeOK /\ RP!TypeOK /\ TypeOK => AllTypesOK
  BY SameBookingsTypes, SameReviews DEF AllTypesOK
<1> QED BY <1>1, <1>2, <1>3, <1>4, <1>5, PartsAreThemselves, TypeCorrect, PTL
=============================================================================

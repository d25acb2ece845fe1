--------------------------- MODULE SocketSessions ---------------------------
(***************************************************************************)
(* How long a socket outlives its authorization: the handshake of          *)
(* ws/socketAuth.js, the per-event check of ws/threadHandlers.js and the   *)
(* revalidation sweep of ws/socketServer.js, over the status and the       *)
(* session epoch of the users table.                                       *)
(*                                                                         *)
(* Each reads the user's row, awaits, and acts on what it read.            *)
(***************************************************************************)
EXTENDS Naturals, FiniteSets

CONSTANTS
  Users,     \* the accounts
  Sockets,   \* connections, each opened at most once
  None,      \* no value
  MaxEpoch,  \* bound on password changes of one account
  MaxFaults  \* bound on failed database calls

\* The bounds are numbers.
ASSUME SocketsAssumption == {MaxEpoch, MaxFaults} \subseteq Nat

VARIABLES
  active,   \* accounts whose status is ACTIVE
  epoch,    \* user -> session_epoch
  socket,   \* socket -> its state, its user, and the epoch its token carries
  event,    \* socket -> what its handler is doing
  due,      \* users the running sweep has still to look at; None when none runs
  read,     \* the user whose row the sweep has read, and whether it was ACTIVE
  late,     \* ghost: sockets opened, or acting, on a session already ended when they asked
  faults    \* failed database calls so far

vars == <<active, epoch, socket, event, due, read, late, faults>>
account == <<active, epoch>>
sweep == <<due, read>>

Unopened == [state |-> "new", user |-> None, epoch |-> 0, ended |-> FALSE]
Quiet == [pc |-> "idle", ended |-> FALSE]
Nobody == [user |-> None, ok |-> FALSE]
IsOpen(s) == socket[s].state = "open"

Init ==
  /\ active = Users
  /\ epoch = [u \in Users |-> 0]
  /\ socket = [s \in Sockets |-> Unopened]
  /\ event = [s \in Sockets |-> Quiet]
  /\ due = None
  /\ read = Nobody
  /\ late = {}
  /\ faults = 0

-----------------------------------------------------------------------------
(* The account, changed elsewhere. *)

Suspend(u) ==
  /\ u \in active
  /\ active' = active \ {u}
  /\ UNCHANGED <<epoch, socket, event, sweep, late, faults>>

ChangePassword(u) ==
  /\ u \in active /\ epoch[u] < MaxEpoch
  /\ epoch' = [epoch EXCEPT ![u] = @ + 1]
  /\ UNCHANGED <<active, socket, event, sweep, late, faults>>

-----------------------------------------------------------------------------
(* authenticateSocket. *)

AnyEpoch(s) == TRUE

\* isSessionEpochCurrent.
EpochIsCurrent(s) == socket[s].epoch = epoch[socket[s].user]

\* A handshake arrives with a token of some epoch the account has had.
Handshake(s, u, e) ==
  /\ socket[s].state = "new"
  /\ socket' = [socket EXCEPT ![s] = [state |-> "asking", user |-> u, epoch |-> e,
                                      ended |-> u \notin active \/ e # epoch[u]]]
  /\ UNCHANGED <<account, event, sweep, late, faults>>

\* findUserById, and the answer it leads to.
ReadUser(s) ==
  /\ socket[s].state = "asking"
  /\ socket' = [socket EXCEPT ![s].state =
                  IF socket[s].user \in active /\ EpochIsCurrent(s) THEN "accepted" ELSE "closed"]
  /\ UNCHANGED <<account, event, sweep, late, faults>>

\* connection: the socket joins its user's room and the registry.
Accept(s) ==
  /\ socket[s].state = "accepted"
  /\ socket' = [socket EXCEPT ![s].state = "open"]
  /\ late' = IF socket[s].ended THEN late \cup {s} ELSE late
  /\ UNCHANGED <<account, event, sweep, faults>>

Close(s) ==
  /\ IsOpen(s)
  /\ socket' = [socket EXCEPT ![s].state = "closed"]
  /\ UNCHANGED <<account, event, sweep, late, faults>>

-----------------------------------------------------------------------------
(* handle: one event of a socket, the current actor read first. *)

Anybody(u) == TRUE
MayAct(u) == u \in active

Emit(s) ==
  /\ IsOpen(s) /\ event[s].pc = "idle"
  /\ event' = [event EXCEPT ![s] = [pc |-> "asking", ended |-> socket[s].user \notin active]]
  /\ UNCHANGED <<account, socket, sweep, late, faults>>

\* A 401 closes the socket.
CurrentActor(s) ==
  /\ event[s].pc = "asking"
  /\ IF MayAct(socket[s].user)
     THEN event' = [event EXCEPT ![s].pc = "acting"] /\ UNCHANGED socket
     ELSE /\ event' = [event EXCEPT ![s] = Quiet]
          /\ socket' = [socket EXCEPT ![s].state = "closed"]
  /\ UNCHANGED <<account, sweep, late, faults>>

Act(s) ==
  /\ event[s].pc = "acting"
  /\ event' = [event EXCEPT ![s] = Quiet]
  /\ late' = IF event[s].ended THEN late \cup {s} ELSE late
  /\ UNCHANGED <<account, socket, sweep, faults>>

-----------------------------------------------------------------------------
(* revalidateConnections. *)

UsersWithAllTabsOpen ==
  {u \in Users : /\ \E s \in Sockets : IsOpen(s) /\ socket[s].user = u
                 /\ \A s \in Sockets : socket[s].user = u => socket[s].state # "closed"}

\* connectedUserIds: a user stays in the registry until the last socket has gone.
ConnectedUsers == {socket[s].user : s \in {t \in Sockets : IsOpen(t)}}

SweepTick ==
  /\ due = None
  /\ due' = ConnectedUsers
  /\ UNCHANGED <<account, socket, event, read, late, faults>>

SweepRead(u) ==
  /\ due # None /\ u \in due /\ read = Nobody
  /\ read' = [user |-> u, ok |-> u \in active]
  /\ UNCHANGED <<account, socket, event, due, late, faults>>

\* It fails open: a user whose row cannot be read is passed over until the next pass.
SweepReadFails(u) ==
  /\ due # None /\ u \in due /\ read = Nobody /\ faults < MaxFaults
  /\ faults' = faults + 1
  /\ due' = due \ {u}
  /\ UNCHANGED <<account, socket, event, read, late>>

SocketsOf(u) == {s \in Sockets : IsOpen(s) /\ socket[s].user = u}

DisconnectAndAskAgain ==
  /\ read # Nobody
  /\ due' = due \ {read.user}
  /\ UNCHANGED <<account, socket, event, read, late, faults>>

DisconnectSockets ==
  /\ read # Nobody
  /\ socket' = IF read.ok THEN socket
               ELSE [s \in Sockets |-> IF s \in SocketsOf(read.user)
                                       THEN [socket[s] EXCEPT !.state = "closed"] ELSE socket[s]]
  /\ due' = due \ {read.user}
  /\ read' = Nobody
  /\ UNCHANGED <<account, event, late, faults>>

SweepEnds ==
  /\ due = {}
  /\ due' = None
  /\ UNCHANGED <<account, socket, event, read, late, faults>>

-----------------------------------------------------------------------------

Sweep == SweepTick \/ (\E u \in Users : SweepRead(u)) \/ DisconnectSockets \/ SweepEnds

Next ==
  \/ \E u \in Users : Suspend(u) \/ ChangePassword(u)
  \/ \E s \in Sockets, u \in Users : \E e \in 0..epoch[u] : Handshake(s, u, e)
  \/ \E s \in Sockets : \/ ReadUser(s) \/ Accept(s) \/ Close(s)
                        \/ Emit(s) \/ CurrentActor(s) \/ Act(s)
  \/ Sweep
  \/ \E u \in Users : SweepReadFails(u)

Spec == Init /\ [][Next]_vars

\* The timer's passes recur and finish; what a handshake or an event started goes on.
\* Nobody has to send an event or close a tab.
Fairness ==
  /\ WF_vars(SweepTick) /\ WF_vars(DisconnectSockets) /\ WF_vars(SweepEnds)
  /\ \A u \in Users : WF_vars(SweepRead(u))
  /\ \A s \in Sockets : WF_vars(ReadUser(s)) /\ WF_vars(Accept(s))
                        /\ WF_vars(CurrentActor(s)) /\ WF_vars(Act(s))

FairSpec == Spec /\ Fairness

-----------------------------------------------------------------------------

\* The type of every variable; the sweep holds a row only of a user on its list.
TypeOK ==
  /\ active \subseteq Users
  /\ epoch \in [Users -> 0..MaxEpoch]
  /\ socket \in [Sockets ->
       [state : {"new", "asking", "accepted", "open", "closed"}, user : Users \cup {None},
        epoch : 0..MaxEpoch, ended : BOOLEAN]]
  /\ event \in [Sockets -> [pc : {"idle", "asking", "acting"}, ended : BOOLEAN]]
  /\ due \in (SUBSET Users) \cup {None}
  /\ read \in [user : Users \cup {None}, ok : BOOLEAN]
  /\ read # Nobody => due # None /\ read.user \in due
  /\ late \subseteq Sockets
  /\ faults \in 0..MaxFaults

\* A session that had ended when it asked - a token of an older epoch, or an account
\* no longer ACTIVE - opens no socket, and no event of such an account is acted on.
EndedSessionsDoNothing == late = {}

\* Every socket of an account that is no longer ACTIVE is closed, those whose
\* handshake was under way and those of every device included.
SuspendedSocketsClose ==
  \A s \in Sockets : IsOpen(s) /\ socket[s].user \notin active ~> ~IsOpen(s)

\* "socketServer.js's periodic revalidation sweep is what catches a socket that was
\* already connected when the invalidation happened" (socketAuth.js:118): a socket
\* whose token's epoch is over is closed.
StaleEpochSocketsClose ==
  \A s \in Sockets : IsOpen(s) /\ ~EpochIsCurrent(s) ~> ~IsOpen(s)
=============================================================================

------------------------------ MODULE Presence ------------------------------
(***************************************************************************)
(* Who is online: ws/connectionRegistry.js, the `disconnecting` handler of *)
(* ws/socketServer.js, the join and leave of ws/threadHandlers.js, and what*)
(* MessageThread.jsx shows of the other party.                             *)
(*                                                                         *)
(* One person has several tabs; the other party watches one thread.  What  *)
(* the server emits on the watcher's socket arrives in order.  A tab's join*)
(* reads the thread first, and may have lost its socket when it enters the *)
(* room.  The watcher's joining the room and reading the registry are one  *)
(* step, the queries that follow and the acknowledgement another.          *)
(***************************************************************************)
EXTENDS Naturals, Sequences, FiniteSets

CONSTANTS
  Tabs,    \* the person's tabs and devices
  MaxWire  \* bound on what is on its way to the watcher

VARIABLES
  registry,  \* socketIdsByUser: the person's connected tabs
  joining,   \* tabs whose thread:join is reading the thread, their socket there or not
  inRoom,    \* connected tabs in the thread's room
  watcher,   \* "away", "described" (in the room, not yet answered) or "watching"
  answer,    \* isOnline, as the watcher's join read it
  wire,      \* what is on its way to the watcher
  shows,     \* what the watcher's screen says of the person
  unheard,   \* ghost: the last coming or going was told to nobody
  stale,     \* ghost: the answer said what was no longer so
  belated    \* ghost: a tab that had gone was announced, with no other there

vars == <<registry, joining, inRoom, watcher, answer, wire, shows, unheard, stale, belated>>
screen == <<watcher, answer, shows>>

IsOnline == registry # {}

Init ==
  /\ registry = {}
  /\ joining = {}
  /\ inRoom = {}
  /\ watcher = "away"
  /\ answer = FALSE
  /\ wire = <<>>
  /\ shows = "unknown"
  /\ unheard = FALSE
  /\ stale = FALSE
  /\ belated = FALSE

\* presence:changed, to whoever is in the room.
Tell(online) ==
  /\ Len(wire) < MaxWire
  /\ wire' = IF watcher = "away" THEN wire
             ELSE Append(wire, [kind |-> "changed", online |-> online])
  /\ unheard' = FALSE
  /\ stale' = FALSE
  /\ belated' = (online /\ ~IsOnline)

-----------------------------------------------------------------------------
(* The person. *)

\* register, once the handshake has been accepted; nobody is told.  A new socket has
\* a new name.
Connect(t) ==
  /\ t \notin registry \cup joining
  /\ registry' = registry \cup {t}
  /\ unheard' = (unheard \/ ~IsOnline)
  /\ UNCHANGED <<joining, inRoom, screen, wire, stale, belated>>

\* thread:join re-reads its caller and reads the thread.
JoinThread(t) ==
  /\ t \in registry \ joining
  /\ joining' = joining \cup {t}
  /\ UNCHANGED <<registry, inRoom, screen, wire, unheard, stale, belated>>

\* Mutant: a socket that has gone enters the room.
EnterUnchecked(t) ==
  /\ t \in joining
  /\ joining' = joining \ {t}
  /\ inRoom' = inRoom \cup {t}
  /\ Tell(TRUE)
  /\ UNCHANGED <<registry, screen>>

\* socket.join, which does nothing for a socket that has gone; the room is told of the
\* arrival all the same.
EnterThread(t) ==
  /\ t \in joining
  /\ joining' = joining \ {t}
  /\ inRoom' = inRoom \cup ({t} \cap registry)
  /\ Tell(TRUE)
  /\ UNCHANGED <<registry, screen>>

\* Not a party, a session that has ended, or a failed query.
JoinRefused(t) ==
  /\ t \in joining
  /\ joining' = joining \ {t}
  /\ UNCHANGED <<registry, inRoom, screen, wire, unheard, stale, belated>>

\* Handled at once: it does not wait for a join sent before it.
LeaveThread(t) ==
  /\ t \in inRoom
  /\ inRoom' = inRoom \ {t}
  /\ UNCHANGED <<registry, joining, screen, wire, unheard, stale, belated>>

AnyGone(t) == TRUE

\* unregister: whether that was the last one.
LastGone(t) == registry = {t}

\* disconnecting: the last socket tells the rooms that this socket is in.
Disconnect(t) ==
  /\ t \in registry
  /\ registry' = registry \ {t}
  /\ inRoom' = inRoom \ {t}
  /\ IF LastGone(t) /\ t \in inRoom
     THEN Tell(FALSE)
     ELSE /\ unheard' = (unheard \/ LastGone(t))
          /\ UNCHANGED <<wire, stale, belated>>
  /\ UNCHANGED <<joining, screen>>

-----------------------------------------------------------------------------
(* The watcher. *)

\* thread:join enters the room and asks describeOtherParty, which reads the registry
\* and then awaits the database.
Describe ==
  /\ watcher = "away"
  /\ watcher' = "described"
  /\ answer' = IsOnline
  /\ UNCHANGED <<registry, joining, inRoom, wire, shows, unheard, stale, belated>>

Acknowledge ==
  /\ watcher = "described" /\ Len(wire) < MaxWire
  /\ watcher' = "watching"
  /\ wire' = Append(wire, [kind |-> "joined", online |-> answer])
  /\ unheard' = FALSE
  /\ stale' = (answer # IsOnline)
  /\ belated' = FALSE
  /\ UNCHANGED <<registry, joining, inRoom, answer, shows>>

Says(online) == IF online THEN "online" ELSE "away"

\* onPresence changes what is known of the other party; only the join makes it known.
Arrive ==
  LET e == Head(wire)
  IN  /\ wire # <<>>
      /\ wire' = Tail(wire)
      /\ shows' = IF e.kind = "changed" /\ shows = "unknown" THEN shows ELSE Says(e.online)
      /\ UNCHANGED <<registry, joining, inRoom, watcher, answer, unheard, stale, belated>>

WatcherLeaves ==
  /\ watcher # "away"
  /\ watcher' = "away"
  /\ wire' = <<>>
  /\ shows' = "unknown"
  /\ answer' = FALSE
  /\ unheard' = FALSE
  /\ stale' = FALSE
  /\ belated' = FALSE
  /\ UNCHANGED <<registry, joining, inRoom>>

Next ==
  \/ \E t \in Tabs :
        \/ Connect(t) \/ Disconnect(t) \/ LeaveThread(t)
        \/ JoinThread(t) \/ EnterThread(t) \/ JoinRefused(t)
  \/ Describe \/ Acknowledge \/ Arrive \/ WatcherLeaves

Spec == Init /\ [][Next]_vars

-----------------------------------------------------------------------------

\* The type of every variable; only connected tabs are in the room.
TypeOK ==
  /\ registry \subseteq Tabs /\ joining \subseteq Tabs
  /\ inRoom \subseteq registry
  /\ watcher \in {"away", "described", "watching"}
  /\ answer \in BOOLEAN
  /\ wire \in Seq([kind : {"changed", "joined"}, online : BOOLEAN])
  /\ Len(wire) <= MaxWire
  /\ shows \in {"unknown", "online", "away"}
  /\ unheard \in BOOLEAN /\ stale \in BOOLEAN /\ belated \in BOOLEAN

Watching == watcher = "watching" /\ wire = <<>>

\* Several tabs coming, going, joining and leaving never mislead the watcher but in
\* three ways: a change that no room was told of, an answer overtaken by a change, and
\* an arrival announced when the last of the tabs had gone while its join was reading.
ShownIsTrueOtherwise ==
  Watching /\ ~unheard /\ ~stale /\ ~belated => shows = Says(IsOnline)

\* "The lag is one-directional" (threadHandlers.js:243): somebody present may be
\* shown as away, somebody gone is not shown as online, races of the answer apart.
LagIsOneDirectional == Watching /\ ~stale => (shows = "online" => IsOnline)

\* "... and resolves itself the moment they look at the thread" (threadHandlers.js:244):
\* somebody who is in the thread is not shown as away.
PresentInTheThreadIsShown == Watching => (inRoom # {} => shows = "online")
=============================================================================

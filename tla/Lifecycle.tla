----------------------------- MODULE Lifecycle -----------------------------
(***************************************************************************)
(* The server as a process (server.js): it binds a port and starts the     *)
(* sweep, and on a signal stops the timer, drops the sockets, drains the   *)
(* HTTP server, closes the database pool (db.js) and exits, or is forced   *)
(* out when something holds the drain for ten seconds.                     *)
(***************************************************************************)
EXTENDS Integers

CONSTANTS
  Places,     \* for connections and the work that came by them
  MaxSignals  \* bound: signals

VARIABLES
  server,   \* binding, listening, closing (no new connection) or drained
  link,     \* the connection at a place, or none (below)
  task,     \* its handler: none, between two queries, or inside (holding a client)
  timer,    \* the scheduler's interval is set
  sweep,    \* no pass, between two transactions of one, or inside one
  pool,     \* open, ending (no new query, clients out are waited for) or ended
  signals,  \* shutdowns begun
  closers,  \* their callbacks that ran
  refused,  \* ghost: who found the pool closed, somebody awaited or somebody gone
  exit      \* not yet, or how

vars == <<server, link, task, timer, sweep, pool, signals, closers, refused, exit>>
work == <<link, task>>

\* HTTP (with no task: kept alive), a transport without its socket yet, a socket, one
\* accepted after the sockets were dropped, or a dropped one whose client has not
\* closed its end.
Links == {"none", "http", "handshake", "socket", "straggler", "dropped"}
OnSocket(c) == link[c] \in {"socket", "straggler"}

Running == exit = "no"
Accepting == Running /\ server \in {"binding", "listening"}

Init ==
  /\ server = "binding"
  /\ link = [c \in Places |-> "none"] /\ task = [c \in Places |-> "none"]
  /\ timer = FALSE /\ sweep = "none"
  /\ pool = "open" /\ signals = 0 /\ closers = 0
  /\ refused = {} /\ exit = "no"

\* The listen callback, which does not come once the port is given back: the
\* timer is set and the first pass begins.
Listening ==
  /\ Running /\ server = "binding"
  /\ server' = "listening"
  /\ timer' = TRUE /\ sweep' = "between"
  /\ UNCHANGED <<work, pool, signals, closers, refused, exit>>

-----------------------------------------------------------------------------
(* Connections, and the handlers that outlive them. *)

\* A new connection comes with its first request, or its handshake.
Connect(c, kind) ==
  /\ Accepting /\ link[c] = "none" /\ task[c] = "none"
  /\ link' = [link EXCEPT ![c] = kind]
  /\ task' = [task EXCEPT ![c] = "between"]
  /\ UNCHANGED <<server, timer, sweep, pool, signals, closers, refused, exit>>

\* The next request of a connection kept alive, or an event of a socket.
Ask(c) ==
  /\ Running /\ task[c] = "none"
  /\ link[c] = "http" \/ OnSocket(c)
  /\ task' = [task EXCEPT ![c] = "between"]
  /\ UNCHANGED <<server, link, timer, sweep, pool, signals, closers, refused, exit>>

\* A query or a transaction takes a client of the pool; a closed pool fails the handler.
TakeClient(c) ==
  /\ Running /\ task[c] = "between"
  /\ IF pool = "open"
     THEN task' = [task EXCEPT ![c] = "inside"] /\ UNCHANGED refused
     ELSE /\ task' = [task EXCEPT ![c] = "none"]
          /\ refused' = refused \cup {IF link[c] = "none" THEN "gone" ELSE "awaited"}
  /\ UNCHANGED <<server, link, timer, sweep, pool, signals, closers, exit>>

ReleaseClient(c) ==
  /\ Running /\ task[c] = "inside"
  /\ task' = [task EXCEPT ![c] = "between"]
  /\ UNCHANGED <<server, link, timer, sweep, pool, signals, closers, refused, exit>>

\* A response, an acknowledgement, or nothing where nobody is left to hear it.
HandlerEnds(c) ==
  /\ Running /\ task[c] = "between" /\ link[c] # "handshake"
  /\ task' = [task EXCEPT ![c] = "none"]
  /\ UNCHANGED <<server, link, timer, sweep, pool, signals, closers, refused, exit>>

\* Accepted, or refused, when the client is to go.
HandshakeEnds(c) ==
  /\ Running /\ task[c] = "between" /\ link[c] = "handshake"
  /\ task' = [task EXCEPT ![c] = "none"]
  /\ \/ link' = [link EXCEPT ![c] = IF signals = 0 THEN "socket" ELSE "straggler"]
     \/ UNCHANGED link
  /\ UNCHANGED <<server, timer, sweep, pool, signals, closers, refused, exit>>

\* disconnecting: the last socket of a person stamps the row.
Stamped(gone) ==
  \E last \in SUBSET {c \in gone : OnSocket(c) /\ task[c] = "none"} :
    task' = [c \in Places |-> IF c \in last THEN "between" ELSE task[c]]

\* A client leaves, or a connection kept alive times out; the handler runs on.
HangUp(c) ==
  /\ Running /\ link[c] # "none"
  /\ link' = [link EXCEPT ![c] = "none"]
  /\ Stamped({c})
  /\ UNCHANGED <<server, timer, sweep, pool, signals, closers, refused, exit>>

-----------------------------------------------------------------------------
(* The sweep. *)

\* The interval; a pass still running is not joined by another.
Tick ==
  /\ Running /\ timer /\ sweep = "none"
  /\ sweep' = "between"
  /\ UNCHANGED <<server, work, timer, pool, signals, closers, refused, exit>>

\* A transaction takes a client of the pool, unless it is closing: then the
\* pass logs what is left of it as failed.
SweepStep ==
  /\ Running
  /\ \/ sweep = "between" /\ sweep' = IF pool = "open" THEN "inside" ELSE "none"
     \/ sweep = "between" /\ sweep' = "none"
     \/ sweep = "inside" /\ sweep' = "between"
  /\ UNCHANGED <<server, work, timer, pool, signals, closers, refused, exit>>

-----------------------------------------------------------------------------
(* The shutdown. *)

StopScheduler == timer' = FALSE

\* Mutant: the sockets are left to leave by themselves.
LeaveSockets(c) == FALSE
\* disconnectSockets knows the sockets and not the transports still in their handshake.
StopSockets(c) == OnSocket(c)

\* server.close ends the connections that are kept alive with nothing to answer.
Idle(c) == link[c] = "http" /\ task[c] = "none"

\* Each signal goes through the whole of it.
Shutdown ==
  /\ Running /\ signals < MaxSignals
  /\ signals' = signals + 1
  /\ StopScheduler
  /\ link' = [c \in Places |-> CASE StopSockets(c) -> "dropped"
                                 [] Idle(c) -> "none"
                                 [] OTHER -> link[c]]
  /\ Stamped(Places)
  /\ server' = IF server = "drained" THEN server ELSE "closing"
  /\ UNCHANGED <<sweep, pool, closers, refused, exit>>

\* The callback of server.close waits for every connection, upgraded ones too, and
\* for no handler.
Drained ==
  /\ Running /\ server = "closing"
  /\ \A c \in Places : link[c] = "none"
  /\ server' = "drained"
  /\ UNCHANGED <<work, timer, sweep, pool, signals, closers, refused, exit>>

\* The callback of each server.close.  A second one ends a pool that is ending:
\* the rejection is nobody's, and the process dies of it.
CloseDatabase ==
  /\ Running /\ server = "drained" /\ closers < signals
  /\ closers' = closers + 1
  /\ pool' = IF pool = "open" THEN "ending" ELSE pool
  /\ exit' = IF pool = "open" THEN exit ELSE "crashed"
  /\ UNCHANGED <<server, work, timer, sweep, signals, refused>>

\* pool.end waits for the clients that are out.
ClientsOut == sweep = "inside" \/ \E c \in Places : task[c] = "inside"
PoolEnds ==
  /\ Running /\ pool = "ending" /\ ~ClientsOut
  /\ pool' = "ended" /\ exit' = "clean"
  /\ UNCHANGED <<server, work, timer, sweep, signals, closers, refused>>

\* Ten seconds: far longer than anything here takes that is not stuck.
Held == ClientsOut \/ \E c \in Places : link[c] # "none"
ForcedExit ==
  /\ Running /\ signals > 0 /\ Held
  /\ exit' = "forced"
  /\ UNCHANGED <<server, work, timer, sweep, pool, signals, closers, refused>>

Next ==
  \/ Listening
  \/ \E c \in Places :
        \/ Connect(c, "http") \/ Connect(c, "handshake") \/ Ask(c)
        \/ TakeClient(c) \/ ReleaseClient(c)
        \/ HandlerEnds(c) \/ HandshakeEnds(c) \/ HangUp(c)
  \/ Tick \/ SweepStep
  \/ Shutdown \/ Drained \/ CloseDatabase \/ PoolEnds \/ ForcedExit

\* The event loop goes on, and the ten-second timer is set with the first signal.
Fairness == WF_vars(Drained) /\ WF_vars(CloseDatabase) /\ WF_vars(PoolEnds) /\ WF_vars(ForcedExit)
FairSpec == Init /\ [][Next]_vars /\ Fairness
-----------------------------------------------------------------------------
TypeOK ==
  /\ server \in {"binding", "listening", "closing", "drained"}
  /\ link \in [Places -> Links]
  /\ task \in [Places -> {"none", "between", "inside"}]
  /\ timer \in BOOLEAN /\ sweep \in {"none", "between", "inside"}
  /\ pool \in {"open", "ending", "ended"}
  /\ signals \in 0..MaxSignals /\ closers \in 0..MaxSignals
  /\ refused \subseteq {"awaited", "gone"}
  /\ exit \in {"no", "clean", "forced", "crashed"}

\* A clean exit leaves nobody connected and no transaction half done; a forced one
\* is never the fault of a socket that was there when the signal came; a crash is a
\* second signal's; and no handler that somebody still waits for finds the pool closed
\* under it ("a request still finishing may need one more query", server.js:127).
ExitIsExplained ==
  /\ exit = "clean" => ~Held
  /\ exit = "forced" => \A c \in Places : link[c] # "socket"
  /\ exit = "crashed" => signals > 1
  /\ "awaited" \notin refused

\* "Shuts down without dropping in-flight requests" (server.js:95): no handler at all
\* finds the pool closed or is cut short by a clean exit.
NoHandlerIsCutShort == refused = {} /\ (exit = "clean" => \A c \in Places : task[c] = "none")

\* Once signalled the process ends, whatever holds on (the backstop timer).
ShutdownEnds == signals > 0 ~> exit # "no"
=============================================================================

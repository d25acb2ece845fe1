------------------------------- MODULE Typing -------------------------------
(***************************************************************************)
(* The typing indicator: the sender's side and the receiver's side of      *)
(* MessageThread.jsx, the relay of ws/threadHandlers.js and the fixed      *)
(* window of ws/socketRateLimit.js, against a clock of whole seconds.      *)
(*                                                                         *)
(* Network delay is under a second: the clock waits for what is on the     *)
(* wire.  The reader is in the room throughout; the typist's socket, or    *)
(* screen, may go at any moment.                                           *)
(***************************************************************************)
EXTENDS Integers, Sequences

CONSTANTS
  Idle,    \* TYPING_IDLE_MS, in seconds
  Expiry,  \* TYPING_EXPIRY_MS, in seconds
  Limit,   \* TYPING_LIMIT.limit
  Window,  \* TYPING_LIMIT.windowMs, in seconds
  MaxWire  \* bound on announcements on the wire

VARIABLES
  connected, \* whether the typist's socket is in the room
  sent,      \* typingSent: we have said that we are typing
  timer,     \* seconds left on typingIdle, 0 when it is not running
  quiet,     \* seconds since the last key, counted up to Expiry + 1
  relayed,   \* announcements relayed and not yet arrived, oldest first
  shown,     \* whether the reader sees "is typing"
  expires,   \* seconds left on typingExpiry, 0 when it is not running
  opened,    \* seconds since the rate limit's window opened
  count,     \* announcements counted in that window
  lost       \* ghost: the announcement that it stopped has not got through

vars == <<connected, sent, timer, quiet, relayed, shown, expires, opened, count, lost>>
reader == <<shown, expires>>

Init ==
  /\ connected = TRUE
  /\ sent = FALSE
  /\ timer = 0
  /\ quiet = Expiry + 1
  /\ relayed = <<>>
  /\ shown = FALSE
  /\ expires = 0
  /\ opened = Window
  /\ count = 0
  /\ lost = FALSE

-----------------------------------------------------------------------------
(* The relay: within the limit, and from a socket in the room. *)

WindowIsOver == opened >= Window
WithinRateLimit == WindowIsOver \/ count < Limit

Relay(isTyping) ==
  /\ opened' = IF WindowIsOver THEN 0 ELSE opened
  /\ count' = IF WindowIsOver THEN 1 ELSE IF count < Limit THEN count + 1 ELSE count
  /\ IF WithinRateLimit
     THEN relayed' = Append(relayed, isTyping) /\ lost' = FALSE
     ELSE UNCHANGED relayed /\ lost' = TRUE

SaysNothing == UNCHANGED <<relayed, opened, count, lost>>

-----------------------------------------------------------------------------
(* The typist. *)

\* signalTyping: announced once, and the idle timer starts again at every key.
Key ==
  /\ connected /\ Len(relayed) < MaxWire
  /\ quiet' = 0
  /\ timer' = Idle
  /\ sent' = TRUE
  /\ IF sent THEN SaysNothing ELSE Relay(TRUE)
  /\ UNCHANGED <<connected, reader>>

StopAnnounced == IF connected THEN Relay(FALSE) ELSE UNCHANGED <<relayed, opened, count>> /\ lost' = TRUE

\* stopTyping: the timer ran out, or the message was sent.
StopTyping ==
  /\ sent /\ Len(relayed) < MaxWire
  /\ sent' = FALSE
  /\ timer' = 0
  /\ StopAnnounced
  /\ UNCHANGED <<connected, quiet, reader>>

\* The socket goes, or the screen is left: nothing more arrives from it.
Leave ==
  /\ connected
  /\ connected' = FALSE
  /\ lost' = (lost \/ sent)
  /\ UNCHANGED <<sent, timer, quiet, relayed, reader, opened, count>>

Return ==
  /\ ~connected
  /\ connected' = TRUE
  /\ opened' = Window
  /\ count' = 0
  /\ UNCHANGED <<sent, timer, quiet, relayed, reader, lost>>

-----------------------------------------------------------------------------
(* The reader, and the clock. *)

NoExpiry(isTyping) == 0
ExpiryAfter(isTyping) == IF isTyping THEN Expiry ELSE 0

\* onTyping.
Arrive ==
  /\ relayed # <<>>
  /\ shown' = Head(relayed)
  /\ expires' = ExpiryAfter(Head(relayed))
  /\ relayed' = Tail(relayed)
  /\ UNCHANGED <<connected, sent, timer, quiet, opened, count, lost>>

Less(n) == n - 1
Down(n) == IF n = 0 THEN 0 ELSE n - 1

\* A timer that runs out does its work before the clock moves on.
Tick ==
  /\ relayed = <<>> /\ ~(sent /\ timer = 0)
  /\ timer' = Down(timer)
  /\ expires' = Down(expires)
  /\ shown' = (shown /\ expires # 1)
  /\ quiet' = IF quiet > Expiry THEN quiet ELSE quiet + 1
  /\ opened' = IF opened < Window THEN opened + 1 ELSE opened
  /\ UNCHANGED <<connected, sent, relayed, count, lost>>

Next == Key \/ StopTyping \/ Leave \/ Return \/ Arrive \/ Tick

Spec == Init /\ [][Next]_vars

-----------------------------------------------------------------------------

\* The type of every variable; an announcement waits for a timer on either side.
TypeOK ==
  /\ connected \in BOOLEAN /\ sent \in BOOLEAN /\ shown \in BOOLEAN /\ lost \in BOOLEAN
  /\ timer \in 0..Idle
  /\ quiet \in 0..(Expiry + 1)
  /\ relayed \in Seq(BOOLEAN) /\ Len(relayed) <= MaxWire
  /\ expires \in 0..Expiry
  /\ opened \in 0..Window
  /\ count \in 0..Limit

\* The receiver's timer (MessageThread.jsx:53): whatever is dropped or lost, nobody
\* is shown typing longer than the expiry after their last key.
NeverOutlivesTheTypist == shown => quiet <= Expiry

\* "a live typist is never cleared out from under themselves" (MessageThread.jsx:60).
LiveTypistStaysShown == sent /\ relayed = <<>> /\ ~lost /\ connected => shown
=============================================================================

-------------------------------- MODULE Bell --------------------------------
(***************************************************************************)
(* The bell in the header (NotificationBell.jsx) and the rows it counts    *)
(* (notificationService.js).  The number is asked for when the bell        *)
(* appears, when a push says something is new, when the socket connects    *)
(* and every minute; answers may overlap, and a click changes the number   *)
(* before the server has heard of it.                                      *)
(***************************************************************************)
EXTENDS Integers, FiniteSets

CONSTANTS
  Notes,        \* notifications this account will be sent
  Calls,        \* bound: counts on their way at once
  Free,         \* a call that is not in use
  Asked,        \* a call the server has not answered
  MaxFaults     \* bound: calls that fail, and disconnections

VARIABLES
  note,         \* none yet, unread or read: the rows
  linked,    \* the socket of this page
  pushed,       \* a push on its way to it
  badge,        \* the number shown
  call,         \* the counts on their way, with their answers
  items,        \* the rows the open panel lists, as it knows them
  listing,      \* the panel's own question, with its answer
  marking,      \* rows whose "read" is on its way to the server
  faults

vars == <<note, linked, pushed, badge, call, items, listing, marking, faults>>

Unread == {n \in Notes : note[n] = "unread"}
Row == [note : Notes, read : BOOLEAN]
Rows == {[note |-> n, read |-> note[n] = "read"] : n \in {m \in Notes : note[m] # "none"}}

Init ==
  /\ note \in [Notes -> {"none", "unread"}]
  /\ linked = FALSE /\ pushed = FALSE
  /\ badge = 0
  /\ call = [c \in Calls |-> IF c = CHOOSE first \in Calls : TRUE THEN Asked ELSE Free]
  /\ items = {} /\ listing = Free
  /\ marking = {}
  /\ faults = 0

\* refreshCount: another call is on its way.
RefreshCount ==
  \E c \in Calls : call[c] = Free /\ call' = [call EXCEPT ![c] = Asked]

\* The row, then the push to whatever socket there is.
Notify(n) ==
  /\ note[n] = "none"
  /\ note' = [note EXCEPT ![n] = "unread"]
  /\ pushed' = (pushed \/ linked)
  /\ UNCHANGED <<linked, badge, call, items, listing, marking, faults>>

PushArrives ==
  /\ pushed /\ pushed' = FALSE
  /\ RefreshCount
  /\ UNCHANGED <<note, linked, badge, items, listing, marking, faults>>

Connect ==
  /\ ~linked /\ linked' = TRUE
  /\ RefreshCount
  /\ UNCHANGED <<note, pushed, badge, items, listing, marking, faults>>

Disconnect ==
  /\ linked /\ faults < MaxFaults
  /\ linked' = FALSE /\ pushed' = FALSE
  /\ faults' = faults + 1
  /\ UNCHANGED <<note, badge, call, items, listing, marking>>

\* Mutant: nothing is asked while the socket is down.
PollWhileLinked ==
  /\ linked /\ RefreshCount
  /\ UNCHANGED <<note, linked, pushed, badge, items, listing, marking, faults>>
Poll ==
  /\ RefreshCount
  /\ UNCHANGED <<note, linked, pushed, badge, items, listing, marking, faults>>

CountUnread(c) ==
  /\ call[c] = Asked
  /\ call' = [call EXCEPT ![c] = Cardinality(Unread)]
  /\ UNCHANGED <<note, linked, pushed, badge, items, listing, marking, faults>>

CountArrives(c) ==
  /\ call[c] \notin {Free, Asked}
  /\ badge' = call[c]
  /\ call' = [call EXCEPT ![c] = Free]
  /\ UNCHANGED <<note, linked, pushed, items, listing, marking, faults>>

CountFails(c) ==
  /\ call[c] # Free /\ faults < MaxFaults
  /\ call' = [call EXCEPT ![c] = Free]
  /\ faults' = faults + 1
  /\ UNCHANGED <<note, linked, pushed, badge, items, listing, marking>>

\* The panel opens on what it listed last, and asks again.
Open ==
  /\ listing = Free
  /\ listing' = Asked
  /\ UNCHANGED <<note, linked, pushed, badge, call, items, marking, faults>>

ListNotifications ==
  /\ listing = Asked
  /\ listing' = Rows
  /\ UNCHANGED <<note, linked, pushed, badge, call, items, marking, faults>>

ListArrives ==
  /\ listing \notin {Free, Asked}
  /\ items' = listing /\ listing' = Free
  /\ UNCHANGED <<note, linked, pushed, badge, call, marking, faults>>

ListFails ==
  /\ listing # Free /\ faults < MaxFaults
  /\ items' = {} /\ listing' = Free
  /\ faults' = faults + 1
  /\ UNCHANGED <<note, linked, pushed, badge, call, marking>>

\* A click on a row not known to be read: one less, before the server knows.
MarkRead(item) ==
  /\ ~item.read /\ item.note \notin marking
  /\ badge' = IF badge = 0 THEN 0 ELSE badge - 1
  /\ marking' = marking \cup {item.note}
  /\ UNCHANGED <<note, linked, pushed, call, items, listing, faults>>

MarkAllRead ==
  /\ badge > 0 /\ Notes \notin marking
  /\ badge' = 0
  /\ items' = {[item EXCEPT !.read = TRUE] : item \in items}
  /\ marking' = marking \cup {Notes}
  /\ UNCHANGED <<note, linked, pushed, call, listing, faults>>

\* The statement marks what is unread when it runs: one row, or all of them.
Marked(m) == [n \in Notes |-> IF note[n] = "unread" /\ n \in (IF m = Notes THEN Notes ELSE {m}) THEN "read" ELSE note[n]]

ReadNotification(m) ==
  /\ note' = Marked(m)
  /\ marking' = marking \ {m}
  /\ UNCHANGED <<linked, pushed, badge, call, items, listing, faults>>

MarkFails(m) ==
  /\ faults < MaxFaults
  /\ marking' = marking \ {m}
  /\ faults' = faults + 1
  /\ UNCHANGED <<note, linked, pushed, badge, call, items, listing>>

\* The notifications page, or another tab: no push tells the bell of it.
ReadElsewhere(n) ==
  /\ note[n] = "unread"
  /\ note' = [note EXCEPT ![n] = "read"]
  /\ UNCHANGED <<linked, pushed, badge, call, items, listing, marking, faults>>

Next ==
  \/ \E n \in Notes : Notify(n) \/ ReadElsewhere(n)
  \/ PushArrives \/ Connect \/ Disconnect \/ Poll
  \/ \E c \in Calls : CountUnread(c) \/ CountArrives(c) \/ CountFails(c)
  \/ Open \/ ListNotifications \/ ListArrives \/ ListFails
  \/ \E item \in items : MarkRead(item)
  \/ MarkAllRead
  \/ \E m \in marking : ReadNotification(m) \/ MarkFails(m)

\* The timer of the poll, and calls that are answered or fail.
Fairness ==
  /\ WF_vars(Poll)
  /\ \A c \in Calls : WF_vars(CountUnread(c)) /\ WF_vars(CountArrives(c))

FairSpec == Init /\ [][Next]_vars /\ Fairness
-----------------------------------------------------------------------------
TypeOK ==
  /\ note \in [Notes -> {"none", "unread", "read"}]
  /\ linked \in BOOLEAN /\ pushed \in BOOLEAN
  /\ badge \in 0..Cardinality(Notes)
  /\ call \in [Calls -> {Free, Asked} \cup 0..Cardinality(Notes)]
  /\ items \subseteq Row
  /\ listing \in {Free, Asked} \/ listing \subseteq Row
  /\ marking \subseteq Notes \cup {Notes}
  /\ faults \in 0..MaxFaults

\* However pushes are lost, answers overtake one another, clicks count what was
\* read before and marks fail, the badge shows the true number again and again:
\* the poll asks for ever (NotificationBell's refreshCount and its interval).
BadgeCatchesUp == []<>(badge = Cardinality(Unread))
=============================================================================

------------------------------ MODULE Messaging -----------------------------
(***************************************************************************)
(* One booking's thread: services/messageService.js over migration 010, the*)
(* socket handlers of ws/threadHandlers.js, and the MessageThread screen of*)
(* each of the two parties.                                                *)
(*                                                                         *)
(* A message is its rank among the timestamps the database gave out: now() *)
(* is taken when a statement starts and the row appears when it commits, so*)
(* inserts and read marks are two steps each.  A watermark is the number of*)
(* timestamps given out when it was taken.  Every await of a handler is a  *)
(* step; a handler whose socket has gone runs on without it.               *)
(***************************************************************************)
EXTENDS Naturals, FiniteSets

CONSTANTS
  Jobs,         \* requests that may be in flight at once
  None,         \* no value
  MaxMessages,  \* bound on the timestamps given to messages
  MaxFaults,    \* bound on dropped sockets, failed calls and answers given up on
  Writers,      \* parties that send messages
  Viewers,      \* parties whose screen may open
  Lines,        \* whether booking transitions write lines into the thread
  Hiders        \* parties that may put the screen's tab in the background

ASSUME MessagingAssumption ==
  /\ IsFiniteSet(Jobs) /\ MaxMessages \in Nat /\ MaxFaults \in Nat
  /\ None \notin {"owner", "renter", "system", "send", "line", "list", "join", "read"}
  /\ Writers \subseteq {"owner", "renter"}
  /\ Viewers \subseteq {"owner", "renter"}
  /\ Hiders \subseteq {"owner", "renter"}
  /\ Lines \in BOOLEAN

VARIABLES
  status,     \* whether the booking lets its parties write: "open" or "closed"
  begun,      \* timestamps given to messages so far
  row,        \* rank -> who sent the committed message, None before it commits
  readTo,     \* party -> last_read_at
  job,        \* what each request is doing, and what it read
  inRoom,     \* parties whose socket is in the booking's room
  push,       \* party -> messages pushed to its socket and not yet arrived
  screen,     \* party -> its MessageThread
  published,  \* messages given to publishMessage
  rung,       \* parties whose bell rang since they last had nothing unread
  late,       \* ghost: messages whose sender asked after the thread had closed
  gap,        \* ghost: party -> messages published while its join was between
              \* reading the thread and entering the room, or pushed to its open
              \* screen before anything of the thread was on it
  shown,      \* ghost: party -> messages its screens ever held
  faults      \* dropped sockets, failed calls and answers given up on so far

vars == <<status, begun, row, readTo, job, inRoom, push, screen, published,
          rung, late, gap, shown, faults>>
thread == <<status, begun, row, readTo, published, rung, late>>
wire == <<inRoom, push, gap>>

Parties == {"owner", "renter"}
Ranks == 1..MaxMessages
Other(p) == IF p = "owner" THEN "renter" ELSE "owner"

Committed == {m \in Ranks : row[m] # None}
\* countUnreadInThread: not mine, newer than my watermark.  A line of nobody's
\* counts for both.
Unread(p) == {m \in Committed : row[m] # p /\ m > readTo[p]}

Idle == [pc |-> "idle", op |-> None, party |-> None, via |-> "http", mounted |-> FALSE,
         onTime |-> FALSE, at |-> 0, upTo |-> 0, found |-> {}]
\* `loaded`: thread.bookingId is this booking's, an answer having been applied.
Closed == [open |-> FALSE, visible |-> TRUE, link |-> "on", due |-> FALSE, loaded |-> FALSE,
           held |-> {}]

Init ==
  /\ status = "open"
  /\ begun = 0
  /\ row = [m \in Ranks |-> None]
  /\ readTo = [p \in Parties |-> 0]
  /\ job = [j \in Jobs |-> Idle]
  /\ inRoom = {}
  /\ push = [p \in Parties |-> {}]
  /\ screen = [p \in Parties |-> Closed]
  /\ published = {}
  /\ rung = {}
  /\ late = {}
  /\ gap = [p \in Parties |-> {}]
  /\ shown = [p \in Parties |-> {}]
  /\ faults = 0

Goto(j, pc) == job' = [job EXCEPT ![j].pc = pc]
Finish(j) == job' = [job EXCEPT ![j] = Idle]
At(j, pc) == job[j].pc = pc

-----------------------------------------------------------------------------
(* The requests, as they arrive. *)

Ask(j, op, p, via, pc) ==
  /\ At(j, "idle")
  /\ job' = [job EXCEPT ![j] =
              [Idle EXCEPT !.pc = pc, !.op = op, !.party = p, !.via = via,
                           !.mounted = screen[p].open,
                           !.onTime = status = "open"]]

\* Timestamps given out and those a request in flight will still take.
Unused == MaxMessages - begun
            - Cardinality({j \in Jobs : job[j].op \in {"send", "line"} /\ job[j].at = 0})

\* Over the socket while it carries the thread, over HTTP otherwise; photos and
\* shared phone numbers always over HTTP, as is what is sent from another screen.
SendMessage(j, p) ==
  /\ p \in Writers /\ Unused > 0
  /\ \/ Ask(j, "send", p, "http", "asked")
     \/ screen[p].link = "live" /\ Ask(j, "send", p, "socket", "asked")
  /\ UNCHANGED <<thread, wire, screen, shown, faults>>

\* postSystemMessage, from a transition of the booking.
PostSystemMessage(j) ==
  /\ Lines /\ Unused > 0 /\ At(j, "idle")
  /\ job' = [job EXCEPT ![j] = [Idle EXCEPT !.pc = "writing", !.op = "line", !.onTime = TRUE]]
  /\ UNCHANGED <<thread, wire, screen, shown, faults>>

\* A transition, or the end of the fourteen days, ends canMessage for good.
CloseThread ==
  /\ status = "open"
  /\ status' = "closed"
  /\ UNCHANGED <<begun, row, readTo, job, wire, screen, published, rung, late, shown, faults>>

-----------------------------------------------------------------------------
(* sendMessage, shareContact and postSystemMessage. *)

AnyThread == TRUE

\* canMessage, of the booking as it was loaded.
CanMessage == status = "open"

AssertThreadIsOpen(j) ==
  /\ At(j, "asked") /\ job[j].op = "send"
  /\ IF CanMessage THEN Goto(j, "writing") ELSE Finish(j)
  /\ UNCHANGED <<thread, wire, screen, shown, faults>>

BeginInsert(j) ==
  /\ At(j, "writing")
  /\ begun' = begun + 1
  /\ job' = [job EXCEPT ![j].pc = "inserting", ![j].at = begun + 1]
  /\ UNCHANGED <<status, row, readTo, published, rung, late, wire, screen, shown, faults>>

InsertMessage(j) ==
  LET line == job[j].op = "line"
  IN  /\ At(j, "inserting")
      /\ row' = [row EXCEPT ![job[j].at] = IF line THEN "system" ELSE job[j].party]
      /\ late' = IF job[j].onTime THEN late ELSE late \cup {job[j].at}
      /\ Goto(j, IF line THEN "publishing" ELSE "marking")
      /\ UNCHANGED <<status, begun, readTo, published, rung, wire, screen, shown, faults>>

\* notifyNewMessage: only when nothing else is waiting to be read.
NotifyNewMessage(j) ==
  /\ At(j, "counting")
  /\ Goto(j, IF Cardinality(Unread(Other(job[j].party))) > 1 THEN "publishing" ELSE "ringing")
  /\ UNCHANGED <<thread, wire, screen, shown, faults>>

Ring(j) ==
  /\ At(j, "ringing")
  /\ rung' = rung \cup {Other(job[j].party)}
  /\ Goto(j, "publishing")
  /\ UNCHANGED <<status, begun, row, readTo, published, late, wire, screen, shown, faults>>

\* Joins that p waits for, have read the thread without m and are not in the room yet.
Joining(p, m) ==
  {j \in Jobs : /\ job[j].op = "join" /\ job[j].party = p /\ m \notin job[j].found
                /\ job[j].mounted /\ job[j].via = "socket"
                /\ job[j].pc \in {"marking", "saving", "entering"}}

PublishMessage(j) ==
  LET m == job[j].at
  IN  /\ At(j, "publishing")
      /\ published' = published \cup {m}
      /\ push' = [p \in Parties |-> IF p \in inRoom THEN push[p] \cup {m} ELSE push[p]]
      /\ gap' = [p \in Parties |-> IF Joining(p, m) # {} THEN gap[p] \cup {m} ELSE gap[p]]
      /\ IF job[j].op = "line" THEN Finish(j) ELSE Goto(j, "answering")
      /\ UNCHANGED <<status, begun, row, readTo, rung, late, inRoom, screen, shown, faults>>

-----------------------------------------------------------------------------
(* listMessages, markThreadAsRead and the join and leave of the room. *)

FindMessages(j) ==
  /\ At(j, "asked") /\ job[j].op \in {"list", "join"}
  /\ job' = [job EXCEPT ![j].pc = "marking", ![j].found = Committed]
  /\ UNCHANGED <<thread, wire, screen, shown, faults>>

BeginMark(j) ==
  /\ At(j, "marking")
  /\ job' = [job EXCEPT ![j].pc = "saving", ![j].upTo = begun]
  /\ UNCHANGED <<thread, wire, screen, shown, faults>>

Latest(old, new) == new
Greatest(old, new) == IF new > old THEN new ELSE old

AfterMark(op) == CASE op = "send" -> "counting"
                   [] op = "list" -> "answering"
                   [] op = "join" -> "entering"
                   [] op = "read" -> "answering"

MarkThreadRead(j) ==
  LET p == job[j].party
  IN  /\ At(j, "saving")
      /\ readTo' = [readTo EXCEPT ![p] = Greatest(@, job[j].upTo)]
      /\ rung' = IF \A m \in Unread(p) : m <= readTo'[p] THEN rung \ {p} ELSE rung
      /\ Goto(j, AfterMark(job[j].op))
      /\ UNCHANGED <<status, begun, row, published, late, wire, screen, shown, faults>>

\* socket.join; on a socket that has gone it does nothing.
EnterRoom(j) ==
  /\ At(j, "entering")
  /\ inRoom' = IF job[j].via = "socket" THEN inRoom \cup {job[j].party} ELSE inRoom
  /\ Goto(j, "describing")
  /\ UNCHANGED <<thread, push, gap, screen, shown, faults>>

\* Two more reads before the answer, from inside the room.
DescribeOtherParty(j) ==
  /\ At(j, "describing")
  /\ Goto(j, "answering")
  /\ UNCHANGED <<thread, wire, screen, shown, faults>>

-----------------------------------------------------------------------------
(* The answers, and what the screen does with them. *)

Replace(held, messages) == messages
Merge(held, messages) == held \cup messages

\* apply: a whole thread, from a load or a join.
Show(p, messages, link) ==
  /\ screen' = [screen EXCEPT ![p].held = Merge(@, messages), ![p].link = link,
                              ![p].loaded = TRUE, ![p].due = @ \/ link = "live"]
  /\ shown' = [shown EXCEPT ![p] = @ \cup messages]

\* absorb: one message, into a thread that is there already; it is dropped while none is.
CanAbsorb(p) == screen[p].open /\ screen[p].loaded
Absorb(p, m) == IF CanAbsorb(p) THEN Show(p, {m}, screen[p].link) ELSE UNCHANGED <<screen, shown>>

\* A sent message comes back in the acknowledgement, or by the load that follows
\* the HTTP request.  A socket keeps its order: what the room was sent before a join
\* was acknowledged arrives before the acknowledgement.
Answer(j) ==
  LET k == job[j]
      heard == k.mounted /\ k.via # "gone"
  IN  /\ At(j, "answering")
      /\ k.op = "join" /\ k.via = "socket" => push[k.party] = {}
      /\ IF k.op = "send" /\ k.via = "http"
         THEN job' = [job EXCEPT ![j] = [Idle EXCEPT !.pc = "asked", !.op = "list",
                        !.party = k.party, !.mounted = k.mounted]]
         ELSE Finish(j)
      /\ CASE heard /\ k.op = "join" -> Show(k.party, k.found, "live")
           [] heard /\ k.op = "list" -> Show(k.party, k.found, screen[k.party].link)
           [] heard /\ k.op = "send" /\ k.via = "socket" -> Absorb(k.party, k.at)
           [] OTHER -> UNCHANGED <<screen, shown>>
      /\ UNCHANGED <<thread, wire, faults>>

\* message:new, merged by id into the thread on screen, if there is one.
Deliver(p, m) ==
  /\ m \in push[p]
  /\ push' = [push EXCEPT ![p] = @ \ {m}]
  /\ Absorb(p, m)
  /\ gap' = IF screen[p].open /\ ~CanAbsorb(p) THEN [gap EXCEPT ![p] = @ \cup {m}] ELSE gap
  /\ UNCHANGED <<thread, job, inRoom, faults>>

-----------------------------------------------------------------------------
(* The screen: opened and closed, polling, joining, reporting what was read. *)

Unmounted(p) == [j \in Jobs |-> IF job[j].party = p THEN [job[j] EXCEPT !.mounted = FALSE]
                                                    ELSE job[j]]
Unlinked(p) == [j \in Jobs |-> IF job[j].party = p /\ job[j].via = "socket"
                               THEN [job[j] EXCEPT !.via = "gone"] ELSE job[j]]

Open(p) ==
  /\ p \in Viewers /\ ~screen[p].open
  /\ screen' = [screen EXCEPT ![p].open = TRUE]
  /\ UNCHANGED <<thread, job, wire, shown, faults>>

\* Unmounting emits thread:leave.
Close(p) ==
  /\ screen[p].open
  /\ screen' = [screen EXCEPT ![p] = [Closed EXCEPT
                  !.link = IF screen[p].link = "off" THEN "off" ELSE "on"]]
  /\ job' = Unmounted(p)
  /\ inRoom' = inRoom \ {p}
  /\ gap' = [gap EXCEPT ![p] = {}]
  /\ UNCHANGED <<thread, push, shown, faults>>

PollsWhenDown(p) == screen[p].link = "off"

\* The timer runs while the socket is not carrying the thread; mounting loads once.
Polls(p) == screen[p].link # "live"

Load(j, p) ==
  /\ screen[p].open /\ Polls(p)
  /\ Ask(j, "list", p, "http", "asked")
  /\ UNCHANGED <<thread, wire, screen, shown, faults>>

Join(j, p) ==
  /\ screen[p].open /\ screen[p].link = "on"
  /\ Ask(j, "join", p, "socket", "asked")
  /\ screen' = [screen EXCEPT ![p].link = "joining"]
  /\ UNCHANGED <<thread, wire, shown, faults>>

\* Only while the tab is visible, when it becomes so and when a message arrives.
ReportRead(j, p) ==
  /\ screen[p].link = "live" /\ screen[p].held # {} /\ screen[p].visible /\ screen[p].due
  /\ Ask(j, "read", p, "socket", "marking")
  /\ screen' = [screen EXCEPT ![p].due = FALSE]
  /\ UNCHANGED <<thread, wire, shown, faults>>

\* visibilitychange, of an open screen; showing it again is a reason to report, once the
\* socket carries it (going live is a reason of its own).
Toggle(p) ==
  /\ p \in Hiders /\ screen[p].open
  /\ screen' = [screen EXCEPT ![p].visible = ~@,
                              ![p].due = ~screen[p].visible /\ screen[p].link = "live"]
  /\ UNCHANGED <<thread, job, wire, shown, faults>>

-----------------------------------------------------------------------------
(* What goes wrong. *)

Disconnect(p) ==
  /\ faults < MaxFaults /\ screen[p].open /\ screen[p].link # "off"
  /\ faults' = faults + 1
  /\ screen' = [screen EXCEPT ![p].link = "off"]
  /\ job' = Unlinked(p)
  /\ inRoom' = inRoom \ {p}
  /\ push' = [push EXCEPT ![p] = {}]
  /\ gap' = [gap EXCEPT ![p] = {}]
  /\ UNCHANGED <<thread, shown>>

Reconnect(p) ==
  /\ screen[p].link = "off"
  /\ screen' = [screen EXCEPT ![p].link = "on"]
  /\ UNCHANGED <<thread, job, wire, shown, faults>>

\* A database call throws and the handler with it; a join that fails leaves the
\* screen on its timer.
CallFails(j) ==
  LET k == job[j]
  IN  /\ faults < MaxFaults
      /\ k.pc \in {"asked", "writing", "inserting", "marking", "saving", "describing"}
      /\ faults' = faults + 1
      /\ Finish(j)
      /\ screen' = IF k.op = "join" /\ k.mounted /\ k.via = "socket"
                   THEN [screen EXCEPT ![k.party].link = "refused"] ELSE screen
      /\ UNCHANGED <<thread, wire, shown>>

\* ACK_TIMEOUT_MS: the screen no longer waits for the answer, and the handler runs on.
\* A join given up on takes the screen off the socket, even one whose socket has gone
\* and whose successor has joined.
AckTimesOut(j) ==
  LET k == job[j]
  IN  /\ faults < MaxFaults
      /\ k.mounted /\ k.via \in {"socket", "gone"}
      /\ faults' = faults + 1
      /\ job' = [job EXCEPT ![j].mounted = FALSE]
      /\ screen' = IF k.op = "join" /\ (k.via = "socket" \/ screen[k.party].link = "live")
                   THEN [screen EXCEPT ![k.party].link = "refused"] ELSE screen
      /\ UNCHANGED <<thread, wire, shown>>

-----------------------------------------------------------------------------

JobStep(j) ==
  \/ AssertThreadIsOpen(j) \/ BeginInsert(j) \/ InsertMessage(j)
  \/ NotifyNewMessage(j) \/ Ring(j) \/ PublishMessage(j)
  \/ FindMessages(j) \/ BeginMark(j) \/ MarkThreadRead(j) \/ EnterRoom(j)
  \/ DescribeOtherParty(j) \/ Answer(j)

Next ==
  \/ \E j \in Jobs : JobStep(j) \/ CallFails(j) \/ AckTimesOut(j) \/ PostSystemMessage(j)
  \/ \E p \in Parties, j \in Jobs :
        SendMessage(j, p) \/ Load(j, p) \/ Join(j, p) \/ ReportRead(j, p)
  \/ \E p \in Parties : Open(p) \/ Close(p) \/ Toggle(p) \/ Disconnect(p) \/ Reconnect(p)
  \/ \E p \in Parties : \E m \in push[p] : Deliver(p, m)
  \/ CloseThread

Spec == Init /\ [][Next]_vars

\* Handlers that started finish, pushes arrive, and the timer of a screen that is
\* not live fires; the bound on requests in flight is the model's, so a poll that
\* is possible again and again is made.
Fairness ==
  /\ \A j \in Jobs : WF_vars(JobStep(j))
  /\ \A p \in Parties : WF_vars(\E m \in push[p] : Deliver(p, m))
  /\ \A p \in Parties : SF_vars(\E j \in Jobs : Load(j, p))

FairSpec == Spec /\ Fairness

-----------------------------------------------------------------------------

JobRecords ==
  [pc : {"idle", "asked", "writing", "inserting", "marking", "saving", "counting",
         "ringing", "publishing", "entering", "describing", "answering"},
   op : {"send", "line", "list", "join", "read", None}, party : Parties \cup {None},
   via : {"http", "socket", "gone"}, mounted : BOOLEAN,
   onTime : BOOLEAN, at : 0..MaxMessages, upTo : 0..MaxMessages, found : SUBSET Ranks]
Screens ==
  [open : BOOLEAN, visible : BOOLEAN, due : BOOLEAN, loaded : BOOLEAN, held : SUBSET Ranks,
   link : {"off", "on", "joining", "live", "refused"}]

\* The type of every variable; timestamps are given out in order and a screen only
\* holds messages that exist.
TypeOK ==
  /\ status \in {"open", "closed"}
  /\ begun \in 0..MaxMessages
  /\ row \in [Ranks -> Parties \cup {"system", None}]
  /\ readTo \in [Parties -> 0..MaxMessages]
  /\ job \in [Jobs -> JobRecords]
  /\ inRoom \subseteq Parties
  /\ push \in [Parties -> SUBSET Ranks]
  /\ screen \in [Parties -> Screens]
  /\ published \subseteq Committed
  /\ rung \subseteq Parties
  /\ late \subseteq Committed
  /\ gap \in [Parties -> SUBSET Ranks]
  /\ shown \in [Parties -> SUBSET Committed]
  /\ faults \in 0..MaxFaults

\* assertThreadIsOpen: nothing that was sent after the thread closed is in it,
\* though what was already past the check when it closed may be.
NothingSaidAfterClosing == late = {}

\* No request of p, and no push to it, is under way.
Settled(p) == push[p] = {} /\ \A j \in Jobs : job[j].party # p

\* A screen the socket carries is missing nothing that was published, but for what
\* was published between its join's reading the thread and its entering the room, and
\* what was pushed to it before any answer had been applied: joins, pushes, polls,
\* acknowledgements, timeouts and reconnects leave no other hole.
OnlyTheGapIsMissed ==
  \A p \in Parties :
    screen[p].link = "live" /\ Settled(p) => published \subseteq screen[p].held \cup gap[p]

\* An open screen comes to hold every published message, whatever sockets drop and
\* joins are refused or given up on: polling takes over.  Only a screen that went live
\* over a gap, and so stopped polling, goes without what is in it.
EveryoneCatchesUp ==
  \A p \in Parties, m \in Ranks :
    m \in published /\ screen[p].open
      ~> \/ m \in screen[p].held
         \/ screen[p].link = "live" /\ m \in gap[p]
         \/ ~screen[p].open

\* thread:join "catches up on what was missed" (threadHandlers.js:189) and the
\* screen "silently stops updating" only in the world without the fallback
\* (MessageThread.jsx:8): a live screen holds everything published.
LiveScreensAreComplete ==
  \A p \in Parties :
    screen[p].link = "live" /\ Settled(p) => published \subseteq screen[p].held

\* listMessages marks the thread read as "the honest meaning of 'opened the
\* conversation'" (messageService.js:78): what counts as read was on a screen.
ReadWasShown ==
  \A p \in Parties :
    Settled(p) => \A m \in Committed : row[m] # p /\ m <= readTo[p] => m \in shown[p]

\* "Ring only if the recipient has NOTHING unread in this thread already"
\* (notificationService.js:191): whoever has unread messages was rung for them.
UnreadRings ==
  (\A j \in Jobs : At(j, "idle")) =>
    \A p \in Parties : (\E m \in Unread(p) : row[m] = Other(p)) => p \in rung

\* "thread:leave -- stop receiving it" (threadHandlers.js:253): no socket stays in
\* the room of a thread its screen has left.
LeftMeansLeft == \A p \in Parties : ~screen[p].open /\ Settled(p) => p \notin inRoom

-----------------------------------------------------------------------------
(* The conversation that the thread implements. *)

\* A request past the check of the thread is a letter under way.
LetterOf(j) ==
  IF job[j].pc \in {"writing", "inserting"}
  THEN [by |-> IF job[j].op = "line" THEN "system" ELSE job[j].party, at |-> job[j].at]
  ELSE [by |-> None, at |-> 0]
Letters == [j \in Jobs |-> LetterOf(j)]

Promise == INSTANCE Conversation
  WITH Pens <- Jobs, System <- "system", Nobody <- None,
       open <- status = "open", clock <- begun, said <- row, bookmark <- readTo,
       pen <- Letters

\* Sends, lines of transitions, reads of three kinds and their failures implement the
\* conversation: every message is there once, in its place, from somebody who was let in
\* while the thread was open, and a watermark moves forward only, past no newer message.
KeepsTheConversation == Promise!Spec
=============================================================================

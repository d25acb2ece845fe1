--------------------------- MODULE MessagingProofs --------------------------
(***************************************************************************)
(* That nothing is said in a thread after it closed, that a live screen    *)
(* misses nothing but the gap of its join, and that the thread implements  *)
(* the conversation of Conversation.tla, proved for any number of requests,*)
(* messages and faults.                                                    *)
(***************************************************************************)
EXTENDS Messaging, FiniteSetTheorems, TLAPS

\* Each step of a request belongs to the operations that have it, and what is
\* past the check of the thread was sent while it was open.
Protocol(j) ==
  /\ job[j].pc = "idle" => job[j] = Idle
  /\ job[j].pc # "idle" => job[j].op # None /\ (job[j].op # "line" => job[j].party \in Parties)
  /\ job[j].pc = "asked" => job[j].op \in {"send", "list", "join"}
  /\ job[j].pc \in {"writing", "inserting"} => job[j].op \in {"send", "line"} /\ job[j].onTime
  /\ job[j].pc = "publishing" => job[j].op \in {"send", "line"}
  /\ job[j].pc \in {"counting", "ringing"} => job[j].op = "send"
  /\ job[j].pc \in {"marking", "saving", "answering"} => job[j].op \in {"send", "list", "join", "read"}
  /\ job[j].pc \in {"entering", "describing"} => job[j].op = "join"
  /\ job[j].pc = "asked" /\ job[j].op = "send" /\ status = "open" => job[j].onTime
  /\ job[j].op = "join" => job[j].via # "http"
  /\ job[j].op = "line" => ~job[j].mounted

\* Timestamps are taken once; what a request has read, or goes on about, is there.
Stamped(j) ==
  /\ job[j].pc \in {"asked", "writing"} => job[j].at = 0
  /\ job[j].pc = "inserting" => job[j].at \in 1..begun
  /\ job[j].op \in {"send", "line"}
       /\ job[j].pc \in {"counting", "ringing", "publishing", "marking", "saving", "answering"} =>
         job[j].at \in Committed
  /\ job[j].found \subseteq Committed

\* There are timestamps for everybody who will still ask for one.
Pending == {j \in Jobs : job[j].op \in {"send", "line"} /\ job[j].at = 0}
Budget == begun + Cardinality(Pending) <= MaxMessages

\* A join whose screen waits for its answer holds, or knows to be on the way or
\* in the gap, all that was published; there is one at most.
Awaited(j) == job[j].op = "join" /\ job[j].mounted /\ job[j].via = "socket"
JoinMissesTheGap(j) ==
  Awaited(j) =>
    LET p == job[j].party
    IN  /\ screen[p].open /\ screen[p].link = "joining"
        /\ job[j].pc \in {"marking", "saving", "entering"} =>
             published \subseteq job[j].found \cup gap[p]
        /\ job[j].pc \in {"describing", "answering"} =>
             /\ p \in inRoom
             /\ published \subseteq job[j].found \cup gap[p] \cup push[p] \cup screen[p].held
OneJoin ==
  \A j, k \in Jobs : Awaited(j) /\ Awaited(k) /\ job[j].party = job[k].party => j = k

\* A live screen is in the room, drops nothing that is pushed to it, and holds, or
\* has on the way, all but the gap.
LiveMissesTheGap(p) ==
  screen[p].link = "live" =>
    /\ screen[p].open /\ screen[p].loaded /\ p \in inRoom
    /\ published \subseteq screen[p].held \cup gap[p] \cup push[p]

Carried ==
  /\ \A j \in Jobs : JoinMissesTheGap(j)
  /\ OneJoin
  /\ \A p \in Parties : LiveMissesTheGap(p)
Kept ==
  /\ \A j \in Jobs : Protocol(j) /\ Stamped(j)
  /\ Budget
  /\ \A p \in Parties : push[p] \subseteq Committed
IInv == TypeOK /\ Kept /\ Carried /\ NothingSaidAfterClosing

-----------------------------------------------------------------------------
(* The requests, one at a time. *)

\* What the assumption on the constants gives.
LEMMA Names ==
  /\ IsFiniteSet(Jobs) /\ MaxMessages \in Nat /\ MaxFaults \in Nat
  /\ None # "owner" /\ None # "renter" /\ None # "system" /\ None # "send" /\ None # "line"
  /\ None # "list" /\ None # "join" /\ None # "read"
  /\ Writers \subseteq Parties /\ Viewers \subseteq Parties
BY MessagingAssumption DEF Parties

\* A request that is over is a request.
LEMMA IdleType == Idle \in JobRecords
BY Names DEF Idle, JobRecords, Parties, Ranks

\* One request moves and the others do not.
LEMMA OneMoves ==
  ASSUME TypeOK, NEW j \in Jobs, NEW r \in JobRecords, job' = [job EXCEPT ![j] = r]
  PROVE  /\ job' \in [Jobs -> JobRecords]
         /\ job'[j] = r
         /\ \A k \in Jobs \ {j} : job'[k] = job[k]
BY DEF TypeOK

\* What a request is asked with.
LEMMA Asked ==
  ASSUME TypeOK, NEW j \in Jobs, NEW op \in {"send", "list", "join", "read"}, NEW p \in Parties,
         NEW via \in {"http", "socket"}, NEW pc \in {"asked", "marking"}, Ask(j, op, p, via, pc)
  PROVE  /\ job' \in [Jobs -> JobRecords]
         /\ \A k \in Jobs \ {j} : job'[k] = job[k]
         /\ job[j].pc = "idle"
         /\ job'[j].pc = pc /\ job'[j].op = op /\ job'[j].party = p /\ job'[j].via = via
         /\ job'[j].mounted = screen[p].open /\ job'[j].onTime = (status = "open")
         /\ job'[j].at = 0 /\ job'[j].found = {}
<1> DEFINE r == [Idle EXCEPT !.pc = pc, !.op = op, !.party = p, !.via = via,
                             !.mounted = screen[p].open, !.onTime = status = "open"]
<1>1. screen[p].open \in BOOLEAN
  BY DEF TypeOK, Screens
<1>2. /\ r \in JobRecords /\ r.pc = pc /\ r.op = op /\ r.party = p /\ r.via = via
      /\ r.mounted = screen[p].open /\ r.onTime = (status = "open") /\ r.at = 0 /\ r.found = {}
  BY <1>1, IdleType DEF Idle, JobRecords
<1>3. job' = [job EXCEPT ![j] = r] /\ job[j].pc = "idle"
  BY DEF Ask, At
<1> HIDE DEF r
<1> QED BY <1>2, <1>3, OneMoves

\* A request goes on with what it has.
LEMMA GoesOn ==
  ASSUME TypeOK, NEW j \in Jobs, NEW pc \in {"writing", "publishing", "answering", "marking",
                                             "saving", "counting", "ringing", "entering",
                                             "describing"},
         Goto(j, pc)
  PROVE  /\ job' \in [Jobs -> JobRecords]
         /\ \A k \in Jobs \ {j} : job'[k] = job[k]
         /\ job'[j].pc = pc /\ job'[j].op = job[j].op /\ job'[j].party = job[j].party
         /\ job'[j].via = job[j].via /\ job'[j].mounted = job[j].mounted
         /\ job'[j].onTime = job[j].onTime /\ job'[j].at = job[j].at /\ job'[j].found = job[j].found
<1>1. job[j] \in JobRecords
  BY DEF TypeOK
<1> DEFINE r == [job[j] EXCEPT !.pc = pc]
<1>2. /\ r \in JobRecords /\ r.pc = pc /\ r.op = job[j].op /\ r.party = job[j].party
      /\ r.via = job[j].via /\ r.mounted = job[j].mounted
      /\ r.onTime = job[j].onTime /\ r.at = job[j].at /\ r.found = job[j].found
  BY <1>1 DEF JobRecords
<1>3. job' = [job EXCEPT ![j] = r]
  BY DEF Goto
<1> HIDE DEF r
<1> QED BY <1>2, <1>3, OneMoves

\* A request is over.
LEMMA Finishes ==
  ASSUME TypeOK, NEW j \in Jobs, Finish(j)
  PROVE  /\ job' \in [Jobs -> JobRecords]
         /\ \A k \in Jobs \ {j} : job'[k] = job[k]
         /\ job'[j] = Idle
BY IdleType, OneMoves DEF Finish

\* A transition's line is as good as past the check.
LEMMA Posted ==
  ASSUME TypeOK, NEW j \in Jobs, PostSystemMessage(j)
  PROVE  /\ job' \in [Jobs -> JobRecords]
         /\ \A k \in Jobs \ {j} : job'[k] = job[k]
         /\ job[j].pc = "idle"
         /\ job'[j].pc = "writing" /\ job'[j].op = "line" /\ job'[j].onTime /\ ~job'[j].mounted
         /\ job'[j].at = 0 /\ job'[j].found = {}
<1> DEFINE r == [Idle EXCEPT !.pc = "writing", !.op = "line", !.onTime = TRUE]
<1>1. /\ r \in JobRecords /\ r.pc = "writing" /\ r.op = "line" /\ r.onTime /\ ~r.mounted
      /\ r.at = 0 /\ r.found = {}
  BY IdleType DEF Idle, JobRecords
<1>2. job' = [job EXCEPT ![j] = r] /\ job[j].pc = "idle"
  BY DEF PostSystemMessage, At
<1> HIDE DEF r
<1> QED BY <1>1, <1>2, OneMoves

\* A message sent over HTTP is answered by the load of the thread.
LEMMA Relisted ==
  ASSUME TypeOK, NEW j \in Jobs,
         job' = [job EXCEPT ![j] = [Idle EXCEPT !.pc = "asked", !.op = "list",
                        !.party = job[j].party, !.mounted = job[j].mounted]]
  PROVE  /\ job' \in [Jobs -> JobRecords]
         /\ \A k \in Jobs \ {j} : job'[k] = job[k]
         /\ job'[j].pc = "asked" /\ job'[j].op = "list" /\ job'[j].party = job[j].party
         /\ job'[j].at = 0 /\ job'[j].found = {}
<1> DEFINE r == [Idle EXCEPT !.pc = "asked", !.op = "list",
                        !.party = job[j].party, !.mounted = job[j].mounted]
<1>1. job[j] \in JobRecords
  BY DEF TypeOK
<1>2. /\ r \in JobRecords /\ r.pc = "asked" /\ r.op = "list" /\ r.party = job[j].party
      /\ r.at = 0 /\ r.found = {}
  BY <1>1, IdleType DEF Idle, JobRecords
<1> HIDE DEF r
<1> QED BY <1>2, OneMoves DEF r

\* Every request of p loses its screen, or its socket, and is otherwise as it was.
Alike(k) ==
  /\ job'[k].pc = job[k].pc /\ job'[k].op = job[k].op /\ job'[k].party = job[k].party
  /\ job'[k].onTime = job[k].onTime /\ job'[k].at = job[k].at /\ job'[k].found = job[k].found
  /\ job'[k].via # job[k].via => job'[k].via = "gone"
  /\ job'[k].mounted => job[k].mounted
LEMMA LosesItsScreen ==
  ASSUME TypeOK, NEW p \in Parties, job' = Unmounted(p) \/ job' = Unlinked(p)
  PROVE  /\ job' \in [Jobs -> JobRecords]
         /\ \A k \in Jobs : /\ Alike(k)
                            /\ job[k].party # p => job'[k] = job[k]
                            /\ Awaited(k)' => Awaited(k) /\ job[k].party # p
<1>1. CASE job' = Unmounted(p)
  <2>1. job' \in [Jobs -> JobRecords]
    <3>1. ASSUME NEW k \in Jobs PROVE [job[k] EXCEPT !.mounted = FALSE] \in JobRecords
      <4>1. job[k] \in JobRecords
        BY DEF TypeOK
      <4> QED BY <4>1 DEF JobRecords
    <3> QED BY <1>1, <3>1 DEF Unmounted, TypeOK
  <2>2. ASSUME NEW k \in Jobs
        PROVE  /\ Alike(k)
               /\ job[k].party # p => job'[k] = job[k]
               /\ Awaited(k)' => Awaited(k) /\ job[k].party # p
    <3>1. job[k] \in JobRecords
      BY DEF TypeOK
    <3>2. job'[k] = IF job[k].party = p THEN [job[k] EXCEPT !.mounted = FALSE] ELSE job[k]
      BY <1>1 DEF Unmounted
    <3> QED BY <3>1, <3>2 DEF JobRecords, Alike, Awaited
  <2> QED BY <2>1, <2>2
<1>2. CASE job' = Unlinked(p)
  <2>1. job' \in [Jobs -> JobRecords]
    <3>1. ASSUME NEW k \in Jobs PROVE [job[k] EXCEPT !.via = "gone"] \in JobRecords
      <4>1. job[k] \in JobRecords
        BY DEF TypeOK
      <4> QED BY <4>1 DEF JobRecords
    <3> QED BY <1>2, <3>1 DEF Unlinked, TypeOK
  <2>2. ASSUME NEW k \in Jobs
        PROVE  /\ Alike(k)
               /\ job[k].party # p => job'[k] = job[k]
               /\ Awaited(k)' => Awaited(k) /\ job[k].party # p
    <3>1. job[k] \in JobRecords
      BY DEF TypeOK
    <3>2. job'[k] = IF job[k].party = p /\ job[k].via = "socket"
                    THEN [job[k] EXCEPT !.via = "gone"] ELSE job[k]
      BY <1>2 DEF Unlinked
    <3> QED BY <3>1, <3>2 DEF JobRecords, Alike, Awaited
  <2> QED BY <2>1, <2>2
<1> QED BY <1>1, <1>2

\* The timestamp that a request takes is within the bound, and no longer pending.
LEMMA TakesOne ==
  ASSUME TypeOK, Kept, NEW j \in Jobs, BeginInsert(j)
  PROVE  /\ begun' = begun + 1 /\ begun' \in Ranks
         /\ job' \in [Jobs -> JobRecords]
         /\ \A k \in Jobs \ {j} : job'[k] = job[k]
         /\ job'[j].pc = "inserting" /\ job'[j].op = job[j].op /\ job'[j].party = job[j].party
         /\ job'[j].via = job[j].via /\ job'[j].mounted = job[j].mounted
         /\ job'[j].onTime = job[j].onTime /\ job'[j].at = begun + 1 /\ job'[j].found = job[j].found
         /\ Budget'
<1>1. job[j].pc = "writing" /\ job[j].op \in {"send", "line"} /\ job[j].at = 0
  BY DEF BeginInsert, At, Kept, Protocol, Stamped
<1>2. j \in Pending /\ IsFiniteSet(Pending) /\ Cardinality(Pending) \in Nat
  BY <1>1, Names, FS_Subset, FS_CardinalityType DEF Pending
<1>3. /\ IsFiniteSet(Pending \ {j}) /\ Cardinality(Pending \ {j}) = Cardinality(Pending) - 1
      /\ Cardinality(Pending \ {j}) \in Nat
  BY <1>2, FS_RemoveElement, FS_CardinalityType
<1>4. begun \in Nat /\ begun + Cardinality(Pending) <= MaxMessages
  BY Names DEF TypeOK, Kept, Budget
<1>5. begun' = begun + 1 /\ begun + 1 \in Ranks /\ begun + 1 # 0
  BY <1>2, <1>3, <1>4, Names DEF BeginInsert, Ranks
<1> DEFINE r == [job[j] EXCEPT !.pc = "inserting", !.at = begun + 1]
<1>6. job[j] \in JobRecords
  BY DEF TypeOK
<1>7. begun + 1 \in 0..MaxMessages
  BY <1>4, <1>5, Names DEF Ranks
<1>8. /\ r \in JobRecords /\ r.pc = "inserting" /\ r.op = job[j].op /\ r.party = job[j].party
      /\ r.via = job[j].via /\ r.mounted = job[j].mounted
      /\ r.onTime = job[j].onTime /\ r.at = begun + 1 /\ r.found = job[j].found
  BY <1>6, <1>7 DEF JobRecords
<1>9. job' = [job EXCEPT ![j] = r]
  BY DEF BeginInsert
<1> HIDE DEF r
<1>10. /\ job' \in [Jobs -> JobRecords] /\ job'[j] = r
       /\ \A k \in Jobs \ {j} : job'[k] = job[k]
  BY <1>8, <1>9, OneMoves
<1>11. Pending' = Pending \ {j}
  BY <1>5, <1>8, <1>10 DEF Pending
<1>12. Budget'
  <2>1. Cardinality(Pending') = Cardinality(Pending) - 1
    BY <1>3, <1>11
  <2>2. begun' + Cardinality(Pending') <= MaxMessages
    BY <2>1, <1>2, <1>4, <1>5, Names
  <2> QED BY <2>2 DEF Budget
<1> QED BY <1>5, <1>8, <1>10, <1>12

\* One screen changes and the other does not.
LEMMA OneScreen ==
  ASSUME TypeOK, NEW p \in Parties, NEW s \in Screens, screen' = [screen EXCEPT ![p] = s]
  PROVE  /\ screen' \in [Parties -> Screens]
         /\ screen'[p] = s
         /\ \A q \in Parties \ {p} : screen'[q] = screen[q]
BY DEF TypeOK

\* A step that leaves the rows of the thread as they are.
LEMMA SameThread ==
  ASSUME TypeOK, UNCHANGED <<row, late>>, status' \in {status, "closed"}, begun' \in 0..MaxMessages,
         readTo' \in [Parties -> 0..MaxMessages], published' \subseteq Committed,
         rung' \subseteq Parties, job' \in [Jobs -> JobRecords],
         screen' \in [Parties -> Screens], shown' \in [Parties -> SUBSET Committed],
         inRoom' \subseteq Parties, push' \in [Parties -> SUBSET Ranks],
         gap' \in [Parties -> SUBSET Ranks], faults' \in 0..MaxFaults
  PROVE  TypeOK' /\ Committed' = Committed
BY DEF TypeOK, Committed

-----------------------------------------------------------------------------
(* What stays kept, and carried, while something else moves. *)

\* The budget of timestamps holds while nobody new asks for one.
LEMMA BudgetStays ==
  ASSUME TypeOK, Budget, begun' = begun, Pending' \subseteq Pending
  PROVE  Budget'
<1>1. IsFiniteSet(Pending) /\ Cardinality(Pending) \in Nat
  BY Names, FS_Subset, FS_CardinalityType DEF Pending
<1>2. IsFiniteSet(Pending') /\ Cardinality(Pending') \in Nat /\ Cardinality(Pending') <= Cardinality(Pending)
  BY <1>1, FS_Subset, FS_CardinalityType
<1>3. begun \in Nat /\ begun + Cardinality(Pending) <= MaxMessages
  BY Names DEF TypeOK, Budget
<1>4. begun' + Cardinality(Pending') <= MaxMessages
  BY <1>1, <1>2, <1>3, Names
<1> QED BY <1>4 DEF Budget

\* There is a timestamp for one request more.
LEMMA BudgetGrows ==
  ASSUME TypeOK, Unused > 0, NEW j \in Jobs, begun' = begun,
         \A k \in Jobs \ {j} : job'[k] = job[k]
  PROVE  Budget'
<1>1. IsFiniteSet(Pending) /\ Cardinality(Pending) \in Nat
  BY Names, FS_Subset, FS_CardinalityType DEF Pending
<1>2. IsFiniteSet(Pending \cup {j}) /\ Cardinality(Pending \cup {j}) \in Nat
      /\ Cardinality(Pending \cup {j}) <= Cardinality(Pending) + 1
  <2>1. IsFiniteSet(Pending \cup {j})
    BY <1>1, FS_AddElement
  <2>2. Cardinality(Pending \cup {j}) = IF j \in Pending THEN Cardinality(Pending)
                                                        ELSE Cardinality(Pending) + 1
    BY <1>1, FS_AddElement
  <2> QED BY <1>1, <2>1, <2>2
<1>3. Pending' \subseteq Pending \cup {j}
  BY DEF Pending
<1>4. Cardinality(Pending') \in Nat /\ Cardinality(Pending') <= Cardinality(Pending) + 1
  <2>1. Cardinality(Pending') \in Nat /\ Cardinality(Pending') <= Cardinality(Pending \cup {j})
    BY <1>2, <1>3, FS_Subset, FS_CardinalityType
  <2> QED BY <1>1, <1>2, <2>1
<1>5. Unused = MaxMessages - begun - Cardinality(Pending)
  BY DEF Unused, Pending
<1>6. begun \in Nat
  BY Names DEF TypeOK
<1>7. begun' + Cardinality(Pending') <= MaxMessages
  BY <1>1, <1>4, <1>5, <1>6, Names
<1> QED BY <1>7 DEF Budget

\* Nor is there one less if a request that asks for none moves.
LEMMA BudgetMoves ==
  ASSUME TypeOK, Budget, NEW j \in Jobs, begun' = begun,
         \A k \in Jobs \ {j} : job'[k] = job[k], j \in Pending' => j \in Pending
  PROVE  Budget'
<1>1. Pending' \subseteq Pending
  BY DEF Pending
<1> QED BY <1>1, BudgetStays

\* One request moves on its protocol.
LEMMA KeptMoves ==
  ASSUME TypeOK, Kept, NEW j \in Jobs, status' = status, begun' \in {begun, begun + 1},
         Committed \subseteq Committed',
         \A k \in Jobs \ {j} : job'[k] = job[k],
         Protocol(j)', Stamped(j)', Budget',
         \A p \in Parties : push'[p] \subseteq Committed'
  PROVE  Kept'
<1>1. ASSUME NEW k \in Jobs PROVE Protocol(k)' /\ Stamped(k)'
  <2>1. CASE k = j
    BY <2>1
  <2>2. CASE k # j
    <3>1. job'[k] = job[k] /\ Protocol(k) /\ Stamped(k)
      BY <2>2 DEF Kept
    <3>2. 1..begun \subseteq 1..begun'
      BY Names DEF TypeOK
    <3> QED BY <3>1, <3>2 DEF Protocol, Stamped
  <2> QED BY <2>1, <2>2
<1> QED BY <1>1 DEF Kept

\* Requests lose their screen or their socket, or the thread closes.
LEMMA KeptAlike ==
  ASSUME TypeOK, Kept, status' \in {status, "closed"}, begun' = begun, Committed' = Committed,
         \A k \in Jobs : Alike(k) /\ (job[k].party = None => job'[k] = job[k]),
         \A p \in Parties : push'[p] \subseteq push[p]
  PROVE  Kept'
<1>1. ASSUME NEW k \in Jobs PROVE Protocol(k)' /\ Stamped(k)'
  <2>1. Protocol(k) /\ Stamped(k) /\ Alike(k)
    BY DEF Kept
  <2>2. job[k].pc = "idle" => job'[k] = job[k]
    BY <2>1 DEF Protocol, Idle
  <2>3. Protocol(k)'
    BY <2>1, <2>2 DEF Protocol, Alike
  <2>4. Stamped(k)'
    BY <2>1 DEF Stamped, Alike
  <2> QED BY <2>3, <2>4
<1>2. Pending' \subseteq Pending
  BY DEF Pending, Alike
<1>3. Budget'
  BY <1>2, BudgetStays DEF Kept
<1>4. \A p \in Parties : push'[p] \subseteq Committed'
  BY DEF Kept
<1> QED BY <1>1, <1>3, <1>4 DEF Kept

\* For p nothing is taken away but what arrives on its screen or is known to be missed.
Smooth(p) ==
  /\ published' = published /\ gap[p] \subseteq gap'[p]
  /\ p \in inRoom => p \in inRoom'
  /\ screen'[p].open = screen[p].open /\ screen'[p].link = screen[p].link
  /\ screen[p].loaded => screen'[p].loaded
  /\ screen[p].held \subseteq screen'[p].held
  /\ push[p] \subseteq push'[p] \cup screen'[p].held \cup gap'[p]

\* p has no live screen and nothing that would make it one.
Away(p) == screen'[p].link # "live" /\ \A k \in Jobs : Awaited(k)' => job'[k].party # p

\* A join that is awaited was, and is where it was between reading and room.
Carries(k) ==
  Awaited(k)' =>
    /\ Awaited(k) /\ job'[k].party = job[k].party /\ job'[k].found = job[k].found
    /\ job'[k].pc \in {"marking", "saving", "entering"} => job[k].pc \in {"marking", "saving", "entering"}
    /\ job'[k].pc \in {"describing", "answering"} => job[k].pc \in {"describing", "answering"}

\* A join that is awaited is somebody's.
LEMMA JoinsHaveParties ==
  ASSUME TypeOK, Kept, NEW k \in Jobs, Awaited(k)
  PROVE  job[k].party \in Parties
<1>1. Protocol(k) /\ job[k].op = "join" /\ job[k].pc # "idle"
  BY Names DEF Kept, Protocol, Awaited, Idle
<1> QED BY <1>1 DEF Protocol

\* The join of a party for whom nothing is taken away.
LEMMA JoinStays ==
  ASSUME NEW k \in Jobs, JoinMissesTheGap(k), Carries(k), Smooth(job[k].party)
  PROVE  JoinMissesTheGap(k)'
<1> SUFFICES ASSUME Awaited(k)' PROVE JoinMissesTheGap(k)'
  BY DEF JoinMissesTheGap
<1> DEFINE p == job[k].party
<1>1. Awaited(k) /\ job'[k].party = p /\ job'[k].found = job[k].found
  BY DEF Carries
<1>2. screen'[p].open /\ screen'[p].link = "joining"
  BY <1>1 DEF JoinMissesTheGap, Smooth
<1>3. job'[k].pc \in {"marking", "saving", "entering"} => published' \subseteq job'[k].found \cup gap'[p]
  BY <1>1 DEF JoinMissesTheGap, Smooth, Carries
<1>4. job'[k].pc \in {"describing", "answering"} =>
        p \in inRoom' /\ published' \subseteq job'[k].found \cup gap'[p] \cup push'[p] \cup screen'[p].held
  BY <1>1 DEF JoinMissesTheGap, Smooth, Carries
<1> QED BY <1>1, <1>2, <1>3, <1>4 DEF JoinMissesTheGap

\* The live screen of a party for whom nothing is taken away.
LEMMA LiveStays ==
  ASSUME NEW p \in Parties, LiveMissesTheGap(p), Smooth(p)
  PROVE  LiveMissesTheGap(p)'
BY DEF LiveMissesTheGap, Smooth

\* No join is awaited that was not.
LEMMA OneJoinStays ==
  ASSUME OneJoin, \A k \in Jobs : Carries(k)
  PROVE  OneJoin'
BY DEF OneJoin, Carries

\* Every step but four keeps what is carried in one of these ways.
LEMMA CarriedOn ==
  ASSUME TypeOK, Kept, Carried, \A k \in Jobs : Carries(k),
         \A p \in Parties : Smooth(p) \/ Away(p)
  PROVE  Carried'
<1>1. ASSUME NEW k \in Jobs PROVE JoinMissesTheGap(k)'
  <2> SUFFICES ASSUME Awaited(k)' PROVE JoinMissesTheGap(k)'
    BY DEF JoinMissesTheGap
  <2>1. Awaited(k) /\ job'[k].party = job[k].party /\ job[k].party \in Parties
    BY JoinsHaveParties DEF Carries
  <2>2. Smooth(job[k].party)
    BY <2>1 DEF Away
  <2> QED BY <2>2, JoinStays DEF Carried
<1>2. ASSUME NEW p \in Parties PROVE LiveMissesTheGap(p)'
  <2>1. CASE Smooth(p)
    BY <2>1, LiveStays DEF Carried
  <2>2. CASE Away(p)
    BY <2>2 DEF Away, LiveMissesTheGap
  <2> QED BY <2>1, <2>2
<1> QED BY <1>1, <1>2, OneJoinStays DEF Carried

\* What is carried, while only requests that are no joins move.
LEMMA CarriedAside ==
  ASSUME TypeOK, Kept, Carried, NEW j \in Jobs, \A k \in Jobs \ {j} : job'[k] = job[k], Carries(j),
         UNCHANGED <<published, gap, inRoom, push, screen>>
  PROVE  Carried'
<1>1. \A k \in Jobs : Carries(k)
  BY DEF Carries, Awaited
<1>2. \A p \in Parties : Smooth(p)
  BY DEF Smooth
<1> QED BY <1>1, <1>2, CarriedOn

-----------------------------------------------------------------------------
(* The requests, as they arrive. *)

\* A request that is no join moves, and the thread and the screens do not.
LEMMA MovesAside ==
  ASSUME IInv, NEW j \in Jobs,
         UNCHANGED <<status, begun, row, published, late, inRoom, push, gap, screen, shown, faults>>,
         readTo' \in [Parties -> 0..MaxMessages], rung' \subseteq Parties,
         job' \in [Jobs -> JobRecords], \A k \in Jobs \ {j} : job'[k] = job[k],
         Protocol(j)', Stamped(j)', Budget', Carries(j)
  PROVE  IInv'
<1> USE DEF IInv
<1>1. TypeOK' /\ Committed' = Committed
  BY SameThread DEF TypeOK
<1>2. Kept'
  BY <1>1, KeptMoves DEF Kept
<1>3. Carried'
  BY CarriedAside
<1>4. NothingSaidAfterClosing'
  BY DEF NothingSaidAfterClosing
<1> QED BY <1>1, <1>2, <1>3, <1>4

\* The timestamp it will take is within the bound.
LEMMA SendMessageKeeps ==
  ASSUME IInv, NEW j \in Jobs, NEW p \in Parties, SendMessage(j, p)
  PROVE  IInv'
<1> USE DEF IInv
<1>1. PICK via \in {"http", "socket"} : Ask(j, "send", p, via, "asked")
  BY DEF SendMessage
<1>2. /\ job' \in [Jobs -> JobRecords] /\ \A k \in Jobs \ {j} : job'[k] = job[k]
      /\ job'[j].pc = "asked" /\ job'[j].op = "send" /\ job'[j].party = p
      /\ job'[j].onTime = (status = "open") /\ job'[j].at = 0 /\ job'[j].found = {}
  BY <1>1, Asked
<1>3. UNCHANGED <<thread, wire, screen, shown, faults>> /\ Unused > 0
  BY DEF SendMessage
<1>4. Protocol(j)' /\ Stamped(j)' /\ Carries(j)
  BY <1>2, <1>3, Names DEF Protocol, Stamped, Carries, Awaited, thread
<1>5. Budget'
  BY <1>2, <1>3, BudgetGrows DEF thread
<1> QED BY <1>2, <1>3, <1>4, <1>5, MovesAside DEF thread, wire, TypeOK

\* A transition's line takes one as well.
LEMMA PostSystemMessageKeeps ==
  ASSUME IInv, NEW j \in Jobs, PostSystemMessage(j)
  PROVE  IInv'
<1> USE DEF IInv
<1>1. /\ job' \in [Jobs -> JobRecords] /\ \A k \in Jobs \ {j} : job'[k] = job[k]
      /\ job'[j].pc = "writing" /\ job'[j].op = "line" /\ job'[j].onTime /\ ~job'[j].mounted
      /\ job'[j].at = 0 /\ job'[j].found = {}
  BY Posted
<1>2. UNCHANGED <<thread, wire, screen, shown, faults>> /\ Unused > 0
  BY DEF PostSystemMessage
<1>3. Protocol(j)' /\ Stamped(j)' /\ Carries(j)
  BY <1>1, Names DEF Protocol, Stamped, Carries, Awaited
<1>4. Budget'
  BY <1>1, <1>2, BudgetGrows DEF thread
<1> QED BY <1>1, <1>2, <1>3, <1>4, MovesAside DEF thread, wire, TypeOK

\* A load waits for no room.
LEMMA LoadKeeps ==
  ASSUME IInv, NEW j \in Jobs, NEW p \in Parties, Load(j, p)
  PROVE  IInv'
<1> USE DEF IInv
<1>1. Ask(j, "list", p, "http", "asked") /\ UNCHANGED <<thread, wire, screen, shown, faults>>
  BY DEF Load
<1>2. /\ job' \in [Jobs -> JobRecords] /\ \A k \in Jobs \ {j} : job'[k] = job[k]
      /\ job'[j].pc = "asked" /\ job'[j].op = "list" /\ job'[j].party = p
      /\ job'[j].at = 0 /\ job'[j].found = {}
  BY <1>1, Asked
<1>3. Protocol(j)' /\ Stamped(j)' /\ Carries(j)
  BY <1>2, Names DEF Protocol, Stamped, Carries, Awaited
<1>4. Budget'
  BY <1>1, <1>2, BudgetMoves DEF thread, Kept, Pending
<1> QED BY <1>1, <1>2, <1>3, <1>4, MovesAside DEF thread, wire, TypeOK

\* What changes on a screen besides what it holds and how it is linked.
LEMMA ReportReadKeeps ==
  ASSUME IInv, NEW j \in Jobs, NEW p \in Parties, ReportRead(j, p)
  PROVE  IInv'
<1> USE DEF IInv
<1>1. Ask(j, "read", p, "socket", "marking") /\ UNCHANGED <<thread, wire, shown, faults>>
  BY DEF ReportRead
<1>2. /\ job' \in [Jobs -> JobRecords] /\ \A k \in Jobs \ {j} : job'[k] = job[k]
      /\ job'[j].pc = "marking" /\ job'[j].op = "read" /\ job'[j].party = p
      /\ job'[j].at = 0 /\ job'[j].found = {}
  BY <1>1, Asked
<1> DEFINE s == [screen[p] EXCEPT !.due = FALSE]
<1>3. /\ s \in Screens /\ s.open = screen[p].open /\ s.link = screen[p].link
      /\ s.held = screen[p].held /\ s.loaded = screen[p].loaded
  BY DEF TypeOK, Screens
<1>4. screen' = [screen EXCEPT ![p] = s]
  BY DEF ReportRead
<1> HIDE DEF s
<1>5. /\ screen' \in [Parties -> Screens] /\ screen'[p] = s
      /\ \A q \in Parties \ {p} : screen'[q] = screen[q]
  BY <1>3, <1>4, OneScreen
<1>6. TypeOK' /\ Committed' = Committed
  BY <1>1, <1>2, <1>5, SameThread DEF thread, wire, TypeOK
<1>7. Kept'
  <2>1. Protocol(j)' /\ Stamped(j)'
    BY <1>2, Names DEF Protocol, Stamped
  <2>2. Budget'
    BY <1>1, <1>2, BudgetMoves DEF thread, Kept, Pending
  <2> QED BY <1>1, <1>2, <1>6, <2>1, <2>2, KeptMoves DEF thread, wire, Kept
<1>8. Carried'
  <2>1. \A k \in Jobs : Carries(k)
    BY <1>2 DEF Carries, Awaited
  <2>2. \A q \in Parties : Smooth(q)
    BY <1>1, <1>3, <1>5 DEF Smooth, thread, wire
  <2> QED BY <2>1, <2>2, CarriedOn
<1>9. NothingSaidAfterClosing'
  BY <1>1 DEF NothingSaidAfterClosing, thread
<1> QED BY <1>6, <1>7, <1>8, <1>9

\* The screen that asks to join waits from now on, and for this request alone.
LEMMA JoinKeeps ==
  ASSUME IInv, NEW j \in Jobs, NEW p \in Parties, Join(j, p)
  PROVE  IInv'
<1> USE DEF IInv
<1>1. /\ Ask(j, "join", p, "socket", "asked") /\ UNCHANGED <<thread, wire, shown, faults>>
      /\ screen[p].open /\ screen[p].link = "on"
  BY DEF Join
<1>2. /\ job' \in [Jobs -> JobRecords] /\ \A k \in Jobs \ {j} : job'[k] = job[k]
      /\ job'[j].pc = "asked" /\ job'[j].op = "join" /\ job'[j].party = p /\ job'[j].via = "socket"
      /\ job'[j].at = 0 /\ job'[j].found = {}
  BY <1>1, Asked
<1> DEFINE s == [screen[p] EXCEPT !.link = "joining"]
<1>3. s \in Screens /\ s.open = screen[p].open /\ s.link = "joining"
  BY DEF TypeOK, Screens
<1>4. screen' = [screen EXCEPT ![p] = s]
  BY DEF Join
<1> HIDE DEF s
<1>5. /\ screen' \in [Parties -> Screens] /\ screen'[p] = s
      /\ \A q \in Parties \ {p} : screen'[q] = screen[q]
  BY <1>3, <1>4, OneScreen
<1>6. TypeOK' /\ Committed' = Committed
  BY <1>1, <1>2, <1>5, SameThread DEF thread, wire, TypeOK
<1>7. Kept'
  <2>1. Protocol(j)' /\ Stamped(j)'
    BY <1>2, Names DEF Protocol, Stamped
  <2>2. Budget'
    BY <1>1, <1>2, BudgetMoves DEF thread, Kept, Pending
  <2> QED BY <1>1, <1>2, <1>6, <2>1, <2>2, KeptMoves DEF thread, wire, Kept
<1>8. \A k \in Jobs : Awaited(k) => job[k].party # p
  BY <1>1 DEF Carried, JoinMissesTheGap
<1>9. ASSUME NEW k \in Jobs, k # j PROVE JoinMissesTheGap(k)'
  <2> SUFFICES ASSUME Awaited(k)' PROVE JoinMissesTheGap(k)'
    BY DEF JoinMissesTheGap
  <2>1. Awaited(k) /\ Carries(k) /\ job[k].party # p
    BY <1>2, <1>8, <1>9 DEF Awaited, Carries
  <2>2. Smooth(job[k].party)
    BY <1>1, <1>5, <2>1, JoinsHaveParties DEF Smooth, thread, wire
  <2> QED BY <2>1, <2>2, <1>9, JoinStays DEF Carried
<1>10. JoinMissesTheGap(j)'
  BY <1>1, <1>2, <1>3, <1>5 DEF JoinMissesTheGap
<1>11. OneJoin'
  BY <1>2, <1>8 DEF OneJoin, Awaited, Carried
<1>12. ASSUME NEW q \in Parties PROVE LiveMissesTheGap(q)'
  <2>1. CASE q = p
    BY <2>1, <1>3, <1>5 DEF LiveMissesTheGap
  <2>2. CASE q # p
    BY <2>2, <1>1, <1>5, LiveStays DEF Smooth, thread, wire, Carried
  <2> QED BY <2>1, <2>2
<1>13. NothingSaidAfterClosing'
  BY <1>1 DEF NothingSaidAfterClosing, thread
<1> QED BY <1>6, <1>7, <1>9, <1>10, <1>11, <1>12, <1>13 DEF Carried

-----------------------------------------------------------------------------
(* The steps of a request. *)

\* Whoever passes the check was asked for while the thread was open: it never reopens.
LEMMA AssertThreadIsOpenKeeps ==
  ASSUME IInv, NEW j \in Jobs, AssertThreadIsOpen(j)
  PROVE  IInv'
<1> USE DEF IInv
<1>1. /\ job[j].pc = "asked" /\ job[j].op = "send" /\ Protocol(j) /\ Stamped(j)
      /\ UNCHANGED <<thread, wire, screen, shown, faults>>
  BY DEF AssertThreadIsOpen, At, Kept
<1>2. /\ job' \in [Jobs -> JobRecords] /\ \A k \in Jobs \ {j} : job'[k] = job[k]
      /\ Protocol(j)' /\ Stamped(j)' /\ Carries(j) /\ (j \in Pending' => j \in Pending)
  <2>1. CASE CanMessage
    <3>1. Goto(j, "writing") /\ job[j].onTime
      BY <1>1, <2>1 DEF AssertThreadIsOpen, CanMessage, Protocol
    <3>2. /\ job' \in [Jobs -> JobRecords] /\ \A k \in Jobs \ {j} : job'[k] = job[k]
          /\ job'[j].pc = "writing" /\ job'[j].op = job[j].op /\ job'[j].party = job[j].party
          /\ job'[j].via = job[j].via /\ job'[j].onTime = job[j].onTime
          /\ job'[j].at = job[j].at /\ job'[j].found = job[j].found
      BY <3>1, GoesOn
    <3> QED BY <1>1, <3>1, <3>2 DEF Protocol, Stamped, Carries, Awaited, Pending, thread, Committed
  <2>2. CASE ~CanMessage
    <3>1. Finish(j)
      BY <2>2 DEF AssertThreadIsOpen
    <3>2. /\ job' \in [Jobs -> JobRecords] /\ \A k \in Jobs \ {j} : job'[k] = job[k]
          /\ job'[j] = Idle
      BY <3>1, Finishes
    <3> QED BY <3>2, Names DEF Protocol, Stamped, Carries, Awaited, Pending, Idle
  <2> QED BY <2>1, <2>2
<1>3. Budget'
  BY <1>1, <1>2, BudgetMoves DEF thread, Kept
<1> QED BY <1>1, <1>2, <1>3, MovesAside DEF thread, wire, TypeOK

\* The steps that only move the request, or ring, or mark.
LEMMA OnItsWay ==
  ASSUME IInv, NEW j \in Jobs, NEW pc \in {"publishing", "marking", "saving", "counting", "ringing",
                                           "entering", "answering"},
         Goto(j, pc), Protocol(j)', Stamped(j)', job[j].pc # "entering",
         pc = "answering" => job[j].op # "join",
         job[j].op = "join" => job[j].pc \in {"marking", "saving"},
         UNCHANGED <<status, begun, row, published, late, wire, screen, shown, faults>>,
         readTo' \in [Parties -> 0..MaxMessages], rung' \subseteq Parties
  PROVE  IInv'
<1> USE DEF IInv
<1>1. /\ job' \in [Jobs -> JobRecords] /\ \A k \in Jobs \ {j} : job'[k] = job[k]
      /\ job'[j].pc = pc /\ job'[j].op = job[j].op /\ job'[j].party = job[j].party
      /\ job'[j].via = job[j].via /\ job'[j].mounted = job[j].mounted
      /\ job'[j].at = job[j].at /\ job'[j].found = job[j].found
  BY GoesOn
<1>2. Carries(j)
  BY <1>1 DEF Carries, Awaited
<1>3. Budget'
  BY <1>1, BudgetMoves DEF Kept, Pending
<1> QED BY <1>1, <1>2, <1>3, MovesAside DEF wire

\* Counting what is unread changes nothing.
LEMMA NotifyNewMessageKeeps ==
  ASSUME IInv, NEW j \in Jobs, NotifyNewMessage(j)
  PROVE  IInv'
<1> USE DEF IInv
<1>1. PICK pc \in {"publishing", "ringing"} : Goto(j, pc)
  BY DEF NotifyNewMessage
<1>2. /\ job[j].pc = "counting" /\ job[j].op = "send" /\ Protocol(j) /\ Stamped(j)
      /\ UNCHANGED <<thread, wire, screen, shown, faults>>
  BY DEF NotifyNewMessage, At, Kept, Protocol
<1>3. Protocol(j)' /\ Stamped(j)'
  BY <1>1, <1>2, GoesOn DEF Protocol, Stamped, thread, Committed
<1> QED BY <1>1, <1>2, <1>3, OnItsWay DEF thread, TypeOK

\* Ringing is told to the other party.
LEMMA RingKeeps ==
  ASSUME IInv, NEW j \in Jobs, Ring(j)
  PROVE  IInv'
<1> USE DEF IInv
<1>1. /\ job[j].pc = "ringing" /\ job[j].op = "send" /\ Protocol(j) /\ Stamped(j)
      /\ Goto(j, "publishing") /\ rung' = rung \cup {Other(job[j].party)}
      /\ UNCHANGED <<status, begun, row, readTo, published, late, wire, screen, shown, faults>>
  BY DEF Ring, At, Kept, Protocol
<1>2. Protocol(j)' /\ Stamped(j)'
  BY <1>1, GoesOn DEF Protocol, Stamped, Committed
<1>3. rung' \subseteq Parties
  BY <1>1 DEF TypeOK, Other, Parties
<1> QED BY <1>1, <1>2, <1>3, OnItsWay DEF TypeOK

\* A watermark is a timestamp that was given out.
LEMMA MarkThreadReadKeeps ==
  ASSUME IInv, NEW j \in Jobs, MarkThreadRead(j)
  PROVE  IInv'
<1> USE DEF IInv
<1> DEFINE pc == AfterMark(job[j].op)
<1>1. /\ job[j].pc = "saving" /\ Protocol(j) /\ Stamped(j) /\ Goto(j, pc)
      /\ readTo' = [readTo EXCEPT ![job[j].party] = Greatest(@, job[j].upTo)]
      /\ UNCHANGED <<status, begun, row, published, late, wire, screen, shown, faults>>
  BY DEF MarkThreadRead, At, Kept
<1>2. job[j].op \in {"send", "list", "join", "read"} /\ job[j].party \in Parties
  BY <1>1 DEF Protocol
<1>3. /\ pc \in {"counting", "answering", "entering"}
      /\ pc = "counting" => job[j].op = "send"
      /\ pc = "entering" <=> job[j].op = "join"
  BY <1>2 DEF AfterMark
<1>4. Protocol(j)' /\ Stamped(j)'
  <2> HIDE DEF pc
  <2> QED BY <1>1, <1>2, <1>3, GoesOn DEF Protocol, Stamped, Committed
<1>5. readTo' \in [Parties -> 0..MaxMessages]
  <2>1. job[j].upTo \in 0..MaxMessages /\ readTo \in [Parties -> 0..MaxMessages]
    BY DEF TypeOK, JobRecords
  <2> QED BY <1>1, <1>2, <2>1 DEF Greatest
<1>6. rung' \subseteq Parties
  BY DEF MarkThreadRead, TypeOK
<1> HIDE DEF pc
<1> QED BY <1>1, <1>2, <1>3, <1>4, <1>5, <1>6, OnItsWay

\* The join that has read the thread holds all that was published by then.
LEMMA FindMessagesKeeps ==
  ASSUME IInv, NEW j \in Jobs, FindMessages(j)
  PROVE  IInv'
<1> USE DEF IInv
<1>1. /\ job[j].pc = "asked" /\ job[j].op \in {"list", "join"} /\ Protocol(j) /\ Stamped(j)
      /\ UNCHANGED <<thread, wire, screen, shown, faults>>
  BY DEF FindMessages, At, Kept
<1> DEFINE r == [job[j] EXCEPT !.pc = "marking", !.found = Committed]
<1>2. job[j] \in JobRecords /\ Committed \subseteq Ranks
  BY DEF TypeOK, Committed
<1>3. /\ r \in JobRecords /\ r.pc = "marking" /\ r.op = job[j].op /\ r.party = job[j].party
      /\ r.via = job[j].via /\ r.mounted = job[j].mounted /\ r.at = job[j].at
      /\ r.onTime = job[j].onTime /\ r.found = Committed
  BY <1>2 DEF JobRecords
<1>4. job' = [job EXCEPT ![j] = r]
  BY DEF FindMessages
<1> HIDE DEF r
<1>5. job' \in [Jobs -> JobRecords] /\ job'[j] = r /\ \A k \in Jobs \ {j} : job'[k] = job[k]
  BY <1>3, <1>4, OneMoves
<1>6. TypeOK' /\ Committed' = Committed
  BY <1>1, <1>5, SameThread DEF thread, wire, TypeOK
<1>7. Kept'
  <2>1. Protocol(j)' /\ Stamped(j)'
    BY <1>1, <1>3, <1>5, <1>6 DEF Protocol, Stamped
  <2>2. Budget'
    BY <1>1, <1>3, <1>5, BudgetMoves DEF thread, Kept, Pending
  <2> QED BY <1>1, <1>5, <1>6, <2>1, <2>2, KeptMoves DEF thread, wire, Kept
<1>8. \A p \in Parties : Smooth(p)
  BY <1>1 DEF Smooth, thread, wire
<1>9. ASSUME NEW k \in Jobs, k # j PROVE JoinMissesTheGap(k)'
  <2> SUFFICES ASSUME Awaited(k)' PROVE JoinMissesTheGap(k)'
    BY DEF JoinMissesTheGap
  <2>1. Awaited(k) /\ Carries(k)
    BY <1>5, <1>9 DEF Awaited, Carries
  <2> QED BY <1>8, <2>1, JoinsHaveParties, JoinStays DEF Carried
<1>10. JoinMissesTheGap(j)'
  <2>1. published' \subseteq job'[j].found
    BY <1>1, <1>3, <1>5 DEF TypeOK, thread
  <2>2. Awaited(j)' => Awaited(j)
    BY <1>3, <1>5 DEF Awaited
  <2> QED BY <1>1, <1>3, <1>5, <2>1, <2>2 DEF JoinMissesTheGap, Carried
<1>11. OneJoin'
  BY <1>3, <1>5 DEF OneJoin, Awaited, Carried
<1>12. \A p \in Parties : LiveMissesTheGap(p)'
  BY <1>8, LiveStays DEF Carried
<1>13. NothingSaidAfterClosing'
  BY <1>1 DEF NothingSaidAfterClosing, thread
<1> QED BY <1>6, <1>7, <1>9, <1>10, <1>11, <1>12, <1>13 DEF Carried

\* The mark takes the time at which its statement starts.
LEMMA BeginMarkKeeps ==
  ASSUME IInv, NEW j \in Jobs, BeginMark(j)
  PROVE  IInv'
<1> USE DEF IInv
<1>1. /\ job[j].pc = "marking" /\ Protocol(j) /\ Stamped(j)
      /\ UNCHANGED <<thread, wire, screen, shown, faults>>
  BY DEF BeginMark, At, Kept
<1> DEFINE r == [job[j] EXCEPT !.pc = "saving", !.upTo = begun]
<1>2. job[j] \in JobRecords /\ begun \in 0..MaxMessages
  BY DEF TypeOK
<1>3. /\ r \in JobRecords /\ r.pc = "saving" /\ r.op = job[j].op /\ r.party = job[j].party
      /\ r.via = job[j].via /\ r.mounted = job[j].mounted /\ r.at = job[j].at
      /\ r.onTime = job[j].onTime /\ r.found = job[j].found
  BY <1>2 DEF JobRecords
<1>4. job' = [job EXCEPT ![j] = r]
  BY DEF BeginMark
<1> HIDE DEF r
<1>5. job' \in [Jobs -> JobRecords] /\ job'[j] = r /\ \A k \in Jobs \ {j} : job'[k] = job[k]
  BY <1>3, <1>4, OneMoves
<1>6. Protocol(j)' /\ Stamped(j)' /\ Carries(j)
  BY <1>1, <1>3, <1>5 DEF Protocol, Stamped, Carries, Awaited, Committed, thread
<1>7. Budget'
  BY <1>1, <1>3, <1>5, BudgetMoves DEF thread, Kept, Pending
<1> QED BY <1>1, <1>5, <1>6, <1>7, MovesAside DEF thread, wire, TypeOK

\* The insert takes the next timestamp, for which there is room.
LEMMA BeginInsertKeeps ==
  ASSUME IInv, NEW j \in Jobs, BeginInsert(j)
  PROVE  IInv'
<1> USE DEF IInv
<1>1. /\ job[j].pc = "writing" /\ job[j].op \in {"send", "line"} /\ job[j].onTime
      /\ Protocol(j) /\ Stamped(j)
      /\ UNCHANGED <<status, row, readTo, published, rung, late, wire, screen, shown, faults>>
  BY DEF BeginInsert, At, Kept, Protocol
<1>2. /\ begun' = begun + 1 /\ begun' \in Ranks
      /\ job' \in [Jobs -> JobRecords] /\ \A k \in Jobs \ {j} : job'[k] = job[k]
      /\ job'[j].pc = "inserting" /\ job'[j].op = job[j].op /\ job'[j].party = job[j].party
      /\ job'[j].via = job[j].via /\ job'[j].mounted = job[j].mounted
      /\ job'[j].onTime = job[j].onTime /\ job'[j].at = begun + 1 /\ job'[j].found = job[j].found
      /\ Budget'
  BY TakesOne
<1>3. begun' \in 0..MaxMessages /\ begun + 1 \in 1..begun'
  BY <1>2, Names DEF Ranks
<1>4. TypeOK' /\ Committed' = Committed
  BY <1>1, <1>2, <1>3, SameThread DEF wire, TypeOK
<1>5. Kept'
  <2>1. Protocol(j)' /\ Stamped(j)'
    BY <1>1, <1>2, <1>3, <1>4 DEF Protocol, Stamped
  <2> QED BY <1>1, <1>2, <1>4, <2>1, KeptMoves DEF wire, Kept
<1>6. Carried'
  BY <1>1, <1>2, CarriedAside DEF Carries, Awaited, wire
<1>7. NothingSaidAfterClosing'
  BY <1>1 DEF NothingSaidAfterClosing
<1> QED BY <1>4, <1>5, <1>6, <1>7

\* What is inserted was past the check of the thread.
LEMMA InsertMessageKeeps ==
  ASSUME IInv, NEW j \in Jobs, InsertMessage(j)
  PROVE  IInv'
<1> USE DEF IInv
<1> DEFINE pc == IF job[j].op = "line" THEN "publishing" ELSE "marking"
           who == IF job[j].op = "line" THEN "system" ELSE job[j].party
<1>1. /\ job[j].pc = "inserting" /\ job[j].op \in {"send", "line"} /\ job[j].onTime
      /\ Protocol(j) /\ Stamped(j) /\ Goto(j, pc)
      /\ row' = [row EXCEPT ![job[j].at] = who] /\ late' = late
      /\ UNCHANGED <<status, begun, readTo, published, rung, wire, screen, shown, faults>>
  BY DEF InsertMessage, At, Kept, Protocol
<1>2. /\ job[j].at \in Ranks
      /\ who \in Parties \cup {"system"} /\ who # None
      /\ pc \in {"publishing", "marking"} /\ (pc = "marking" => job[j].op = "send")
  <2>1. job[j].at \in Ranks
    BY <1>1, Names DEF Stamped, TypeOK, Ranks
  <2> QED BY <2>1, <1>1, Names DEF Protocol, Parties
<1> HIDE DEF pc, who
<1>3. row' \in [Ranks -> Parties \cup {"system", None}] /\ Committed' = Committed \cup {job[j].at}
  BY <1>1, <1>2 DEF TypeOK, Committed
<1>4. /\ job' \in [Jobs -> JobRecords] /\ \A k \in Jobs \ {j} : job'[k] = job[k]
      /\ job'[j].pc = pc /\ job'[j].op = job[j].op /\ job'[j].party = job[j].party
      /\ job'[j].via = job[j].via /\ job'[j].mounted = job[j].mounted
      /\ job'[j].onTime = job[j].onTime /\ job'[j].at = job[j].at /\ job'[j].found = job[j].found
  BY <1>1, <1>2, GoesOn
<1>5. TypeOK'
  <2>1. published' \subseteq Committed' /\ late' \subseteq Committed'
    BY <1>1, <1>3 DEF TypeOK
  <2>2. shown' \in [Parties -> SUBSET Committed']
    BY <1>1, <1>3 DEF TypeOK
  <2> QED BY <1>1, <1>3, <1>4, <2>1, <2>2 DEF TypeOK, wire
<1>6. Kept'
  <2>1. Protocol(j)' /\ Stamped(j)'
    BY <1>1, <1>2, <1>3, <1>4 DEF Protocol, Stamped
  <2>2. Budget'
    BY <1>1, <1>4, BudgetMoves DEF Kept, Pending
  <2> QED BY <1>1, <1>3, <1>4, <2>1, <2>2, KeptMoves DEF wire, Kept
<1>7. Carried'
  BY <1>1, <1>2, <1>4, CarriedAside DEF Carries, Awaited, wire
<1>8. NothingSaidAfterClosing'
  BY <1>1 DEF NothingSaidAfterClosing
<1> QED BY <1>5, <1>6, <1>7, <1>8

\* The join that is in the room is sent what is published from then on.
LEMMA EnterRoomKeeps ==
  ASSUME IInv, NEW j \in Jobs, EnterRoom(j)
  PROVE  IInv'
<1> USE DEF IInv
<1>1. /\ job[j].pc = "entering" /\ job[j].op = "join" /\ job[j].party \in Parties
      /\ Protocol(j) /\ Stamped(j) /\ Goto(j, "describing")
      /\ inRoom' = IF job[j].via = "socket" THEN inRoom \cup {job[j].party} ELSE inRoom
      /\ UNCHANGED <<thread, push, gap, screen, shown, faults>>
  BY DEF EnterRoom, At, Kept, Protocol
<1>2. /\ job' \in [Jobs -> JobRecords] /\ \A k \in Jobs \ {j} : job'[k] = job[k]
      /\ job'[j].pc = "describing" /\ job'[j].op = job[j].op /\ job'[j].party = job[j].party
      /\ job'[j].via = job[j].via /\ job'[j].mounted = job[j].mounted
      /\ job'[j].onTime = job[j].onTime /\ job'[j].at = job[j].at /\ job'[j].found = job[j].found
  BY <1>1, GoesOn
<1>3. inRoom' \subseteq Parties
  BY <1>1 DEF TypeOK
<1>4. TypeOK' /\ Committed' = Committed
  BY <1>1, <1>2, <1>3, SameThread DEF thread, TypeOK
<1>5. Kept'
  <2>1. Protocol(j)' /\ Stamped(j)'
    BY <1>1, <1>2, <1>4 DEF Protocol, Stamped
  <2>2. Budget'
    BY <1>1, <1>2, BudgetMoves DEF thread, Kept, Pending
  <2> QED BY <1>1, <1>2, <1>4, <2>1, <2>2, KeptMoves DEF thread, Kept
<1>6. \A p \in Parties : Smooth(p)
  BY <1>1 DEF Smooth, thread
<1>7. ASSUME NEW k \in Jobs, k # j PROVE JoinMissesTheGap(k)'
  <2> SUFFICES ASSUME Awaited(k)' PROVE JoinMissesTheGap(k)'
    BY DEF JoinMissesTheGap
  <2>1. Awaited(k) /\ Carries(k)
    BY <1>2, <1>7 DEF Awaited, Carries
  <2> QED BY <1>6, <2>1, JoinsHaveParties, JoinStays DEF Carried
<1>8. JoinMissesTheGap(j)'
  <2> SUFFICES ASSUME Awaited(j)' PROVE JoinMissesTheGap(j)'
    BY DEF JoinMissesTheGap
  <2>1. Awaited(j) /\ job[j].via = "socket"
    BY <1>2 DEF Awaited
  <2>2. published \subseteq job[j].found \cup gap[job[j].party]
    BY <1>1, <2>1 DEF Carried, JoinMissesTheGap
  <2>3. screen[job[j].party].open /\ screen[job[j].party].link = "joining"
    BY <2>1 DEF Carried, JoinMissesTheGap
  <2> QED BY <1>1, <1>2, <2>1, <2>2, <2>3 DEF JoinMissesTheGap, thread
<1>9. OneJoin'
  BY <1>2 DEF OneJoin, Awaited, Carried
<1>10. \A p \in Parties : LiveMissesTheGap(p)'
  BY <1>6, LiveStays DEF Carried
<1>11. NothingSaidAfterClosing'
  BY <1>1 DEF NothingSaidAfterClosing, thread
<1> QED BY <1>4, <1>5, <1>7, <1>8, <1>9, <1>10, <1>11 DEF Carried

\* The join that is answered next is in the room.
LEMMA DescribeOtherPartyKeeps ==
  ASSUME IInv, NEW j \in Jobs, DescribeOtherParty(j)
  PROVE  IInv'
<1> USE DEF IInv
<1>1. /\ job[j].pc = "describing" /\ job[j].op = "join" /\ Protocol(j) /\ Stamped(j)
      /\ Goto(j, "answering") /\ UNCHANGED <<thread, wire, screen, shown, faults>>
  BY DEF DescribeOtherParty, At, Kept, Protocol
<1>2. /\ job' \in [Jobs -> JobRecords] /\ \A k \in Jobs \ {j} : job'[k] = job[k]
      /\ job'[j].pc = "answering" /\ job'[j].op = job[j].op /\ job'[j].party = job[j].party
      /\ job'[j].via = job[j].via /\ job'[j].mounted = job[j].mounted
      /\ job'[j].onTime = job[j].onTime /\ job'[j].at = job[j].at /\ job'[j].found = job[j].found
  BY <1>1, GoesOn
<1>3. Protocol(j)' /\ Stamped(j)' /\ Carries(j)
  BY <1>1, <1>2 DEF Protocol, Stamped, Carries, Awaited, Committed, thread
<1>4. Budget'
  BY <1>1, <1>2, BudgetMoves DEF thread, Kept, Pending
<1> QED BY <1>1, <1>2, <1>3, <1>4, MovesAside DEF thread, wire, TypeOK

\* What is published goes to the room, and into the gap of whoever is about to
\* enter it without having read it.
LEMMA PublishMessageKeeps ==
  ASSUME IInv, NEW j \in Jobs, PublishMessage(j)
  PROVE  IInv'
<1> USE DEF IInv
<1> DEFINE m == job[j].at
<1>1. /\ job[j].pc = "publishing" /\ job[j].op \in {"send", "line"} /\ m \in Committed
      /\ Protocol(j) /\ Stamped(j)
      /\ published' = published \cup {m}
      /\ push' = [p \in Parties |-> IF p \in inRoom THEN push[p] \cup {m} ELSE push[p]]
      /\ gap' = [p \in Parties |-> IF Joining(p, m) # {} THEN gap[p] \cup {m} ELSE gap[p]]
      /\ IF job[j].op = "line" THEN Finish(j) ELSE Goto(j, "answering")
      /\ UNCHANGED <<status, begun, row, readTo, rung, late, inRoom, screen, shown, faults>>
  BY DEF PublishMessage, At, Kept, Protocol, Stamped
<1>2. /\ job' \in [Jobs -> JobRecords] /\ \A k \in Jobs \ {j} : job'[k] = job[k]
      /\ ~Awaited(j)' /\ (j \in Pending' => j \in Pending)
      /\ Committed' = Committed => Protocol(j)' /\ Stamped(j)'
  <2>1. CASE job[j].op = "line"
    <3>1. /\ job' \in [Jobs -> JobRecords] /\ \A k \in Jobs \ {j} : job'[k] = job[k]
          /\ job'[j] = Idle
      BY <1>1, <2>1, Finishes
    <3> QED BY <3>1, Names DEF Protocol, Stamped, Awaited, Pending, Idle
  <2>2. CASE job[j].op = "send"
    <3>1. Goto(j, "answering")
      BY <1>1, <2>2
    <3>2. /\ job' \in [Jobs -> JobRecords] /\ \A k \in Jobs \ {j} : job'[k] = job[k]
          /\ job'[j].pc = "answering" /\ job'[j].op = job[j].op /\ job'[j].party = job[j].party
          /\ job'[j].via = job[j].via /\ job'[j].at = job[j].at /\ job'[j].found = job[j].found
      BY <3>1, GoesOn
    <3> QED BY <1>1, <2>2, <3>2, Names DEF Protocol, Stamped, Awaited, Pending
  <2> QED BY <1>1, <2>1, <2>2
<1>3. m \in Ranks
  BY <1>1 DEF Committed
<1> HIDE DEF m
<1>4. /\ published' \subseteq Committed /\ push' \in [Parties -> SUBSET Ranks]
      /\ gap' \in [Parties -> SUBSET Ranks]
  BY <1>1, <1>3 DEF TypeOK
<1>5. TypeOK' /\ Committed' = Committed
  BY <1>1, <1>2, <1>4, SameThread DEF TypeOK
<1>6. Kept'
  <2>1. Budget'
    BY <1>1, <1>2, BudgetMoves DEF Kept
  <2>2. \A p \in Parties : push'[p] \subseteq Committed'
    BY <1>1, <1>5 DEF Kept
  <2> QED BY <1>1, <1>2, <1>5, <2>1, <2>2, KeptMoves
<1>7. ASSUME NEW k \in Jobs PROVE JoinMissesTheGap(k)'
  <2> SUFFICES ASSUME Awaited(k)' PROVE JoinMissesTheGap(k)'
    BY DEF JoinMissesTheGap
  <2>1. Awaited(k) /\ job'[k] = job[k] /\ job[k].party \in Parties /\ job[k].op = "join"
    BY <1>2, JoinsHaveParties DEF Awaited
  <2> DEFINE p == job[k].party
  <2>2. gap[p] \subseteq gap'[p]
    BY <1>1, <2>1
  <2>3. ASSUME job[k].pc \in {"marking", "saving", "entering"}
        PROVE  published' \subseteq job[k].found \cup gap'[p]
    <3>1. m \in job[k].found \/ m \in gap'[p]
      BY <1>1, <2>1, <2>3 DEF Joining, Awaited
    <3>2. published \subseteq job[k].found \cup gap[p]
      BY <2>1, <2>3 DEF Carried, JoinMissesTheGap
    <3> QED BY <1>1, <2>2, <3>1, <3>2
  <2>4. ASSUME job[k].pc \in {"describing", "answering"}
        PROVE  p \in inRoom /\ published' \subseteq job[k].found \cup gap'[p] \cup push'[p] \cup screen[p].held
    <3>1. p \in inRoom /\ published \subseteq job[k].found \cup gap[p] \cup push[p] \cup screen[p].held
      BY <2>1, <2>4 DEF Carried, JoinMissesTheGap
    <3>2. push'[p] = push[p] \cup {m}
      BY <1>1, <2>1, <3>1
    <3> QED BY <1>1, <2>2, <3>1, <3>2
  <2>5. screen[p].open /\ screen[p].link = "joining"
    BY <2>1 DEF Carried, JoinMissesTheGap
  <2> QED BY <1>1, <2>1, <2>3, <2>4, <2>5 DEF JoinMissesTheGap
<1>8. OneJoin'
  BY <1>2 DEF OneJoin, Awaited, Carried
<1>9. ASSUME NEW p \in Parties PROVE LiveMissesTheGap(p)'
  BY <1>1 DEF LiveMissesTheGap, Carried
<1>10. NothingSaidAfterClosing'
  BY <1>1 DEF NothingSaidAfterClosing
<1> QED BY <1>5, <1>6, <1>7, <1>8, <1>9, <1>10 DEF Carried

-----------------------------------------------------------------------------
(* The answers, and what arrives. *)

\* What a screen is after it was shown messages.
LEMMA Shows ==
  ASSUME TypeOK, NEW p \in Parties, NEW messages \in SUBSET Committed,
         NEW link \in {"off", "on", "joining", "live", "refused"}, Show(p, messages, link)
  PROVE  /\ screen' \in [Parties -> Screens] /\ shown' \in [Parties -> SUBSET Committed]
         /\ screen'[p].open = screen[p].open /\ screen'[p].link = link
         /\ screen'[p].held = screen[p].held \cup messages /\ screen'[p].loaded
         /\ \A q \in Parties \ {p} : screen'[q] = screen[q]
<1> DEFINE s == [screen[p] EXCEPT !.held = Merge(@, messages), !.link = link,
                                  !.loaded = TRUE, !.due = @ \/ link = "live"]
<1>1. screen[p] \in Screens /\ Committed \subseteq Ranks
  BY DEF TypeOK, Committed
<1>2. (screen[p].due \/ link = "live") \in BOOLEAN
  BY ZenonT(20)
<1>3. /\ s \in Screens /\ s.open = screen[p].open /\ s.link = link
      /\ s.held = screen[p].held \cup messages /\ s.loaded
  BY <1>1, <1>2 DEF Screens, Merge
<1>4. screen' = [screen EXCEPT ![p] = s]
  BY <1>1 DEF Show, TypeOK
<1>5. shown' \in [Parties -> SUBSET Committed]
  BY DEF Show, TypeOK
<1> HIDE DEF s
<1> QED BY <1>3, <1>4, <1>5, OneScreen

\* What a screen is after one message came, which it may have dropped.
LEMMA Absorbs ==
  ASSUME TypeOK, NEW p \in Parties, NEW m \in Committed, Absorb(p, m)
  PROVE  /\ screen' \in [Parties -> Screens] /\ shown' \in [Parties -> SUBSET Committed]
         /\ screen'[p].open = screen[p].open /\ screen'[p].link = screen[p].link
         /\ screen[p].held \subseteq screen'[p].held
         /\ screen[p].loaded => screen'[p].loaded
         /\ CanAbsorb(p) => m \in screen'[p].held
         /\ \A q \in Parties \ {p} : screen'[q] = screen[q]
<1>1. CASE CanAbsorb(p)
  <2>1. Show(p, {m}, screen[p].link)
    BY <1>1 DEF Absorb
  <2>2. screen[p].link \in {"off", "on", "joining", "live", "refused"} /\ {m} \in SUBSET Committed
    BY DEF TypeOK, Screens
  <2> QED BY <2>1, <2>2, Shows
<1>2. CASE ~CanAbsorb(p)
  BY <1>2 DEF Absorb, TypeOK
<1> QED BY <1>1, <1>2

\* What a screen is shown, the request that brought it having ended, or gone on to
\* load the thread: the screen gains messages, and is live if it was or has joined.
LEMMA AnswerKeeps ==
  ASSUME IInv, NEW j \in Jobs, Answer(j)
  PROVE  IInv'
<1> USE DEF IInv
<1> DEFINE p == job[j].party
           heard == job[j].mounted /\ job[j].via # "gone"
           joined == heard /\ job[j].op = "join"
<1>1. /\ job[j].pc = "answering" /\ job[j].op \in {"send", "list", "join", "read", "line"}
      /\ job[j].op # "line" /\ p \in Parties
      /\ Protocol(j) /\ Stamped(j) /\ UNCHANGED <<thread, wire, faults>>
  BY DEF Answer, At, Kept, Protocol
<1>2. /\ job' \in [Jobs -> JobRecords] /\ \A k \in Jobs \ {j} : job'[k] = job[k]
      /\ ~Awaited(j)' /\ (j \in Pending' => j \in Pending)
      /\ Committed' = Committed => Protocol(j)' /\ Stamped(j)'
  <2>1. CASE job[j].op = "send" /\ job[j].via = "http"
    <3>1. job' = [job EXCEPT ![j] = [Idle EXCEPT !.pc = "asked", !.op = "list",
                        !.party = job[j].party, !.mounted = job[j].mounted]]
      BY <2>1 DEF Answer
    <3>2. /\ job' \in [Jobs -> JobRecords] /\ \A k \in Jobs \ {j} : job'[k] = job[k]
          /\ job'[j].pc = "asked" /\ job'[j].op = "list" /\ job'[j].party = job[j].party
          /\ job'[j].at = 0 /\ job'[j].found = {}
      BY <3>1, Relisted, ZenonT(60)
    <3>3. Protocol(j)'
      BY <1>1, <3>2, Names DEF Protocol
    <3> QED BY <3>2, <3>3, Names DEF Stamped, Awaited, Pending
  <2>2. CASE ~(job[j].op = "send" /\ job[j].via = "http")
    <3>1. Finish(j)
      BY <2>2 DEF Answer
    <3>2. /\ job' \in [Jobs -> JobRecords] /\ \A k \in Jobs \ {j} : job'[k] = job[k]
          /\ job'[j] = Idle
      BY <3>1, Finishes
    <3> QED BY <3>2, Names DEF Protocol, Stamped, Awaited, Pending, Idle
  <2> QED BY <2>1, <2>2
<1>3. /\ screen' \in [Parties -> Screens] /\ shown' \in [Parties -> SUBSET Committed]
      /\ screen'[p].open = screen[p].open
      /\ screen[p].held \subseteq screen'[p].held
      /\ screen[p].loaded => screen'[p].loaded
      /\ ~joined => screen'[p].link = screen[p].link
      /\ joined => screen'[p].loaded /\ job[j].found \subseteq screen'[p].held
      /\ \A q \in Parties \ {p} : screen'[q] = screen[q]
  <2>1. screen[p].link \in {"off", "on", "joining", "live", "refused"}
    BY <1>1 DEF TypeOK, Screens
  <2>2. job[j].found \subseteq Committed
    BY <1>1 DEF Stamped
  <2>3. CASE joined
    <3>1. Show(p, job[j].found, "live")
      BY <2>3 DEF Answer
    <3> QED BY <1>1, <2>2, <2>3, <3>1, Shows
  <2>4. CASE heard /\ job[j].op = "list"
    <3>1. Show(p, job[j].found, screen[p].link)
      BY <2>4 DEF Answer
    <3> QED BY <1>1, <2>1, <2>2, <2>4, <3>1, Shows
  <2>5. CASE heard /\ job[j].op = "send" /\ job[j].via = "socket"
    <3>1. Absorb(p, job[j].at) /\ job[j].at \in Committed
      BY <1>1, <2>5 DEF Answer, Stamped
    <3> QED BY <1>1, <2>5, <3>1, Absorbs
  <2>6. CASE /\ ~joined /\ ~(heard /\ job[j].op = "list")
             /\ ~(heard /\ job[j].op = "send" /\ job[j].via = "socket")
    <3>1. UNCHANGED <<screen, shown>>
      BY <2>6 DEF Answer
    <3> QED BY <2>6, <3>1 DEF TypeOK
  <2> QED BY <2>3, <2>4, <2>5, <2>6
<1>4. TypeOK' /\ Committed' = Committed
  BY <1>1, <1>2, <1>3, SameThread DEF thread, wire, TypeOK
<1>5. Kept'
  <2>1. Budget'
    BY <1>1, <1>2, BudgetMoves DEF Kept, thread
  <2> QED BY <1>1, <1>2, <1>4, <2>1, KeptMoves DEF Kept, thread, wire
<1>6. Carried'
  <2>1. \A k \in Jobs : Carries(k)
    BY <1>2 DEF Carries, Awaited
  <2>2. CASE ~joined
    <3>1. \A q \in Parties : Smooth(q)
      BY <1>1, <1>3, <2>2 DEF Smooth, thread, wire
    <3> QED BY <2>1, <3>1, CarriedOn
  <2>3. CASE joined
    <3>1. Awaited(j)
      BY <1>1, <2>3 DEF Awaited, TypeOK, JobRecords, Protocol
    <3>2. /\ screen[p].open /\ p \in inRoom
          /\ published \subseteq job[j].found \cup gap[p] \cup push[p] \cup screen[p].held
      BY <1>1, <3>1 DEF Carried, JoinMissesTheGap
    <3>3. ASSUME NEW q \in Parties, q = p PROVE LiveMissesTheGap(q)'
      BY <1>1, <1>3, <2>3, <3>2, <3>3 DEF LiveMissesTheGap, thread, wire
    <3>4. \A q \in Parties \ {p} : Smooth(q)
      BY <1>1, <1>3 DEF Smooth, thread, wire
    <3>5. ASSUME NEW q \in Parties PROVE LiveMissesTheGap(q)'
      <4>1. CASE q = p
        BY <3>3, <4>1
      <4>2. CASE q # p
        BY <3>4, <4>2, LiveStays DEF Carried
      <4> QED BY <4>1, <4>2
    <3>6. ASSUME NEW k \in Jobs PROVE JoinMissesTheGap(k)'
      <4> SUFFICES ASSUME Awaited(k)' PROVE JoinMissesTheGap(k)'
        BY DEF JoinMissesTheGap
      <4>1. Awaited(k) /\ Carries(k) /\ k # j
        BY <1>2, <2>1 DEF Carries
      <4>2. job[k].party # p /\ job[k].party \in Parties
        BY <3>1, <4>1, JoinsHaveParties DEF Carried, OneJoin
      <4> QED BY <3>4, <4>1, <4>2, JoinStays DEF Carried
    <3> QED BY <2>1, <3>5, <3>6, OneJoinStays DEF Carried
  <2> QED BY <2>2, <2>3
<1>7. NothingSaidAfterClosing'
  BY <1>1 DEF NothingSaidAfterClosing, thread
<1> QED BY <1>4, <1>5, <1>6, <1>7

\* A screen that is shut holds nothing and waits for nothing.
LEMMA ShutIsAway ==
  ASSUME IInv, NEW p \in Parties, ~screen[p].open \/ screen[p].link \in {"off", "on"}
  PROVE  (screen[p].link # "live" \/ screen[p].open) /\ \A k \in Jobs : Awaited(k) => job[k].party # p
BY DEF IInv, Carried, JoinMissesTheGap, LiveMissesTheGap

\* A push that arrives is held by a screen that has the thread, is missed by one that
\* has not got it yet, and is lost on a shut one.
LEMMA DeliverKeeps ==
  ASSUME IInv, NEW p \in Parties, NEW m \in push[p], Deliver(p, m)
  PROVE  IInv'
<1> USE DEF IInv
<1>1. /\ push' = [push EXCEPT ![p] = @ \ {m}] /\ UNCHANGED <<thread, job, inRoom, faults>>
      /\ gap' = IF screen[p].open /\ ~CanAbsorb(p) THEN [gap EXCEPT ![p] = @ \cup {m}] ELSE gap
      /\ Absorb(p, m) /\ m \in Committed /\ m \in Ranks
  BY DEF Deliver, Kept, Committed
<1>2. /\ push' \in [Parties -> SUBSET Ranks] /\ push'[p] = push[p] \ {m}
      /\ \A q \in Parties \ {p} : push'[q] = push[q]
  BY <1>1 DEF TypeOK
<1>3. /\ screen' \in [Parties -> Screens] /\ shown' \in [Parties -> SUBSET Committed]
      /\ screen'[p].open = screen[p].open /\ screen'[p].link = screen[p].link
      /\ screen[p].held \subseteq screen'[p].held
      /\ screen[p].loaded => screen'[p].loaded
      /\ CanAbsorb(p) => m \in screen'[p].held
      /\ \A q \in Parties \ {p} : screen'[q] = screen[q]
  BY <1>1, Absorbs
<1>4. /\ gap' \in [Parties -> SUBSET Ranks] /\ \A q \in Parties : gap[q] \subseteq gap'[q]
      /\ screen[p].open /\ ~CanAbsorb(p) => m \in gap'[p]
  BY <1>1 DEF TypeOK
<1>5. TypeOK' /\ Committed' = Committed
  BY <1>1, <1>2, <1>3, <1>4, SameThread DEF thread, TypeOK
<1>6. Kept'
  BY <1>1, <1>2, <1>5, KeptAlike DEF Alike, thread
<1>7. Carried'
  <2>1. \A k \in Jobs : Carries(k)
    BY <1>1 DEF Carries, Awaited
  <2>2. Smooth(p) \/ Away(p)
    <3>1. CASE screen[p].open
      <4>1. m \in screen'[p].held \cup gap'[p]
        BY <3>1, <1>3, <1>4
      <4> QED BY <4>1, <1>1, <1>2, <1>3, <1>4 DEF Smooth, thread
    <3>2. CASE ~screen[p].open
      BY <3>2, <1>1, <1>3, ShutIsAway DEF Away, Awaited
    <3> QED BY <3>1, <3>2
  <2>3. \A q \in Parties \ {p} : Smooth(q)
    BY <1>1, <1>2, <1>3, <1>4 DEF Smooth, thread
  <2> QED BY <2>1, <2>2, <2>3, CarriedOn
<1>8. NothingSaidAfterClosing'
  BY <1>1 DEF NothingSaidAfterClosing, thread
<1> QED BY <1>5, <1>6, <1>7, <1>8

-----------------------------------------------------------------------------
(* The screens, and what goes wrong. *)

\* One screen changes, and its requests at most lose it: what that screen had
\* is away, or is as it was.
LEMMA ScreenKeeps ==
  ASSUME IInv, NEW p \in Parties, NEW s \in Screens, screen' = [screen EXCEPT ![p] = s],
         UNCHANGED <<thread, shown>>, faults' \in 0..MaxFaults,
         inRoom' \in {inRoom, inRoom \ {p}},
         \/ push' = push
         \/ push' = [push EXCEPT ![p] = {}],
         \/ gap' = gap
         \/ gap' = [gap EXCEPT ![p] = {}],
         job' = job \/ job' = Unmounted(p) \/ job' = Unlinked(p),
         \/ /\ UNCHANGED <<job, wire>> /\ s.open = screen[p].open /\ s.link = screen[p].link
            /\ s.held = screen[p].held /\ s.loaded = screen[p].loaded
         \/ s.link # "live" /\ \A k \in Jobs : Awaited(k)' => job[k].party # p
  PROVE  IInv'
<1> USE DEF IInv
<1>1. /\ screen' \in [Parties -> Screens] /\ screen'[p] = s
      /\ \A q \in Parties \ {p} : screen'[q] = screen[q]
  BY OneScreen
<1>2. /\ job' \in [Jobs -> JobRecords]
      /\ \A k \in Jobs : /\ Alike(k)
                         /\ job[k].party # p => job'[k] = job[k]
                         /\ Awaited(k)' => Awaited(k)
  <2>1. CASE job' = job
    BY <2>1 DEF TypeOK, Alike, Awaited
  <2>2. CASE job' = Unmounted(p) \/ job' = Unlinked(p)
    BY <2>2, LosesItsScreen
  <2> QED BY <2>1, <2>2
<1>3. /\ push' \in [Parties -> SUBSET Ranks] /\ gap' \in [Parties -> SUBSET Ranks]
      /\ \A q \in Parties : push'[q] \subseteq push[q]
      /\ \A q \in Parties \ {p} : push'[q] = push[q] /\ gap'[q] = gap[q]
  BY DEF TypeOK
<1>4. inRoom' \subseteq Parties /\ inRoom \ {p} \subseteq inRoom'
  BY DEF TypeOK
<1>5. TypeOK' /\ Committed' = Committed
  BY <1>1, <1>2, <1>3, <1>4, SameThread DEF thread, TypeOK
<1>6. Kept'
  <2>1. \A k \in Jobs : job[k].party = None => job'[k] = job[k]
    BY <1>2, Names DEF Parties
  <2> QED BY <1>2, <1>3, <1>5, <2>1, KeptAlike DEF thread
<1>7. Carried'
  <2>1. \A k \in Jobs : Carries(k)
    <3>1. ASSUME NEW k \in Jobs, Awaited(k)' PROVE Awaited(k) /\ Alike(k)
      BY <1>2, <3>1
    <3> QED BY <3>1 DEF Carries, Alike
  <2>2. \A q \in Parties \ {p} : Smooth(q)
    BY <1>1, <1>3, <1>4 DEF Smooth, thread
  <2>3. Smooth(p) \/ Away(p)
    <3>1. CASE /\ UNCHANGED <<job, wire>> /\ s.open = screen[p].open /\ s.link = screen[p].link
               /\ s.held = screen[p].held /\ s.loaded = screen[p].loaded
      BY <3>1, <1>1 DEF Smooth, thread, wire
    <3>2. CASE s.link # "live" /\ \A k \in Jobs : Awaited(k)' => job[k].party # p
      BY <3>2, <1>1, <1>2 DEF Away, Alike
    <3> QED BY <3>1, <3>2
  <2> QED BY <2>1, <2>2, <2>3, CarriedOn
<1>8. NothingSaidAfterClosing'
  BY DEF NothingSaidAfterClosing, thread
<1> QED BY <1>5, <1>6, <1>7, <1>8

\* A screen that was shut had no join under way.
LEMMA OpenKeeps ==
  ASSUME IInv, NEW p \in Parties, Open(p)
  PROVE  IInv'
<1> DEFINE s == [screen[p] EXCEPT !.open = TRUE]
<1>1. s \in Screens /\ s.link = screen[p].link
  BY DEF IInv, TypeOK, Screens
<1>2. screen' = [screen EXCEPT ![p] = s] /\ UNCHANGED <<thread, job, wire, shown, faults>> /\ ~screen[p].open
  BY DEF Open
<1>3. s.link # "live" /\ \A k \in Jobs : Awaited(k)' => job[k].party # p
  BY <1>1, <1>2, ShutIsAway DEF Awaited
<1> HIDE DEF s
<1> QED BY <1>1, <1>2, <1>3, ScreenKeeps DEF wire, IInv, TypeOK

\* A screen that shuts has none left.
LEMMA CloseKeeps ==
  ASSUME IInv, NEW p \in Parties, Close(p)
  PROVE  IInv'
<1> DEFINE s == [Closed EXCEPT !.link = IF screen[p].link = "off" THEN "off" ELSE "on"]
<1>1. s \in Screens /\ s.link # "live"
  BY DEF Closed, Screens
<1>2. /\ screen' = [screen EXCEPT ![p] = s] /\ job' = Unmounted(p) /\ inRoom' = inRoom \ {p}
      /\ gap' = [gap EXCEPT ![p] = {}] /\ UNCHANGED <<thread, push, shown, faults>>
  BY DEF Close
<1>3. \A k \in Jobs : Awaited(k)' => job[k].party # p
  BY <1>2, LosesItsScreen DEF IInv
<1> HIDE DEF s
<1> QED BY <1>1, <1>2, <1>3, ScreenKeeps DEF IInv, TypeOK

\* A hidden tab holds what it held.
LEMMA ToggleKeeps ==
  ASSUME IInv, NEW p \in Parties, Toggle(p)
  PROVE  IInv'
<1> DEFINE s == [screen[p] EXCEPT !.visible = ~@,
                            !.due = ~screen[p].visible /\ screen[p].link = "live"]
<1>1. /\ s \in Screens /\ s.open = screen[p].open /\ s.link = screen[p].link
      /\ s.held = screen[p].held /\ s.loaded = screen[p].loaded
  BY DEF IInv, TypeOK, Screens
<1>2. screen' = [screen EXCEPT ![p] = s] /\ UNCHANGED <<thread, job, wire, shown, faults>>
  BY DEF Toggle
<1> HIDE DEF s
<1> QED BY <1>1, <1>2, ScreenKeeps DEF wire, IInv, TypeOK

\* A socket that goes takes its room, its pushes and its joins along.
LEMMA DisconnectKeeps ==
  ASSUME IInv, NEW p \in Parties, Disconnect(p)
  PROVE  IInv'
<1> DEFINE s == [screen[p] EXCEPT !.link = "off"]
<1>1. s \in Screens /\ s.link # "live"
  BY DEF IInv, TypeOK, Screens
<1>2. /\ screen' = [screen EXCEPT ![p] = s] /\ job' = Unlinked(p) /\ inRoom' = inRoom \ {p}
      /\ push' = [push EXCEPT ![p] = {}] /\ gap' = [gap EXCEPT ![p] = {}]
      /\ UNCHANGED <<thread, shown>> /\ faults < MaxFaults /\ faults' = faults + 1
  BY DEF Disconnect
<1>3. \A k \in Jobs : Awaited(k)' => job[k].party # p
  BY <1>2, LosesItsScreen DEF IInv
<1>4. faults' \in 0..MaxFaults
  BY <1>2, Names DEF IInv, TypeOK
<1> HIDE DEF s
<1> QED BY <1>1, <1>2, <1>3, <1>4, ScreenKeeps

\* A socket that returns has joined nothing yet.
LEMMA ReconnectKeeps ==
  ASSUME IInv, NEW p \in Parties, Reconnect(p)
  PROVE  IInv'
<1> DEFINE s == [screen[p] EXCEPT !.link = "on"]
<1>1. s \in Screens /\ s.link # "live"
  BY DEF IInv, TypeOK, Screens
<1>2. /\ screen' = [screen EXCEPT ![p] = s] /\ UNCHANGED <<thread, job, wire, shown, faults>>
      /\ screen[p].link = "off"
  BY DEF Reconnect
<1>3. \A k \in Jobs : Awaited(k)' => job[k].party # p
  BY <1>2, ShutIsAway DEF Awaited
<1> HIDE DEF s
<1> QED BY <1>1, <1>2, <1>3, ScreenKeeps DEF wire, IInv, TypeOK

\* A failed join leaves its screen refused; it was the only one that screen had.
LEMMA CallFailsKeeps ==
  ASSUME IInv, NEW j \in Jobs, CallFails(j)
  PROVE  IInv'
<1> USE DEF IInv
<1> DEFINE p == job[j].party
<1>1. /\ Finish(j) /\ faults < MaxFaults /\ faults' = faults + 1
      /\ screen' = IF Awaited(j) THEN [screen EXCEPT ![p].link = "refused"] ELSE screen
      /\ UNCHANGED <<thread, wire, shown>>
  BY DEF CallFails, Awaited
<1>2. /\ job' \in [Jobs -> JobRecords] /\ \A k \in Jobs \ {j} : job'[k] = job[k]
      /\ job'[j] = Idle
  BY <1>1, Finishes
<1>3. ~Awaited(j)' /\ (j \in Pending' => j \in Pending) /\ Protocol(j)' /\ Stamped(j)'
  BY <1>2, Names DEF Protocol, Stamped, Awaited, Pending, Idle
<1>4. faults' \in 0..MaxFaults
  BY <1>1, Names DEF TypeOK
<1>5. /\ screen' \in [Parties -> Screens]
      /\ \A q \in Parties : \/ screen'[q] = screen[q]
                            \/ Awaited(j) /\ q = p /\ screen'[q].link = "refused"
  <2>1. CASE Awaited(j)
    <3>1. p \in Parties
      BY <2>1, JoinsHaveParties
    <3> DEFINE s == [screen[p] EXCEPT !.link = "refused"]
    <3>2. s \in Screens /\ s.link = "refused"
      BY <3>1 DEF TypeOK, Screens
    <3>3. screen' = [screen EXCEPT ![p] = s]
      BY <1>1, <2>1
    <3> HIDE DEF s
    <3> QED BY <2>1, <3>1, <3>2, <3>3 DEF TypeOK
  <2>2. CASE ~Awaited(j)
    BY <1>1, <2>2 DEF TypeOK
  <2> QED BY <2>1, <2>2
<1>6. TypeOK' /\ Committed' = Committed
  BY <1>1, <1>2, <1>4, <1>5, SameThread DEF thread, wire, TypeOK
<1>7. Kept'
  <2>1. Budget'
    BY <1>1, <1>2, <1>3, BudgetMoves DEF Kept, thread
  <2> QED BY <1>1, <1>2, <1>3, <1>6, <2>1, KeptMoves DEF Kept, thread, wire
<1>8. Carried'
  <2>1. \A k \in Jobs : Carries(k)
    BY <1>2, <1>3 DEF Carries, Awaited
  <2>2. ASSUME NEW q \in Parties PROVE Smooth(q) \/ Away(q)
    <3>1. CASE screen'[q] = screen[q]
      BY <3>1, <1>1 DEF Smooth, thread, wire
    <3>2. CASE Awaited(j) /\ q = p /\ screen'[q].link = "refused"
      <4>1. ASSUME NEW k \in Jobs, Awaited(k)' PROVE job'[k].party # q
        <5>1. k # j /\ job'[k] = job[k] /\ Awaited(k)
          BY <1>2, <1>3, <4>1 DEF Awaited
        <5> QED BY <3>2, <5>1 DEF Carried, OneJoin
      <4> QED BY <3>2, <4>1 DEF Away
    <3> QED BY <3>1, <3>2, <1>5
  <2> QED BY <2>1, <2>2, CarriedOn
<1>9. NothingSaidAfterClosing'
  BY <1>1 DEF NothingSaidAfterClosing, thread
<1> QED BY <1>6, <1>7, <1>8, <1>9

\* A request loses its screen and is otherwise as it was.
LEMMA GivenUp ==
  ASSUME TypeOK, NEW j \in Jobs, job' = [job EXCEPT ![j].mounted = FALSE]
  PROVE  /\ job' \in [Jobs -> JobRecords]
         /\ \A k \in Jobs \ {j} : job'[k] = job[k]
         /\ \A k \in Jobs : Alike(k) /\ job'[k].upTo = job[k].upTo
         /\ job'[j].via = job[j].via /\ job'[j].mounted = FALSE
<1>1. job[j] \in JobRecords
  BY DEF TypeOK
<1> DEFINE r == [job[j] EXCEPT !.mounted = FALSE]
<1>2. /\ r \in JobRecords /\ r.pc = job[j].pc /\ r.op = job[j].op /\ r.party = job[j].party
      /\ r.via = job[j].via /\ r.mounted = FALSE /\ r.upTo = job[j].upTo
      /\ r.onTime = job[j].onTime /\ r.at = job[j].at /\ r.found = job[j].found
  BY <1>1 DEF JobRecords
<1>3. job' = [job EXCEPT ![j] = r]
  OBVIOUS
<1> HIDE DEF r
<1>4. /\ job' \in [Jobs -> JobRecords] /\ job'[j] = r /\ \A k \in Jobs \ {j} : job'[k] = job[k]
  BY <1>2, <1>3, OneMoves
<1>5. \A k \in Jobs : Alike(k) /\ job'[k].upTo = job[k].upTo
  BY <1>2, <1>4 DEF Alike
<1> QED BY <1>2, <1>4, <1>5

\* Giving up on an answer takes the screen off the socket if it was for a join.
LEMMA AckTimesOutKeeps ==
  ASSUME IInv, NEW j \in Jobs, AckTimesOut(j)
  PROVE  IInv'
<1> USE DEF IInv
<1> DEFINE p == job[j].party
           lost == job[j].op = "join" /\ (job[j].via = "socket" \/ screen[p].link = "live")
<1>1. /\ job' = [job EXCEPT ![j].mounted = FALSE] /\ faults < MaxFaults /\ faults' = faults + 1
      /\ job[j].mounted /\ UNCHANGED <<thread, wire, shown>>
      /\ screen' = IF lost THEN [screen EXCEPT ![p].link = "refused"] ELSE screen
  BY DEF AckTimesOut
<1>2. /\ job' \in [Jobs -> JobRecords] /\ \A k \in Jobs \ {j} : job'[k] = job[k]
      /\ \A k \in Jobs : Alike(k) /\ job'[j].mounted = FALSE
      /\ job[j].pc # "idle"
  <2>1. job[j].mounted => job[j].pc # "idle"
    BY DEF Kept, Protocol, Idle
  <2> QED BY <1>1, <2>1, GivenUp
<1>3. faults' \in 0..MaxFaults
  BY <1>1, Names DEF TypeOK
<1>4. lost => p \in Parties
  BY <1>2 DEF Kept, Protocol
<1>5. /\ screen' \in [Parties -> Screens]
      /\ \A q \in Parties : \/ screen'[q] = screen[q]
                            \/ lost /\ q = p /\ screen'[q].link = "refused"
  <2>1. CASE lost
    <3> DEFINE s == [screen[p] EXCEPT !.link = "refused"]
    <3>0. screen[p] \in Screens
      BY <2>1, <1>4 DEF TypeOK
    <3>1. s \in Screens /\ s.link = "refused"
      BY <3>0 DEF Screens
    <3>2. screen' = [screen EXCEPT ![p] = s]
      BY <1>1, <2>1
    <3> HIDE DEF s
    <3> QED BY <2>1, <1>4, <3>1, <3>2 DEF TypeOK
  <2>2. CASE ~lost
    BY <1>1, <2>2 DEF TypeOK
  <2> QED BY <2>1, <2>2
<1>6. TypeOK' /\ Committed' = Committed
  BY <1>1, <1>2, <1>3, <1>5, SameThread DEF thread, wire, TypeOK
<1>7. Kept'
  <2>1. \A k \in Jobs : job[k].party = None => job'[k] = job[k]
    <3>1. job[j].party = None => job[j].op = "line"
      BY <1>2, Names DEF Kept, Protocol, Parties
    <3>2. job[j].op = "line" => ~job[j].mounted
      BY DEF Kept, Protocol
    <3> QED BY <1>1, <1>2, <3>1, <3>2
  <2> QED BY <1>1, <1>2, <1>6, <2>1, KeptAlike DEF thread, wire
<1>8. Carried'
  <2>1. \A k \in Jobs : Awaited(k)' => k # j /\ Awaited(k) /\ job'[k] = job[k]
    BY <1>2 DEF Awaited
  <2>2. \A k \in Jobs : Carries(k)
    BY <2>1 DEF Carries
  <2>3. ASSUME NEW q \in Parties PROVE Smooth(q) \/ Away(q)
    <3>1. CASE screen'[q] = screen[q]
      BY <3>1, <1>1 DEF Smooth, thread, wire
    <3>2. CASE lost /\ q = p /\ screen'[q].link = "refused"
      <4>1. ASSUME NEW k \in Jobs, Awaited(k)' PROVE job'[k].party # q
        <5>1. k # j /\ job'[k] = job[k] /\ Awaited(k)
          BY <2>1, <4>1
        <5>2. CASE job[j].via = "socket"
          <6>1. Awaited(j)
            BY <1>1, <3>2, <5>2 DEF Awaited
          <6> QED BY <3>2, <5>1, <6>1 DEF Carried, OneJoin
        <5>3. CASE screen[q].link = "live"
          BY <5>1, <5>3 DEF Carried, JoinMissesTheGap
        <5> QED BY <3>2, <5>2, <5>3
      <4> QED BY <3>2, <4>1 DEF Away
    <3> QED BY <3>1, <3>2, <1>5
  <2> QED BY <2>2, <2>3, CarriedOn
<1>9. NothingSaidAfterClosing'
  BY <1>1 DEF NothingSaidAfterClosing, thread
<1> QED BY <1>6, <1>7, <1>8, <1>9

\* The thread closes under whatever is in flight.
LEMMA CloseThreadKeeps ==
  ASSUME IInv, CloseThread
  PROVE  IInv'
<1> USE DEF IInv
<1>1. /\ status' = "closed"
      /\ UNCHANGED <<begun, row, readTo, job, wire, screen, published, rung, late, shown, faults>>
  BY DEF CloseThread
<1>2. TypeOK' /\ Committed' = Committed
  BY <1>1, SameThread DEF wire, TypeOK
<1>3. Kept'
  BY <1>1, <1>2, KeptAlike DEF Alike, wire
<1>4. Carried'
  BY <1>1, CarriedOn DEF Carries, Awaited, Smooth, wire
<1>5. NothingSaidAfterClosing'
  BY <1>1 DEF NothingSaidAfterClosing
<1> QED BY <1>2, <1>3, <1>4, <1>5

-----------------------------------------------------------------------------

\* Nothing has been said and nobody looks.
LEMMA InitKeeps == Init => IInv
<1> SUFFICES ASSUME Init PROVE IInv
  OBVIOUS
<1>1. Committed = {} /\ Ranks \subseteq Nat /\ 0 \in 0..MaxMessages /\ 0 \in 0..MaxFaults /\ None \in Parties \cup {"system", None}
  BY Names DEF Init, Committed, Ranks
<1>2. Closed \in Screens /\ Closed.link = "on" /\ ~Closed.open
  BY DEF Closed, Screens
<1>3. TypeOK
  BY <1>1, <1>2, IdleType DEF Init, TypeOK
<1>4. \A j \in Jobs : Protocol(j) /\ Stamped(j) /\ ~Awaited(j) /\ j \notin Pending
  BY Names DEF Init, Protocol, Stamped, Awaited, Pending, Idle
<1>5. Budget
  <2>1. Pending = {}
    BY <1>4 DEF Pending
  <2>2. Cardinality(Pending) = 0
    BY <2>1, FS_EmptySet
  <2> QED BY <2>2, Names DEF Budget, Init
<1>6. Kept
  BY <1>1, <1>4, <1>5 DEF Kept, Init
<1>7. Carried
  BY <1>2, <1>4 DEF Carried, JoinMissesTheGap, OneJoin, LiveMissesTheGap, Init
<1> QED BY <1>3, <1>6, <1>7 DEF IInv, NothingSaidAfterClosing, Init

\* A step of somebody else.
LEMMA StutterKeeps ==
  ASSUME IInv, UNCHANGED vars
  PROVE  IInv'
<1>1. IInv' = IInv
  BY DEF vars, IInv, TypeOK, Kept, Carried, NothingSaidAfterClosing, Committed, Protocol, Stamped,
         Budget, Pending, JoinMissesTheGap, OneJoin, LiveMissesTheGap, Awaited
<1> QED BY <1>1

\* A request's types, protocol and timestamps, the budget of these, and what a
\* joining or live screen holds, survive every step of the thread: one lemma each.
THEOREM Inductive == Spec => []IInv
<1>1. IInv /\ [Next]_vars => IInv'
  <2> SUFFICES ASSUME IInv, [Next]_vars PROVE IInv'
    OBVIOUS
  <2>1. CASE UNCHANGED vars
    BY <2>1, StutterKeeps
  <2>2. ASSUME NEW j \in Jobs, JobStep(j) \/ CallFails(j) \/ AckTimesOut(j) \/ PostSystemMessage(j)
        PROVE  IInv'
    BY <2>2, AssertThreadIsOpenKeeps, BeginInsertKeeps, InsertMessageKeeps, NotifyNewMessageKeeps,
       RingKeeps, PublishMessageKeeps, FindMessagesKeeps, BeginMarkKeeps, MarkThreadReadKeeps,
       EnterRoomKeeps, DescribeOtherPartyKeeps, AnswerKeeps, CallFailsKeeps, AckTimesOutKeeps,
       PostSystemMessageKeeps DEF JobStep
  <2>3. ASSUME NEW p \in Parties, NEW j \in Jobs,
               SendMessage(j, p) \/ Load(j, p) \/ Join(j, p) \/ ReportRead(j, p)
        PROVE  IInv'
    BY <2>3, SendMessageKeeps, LoadKeeps, JoinKeeps, ReportReadKeeps
  <2>4. ASSUME NEW p \in Parties, Open(p) \/ Close(p) \/ Toggle(p) \/ Disconnect(p) \/ Reconnect(p)
        PROVE  IInv'
    BY <2>4, OpenKeeps, CloseKeeps, ToggleKeeps, DisconnectKeeps, ReconnectKeeps
  <2>5. ASSUME NEW p \in Parties, NEW m \in push[p], Deliver(p, m) PROVE IInv'
    BY <2>5, DeliverKeeps
  <2>6. CASE CloseThread
    BY <2>6, CloseThreadKeeps
  <2> QED BY <2>1, <2>2, <2>3, <2>4, <2>5, <2>6 DEF Next
<1> QED BY <1>1, InitKeeps, PTL DEF Spec

\* Every variable keeps its type, for any number of requests, messages and faults.
THEOREM TypeCorrect == Spec => []TypeOK
<1>1. IInv => TypeOK
  BY DEF IInv
<1> QED BY <1>1, Inductive, PTL

\* assertThreadIsOpen: no message that was asked for after the thread closed is
\* ever in it, however many requests are in flight when it closes.
THEOREM SaidBeforeClosing == Spec => []NothingSaidAfterClosing
<1>1. IInv => NothingSaidAfterClosing
  BY DEF IInv
<1> QED BY <1>1, Inductive, PTL

\* joinThread and publishMessage: a settled live screen holds everything that was
\* published, but what was published between its join's read and its entering the room and
\* what came before any answer had been applied.
THEOREM LiveMissesOnlyTheGap == Spec => []OnlyTheGapIsMissed
<1>1. IInv => OnlyTheGapIsMissed
  BY DEF IInv, Carried, LiveMissesTheGap, OnlyTheGapIsMissed, Settled
<1> QED BY <1>1, Inductive, PTL

-----------------------------------------------------------------------------
(* The conversation. *)

\* What is said was begun; a letter under way has a rank of its own, which is still
\* blank; and what is about to be marked as read had been begun.
Ranked ==
  /\ \A m \in Committed : m <= begun
  /\ \A j \in Jobs : Letters[j].at # 0 => row[Letters[j].at] = None
  /\ \A j, k \in Jobs : Letters[j].at # 0 /\ Letters[j].at = Letters[k].at => j = k
  /\ \A j \in Jobs : job[j].pc = "saving" => job[j].upTo <= begun

\* Each step keeps the ranks apart and is a step of the conversation or none.
Converses == Ranked' /\ [Promise!Next]_(Promise!conversation)

Penning == {"writing", "inserting"}

\* A request that is not past the check of the thread, or no longer, is no letter.
LEMMA NoLetter ==
  ASSUME NEW j \in Jobs, job[j].pc \notin Penning
  PROVE  Letters[j] = Promise!Down
BY DEF Letters, LetterOf, Penning, Promise!Down

\* What the request of a letter knows.
LEMMA ALetter ==
  ASSUME IInv, NEW j \in Jobs, job[j].pc \in Penning
  PROVE  /\ Letters[j].at = job[j].at
         /\ job[j].op = "line" => Letters[j] = [by |-> "system", at |-> job[j].at]
         /\ job[j].op # "line" => /\ Letters[j] = [by |-> job[j].party, at |-> job[j].at]
                                  /\ job[j].party \in Parties
         /\ job[j].pc = "writing" => job[j].at = 0
         /\ job[j].pc = "inserting" => job[j].at \in 1..begun
<1>1. Protocol(j) /\ Stamped(j)
  BY DEF IInv, Kept
<1>2. Letters[j] = [by |-> IF job[j].op = "line" THEN "system" ELSE job[j].party, at |-> job[j].at]
  BY DEF Letters, LetterOf, Penning
<1>3. job[j].op # "line" => job[j].party \in Parties
  BY <1>1 DEF Protocol, Penning
<1> QED BY <1>1, <1>2, <1>3 DEF Stamped

\* Nobody is no author, so a letter under way is not none.
LEMMA LettersHaveAuthors ==
  ASSUME IInv, NEW j \in Jobs, job[j].pc \in Penning
  PROVE  Letters[j] # Promise!Down
<1> DEFINE by == IF job[j].op = "line" THEN "system" ELSE job[j].party
<1>1. Letters[j] = [by |-> by, at |-> job[j].at]
  BY ALetter
<1>2. by # None
  BY ALetter, Names DEF Parties
<1>3. Letters[j].by # Promise!Down.by
  BY <1>1, <1>2 DEF Promise!Down
<1> QED BY <1>3

\* Requests move, but none that is a letter or becomes one.
LEMMA SameLetters ==
  ASSUME \A k \in Jobs : \/ job'[k] = job[k]
                         \/ Alike(k)
                         \/ job[k].pc \notin Penning /\ job'[k].pc \notin Penning
  PROVE  Letters' = Letters
<1>1. ASSUME NEW k \in Jobs PROVE LetterOf(k)' = LetterOf(k)
  <2>1. CASE job'[k] = job[k]
    BY <2>1 DEF LetterOf
  <2>2. CASE Alike(k)
    BY <2>2 DEF LetterOf, Alike
  <2>3. CASE job[k].pc \notin Penning /\ job'[k].pc \notin Penning
    BY <2>3 DEF LetterOf, Penning
  <2> QED BY <1>1, <2>1, <2>2, <2>3
<1> QED BY <1>1 DEF Letters

\* One letter moves and the others do not.
LEMMA OneLetter ==
  ASSUME NEW j \in Jobs, \A k \in Jobs \ {j} : job'[k] = job[k]
  PROVE  /\ Letters' = [Letters EXCEPT ![j] = Letters'[j]]
         /\ \A k \in Jobs \ {j} : Letters'[k] = Letters[k]
<1>1. \A k \in Jobs \ {j} : LetterOf(k)' = LetterOf(k)
  BY DEF LetterOf
<1> QED BY <1>1 DEF Letters

\* The conversation stands still.
LEMMA Listens ==
  ASSUME IInv, Ranked, UNCHANGED <<status, begun, row, readTo>>, Letters' = Letters,
         \A k \in Jobs : job'[k].pc = "saving" => \/ job[k].pc = "saving" /\ job'[k].upTo = job[k].upTo
                                                  \/ job'[k].upTo = begun
  PROVE  Converses
<1>1. Committed' = Committed
  BY DEF Committed
<1>2. begun \in Nat
  BY Names DEF IInv, TypeOK
<1>3. \A k \in Jobs : job'[k].pc = "saving" => job'[k].upTo <= begun
  BY <1>2 DEF Ranked
<1>4. Ranked'
  BY <1>1, <1>3 DEF Ranked
<1> QED BY <1>4 DEF Converses, Promise!conversation

\* A request goes on that is no letter and is not about to save a mark.
LEMMA Passes ==
  ASSUME IInv, Ranked, NEW j \in Jobs, job[j].pc \notin Penning,
         job'[j].pc \notin Penning \cup {"saving"}, \A k \in Jobs \ {j} : job'[k] = job[k],
         UNCHANGED <<status, begun, row, readTo>>
  PROVE  Converses
<1>1. Letters' = Letters
  BY SameLetters
<1>2. \A k \in Jobs : job'[k].pc = "saving" => job[k].pc = "saving" /\ job'[k].upTo = job[k].upTo
  OBVIOUS
<1> QED BY <1>1, <1>2, Listens

\* Asking is not writing yet.
LEMMA AskingConverses ==
  ASSUME IInv, Ranked, NEW p \in Parties, NEW j \in Jobs,
         SendMessage(j, p) \/ Load(j, p) \/ Join(j, p) \/ ReportRead(j, p)
  PROVE  Converses
<1>1. UNCHANGED <<status, begun, row, readTo>>
  BY DEF SendMessage, Load, Join, ReportRead, thread
<1>2. \E op \in {"send", "list", "join", "read"}, via \in {"http", "socket"},
         pc \in {"asked", "marking"} : Ask(j, op, p, via, pc)
  BY DEF SendMessage, Load, Join, ReportRead
<1>3. /\ \A k \in Jobs \ {j} : job'[k] = job[k]
      /\ job[j].pc = "idle" /\ job'[j].pc \in {"asked", "marking"}
  BY <1>2, Asked DEF IInv
<1> QED BY <1>1, <1>3, Passes DEF Penning

\* Counting, ringing, publishing, reading the thread, entering the room.
LEMMA TellingConverses ==
  ASSUME IInv, Ranked, NEW j \in Jobs,
         NotifyNewMessage(j) \/ Ring(j) \/ PublishMessage(j) \/ EnterRoom(j) \/ DescribeOtherParty(j)
  PROVE  Converses
<1>1. UNCHANGED <<status, begun, row, readTo>>
  BY DEF NotifyNewMessage, Ring, PublishMessage, EnterRoom, DescribeOtherParty, thread
<1>2. /\ job[j].pc \in {"counting", "ringing", "publishing", "entering", "describing"}
      /\ \/ Finish(j)
         \/ \E pc \in {"publishing", "ringing", "describing", "answering"} : Goto(j, pc)
  BY DEF NotifyNewMessage, Ring, PublishMessage, EnterRoom, DescribeOtherParty, At
<1>3. /\ \A k \in Jobs \ {j} : job'[k] = job[k]
      /\ job'[j].pc \in {"idle", "publishing", "ringing", "describing", "answering"}
  <2>1. CASE Finish(j)
    BY <2>1, Finishes DEF IInv, Idle
  <2>2. ASSUME NEW pc \in {"publishing", "ringing", "describing", "answering"}, Goto(j, pc)
        PROVE  /\ \A k \in Jobs \ {j} : job'[k] = job[k]
               /\ job'[j].pc = pc
    BY <2>2, GoesOn DEF IInv
  <2> QED BY <1>2, <2>1, <2>2
<1> QED BY <1>1, <1>2, <1>3, Passes DEF Penning

\* Reading the thread.
LEMMA FindingConverses ==
  ASSUME IInv, Ranked, NEW j \in Jobs, FindMessages(j)
  PROVE  Converses
<1>1. UNCHANGED <<status, begun, row, readTo>> /\ job[j].pc = "asked"
  BY DEF FindMessages, thread, At
<1>2. job \in [Jobs -> JobRecords] /\ job[j] \in JobRecords
  BY DEF IInv, TypeOK
<1>3. /\ \A k \in Jobs \ {j} : job'[k] = job[k]
      /\ job'[j].pc = "marking"
  BY <1>2 DEF FindMessages, JobRecords
<1> QED BY <1>1, <1>3, Passes DEF Penning

\* The watermark about to be saved is the clock's.
LEMMA BeginMarkConverses ==
  ASSUME IInv, Ranked, NEW j \in Jobs, BeginMark(j)
  PROVE  Converses
<1>1. UNCHANGED <<status, begun, row, readTo>> /\ job[j].pc = "marking"
  BY DEF BeginMark, thread, At
<1>2. job \in [Jobs -> JobRecords] /\ job[j] \in JobRecords
  BY DEF IInv, TypeOK
<1>3. /\ \A k \in Jobs \ {j} : job'[k] = job[k]
      /\ job'[j].pc = "saving" /\ job'[j].upTo = begun
  BY <1>2 DEF BeginMark, JobRecords
<1>4. Letters' = Letters
  BY <1>1, <1>3, SameLetters DEF Penning
<1>5. \A k \in Jobs : job'[k].pc = "saving" => \/ job[k].pc = "saving" /\ job'[k].upTo = job[k].upTo
                                               \/ job'[k].upTo = begun
  BY <1>3
<1> QED BY <1>1, <1>4, <1>5, Listens

\* The answer to a request.
LEMMA AnswerConverses ==
  ASSUME IInv, Ranked, NEW j \in Jobs, Answer(j)
  PROVE  Converses
<1>1. UNCHANGED <<status, begun, row, readTo>> /\ job[j].pc = "answering"
  BY DEF Answer, thread, At
<1>2. /\ \A k \in Jobs \ {j} : job'[k] = job[k]
      /\ job'[j].pc \in {"asked", "idle"}
  <2>1. CASE Finish(j)
    BY <2>1, Finishes DEF IInv, Idle
  <2> DEFINE relisted == [Idle EXCEPT !.pc = "asked", !.op = "list",
                                      !.party = job[j].party, !.mounted = job[j].mounted]
  <2>2. relisted.pc = "asked"
    BY DEF Idle
  <2>3. Finish(j) \/ job' = [job EXCEPT ![j] = relisted]
    BY DEF Answer
  <2>4. job \in [Jobs -> JobRecords]
    BY DEF IInv, TypeOK
  <2> HIDE DEF relisted
  <2>5. CASE job' = [job EXCEPT ![j] = relisted]
    BY <2>2, <2>4, <2>5
  <2> QED BY <2>1, <2>3, <2>5
<1> QED BY <1>1, <1>2, Passes DEF Penning

\* What happens to a screen, its socket and what is pushed to it is not said.
LEMMA ScreensConverse ==
  ASSUME IInv, Ranked, NEW p \in Parties,
         \/ Open(p) \/ Close(p) \/ Toggle(p) \/ Disconnect(p) \/ Reconnect(p)
         \/ \E m \in push[p] : Deliver(p, m)
  PROVE  Converses
<1>1. UNCHANGED <<status, begun, row, readTo>>
  BY DEF Open, Close, Toggle, Disconnect, Reconnect, Deliver, thread
<1>2. job' = job \/ job' = Unmounted(p) \/ job' = Unlinked(p)
  BY DEF Open, Close, Toggle, Disconnect, Reconnect, Deliver
<1>3. \A k \in Jobs : job'[k] = job[k] \/ Alike(k)
  BY <1>2, LosesItsScreen DEF IInv
<1>4. Letters' = Letters
  BY <1>3, SameLetters
<1>5. \A k \in Jobs : job'[k].pc = job[k].pc /\ job'[k].upTo = job[k].upTo
  <2> SUFFICES ASSUME NEW k \in Jobs
               PROVE  job'[k].pc = job[k].pc /\ job'[k].upTo = job[k].upTo
    OBVIOUS
  <2>1. job[k] \in JobRecords
    BY DEF IInv, TypeOK
  <2>2. \/ job'[k] = job[k]
        \/ job'[k] = [job[k] EXCEPT !.mounted = FALSE]
        \/ job'[k] = [job[k] EXCEPT !.via = "gone"]
    BY <1>2 DEF Unmounted, Unlinked
  <2> QED BY <2>1, <2>2 DEF JobRecords
<1> QED BY <1>1, <1>4, <1>5, Listens

\* Nor is a request that is no longer waited for.
LEMMA AckTimesOutConverses ==
  ASSUME IInv, Ranked, NEW j \in Jobs, AckTimesOut(j)
  PROVE  Converses
<1>1. UNCHANGED <<status, begun, row, readTo>> /\ job' = [job EXCEPT ![j].mounted = FALSE]
  BY DEF AckTimesOut, thread
<1>2. \A k \in Jobs : Alike(k) /\ job'[k].upTo = job[k].upTo
  BY <1>1, GivenUp DEF IInv
<1>3. Letters' = Letters
  BY <1>2, SameLetters
<1> QED BY <1>1, <1>2, <1>3, Listens DEF Alike

\* The thread closes.
LEMMA CloseThreadConverses ==
  ASSUME IInv, Ranked, CloseThread
  PROVE  Converses
<1>1. UNCHANGED <<begun, row, readTo, job>> /\ status = "open" /\ status' = "closed"
  BY DEF CloseThread
<1>2. Letters' = Letters
  BY <1>1, SameLetters
<1>3. Committed' = Committed
  BY <1>1 DEF Committed
<1>4. Ranked'
  BY <1>1, <1>2, <1>3 DEF Ranked
<1>5. Promise!End
  BY <1>1, <1>2 DEF Promise!End
<1> QED BY <1>4, <1>5 DEF Converses, Promise!Next

-----------------------------------------------------------------------------
(* Letters. *)

\* A letter that has been begun has a rank that has been given out.
LEMMA LettersWereBegun ==
  ASSUME IInv, NEW j \in Jobs
  PROVE  /\ begun \in Nat /\ Letters[j].at \in 0..begun
         /\ Letters[j].at # 0 => job[j].pc = "inserting"
<1>1. begun \in Nat
  BY Names DEF IInv, TypeOK
<1>2. CASE job[j].pc \notin Penning
  BY <1>1, <1>2, NoLetter DEF Promise!Down
<1>3. CASE job[j].pc \in Penning
  <2>1. job[j].pc = "writing" \/ job[j].pc = "inserting"
    BY <1>3 DEF Penning
  <2>2. /\ Letters[j].at = job[j].at
        /\ job[j].pc = "writing" => job[j].at = 0
        /\ job[j].pc = "inserting" => job[j].at \in 1..begun
    BY <1>3, ALetter
  <2> QED BY <1>1, <2>1, <2>2
<1> QED BY <1>1, <1>2, <1>3

\* Somebody is let in, while the thread is open or for the system.
LEMMA LettingIn ==
  ASSUME IInv, Ranked, NEW j \in Jobs, NEW a \in Parties \cup {"system"},
         job[j].pc \notin Penning, \A k \in Jobs \ {j} : job'[k] = job[k],
         job'[j].pc = "writing", Letters'[j] = [by |-> a, at |-> 0],
         status = "open" \/ a = "system", UNCHANGED <<status, begun, row, readTo>>
  PROVE  Converses
<1>1. Letters[j] = Promise!Down
  BY NoLetter
<1>2. /\ Letters' = [Letters EXCEPT ![j] = [by |-> a, at |-> 0]]
      /\ \A k \in Jobs \ {j} : Letters'[k] = Letters[k]
  BY OneLetter
<1>3. Promise!TakeUp(j, a)
  BY <1>1, <1>2 DEF Promise!TakeUp
<1>4. Committed' = Committed
  BY DEF Committed
<1>5. Letters'[j].at = 0
  OBVIOUS
<1>6. Ranked'
  BY <1>2, <1>4, <1>5 DEF Ranked
<1> QED BY <1>3, <1>6 DEF Converses, Promise!Next, Promise!Authors

\* assertThreadIsOpen lets a party in only while the thread is open.
LEMMA AssertThreadIsOpenConverses ==
  ASSUME IInv, Ranked, NEW j \in Jobs, AssertThreadIsOpen(j)
  PROVE  Converses
<1>1. /\ UNCHANGED <<status, begun, row, readTo>>
      /\ job[j].pc = "asked" /\ job[j].op = "send"
  BY DEF AssertThreadIsOpen, thread, At
<1>2. job[j].party \in Parties /\ job[j].at = 0
  BY <1>1 DEF IInv, Kept, Protocol, Stamped
<1>3. CASE status = "open"
  <2>1. Goto(j, "writing")
    BY <1>3 DEF AssertThreadIsOpen, CanMessage
  <2>2. /\ \A k \in Jobs \ {j} : job'[k] = job[k]
        /\ job'[j].pc = "writing" /\ job'[j].op = "send" /\ job'[j].party = job[j].party
        /\ job'[j].at = 0
    BY <1>1, <1>2, <2>1, GoesOn DEF IInv
  <2>3. Letters'[j] = [by |-> job[j].party, at |-> 0]
    BY <2>2 DEF Letters, LetterOf
  <2> QED BY <1>1, <1>2, <1>3, <2>2, <2>3, LettingIn DEF Penning
<1>4. CASE status # "open"
  <2>1. Finish(j)
    BY <1>4 DEF AssertThreadIsOpen, CanMessage
  <2>2. /\ \A k \in Jobs \ {j} : job'[k] = job[k]
        /\ job'[j].pc = "idle"
    BY <2>1, Finishes DEF IInv, Idle
  <2> QED BY <1>1, <2>2, Passes DEF Penning
<1> QED BY <1>3, <1>4

\* A transition's line is let in whenever it comes.
LEMMA PostSystemMessageConverses ==
  ASSUME IInv, Ranked, NEW j \in Jobs, PostSystemMessage(j)
  PROVE  Converses
<1>1. UNCHANGED <<status, begun, row, readTo>>
  BY DEF PostSystemMessage, thread
<1>2. /\ \A k \in Jobs \ {j} : job'[k] = job[k]
      /\ job[j].pc = "idle" /\ job'[j].pc = "writing" /\ job'[j].op = "line" /\ job'[j].at = 0
  BY Posted DEF IInv
<1>3. Letters'[j] = [by |-> "system", at |-> 0]
  BY <1>2 DEF Letters, LetterOf
<1> QED BY <1>1, <1>2, <1>3, LettingIn DEF Penning

\* now(): the next rank, whose place is blank and which no other letter has.
LEMMA BeginInsertConverses ==
  ASSUME IInv, Ranked, NEW j \in Jobs, BeginInsert(j)
  PROVE  Converses
<1>1. UNCHANGED <<status, row, readTo>> /\ job[j].pc = "writing"
  BY DEF BeginInsert, At
<1>2. /\ begun' = begun + 1 /\ begun' \in Ranks
      /\ \A k \in Jobs \ {j} : job'[k] = job[k]
      /\ job'[j].pc = "inserting" /\ job'[j].op = job[j].op /\ job'[j].party = job[j].party
      /\ job'[j].at = begun + 1
  BY TakesOne DEF IInv
<1>3. begun \in Nat
  BY Names DEF IInv, TypeOK
<1> DEFINE by == IF job[j].op = "line" THEN "system" ELSE job[j].party
<1>4. Letters[j] = [by |-> by, at |-> 0] /\ Letters[j] # Promise!Down
  BY <1>1, ALetter, LettersHaveAuthors DEF Penning
<1>5. Letters'[j] = [by |-> by, at |-> begun + 1]
  BY <1>2 DEF Letters, LetterOf
<1>6. /\ Letters' = [Letters EXCEPT ![j] = [by |-> by, at |-> begun + 1]]
      /\ \A k \in Jobs \ {j} : Letters'[k] = Letters[k]
  BY <1>2, <1>5, OneLetter
<1> HIDE DEF by
<1>7. Promise!Begin(j)
  <2>1. Letters' = [Letters EXCEPT ![j].at = begun + 1]
    <3>1. [Letters[j] EXCEPT !.at = begun + 1] = [by |-> by, at |-> begun + 1]
      BY <1>4
    <3> QED BY <1>6, <3>1
  <2>2. Letters[j].at = 0
    BY <1>4
  <2> QED BY <1>1, <1>2, <1>4, <2>1, <2>2 DEF Promise!Begin
<1>8. Ranked'
  <2>1. Committed' = Committed
    BY <1>1 DEF Committed
  <2>2. \A m \in Committed' : m <= begun'
    <3>1. \A m \in Committed : m \in Nat /\ m <= begun
      BY Names DEF Ranked, Committed, Ranks
    <3> QED BY <1>2, <1>3, <2>1, <3>1
  <2>3. row[begun + 1] = None
    BY <1>2, <1>3 DEF Ranked, Committed
  <2>4. \A k \in Jobs : Letters'[k].at # 0 => row'[Letters'[k].at] = None
    BY <1>1, <1>5, <1>6, <2>3 DEF Ranked
  <2>5. \A k \in Jobs \ {j} : Letters'[k].at # begun + 1
    BY <1>3, <1>6, LettersWereBegun
  <2>6. Letters'[j].at = begun + 1
    BY <1>5
  <2>7. \A k, l \in Jobs : Letters'[k].at # 0 /\ Letters'[k].at = Letters'[l].at => k = l
    BY <1>6, <2>5, <2>6 DEF Ranked
  <2>8. \A k \in Jobs : job'[k].pc = "saving" => job'[k].upTo <= begun'
    <3> SUFFICES ASSUME NEW k \in Jobs, job'[k].pc = "saving" PROVE job'[k].upTo <= begun'
      OBVIOUS
    <3>1. k # j /\ job'[k] = job[k] /\ job[k].upTo <= begun
      BY <1>2 DEF Ranked
    <3>2. job[k].upTo \in Nat
      BY Names DEF IInv, TypeOK, JobRecords
    <3> QED BY <1>2, <1>3, <3>1, <3>2
  <2> QED BY <2>2, <2>4, <2>7, <2>8 DEF Ranked
<1> QED BY <1>7, <1>8 DEF Converses, Promise!Next

\* The row appears, in the place that was kept for it.
LEMMA InsertMessageConverses ==
  ASSUME IInv, Ranked, NEW j \in Jobs, InsertMessage(j)
  PROVE  Converses
<1> DEFINE by == IF job[j].op = "line" THEN "system" ELSE job[j].party
           m == job[j].at
<1>1. /\ UNCHANGED <<status, begun, readTo>> /\ job[j].pc = "inserting"
      /\ row' = [row EXCEPT ![m] = by]
      /\ \E pc \in {"publishing", "marking"} : Goto(j, pc)
  BY DEF InsertMessage, At
<1>2. /\ \A k \in Jobs \ {j} : job'[k] = job[k]
      /\ job'[j].pc \in {"publishing", "marking"}
  <2>1. ASSUME NEW pc \in {"publishing", "marking"}, Goto(j, pc)
        PROVE  /\ \A k \in Jobs \ {j} : job'[k] = job[k]
               /\ job'[j].pc = pc
    BY <2>1, GoesOn DEF IInv
  <2> QED BY <1>1, <2>1
<1>3. Letters[j] = [by |-> by, at |-> m] /\ m \in 1..begun
  BY <1>1, ALetter DEF Penning
<1>4. Letters'[j] = Promise!Down
  BY <1>2 DEF Letters, LetterOf, Promise!Down
<1>5. /\ Letters' = [Letters EXCEPT ![j] = Promise!Down]
      /\ \A k \in Jobs \ {j} : Letters'[k] = Letters[k]
  BY <1>2, <1>4, OneLetter
<1> HIDE DEF by, m
<1>6. begun \in Nat /\ m # 0 /\ row[m] = None
  BY <1>3, Names DEF IInv, TypeOK, Ranked
<1>7. Promise!Say(j)
  BY <1>1, <1>3, <1>5, <1>6 DEF Promise!Say
<1>8. Ranked'
  <2>1. row \in [Ranks -> Parties \cup {"system", None}]
    BY DEF IInv, TypeOK
  <2>2. \A n \in Committed' : n <= begun'
    BY <1>1, <1>3, <1>6, <2>1 DEF Ranked, Committed
  <2>3. Letters'[j].at = 0
    BY <1>4 DEF Promise!Down
  <2>4. \A k \in Jobs : Letters'[k].at # 0 => row'[Letters'[k].at] = None
    <3> SUFFICES ASSUME NEW k \in Jobs, Letters'[k].at # 0 PROVE row'[Letters'[k].at] = None
      OBVIOUS
    <3>1. k # j /\ Letters'[k] = Letters[k]
      BY <1>5, <2>3
    <3>2. row[Letters[k].at] = None /\ Letters[k].at # m
      BY <1>3, <3>1 DEF Ranked
    <3> QED BY <1>1, <2>1, <3>1, <3>2
  <2>5. \A k, l \in Jobs : Letters'[k].at # 0 /\ Letters'[k].at = Letters'[l].at => k = l
    BY <1>5, <2>3 DEF Ranked
  <2>6. \A k \in Jobs : job'[k].pc = "saving" => job'[k].upTo <= begun'
    BY <1>1, <1>2 DEF Ranked
  <2> QED BY <2>2, <2>4, <2>5, <2>6 DEF Ranked
<1> QED BY <1>7, <1>8 DEF Converses, Promise!Next

\* A letter whose request fails is never said.
LEMMA CallFailsConverses ==
  ASSUME IInv, Ranked, NEW j \in Jobs, CallFails(j)
  PROVE  Converses
<1>1. UNCHANGED <<status, begun, row, readTo>> /\ Finish(j)
  BY DEF CallFails, thread
<1>2. /\ \A k \in Jobs \ {j} : job'[k] = job[k]
      /\ job'[j].pc = "idle"
  BY <1>1, Finishes DEF IInv, Idle
<1>3. Letters'[j] = Promise!Down
  BY <1>2 DEF Letters, LetterOf, Promise!Down
<1>4. /\ Letters' = [Letters EXCEPT ![j] = Promise!Down]
      /\ \A k \in Jobs \ {j} : Letters'[k] = Letters[k]
  BY <1>2, <1>3, OneLetter
<1>5. Promise!GiveUp(j)
  BY <1>1, <1>4 DEF Promise!GiveUp
<1>6. Committed' = Committed
  BY <1>1 DEF Committed
<1>7. Letters'[j].at = 0
  BY <1>3 DEF Promise!Down
<1>8. Ranked'
  BY <1>1, <1>2, <1>4, <1>6, <1>7 DEF Ranked
<1> QED BY <1>5, <1>8 DEF Converses, Promise!Next

\* The greater of two watermarks: the bookmark moves forward or not at all.
LEMMA MarkThreadReadConverses ==
  ASSUME IInv, Ranked, NEW j \in Jobs, MarkThreadRead(j)
  PROVE  Converses
<1> DEFINE p == job[j].party
           m == job[j].upTo
<1>1. /\ UNCHANGED <<status, begun, row>> /\ job[j].pc = "saving"
      /\ readTo' = [readTo EXCEPT ![p] = Greatest(@, m)]
      /\ Goto(j, AfterMark(job[j].op))
  BY DEF MarkThreadRead, At
<1>2. /\ p \in Parties /\ job[j].op \in {"send", "list", "join", "read"}
  BY <1>1 DEF IInv, Kept, Protocol
<1>3. /\ \A k \in Jobs \ {j} : job'[k] = job[k]
      /\ job'[j].pc \in {"counting", "answering", "entering"}
  <2>1. AfterMark(job[j].op) \in {"counting", "answering", "entering"}
    BY <1>2 DEF AfterMark
  <2>2. ASSUME NEW pc \in {"counting", "answering", "entering"}, Goto(j, pc)
        PROVE  /\ \A k \in Jobs \ {j} : job'[k] = job[k]
               /\ job'[j].pc = pc
    BY <2>2, GoesOn DEF IInv
  <2> QED BY <1>1, <2>1, <2>2
<1>4. Letters' = Letters
  BY <1>1, <1>3, SameLetters DEF Penning
<1>5. /\ m \in 0..MaxMessages /\ m <= begun /\ readTo \in [Parties -> 0..MaxMessages]
  BY <1>1 DEF IInv, TypeOK, JobRecords, Ranked
<1>6. Ranked'
  <2>1. Committed' = Committed
    BY <1>1 DEF Committed
  <2>2. \A k \in Jobs : job'[k].pc = "saving" => job'[k].upTo <= begun'
    BY <1>1, <1>3 DEF Ranked
  <2> QED BY <1>1, <1>4, <2>1, <2>2 DEF Ranked
<1> HIDE DEF p, m
<1>7. CASE m > readTo[p]
  <2>1. m \in Ranks /\ readTo[p] < m
    BY <1>2, <1>5, <1>7, Names DEF Ranks
  <2>2. readTo' = [readTo EXCEPT ![p] = m]
    BY <1>1, <1>7 DEF Greatest
  <2>3. Promise!Read(p, m)
    BY <1>1, <1>4, <1>5, <2>1, <2>2 DEF Promise!Read
  <2> QED BY <1>2, <1>6, <2>1, <2>3 DEF Converses, Promise!Next
<1>8. CASE ~(m > readTo[p])
  <2>1. readTo' = readTo
    BY <1>1, <1>5, <1>8 DEF Greatest
  <2> QED BY <1>1, <1>4, <1>6, <2>1 DEF Converses, Promise!conversation
<1> QED BY <1>7, <1>8

-----------------------------------------------------------------------------

\* Nothing has been said, and no letter is under way.
LEMMA InitConverses == Init => Ranked /\ Promise!Init
<1> SUFFICES ASSUME Init PROVE Ranked /\ Promise!Init
  OBVIOUS
<1>1. Committed = {} /\ begun = 0
  BY DEF Init, Committed
<1>2. \A j \in Jobs : job[j].pc = "idle"
  BY DEF Init, Idle
<1>3. \A j \in Jobs : LetterOf(j) = Promise!Down
  BY <1>2 DEF LetterOf, Promise!Down
<1>4. Letters = [j \in Jobs |-> Promise!Down]
  BY <1>3 DEF Letters
<1>5. \A j \in Jobs : Letters[j].at = 0
  BY <1>4 DEF Promise!Down
<1>6. Ranked
  BY <1>1, <1>2, <1>5 DEF Ranked
<1>7. Promise!Init
  BY <1>4 DEF Init, Promise!Init
<1> QED BY <1>6, <1>7

\* sendMessage, postSystemMessage and markThreadAsRead, with whatever else is in flight
\* or fails, implement the conversation: each message is there once, in the place given
\* to it and from somebody let in while the thread was open, and a watermark moves only
\* forward, to a message that had been begun.
THEOREM ThreadKeepsTheConversation == Spec => KeepsTheConversation
<1>1. Init => Ranked /\ Promise!Init
  BY InitConverses
<1>2. IInv /\ Ranked /\ [Next]_vars => Converses
  <2> SUFFICES ASSUME IInv, Ranked, [Next]_vars PROVE Converses
    OBVIOUS
  <2>1. CASE UNCHANGED vars
    <3>1. UNCHANGED <<status, begun, row, readTo, job>>
      BY <2>1 DEF vars
    <3>2. Letters' = Letters
      BY <3>1, SameLetters
    <3> QED BY <3>1, <3>2, Listens
  <2>2. ASSUME NEW j \in Jobs, JobStep(j) \/ CallFails(j) \/ AckTimesOut(j) \/ PostSystemMessage(j)
        PROVE  Converses
    BY <2>2, AssertThreadIsOpenConverses, BeginInsertConverses, InsertMessageConverses,
       TellingConverses, FindingConverses, BeginMarkConverses, MarkThreadReadConverses,
       AnswerConverses, CallFailsConverses, AckTimesOutConverses, PostSystemMessageConverses DEF JobStep
  <2>3. ASSUME NEW p \in Parties, NEW j \in Jobs,
               SendMessage(j, p) \/ Load(j, p) \/ Join(j, p) \/ ReportRead(j, p)
        PROVE  Converses
    BY <2>3, AskingConverses
  <2>4. ASSUME NEW p \in Parties, \/ Open(p) \/ Close(p) \/ Toggle(p) \/ Disconnect(p) \/ Reconnect(p)
                                  \/ \E m \in push[p] : Deliver(p, m)
        PROVE  Converses
    BY <2>4, ScreensConverse
  <2>5. CASE CloseThread
    BY <2>5, CloseThreadConverses
  <2> QED BY <2>1, <2>2, <2>3, <2>4, <2>5 DEF Next
<1>3. Converses => Ranked' /\ [Promise!Next]_(Promise!conversation)
  BY DEF Converses
<1> QED BY <1>1, <1>2, <1>3, Inductive, PTL DEF Spec, KeepsTheConversation, Promise!Spec
=============================================================================

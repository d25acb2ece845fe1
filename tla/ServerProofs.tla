---------------------------- MODULE ServerProofs ----------------------------
(***************************************************************************)
(* What the parts of one server process promise, for every value of their  *)
(* constants: the drain and the pool, the rate limiter, the typing         *)
(* indicator, presence, the bell's types, the closing of an account, the   *)
(* migrations, and the price of a rental.  Each part has an inductive      *)
(* invariant, <Part>Inv, with a lemma per action; MCServer runs them side  *)
(* by side, so ServerInv is their conjunction.  TypingInv is about who was *)
(* quiet for how long when a key is shown, PresenceInv about what the      *)
(* last emission on the wire says, RateLimitInv counts the hit behind      *)
(* every request that may still fail, and QuoteInv carries the loops of    *)
(* cheapestCombination: of the candidates they have been through none is   *)
(* better than `best`.  That their bounds leave out nothing better is      *)
(* Exchange: a combination outside of them costs more than one inside.     *)
(***************************************************************************)
EXTENDS MCServer, FiniteSetTheorems, TLAPS

\* The first of a sequence, and the rest of it.
LEMMA FirstAndRest ==
  ASSUME NEW S, NEW s \in Seq(S), s # <<>>
  PROVE  /\ 1 \in 1..Len(s) /\ Head(s) = s[1] /\ s[1] \in S
         /\ Tail(s) \in Seq(S) /\ Len(Tail(s)) = Len(s) - 1
         /\ \A i \in 1..Len(Tail(s)) : i + 1 \in 1..Len(s) /\ Tail(s)[i] = s[i + 1]
OBVIOUS

\* A sequence with one more at its end.
LEMMA OneMore ==
  ASSUME NEW S, NEW s \in Seq(S), NEW e \in S
  PROVE  /\ Append(s, e) \in Seq(S) /\ Len(Append(s, e)) = Len(s) + 1
         /\ \A i \in 1..Len(Append(s, e)) : Append(s, e)[i] = IF i = Len(s) + 1 THEN e ELSE s[i]
         /\ Append(s, e) # <<>>
OBVIOUS
-----------------------------------------------------------------------------
\* The process: connections and what they started, the sweep and the pool.

\* Lifecycle: the drain has let every connection go before the pool is touched, and the
\* sockets that are left connected after the signal.
LifecycleInv ==
  /\ L!TypeOK
  /\ server = "drained" => \A c \in Places : link[c] = "none"
  /\ pool # "open" => server = "drained" /\ closers > 0
  /\ signals > 0 => server \notin {"binding", "listening"} /\ \A c \in Places : link[c] # "socket"
  /\ exit = "forced" => signals > 0
  /\ L!ExitIsExplained

\* Nothing has arrived and nobody has signalled.
LEMMA LifecycleInit == L!Init => LifecycleInv
<1> SUFFICES ASSUME L!Init PROVE LifecycleInv
  OBVIOUS
<1> USE ServerAssumption DEF L!Init
<1>0. interval \in BOOLEAN
  OBVIOUS
<1>1. L!TypeOK
  BY <1>0 DEF L!TypeOK, L!Links
<1>2. L!ExitIsExplained
  BY DEF L!ExitIsExplained
<1> QED BY <1>1, <1>2 DEF LifecycleInv

\* A step of one connection or its handler, after which no connection that had gone is
\* there again unless the server still listens.
LEMMA PlaceStep ==
  ASSUME LifecycleInv, NEW c \in Places, exit = "no",
         UNCHANGED <<server, interval, sweep, pool, signals, closers, exit>>,
         NEW l \in L!Links, NEW t \in {"none", "between", "inside"},
         link' = [link EXCEPT ![c] = l], task' = [task EXCEPT ![c] = t],
         refused' \subseteq {"awaited", "gone"}, "awaited" \notin refused',
         server = "drained" => l = "none", signals > 0 => l # "socket"
  PROVE  LifecycleInv'
<1>1. /\ link' \in [Places -> L!Links] /\ task' \in [Places -> {"none", "between", "inside"}]
      /\ link'[c] = l /\ \A d \in Places : d # c => link'[d] = link[d]
  BY DEF LifecycleInv, L!TypeOK
<1>0. interval' \in BOOLEAN
  BY DEF LifecycleInv, L!TypeOK
<1>2. L!TypeOK'
  BY <1>0, <1>1 DEF LifecycleInv, L!TypeOK
<1>3. L!ExitIsExplained'
  BY DEF L!ExitIsExplained
<1>4. /\ server' = "drained" => \A d \in Places : link'[d] = "none"
      /\ signals' > 0 => \A d \in Places : link'[d] # "socket"
  BY <1>1 DEF LifecycleInv
<1> QED BY <1>2, <1>3, <1>4 DEF LifecycleInv

\* Connections come and go, and handlers run.
LEMMA WorkStep ==
  ASSUME LifecycleInv, NEW c \in Places,
         \/ L!Connect(c, "http") \/ L!Connect(c, "handshake") \/ L!Ask(c)
         \/ L!TakeClient(c) \/ L!ReleaseClient(c)
         \/ L!HandlerEnds(c) \/ L!HandshakeEnds(c) \/ L!HangUp(c)
  PROVE  LifecycleInv'
<1>1. /\ link \in [Places -> L!Links] /\ link[c] \in L!Links
      /\ task \in [Places -> {"none", "between", "inside"}] /\ task[c] \in {"none", "between", "inside"}
      /\ refused \subseteq {"awaited", "gone"} /\ "awaited" \notin refused
      /\ link = [link EXCEPT ![c] = link[c]] /\ task = [task EXCEPT ![c] = task[c]]
  BY DEF LifecycleInv, L!TypeOK, L!ExitIsExplained
<1>2. server = "drained" => link[c] = "none"
  BY DEF LifecycleInv
<1>3. signals > 0 => link[c] # "socket" /\ server \notin {"binding", "listening"}
  BY DEF LifecycleInv
<1>4. signals \in Nat
  BY ServerAssumption DEF LifecycleInv, L!TypeOK
<1>5. CASE L!Connect(c, "http") \/ L!Connect(c, "handshake")
  <2>1. PICK kind \in {"http", "handshake"} : L!Connect(c, kind)
    BY <1>5
  <2>2. /\ exit = "no" /\ server # "drained" /\ kind \in L!Links
        /\ link' = [link EXCEPT ![c] = kind] /\ task' = [task EXCEPT ![c] = "between"]
        /\ UNCHANGED <<server, interval, sweep, pool, signals, closers, exit>> /\ refused' = refused
    BY <2>1 DEF L!Connect, L!Accepting, L!Running, L!Links
  <2> QED BY <1>1, <2>2, PlaceStep
<1>6. CASE L!Ask(c)
  <2>1. /\ exit = "no" /\ link' = link /\ task' = [task EXCEPT ![c] = "between"]
        /\ UNCHANGED <<server, interval, sweep, pool, signals, closers, exit>> /\ refused' = refused
    BY <1>6 DEF L!Ask, L!Running
  <2> QED BY <1>1, <1>2, <1>3, <2>1, PlaceStep
<1>7. CASE L!TakeClient(c)
  <2>1. /\ exit = "no" /\ link' = link
        /\ UNCHANGED <<server, interval, sweep, pool, signals, closers, exit>>
    BY <1>7 DEF L!TakeClient, L!Running
  <2>2. PICK t \in {"none", "inside"} : task' = [task EXCEPT ![c] = t]
    BY <1>7 DEF L!TakeClient
  <2>3. refused' \subseteq {"awaited", "gone"} /\ "awaited" \notin refused'
    <3>1. CASE pool = "open"
      BY <1>1, <1>7, <3>1 DEF L!TakeClient
    <3>2. CASE pool # "open"
      <4>1. link[c] = "none"
        BY <1>2, <3>2 DEF LifecycleInv
      <4>2. refused' = refused \cup {IF link[c] = "none" THEN "gone" ELSE "awaited"}
        BY <1>7, <3>2 DEF L!TakeClient
      <4>3. refused' = refused \cup {"gone"}
        BY <4>1, <4>2
      <4> QED BY <1>1, <4>3
    <3> QED BY <3>1, <3>2
  <2> QED BY <1>1, <1>2, <1>3, <2>1, <2>2, <2>3, PlaceStep
<1>8. CASE L!ReleaseClient(c) \/ L!HandlerEnds(c)
  <2>1. /\ exit = "no" /\ link' = link /\ refused' = refused
        /\ UNCHANGED <<server, interval, sweep, pool, signals, closers, exit>>
    BY <1>8 DEF L!ReleaseClient, L!HandlerEnds, L!Running
  <2>2. PICK t \in {"none", "between"} : task' = [task EXCEPT ![c] = t]
    BY <1>8 DEF L!ReleaseClient, L!HandlerEnds
  <2> QED BY <1>1, <1>2, <1>3, <2>1, <2>2, PlaceStep
<1>9. CASE L!HandshakeEnds(c)
  <2>1. /\ exit = "no" /\ refused' = refused /\ task' = [task EXCEPT ![c] = "none"]
        /\ UNCHANGED <<server, interval, sweep, pool, signals, closers, exit>> /\ link[c] = "handshake"
    BY <1>9 DEF L!HandshakeEnds, L!Running
  <2>2. \/ link' = [link EXCEPT ![c] = IF signals = 0 THEN "socket" ELSE "straggler"]
        \/ link' = link
    BY <1>9 DEF L!HandshakeEnds
  <2>3. PICK l \in L!Links : link' = [link EXCEPT ![c] = l] /\ (signals > 0 => l # "socket")
    <3>1. CASE signals = 0
      BY <1>1, <1>3, <2>2, <3>1 DEF L!Links
    <3>2. CASE signals # 0
      BY <1>1, <1>3, <2>2, <3>2 DEF L!Links
    <3> QED BY <3>1, <3>2
  <2>4. server # "drained"
    BY <1>2, <2>1
  <2> QED BY <1>1, <2>1, <2>3, <2>4, PlaceStep
<1>10. CASE L!HangUp(c)
  <2>1. /\ exit = "no" /\ refused' = refused /\ link' = [link EXCEPT ![c] = "none"]
        /\ UNCHANGED <<server, interval, sweep, pool, signals, closers, exit>> /\ L!Stamped({c})
    BY <1>10 DEF L!HangUp, L!Running
  <2>2. PICK last \in SUBSET {c} : task' = [d \in Places |-> IF d \in last THEN "between" ELSE task[d]]
    BY <2>1 DEF L!Stamped
  <2>3. PICK t \in {"none", "between", "inside"} : task' = [task EXCEPT ![c] = t]
    <3>1. CASE c \in last
      BY <1>1, <2>2, <3>1
    <3>2. CASE c \notin last
      BY <1>1, <2>2, <3>2
    <3> QED BY <3>1, <3>2
  <2>4. "none" \in L!Links
    BY DEF L!Links
  <2> QED BY <1>1, <2>1, <2>3, <2>4, PlaceStep
<1> QED BY <1>5, <1>6, <1>7, <1>8, <1>9, <1>10

\* A signal drops the sockets that are there.
LEMMA ShutdownStep == ASSUME LifecycleInv, L!Shutdown PROVE LifecycleInv'
<1>1. /\ exit = "no" /\ signals < MaxSignals /\ signals' = signals + 1 /\ interval' = FALSE
      /\ server' = IF server = "drained" THEN server ELSE "closing"
      /\ UNCHANGED <<sweep, pool, closers, refused, exit>> /\ L!Stamped(Places)
  BY DEF L!Shutdown, L!StopScheduler, L!Running
<1>2. link' = [c \in Places |-> CASE L!OnSocket(c) -> "dropped"
                                  [] L!Idle(c) -> "none"
                                  [] OTHER -> link[c]]
  BY DEF L!Shutdown, L!StopSockets
<1>3. PICK last \in SUBSET Places :
        task' = [c \in Places |-> IF c \in last THEN "between" ELSE task[c]]
  BY <1>1 DEF L!Stamped
<1>4. task' \in [Places -> {"none", "between", "inside"}]
  BY <1>3 DEF LifecycleInv, L!TypeOK
<1>5. link' \in [Places -> L!Links] /\ \A c \in Places : link'[c] # "socket"
  BY <1>2 DEF LifecycleInv, L!TypeOK, L!Links, L!OnSocket
<1>6. server = "drained" => \A c \in Places : link'[c] = "none"
  BY <1>2 DEF LifecycleInv, L!OnSocket
<1>0. interval' \in BOOLEAN
  BY <1>1, Zenon
<1>7. L!TypeOK'
  BY <1>0, <1>1, <1>4, <1>5, ServerAssumption DEF LifecycleInv, L!TypeOK
<1>8. L!ExitIsExplained'
  BY <1>1 DEF LifecycleInv, L!ExitIsExplained
<1>9. pool' # "open" => server' = "drained" /\ closers' > 0
  BY <1>1 DEF LifecycleInv
<1> QED BY <1>1, <1>5, <1>6, <1>7, <1>8, <1>9 DEF LifecycleInv

\* The pool ends, or time is up.
LEMMA ExitStep == ASSUME LifecycleInv, L!PoolEnds \/ L!ForcedExit PROVE LifecycleInv'
<1>1. /\ exit = "no" /\ UNCHANGED <<server, link, task, interval, sweep, signals, closers, refused>>
      /\ \/ pool = "ending" /\ pool' = "ended" /\ exit' = "clean" /\ ~L!ClientsOut
         \/ signals > 0 /\ pool' = pool /\ exit' = "forced"
  BY DEF L!PoolEnds, L!ForcedExit, L!Running, L!work
<1>0. interval' \in BOOLEAN
  BY <1>1 DEF LifecycleInv, L!TypeOK
<1>2. L!TypeOK'
  BY <1>0, <1>1 DEF LifecycleInv, L!TypeOK
<1>3. exit' = "clean" => ~L!Held'
  <2> SUFFICES ASSUME exit' = "clean" PROVE ~L!Held'
    OBVIOUS
  <2>1. pool = "ending" /\ ~L!ClientsOut
    BY <1>1
  <2>2. ~L!ClientsOut' /\ \A c \in Places : link'[c] = "none"
    BY <1>1, <2>1 DEF L!ClientsOut, LifecycleInv
  <2> QED BY <2>2 DEF L!Held
<1>4. exit' = "forced" => signals' > 0 /\ \A c \in Places : link'[c] # "socket"
  BY <1>1 DEF LifecycleInv
<1>5. L!ExitIsExplained'
  BY <1>1, <1>3, <1>4 DEF LifecycleInv, L!ExitIsExplained
<1> QED BY <1>1, <1>2, <1>4, <1>5 DEF LifecycleInv

\* Every step of the process keeps it.
LEMMA LifecycleStep == LifecycleInv /\ L!Next => LifecycleInv'
<1> SUFFICES ASSUME LifecycleInv, L!Next PROVE LifecycleInv'
  OBVIOUS
<1> USE ServerAssumption DEF LifecycleInv, L!TypeOK, L!ExitIsExplained, L!Running, L!work
<1>1. CASE L!Listening
  BY <1>1 DEF L!Listening
<1>2. CASE L!Tick \/ L!SweepStep
  BY <1>2 DEF L!Tick, L!SweepStep
<1>3. CASE L!Drained
  BY <1>3 DEF L!Drained
<1>4. CASE L!CloseDatabase
  BY <1>4 DEF L!CloseDatabase
<1> QED BY <1>1, <1>2, <1>3, <1>4, WorkStep, ShutdownStep, ExitStep DEF L!Next

\* It is about the process alone.
LEMMA LifecycleStutter == LifecycleInv /\ UNCHANGED life => LifecycleInv'
BY DEF life, LifecycleInv, L!TypeOK, L!ExitIsExplained, L!Held, L!ClientsOut

\* The invariant says it of every exit.
LEMMA ExitFollows == LifecycleInv => ExitIsExplained
BY DEF LifecycleInv, ExitIsExplained
-----------------------------------------------------------------------------
\* The rate limiter.

\* The requests being handled, by the window they began in.
InWindow == {s \in Slots : handling[s] # R!Free /\ handling[s].window = reset}
Earlier == {s \in Slots : handling[s] # R!Free /\ handling[s].window # reset}

RateLimitTypes ==
  /\ now \in 0..MaxTime /\ hits \in 0..(Max + MaxRefused) /\ reset \in 0..(MaxTime + Span)
  /\ handling \in [Slots -> R!Request \cup {R!Free}]
  /\ failures \in Nat /\ refunds \in Nat

\* A hit of this window stands behind every failure and every request that may
\* still fail, but for the refunds; each refund used up a slot of an earlier one.
RateLimitInv ==
  /\ RateLimitTypes
  /\ \A s \in Slots : handling[s].window <= reset
  /\ failures + Cardinality(InWindow) <= hits + refunds
  /\ failures + Cardinality(InWindow) <= Max + refunds
  /\ refunds + Cardinality(Earlier) <= Cardinality(Slots)

\* The limiter's constants.
LEMMA RateLimitBounds ==
  /\ Max \in Nat /\ Span \in Nat /\ Span > 0 /\ MaxRefused \in Nat /\ MaxTime \in Nat
  /\ IsFiniteSet(Slots) /\ Cardinality(Slots) \in Nat
BY ServerAssumption, FS_CardinalityType

\* Any choice of slots is a finite set, no larger than all of them.
LEMMA SomeSlots ==
  ASSUME NEW S \in SUBSET Slots
  PROVE  IsFiniteSet(S) /\ Cardinality(S) \in Nat /\ Cardinality(S) <= Cardinality(Slots)
BY RateLimitBounds, FS_Subset, FS_CardinalityType

\* One slot more, or one less.
LEMMA OneSlot ==
  ASSUME NEW S \in SUBSET Slots, NEW s \in Slots
  PROVE  /\ s \notin S => Cardinality(S \cup {s}) = Cardinality(S) + 1
         /\ s \in S => Cardinality(S \ {s}) = Cardinality(S) - 1
BY SomeSlots, FS_AddElement, FS_RemoveElement

\* What is handled is in this window or an earlier one; a free slot in neither.
LEMMA SlotKinds ==
  /\ InWindow \in SUBSET Slots /\ Earlier \in SUBSET Slots
  /\ \A s \in Slots : handling[s] # R!Free <=> s \in InWindow \cup Earlier
  /\ InWindow \cap Earlier = {}
BY DEF InWindow, Earlier

\* Nothing has been asked for.
LEMMA RateLimitInit == R!Init => RateLimitInv
<1> SUFFICES ASSUME R!Init PROVE RateLimitInv
  OBVIOUS
<1>1. InWindow = {} /\ Earlier = {} /\ \A s \in Slots : handling[s].window = 0
  BY DEF R!Init, InWindow, Earlier, R!Free
<1>2. RateLimitTypes
  BY RateLimitBounds DEF R!Init, RateLimitTypes
<1> QED BY <1>1, <1>2, RateLimitBounds, FS_EmptySet DEF R!Init, RateLimitInv

\* A new window: nothing that was being handled began in it.
LEMMA NewWindow ==
  ASSUME RateLimitInv, R!Expired, reset' = now + Span,
         NEW s \in Slots, handling[s] # R!Free
  PROVE  handling[s].window < reset' /\ handling[s].window # reset'
<1>1. handling[s].window \in Nat
  BY RateLimitBounds DEF RateLimitInv, RateLimitTypes, R!Request, R!Free
<1> QED BY <1>1, RateLimitBounds DEF RateLimitInv, RateLimitTypes, R!Expired

\* A request is let through: its slot joins those of the window it is counted in.
LEMMA LimitStep ==
  ASSUME RateLimitInv, NEW s \in Slots, NEW route \in Routes, R!Limit(s, route)
  PROVE  RateLimitInv'
<1> USE RateLimitBounds
<1> DEFINE r == [route |-> route, window |-> reset']
<1>1. /\ handling[s] = R!Free /\ R!Hits <= Max /\ R!Increment
      /\ handling' = [handling EXCEPT ![s] = r] /\ now' = now
  BY DEF R!Limit
<1>2. RateLimitTypes /\ handling \in [Slots -> R!Request \cup {R!Free}]
  BY DEF RateLimitInv, RateLimitTypes
<1>3. /\ reset' \in 0..(MaxTime + Span) /\ reset' > 0
      /\ hits' \in 0..Max /\ failures' \in Nat /\ refunds' \in Nat
  BY <1>1, <1>2 DEF R!Increment, R!Hits, R!Expired, RateLimitTypes
<1>4. r \in R!Request /\ r # R!Free /\ r.window = reset'
  BY <1>3 DEF R!Request, R!Free
<1> HIDE DEF r
<1>5. handling'[s] = r /\ \A t \in Slots \ {s} : handling'[t] = handling[t]
  BY <1>1, <1>2
<1>6. RateLimitTypes'
  BY <1>1, <1>2, <1>3, <1>4 DEF RateLimitTypes
<1>7. \A t \in Slots : handling'[t].window <= reset'
  <2> TAKE t \in Slots
  <2>1. handling[t].window <= reset /\ reset <= reset'
    BY <1>1, <1>2 DEF RateLimitInv, RateLimitTypes, R!Increment, R!Expired
  <2>2. CASE t = s
    BY <2>2, <1>3, <1>4, <1>5
  <2>3. CASE t # s
    <3>1. handling[t].window \in Nat
      BY <1>2 DEF R!Request, R!Free
    <3> QED BY <2>1, <2>3, <3>1, <1>2, <1>3, <1>5 DEF RateLimitTypes
  <2> QED BY <2>2, <2>3
<1>8. CASE R!Expired
  <2>1. reset' = now + Span /\ hits' = 1 /\ failures' = 0 /\ refunds' = 0 /\ 1 <= Max
    BY <1>1, <1>8 DEF R!Increment, R!Hits
  <2>2. InWindow' = {s}
    BY <2>1, <1>4, <1>5, <1>8, NewWindow DEF InWindow
  <2>3. Earlier' \in SUBSET Slots
    BY DEF Earlier
  <2>4. Cardinality(InWindow') = 1 /\ Cardinality(Earlier') <= Cardinality(Slots)
        /\ Cardinality(Earlier') \in Nat
    BY <2>2, <2>3, SomeSlots, FS_Singleton
  <2> QED BY <1>6, <1>7, <2>1, <2>4 DEF RateLimitInv
<1>9. CASE ~R!Expired
  <2>1. reset' = reset /\ hits' = hits + 1 /\ failures' = failures /\ refunds' = refunds /\ hits + 1 <= Max
    BY <1>1, <1>9 DEF R!Increment, R!Hits
  <2>2. InWindow' = InWindow \cup {s} /\ Earlier' = Earlier /\ s \notin InWindow
    BY <2>1, <1>1, <1>4, <1>5 DEF InWindow, Earlier
  <2>3. /\ Cardinality(InWindow') = Cardinality(InWindow) + 1
        /\ Cardinality(Earlier') = Cardinality(Earlier)
        /\ Cardinality(InWindow) \in Nat
    BY <2>2, SlotKinds, SomeSlots, OneSlot
  <2> QED BY <1>2, <1>6, <1>7, <2>1, <2>3 DEF RateLimitInv, RateLimitTypes
<1> QED BY <1>8, <1>9

\* A request is refused: counted, and nothing else.
LEMMA RefuseStep ==
  ASSUME RateLimitInv, R!Refuse
  PROVE  RateLimitInv'
<1> USE RateLimitBounds
<1>1. /\ R!Hits <= Max + MaxRefused /\ R!Increment /\ now' = now /\ handling' = handling
  BY DEF R!Refuse
<1>2. RateLimitTypes
  BY DEF RateLimitInv
<1>3. RateLimitTypes' /\ reset <= reset'
  BY <1>1, <1>2 DEF R!Increment, R!Hits, R!Expired, RateLimitTypes
<1>4. \A t \in Slots : handling'[t].window <= reset'
  <2> TAKE t \in Slots
  <2>1. handling[t].window <= reset /\ handling[t].window \in Nat
    BY <1>2 DEF RateLimitInv, RateLimitTypes, R!Request, R!Free
  <2> QED BY <2>1, <1>1, <1>2, <1>3 DEF RateLimitTypes
<1>5. CASE R!Expired
  <2>1. reset' = now + Span /\ hits' = 1 /\ failures' = 0 /\ refunds' = 0
    BY <1>1, <1>5 DEF R!Increment, R!Hits
  <2>2. InWindow' = {}
    BY <2>1, <1>1, <1>5, NewWindow DEF InWindow
  <2>3. Earlier' \in SUBSET Slots
    BY DEF Earlier
  <2>4. Cardinality(InWindow') = 0 /\ Cardinality(Earlier') <= Cardinality(Slots)
        /\ Cardinality(Earlier') \in Nat
    BY <2>2, <2>3, SomeSlots, FS_EmptySet
  <2> QED BY <1>3, <1>4, <2>1, <2>4 DEF RateLimitInv
<1>6. CASE ~R!Expired
  <2>1. reset' = reset /\ hits' = hits + 1 /\ failures' = failures /\ refunds' = refunds
    BY <1>1, <1>6 DEF R!Increment, R!Hits
  <2>2. InWindow' = InWindow /\ Earlier' = Earlier
    BY <2>1, <1>1 DEF InWindow, Earlier
  <2>3. Cardinality(InWindow) \in Nat
    BY SlotKinds, SomeSlots
  <2> QED BY <1>2, <1>3, <1>4, <2>1, <2>2, <2>3 DEF RateLimitInv, RateLimitTypes
<1> QED BY <1>5, <1>6

\* A slot that is freed leaves the requests of its window.
LEMMA FreeSlot ==
  ASSUME RateLimitInv, NEW s \in Slots, handling[s] # R!Free, reset' = reset,
         handling' = [handling EXCEPT ![s] = R!Free]
  PROVE  /\ handling' \in [Slots -> R!Request \cup {R!Free}]
         /\ \A t \in Slots : handling'[t].window <= reset'
         /\ Cardinality(InWindow) \in Nat /\ Cardinality(Earlier) \in Nat
         /\ handling[s].window = reset =>
              Cardinality(InWindow') = Cardinality(InWindow) - 1 /\ Earlier' = Earlier
         /\ handling[s].window # reset =>
              InWindow' = InWindow /\ Cardinality(Earlier') = Cardinality(Earlier) - 1
<1>1. handling \in [Slots -> R!Request \cup {R!Free}] /\ reset \in Nat
  BY RateLimitBounds DEF RateLimitInv, RateLimitTypes
<1>2. handling'[s] = R!Free /\ \A t \in Slots \ {s} : handling'[t] = handling[t]
  BY <1>1
<1>3. \A t \in Slots : handling'[t].window <= reset'
  BY <1>1, <1>2 DEF RateLimitInv, R!Free
<1>4. handling[s].window = reset => s \in InWindow /\ InWindow' = InWindow \ {s} /\ Earlier' = Earlier
  BY <1>2 DEF InWindow, Earlier
<1>5. handling[s].window # reset => s \in Earlier /\ Earlier' = Earlier \ {s} /\ InWindow' = InWindow
  BY <1>2 DEF InWindow, Earlier
<1> QED BY <1>1, <1>3, <1>4, <1>5, SlotKinds, SomeSlots, OneSlot

\* A wrong guess: a request of this window becomes a failure of it.
LEMMA FailStep ==
  ASSUME RateLimitInv, NEW s \in Slots, R!Fail(s)
  PROVE  RateLimitInv'
<1>1. /\ handling[s] # R!Free /\ handling' = [handling EXCEPT ![s] = R!Free]
      /\ failures' = IF handling[s].window = reset THEN failures + 1 ELSE failures
      /\ now' = now /\ hits' = hits /\ reset' = reset /\ refunds' = refunds
  BY DEF R!Fail
<1>2. RateLimitTypes'
  BY <1>1, FreeSlot DEF RateLimitInv, RateLimitTypes
<1>3. /\ \A t \in Slots : handling'[t].window <= reset'
      /\ Cardinality(InWindow) \in Nat /\ Cardinality(Earlier) \in Nat
  BY <1>1, FreeSlot
<1>4. CASE handling[s].window = reset
  <2>1. Cardinality(InWindow') = Cardinality(InWindow) - 1 /\ Earlier' = Earlier
    BY <1>1, <1>4, FreeSlot
  <2> QED BY <1>1, <1>2, <1>3, <1>4, <2>1, RateLimitBounds DEF RateLimitInv, RateLimitTypes
<1>5. CASE handling[s].window # reset
  <2>1. InWindow' = InWindow /\ Cardinality(Earlier') = Cardinality(Earlier) - 1
    BY <1>1, <1>5, FreeSlot
  <2> QED BY <1>1, <1>2, <1>3, <1>5, <2>1, RateLimitBounds DEF RateLimitInv, RateLimitTypes
<1> QED BY <1>4, <1>5

\* A success takes its hit back: its own, or one of another window's.
LEMMA SucceedStep ==
  ASSUME RateLimitInv, NEW s \in Slots, R!Succeed(s)
  PROVE  RateLimitInv'
<1>1. /\ handling[s] # R!Free /\ handling' = [handling EXCEPT ![s] = R!Free]
      /\ hits' = hits \/ (hits > 0 /\ hits' = hits - 1)
      /\ refunds' = IF handling[s].window # reset /\ hits' # hits THEN refunds + 1 ELSE refunds
      /\ now' = now /\ reset' = reset /\ failures' = failures
  BY DEF R!Succeed, R!Decrement
<1>2. RateLimitTypes'
  BY <1>1, FreeSlot, RateLimitBounds DEF RateLimitInv, RateLimitTypes
<1>3. /\ \A t \in Slots : handling'[t].window <= reset'
      /\ Cardinality(InWindow) \in Nat /\ Cardinality(Earlier) \in Nat
  BY <1>1, FreeSlot
<1>4. CASE handling[s].window = reset
  <2>1. Cardinality(InWindow') = Cardinality(InWindow) - 1 /\ Earlier' = Earlier
    BY <1>1, <1>4, FreeSlot
  <2> QED BY <1>1, <1>2, <1>3, <1>4, <2>1, RateLimitBounds DEF RateLimitInv, RateLimitTypes
<1>5. CASE handling[s].window # reset
  <2>1. InWindow' = InWindow /\ Cardinality(Earlier') = Cardinality(Earlier) - 1
    BY <1>1, <1>5, FreeSlot
  <2> QED BY <1>1, <1>2, <1>3, <1>5, <2>1, RateLimitBounds DEF RateLimitInv, RateLimitTypes
<1> QED BY <1>4, <1>5

\* Every step of the limiter keeps the invariant.
LEMMA RateLimitStep == RateLimitInv /\ R!Next => RateLimitInv'
<1> SUFFICES ASSUME RateLimitInv, R!Next PROVE RateLimitInv'
  OBVIOUS
<1>1. CASE R!Tick
  BY <1>1, RateLimitBounds DEF R!Tick, RateLimitInv, RateLimitTypes, InWindow, Earlier
<1>2. CASE R!Restart
  <2>1. InWindow' = {} /\ Earlier' = {} /\ \A s \in Slots : handling'[s].window = 0
    BY <1>2 DEF R!Restart, InWindow, Earlier, R!Free
  <2>2. RateLimitTypes'
    BY <1>2, RateLimitBounds DEF R!Restart, RateLimitTypes, RateLimitInv
  <2> QED BY <1>2, <2>1, <2>2, RateLimitBounds, FS_EmptySet DEF R!Restart, RateLimitInv
<1> QED BY <1>1, <1>2, LimitStep, RefuseStep, FailStep, SucceedStep DEF R!Next

\* It is about the limiter alone.
LEMMA RateLimitStutter == RateLimitInv /\ UNCHANGED limiter => RateLimitInv'
BY DEF limiter, RateLimitInv, RateLimitTypes, InWindow, Earlier

\* An instance counts as we do.
LEMMA SameCount == ASSUME NEW S PROVE R!Cardinality(S) = Cardinality(S)
BY DEF R!Cardinality, Cardinality

\* The invariant gives the module's own types.
LEMMA RateLimitTypeCorrect == RateLimitInv => R!TypeOK
<1>1. Cardinality(InWindow) \in Nat /\ Cardinality(Earlier) \in Nat
  BY SlotKinds, SomeSlots
<1> SUFFICES ASSUME RateLimitInv PROVE R!TypeOK
  OBVIOUS
<1>2. RateLimitTypes
  BY DEF RateLimitInv
<1>3. refunds \in 0..Cardinality(Slots)
  BY <1>1, <1>2, RateLimitBounds DEF RateLimitInv, RateLimitTypes
<1>4. failures \in 0..(Max + Cardinality(Slots))
  BY <1>1, <1>2, <1>3, RateLimitBounds DEF RateLimitInv, RateLimitTypes
<1> QED BY <1>2, <1>3, <1>4, SameCount DEF RateLimitTypes, R!TypeOK

\* The requests it counts are those in the window.
LEMMA CapFollows == RateLimitInv => GuessesAreCapped
<1>1. {s \in Slots : handling[s] # R!Free /\ handling[s].window = reset} = InWindow
  BY DEF InWindow
<1> QED BY <1>1, SameCount DEF RateLimitInv, GuessesAreCapped, R!GuessesAreCapped
-----------------------------------------------------------------------------
\* The typing indicator.

\* Only a key that was just pressed is announced, and what is shown of it goes
\* out before the typist has been quiet for longer than the expiry.
TypingInv ==
  /\ T!TypeOK
  /\ \A i \in 1..Len(relayed) : relayed[i] => quiet = 0
  /\ shown => expires > 0 /\ quiet + expires <= Expiry

\* The timers' lengths and the limits.
LEMMA TypingBounds ==
  /\ IdleAfter \in Nat /\ IdleAfter > 0 /\ Expiry \in Nat /\ Expiry > 0
  /\ SocketLimit \in Nat /\ SocketLimit > 0 /\ Window \in Nat /\ MaxWire \in Nat
BY ServerAssumption

\* What the types say of what is on the wire.
LEMMA RelayedType ==
  ASSUME TypingInv
  PROVE  relayed \in Seq(BOOLEAN) /\ Len(relayed) \in Nat /\ Len(relayed) <= MaxWire
BY DEF TypingInv, T!TypeOK

\* Nobody types yet.
LEMMA TypingInit == T!Init => TypingInv
<1> SUFFICES ASSUME T!Init PROVE TypingInv
  OBVIOUS
<1>1. connected \in BOOLEAN /\ sent \in BOOLEAN /\ shown \in BOOLEAN /\ lost \in BOOLEAN /\ ~shown
  BY DEF T!Init
<1>2. relayed \in Seq(BOOLEAN) /\ Len(relayed) = 0
  BY DEF T!Init
<1>3. T!TypeOK
  BY <1>1, <1>2, TypingBounds DEF T!Init, T!TypeOK
<1> QED BY <1>1, <1>2, <1>3 DEF TypingInv

\* What the relay does to the wire and to the window of the rate limit.
LEMMA RelayStep ==
  ASSUME TypingInv, NEW b \in BOOLEAN, T!Relay(b), Len(relayed) < MaxWire
  PROVE  /\ relayed' \in Seq(BOOLEAN) /\ Len(relayed') <= MaxWire
         /\ \A i \in 1..Len(relayed') : relayed'[i] => b \/ (i \in 1..Len(relayed) /\ relayed[i])
         /\ opened' \in 0..Window /\ count' \in 0..SocketLimit /\ lost' \in BOOLEAN
<1>1. /\ opened' = IF T!WindowIsOver THEN 0 ELSE opened
      /\ count' = IF T!WindowIsOver THEN 1 ELSE IF count < SocketLimit THEN count + 1 ELSE count
      /\ (relayed' = Append(relayed, b) /\ lost' = FALSE) \/ (relayed' = relayed /\ lost' = TRUE)
  BY DEF T!Relay
<1>5. lost' \in BOOLEAN
  BY <1>1, Zenon
<1>2. opened' \in 0..Window /\ count' \in 0..SocketLimit /\ lost' \in BOOLEAN
  BY <1>1, <1>5, TypingBounds DEF TypingInv, T!TypeOK
<1>3. CASE relayed' = Append(relayed, b)
  <2>1. relayed' \in Seq(BOOLEAN) /\ Len(relayed') = Len(relayed) + 1
    BY <1>3, RelayedType, OneMore
  <2>2. \A i \in 1..Len(relayed') : relayed'[i] = IF i = Len(relayed) + 1 THEN b ELSE relayed[i]
    BY <1>3, RelayedType
  <2>3. Len(relayed') <= MaxWire
    BY <2>1, RelayedType, TypingBounds
  <2> QED BY <1>2, <2>1, <2>2, <2>3, RelayedType
<1>4. CASE relayed' = relayed
  BY <1>2, <1>4, RelayedType
<1> QED BY <1>1, <1>3, <1>4

\* A key: quiet is 0 again, and what is shown stays within the expiry.
LEMMA KeyStep == ASSUME TypingInv, T!Key PROVE TypingInv'
<1>1. /\ quiet' = 0 /\ timer' = IdleAfter /\ sent' = TRUE /\ Len(relayed) < MaxWire
      /\ connected' = connected /\ shown' = shown /\ expires' = expires
      /\ T!SaysNothing \/ T!Relay(TRUE)
  BY DEF T!Key, T!reader
<1>2. /\ relayed' \in Seq(BOOLEAN) /\ Len(relayed') <= MaxWire
      /\ opened' \in 0..Window /\ count' \in 0..SocketLimit /\ lost' \in BOOLEAN
  BY <1>1, RelayStep DEF T!SaysNothing, TypingInv, T!TypeOK
<1>3. sent' \in BOOLEAN
  BY <1>1
<1>4. T!TypeOK'
  BY <1>1, <1>2, <1>3, TypingBounds DEF TypingInv, T!TypeOK
<1> QED BY <1>1, <1>4, TypingBounds DEF TypingInv, T!TypeOK

\* The typist stops: at most the end of it is announced.
LEMMA StopStep == ASSUME TypingInv, T!StopTyping PROVE TypingInv'
<1>1. /\ timer' = 0 /\ sent' = FALSE /\ Len(relayed) < MaxWire
      /\ connected' = connected /\ quiet' = quiet /\ shown' = shown /\ expires' = expires
      /\ T!Relay(FALSE) \/ (relayed' = relayed /\ opened' = opened /\ count' = count /\ lost' = TRUE)
  BY DEF T!StopTyping, T!StopAnnounced, T!reader
<1>2. /\ relayed' \in Seq(BOOLEAN) /\ Len(relayed') <= MaxWire
      /\ opened' \in 0..Window /\ count' \in 0..SocketLimit /\ lost' \in BOOLEAN
      /\ \A i \in 1..Len(relayed') : relayed'[i] => i \in 1..Len(relayed) /\ relayed[i]
  BY <1>1, RelayStep DEF TypingInv, T!TypeOK
<1>3. sent' \in BOOLEAN
  BY <1>1
<1>4. T!TypeOK'
  BY <1>1, <1>2, <1>3, TypingBounds DEF TypingInv, T!TypeOK
<1> QED BY <1>1, <1>2, <1>4 DEF TypingInv

\* An announcement arrives while the key it tells of is the last second's.
LEMMA TypingArriveStep == ASSUME TypingInv, T!Arrive PROVE TypingInv'
<1>1. /\ relayed # <<>> /\ shown' = Head(relayed) /\ relayed' = Tail(relayed)
      /\ expires' = IF Head(relayed) THEN Expiry ELSE 0
      /\ connected' = connected /\ sent' = sent /\ timer' = timer /\ quiet' = quiet
      /\ opened' = opened /\ count' = count /\ lost' = lost
  BY DEF T!Arrive, T!ExpiryAfter
<1>2. /\ 1 \in 1..Len(relayed) /\ Head(relayed) = relayed[1] /\ Head(relayed) \in BOOLEAN
      /\ Tail(relayed) \in Seq(BOOLEAN) /\ Len(Tail(relayed)) = Len(relayed) - 1
      /\ \A i \in 1..Len(Tail(relayed)) :
           i + 1 \in 1..Len(relayed) /\ Tail(relayed)[i] = relayed[i + 1]
  <2>1. relayed \in Seq(BOOLEAN) /\ relayed # <<>>
    BY <1>1, RelayedType
  <2> QED BY <2>1, FirstAndRest, Zenon
<1>3. expires' \in 0..Expiry
  <2>1. expires' = Expiry \/ expires' = 0
    BY <1>1, Zenon
  <2> QED BY <2>1, TypingBounds
<1>4. Len(relayed') <= MaxWire /\ relayed' \in Seq(BOOLEAN)
  <2>1. relayed' \in Seq(BOOLEAN) /\ Len(relayed') = Len(relayed) - 1
    BY <1>1, <1>2, Zenon
  <2> QED BY <2>1, RelayedType, TypingBounds
<1>5. shown' \in BOOLEAN
  BY <1>1, <1>2, Zenon
<1>6. shown' => expires' = Expiry /\ relayed[1]
  BY <1>1, <1>2, Zenon
<1>7. T!TypeOK'
  BY <1>1, <1>3, <1>4, <1>5 DEF TypingInv, T!TypeOK
<1>8. shown' => expires' > 0 /\ quiet' + expires' <= Expiry
  <2>1. shown' => expires' = Expiry /\ quiet' = 0
    BY <1>1, <1>2, <1>6, Zenon DEF TypingInv
  <2> QED BY <2>1, TypingBounds
<1>9. \A i \in 1..Len(relayed') : relayed'[i] => quiet' = 0
  BY <1>1, <1>2, Zenon DEF TypingInv
<1> QED BY <1>7, <1>8, <1>9 DEF TypingInv

\* The clock: quiet grows as the reader's timer runs down, and it waits for the wire.
LEMMA TypingTickStep == ASSUME TypingInv, T!Tick PROVE TypingInv'
<1>1. /\ relayed = <<>> /\ relayed' = relayed
      /\ timer' = IF timer = 0 THEN 0 ELSE timer - 1
      /\ expires' = IF expires = 0 THEN 0 ELSE expires - 1
      /\ shown' = (shown /\ expires # 1)
      /\ quiet' = IF quiet > Expiry THEN quiet ELSE quiet + 1
      /\ opened' = IF opened < Window THEN opened + 1 ELSE opened
      /\ connected' = connected /\ sent' = sent /\ count' = count /\ lost' = lost
  BY DEF T!Tick, T!Down
<1>2. shown' \in BOOLEAN /\ (shown' => shown /\ expires # 1)
  BY <1>1
<1>3. T!TypeOK'
  BY <1>1, <1>2, TypingBounds DEF TypingInv, T!TypeOK
<1>4. Len(relayed') = 0
  BY <1>1
<1>5. shown' => expires' > 0 /\ quiet' + expires' <= Expiry
  BY <1>1, <1>2, TypingBounds DEF TypingInv, T!TypeOK
<1> QED BY <1>3, <1>4, <1>5 DEF TypingInv

\* Every step of the two screens and the relay keeps the invariant.
LEMMA TypingStep == TypingInv /\ T!Next => TypingInv'
<1> SUFFICES ASSUME TypingInv, T!Next PROVE TypingInv'
  OBVIOUS
<1>1. CASE T!Leave
  <2>1. connected' \in BOOLEAN /\ lost' \in BOOLEAN
    BY <1>1 DEF T!Leave
  <2>2. /\ sent' = sent /\ timer' = timer /\ quiet' = quiet /\ relayed' = relayed
        /\ shown' = shown /\ expires' = expires /\ opened' = opened /\ count' = count
    BY <1>1 DEF T!Leave, T!reader
  <2> QED BY <2>1, <2>2 DEF TypingInv, T!TypeOK
<1>2. CASE T!Return
  <2>1. connected' \in BOOLEAN /\ opened' = Window /\ count' = 0
    BY <1>2 DEF T!Return
  <2>2. /\ sent' = sent /\ timer' = timer /\ quiet' = quiet /\ relayed' = relayed
        /\ shown' = shown /\ expires' = expires /\ lost' = lost
    BY <1>2 DEF T!Return, T!reader
  <2> QED BY <2>1, <2>2, TypingBounds DEF TypingInv, T!TypeOK
<1> QED BY <1>1, <1>2, KeyStep, StopStep, TypingArriveStep, TypingTickStep DEF T!Next

\* It is about the typing indicator alone.
LEMMA TypingStutter == TypingInv /\ UNCHANGED typing => TypingInv'
BY DEF typing, TypingInv, T!TypeOK

\* Nobody quiet for longer is shown.
LEMMA ExpiryFollows == TypingInv => NeverOutlivesTheTypist
BY TypingBounds DEF TypingInv, T!TypeOK, NeverOutlivesTheTypist, T!NeverOutlivesTheTypist
-----------------------------------------------------------------------------
\* Presence.

Emission == [kind : {"changed", "joined"}, online : BOOLEAN]

\* The watcher was, or will be, given the answer of the join.
JoinIsComing == shows = "unknown" => \E i \in 1..Len(wire) : wire[i].kind = "joined"
\* What the screen will say once everything has arrived.
EndsTrue == IF wire = <<>> THEN shows = P!Says(P!IsOnline) ELSE wire[Len(wire)].online = P!IsOnline

PresenceInv ==
  /\ P!TypeOK
  /\ watcher = "watching" => JoinIsComing
  /\ watcher = "watching" /\ ~unheard /\ ~stale /\ ~belated => EndsTrue

\* What is on the wire.
LEMMA WireType ==
  ASSUME PresenceInv
  PROVE  wire \in Seq(Emission) /\ Len(wire) \in Nat /\ Len(wire) <= MaxWire
BY DEF PresenceInv, P!TypeOK, Emission

\* The screen says one thing or the other.
LEMMA SaysType == ASSUME NEW b \in BOOLEAN PROVE P!Says(b) \in {"online", "away"}
BY DEF P!Says

\* Nobody is there.
LEMMA PresenceInit == P!Init => PresenceInv
<1> SUFFICES ASSUME P!Init PROVE PresenceInv
  OBVIOUS
<1>1. answer \in BOOLEAN /\ unheard \in BOOLEAN /\ stale \in BOOLEAN /\ belated \in BOOLEAN
  BY Zenon DEF P!Init
<1>2. registry = {} /\ joining = {} /\ inRoom = {} /\ watcher = "away" /\ wire = <<>> /\ shows = "unknown"
  BY DEF P!Init
<1>3. Len(wire) <= MaxWire
  BY <1>2, ServerAssumption
<1>4. P!TypeOK
  BY <1>1, <1>2, <1>3 DEF P!TypeOK
<1> QED BY <1>2, <1>4 DEF PresenceInv

\* An emission in the room is the last on the wire, and says how things are unless it
\* is belated.
LEMMA TellStep ==
  ASSUME PresenceInv, NEW b \in BOOLEAN, P!Tell(b),
         watcher' = watcher, answer' = answer, shows' = shows,
         registry' \subseteq Tabs, joining' \subseteq Tabs, inRoom' \subseteq registry',
         belated' \in BOOLEAN, ~belated' => P!IsOnline' = b
  PROVE  PresenceInv'
<1> DEFINE e == [kind |-> "changed", online |-> b]
<1>1. /\ Len(wire) < MaxWire /\ unheard' = FALSE /\ stale' = FALSE
      /\ watcher = "away" => wire' = wire
      /\ watcher # "away" => wire' = Append(wire, e)
  BY DEF P!Tell
<1>2. unheard' \in BOOLEAN /\ stale' \in BOOLEAN
  BY <1>1, Zenon
<1>3. e \in Emission /\ e.online = b
  BY DEF Emission
<1> HIDE DEF e
<1>4. watcher # "away" =>
        /\ wire' \in Seq(Emission) /\ wire' # <<>> /\ Len(wire') = Len(wire) + 1
        /\ \A i \in 1..Len(wire') : wire'[i] = IF i = Len(wire) + 1 THEN e ELSE wire[i]
  <2> SUFFICES ASSUME watcher # "away"
               PROVE  /\ wire' \in Seq(Emission) /\ wire' # <<>> /\ Len(wire') = Len(wire) + 1
                      /\ \A i \in 1..Len(wire') : wire'[i] = IF i = Len(wire) + 1 THEN e ELSE wire[i]
    OBVIOUS
  <2> QED BY <1>1, <1>3, WireType, OneMore
<1>5. wire' \in Seq(Emission) /\ Len(wire') <= MaxWire
  BY <1>1, <1>4, WireType, ServerAssumption
<1>6. P!TypeOK'
  BY <1>2, <1>5 DEF PresenceInv, P!TypeOK, Emission
<1>7. watcher' = "watching" => JoinIsComing'
  BY <1>4, WireType DEF PresenceInv, JoinIsComing
<1>8. watcher' = "watching" /\ ~belated' => EndsTrue'
  <2> SUFFICES ASSUME watcher = "watching", ~belated' PROVE EndsTrue'
    OBVIOUS
  <2>1. wire' # <<>> /\ wire'[Len(wire')] = e
    BY <1>4, WireType
  <2> QED BY <2>1, <1>3 DEF EndsTrue
<1> QED BY <1>6, <1>7, <1>8 DEF PresenceInv

\* A change nobody is told of: the wire and the screen stay.
LEMMA SilentStep ==
  ASSUME PresenceInv, wire' = wire, watcher' = watcher, answer' = answer, shows' = shows,
         registry' \subseteq Tabs, joining' \subseteq Tabs, inRoom' \subseteq registry',
         stale' = stale, belated' = belated,
         unheard' \in BOOLEAN, ~unheard' => ~unheard /\ P!IsOnline' = P!IsOnline
  PROVE  PresenceInv'
<1>1. P!TypeOK'
  BY DEF PresenceInv, P!TypeOK
<1>2. watcher' = "watching" => JoinIsComing'
  BY DEF PresenceInv, JoinIsComing
<1>3. watcher' = "watching" /\ ~unheard' /\ ~stale' /\ ~belated' => EndsTrue'
  BY DEF PresenceInv, EndsTrue, P!Says
<1> QED BY <1>1, <1>2, <1>3 DEF PresenceInv

\* The person's tabs come, go, join and leave.
LEMMA TabsStep ==
  ASSUME PresenceInv, NEW t \in Tabs,
         \/ P!Connect(t) \/ P!Disconnect(t) \/ P!LeaveThread(t)
         \/ P!JoinThread(t) \/ P!EnterThread(t) \/ P!JoinRefused(t)
  PROVE  PresenceInv'
<1>0. /\ registry \subseteq Tabs /\ joining \subseteq Tabs /\ inRoom \subseteq registry
      /\ unheard \in BOOLEAN
  BY DEF PresenceInv, P!TypeOK
<1>1. CASE P!Connect(t)
  <2>1. /\ registry' = registry \cup {t} /\ joining' = joining /\ inRoom' = inRoom
        /\ wire' = wire /\ watcher' = watcher /\ answer' = answer /\ shows' = shows
        /\ stale' = stale /\ belated' = belated
    BY <1>1 DEF P!Connect, P!screen
  <2>2. unheard' \in BOOLEAN /\ (~unheard' => ~unheard /\ P!IsOnline)
    BY <1>1, <1>0, Zenon DEF P!Connect, P!IsOnline
  <2>3. P!IsOnline' = TRUE
    BY <2>1 DEF P!IsOnline
  <2>4. registry' \subseteq Tabs /\ inRoom' \subseteq registry'
    BY <1>0, <2>1
  <2>5. ~unheard' => ~unheard /\ P!IsOnline' = P!IsOnline
    BY <2>2, <2>3, Zenon DEF P!IsOnline
  <2> QED BY <1>0, <2>1, <2>2, <2>4, <2>5, SilentStep
<1>2. CASE P!EnterThread(t)
  <2>1. /\ t \in joining /\ joining' = joining \ {t} /\ registry' = registry
        /\ inRoom' = inRoom \cup ({t} \cap registry) /\ P!Tell(TRUE)
        /\ watcher' = watcher /\ answer' = answer /\ shows' = shows
    BY <1>2 DEF P!EnterThread, P!screen
  <2>2. belated' \in BOOLEAN /\ (~belated' => P!IsOnline)
    BY <2>1, Zenon DEF P!Tell, P!IsOnline
  <2>3. P!IsOnline' = P!IsOnline /\ P!IsOnline \in BOOLEAN
    BY <2>1 DEF P!IsOnline
  <2>4. ~belated' => P!IsOnline' = TRUE
    BY <2>2, <2>3, Zenon
  <2>5. registry' \subseteq Tabs /\ joining' \subseteq Tabs /\ inRoom' \subseteq registry'
    BY <1>0, <2>1
  <2> QED BY <2>1, <2>2, <2>4, <2>5, TellStep
<1>3. CASE P!JoinThread(t) \/ P!JoinRefused(t) \/ P!LeaveThread(t)
  <2>1. /\ registry' = registry /\ joining' \subseteq joining \cup {t} /\ inRoom' \subseteq inRoom
        /\ unheard' = unheard /\ wire' = wire /\ watcher' = watcher /\ answer' = answer
        /\ shows' = shows /\ stale' = stale /\ belated' = belated
    BY <1>3 DEF P!JoinThread, P!JoinRefused, P!LeaveThread, P!screen
  <2>2. P!IsOnline' = P!IsOnline
    BY <2>1 DEF P!IsOnline
  <2>3. registry' \subseteq Tabs /\ joining' \subseteq Tabs /\ inRoom' \subseteq registry'
    BY <1>0, <2>1
  <2> QED BY <1>0, <2>1, <2>2, <2>3, SilentStep
<1>4. CASE P!Disconnect(t)
  <2>1. /\ t \in registry /\ registry' = registry \ {t} /\ inRoom' = inRoom \ {t}
        /\ joining' = joining /\ watcher' = watcher /\ answer' = answer /\ shows' = shows
    BY <1>4 DEF P!Disconnect, P!screen
  <2>2. registry' \subseteq Tabs /\ inRoom' \subseteq registry'
    BY <1>0, <2>1
  <2>3. CASE P!LastGone(t) /\ t \in inRoom
    <3>1. P!Tell(FALSE)
      BY <1>4, <2>3 DEF P!Disconnect
    <3>2. P!IsOnline' = FALSE
      BY <2>1, <2>3 DEF P!IsOnline, P!LastGone
    <3>3. belated' \in BOOLEAN
      BY <3>1, Zenon DEF P!Tell
    <3> QED BY <1>0, <2>1, <2>2, <3>1, <3>2, <3>3, TellStep
  <2>4. CASE ~(P!LastGone(t) /\ t \in inRoom)
    <3>1. /\ unheard' = (unheard \/ P!LastGone(t)) /\ wire' = wire
          /\ stale' = stale /\ belated' = belated
      BY <1>4, <2>4 DEF P!Disconnect
    <3>2. unheard' \in BOOLEAN /\ (~unheard' => ~unheard /\ ~P!LastGone(t))
      BY <1>0, <3>1, Zenon DEF P!LastGone
    <3>3. ~P!LastGone(t) => P!IsOnline' = P!IsOnline
      BY <2>1 DEF P!IsOnline, P!LastGone
    <3> QED BY <1>0, <2>1, <2>2, <3>1, <3>2, <3>3, SilentStep
  <2> QED BY <2>3, <2>4
<1> QED BY <1>1, <1>2, <1>3, <1>4

\* The join is answered: the answer is last, and stale when it is no longer so.
LEMMA AcknowledgeStep == ASSUME PresenceInv, P!Acknowledge PROVE PresenceInv'
<1> DEFINE e == [kind |-> "joined", online |-> answer]
<1>1. /\ Len(wire) < MaxWire /\ watcher' = "watching" /\ wire' = Append(wire, e)
      /\ unheard' = FALSE /\ belated' = FALSE
      /\ registry' = registry /\ joining' = joining /\ inRoom' = inRoom
      /\ answer' = answer /\ shows' = shows
  BY DEF P!Acknowledge
<1>2. stale' \in BOOLEAN /\ (~stale' => answer = P!IsOnline) /\ unheard' \in BOOLEAN /\ belated' \in BOOLEAN
  BY Zenon DEF P!Acknowledge
<1>3. e \in Emission /\ e.online = answer /\ e.kind = "joined"
  BY DEF Emission, PresenceInv, P!TypeOK
<1> HIDE DEF e
<1>4. /\ wire' \in Seq(Emission) /\ wire' # <<>> /\ Len(wire') = Len(wire) + 1
      /\ wire'[Len(wire')] = e
  BY <1>1, <1>3, WireType, OneMore
<1>5. P!TypeOK'
  BY <1>1, <1>2, <1>4, WireType, ServerAssumption DEF PresenceInv, P!TypeOK, Emission
<1>6. JoinIsComing'
  BY <1>3, <1>4, WireType DEF JoinIsComing
<1>7. ~stale' => EndsTrue'
  BY <1>1, <1>2, <1>3, <1>4 DEF EndsTrue, P!IsOnline
<1> QED BY <1>5, <1>6, <1>7 DEF PresenceInv

\* An emission arrives; what follows it is still to come.
LEMMA PresenceArriveStep == ASSUME PresenceInv, P!Arrive PROVE PresenceInv'
<1> DEFINE e == Head(wire)
<1>0. /\ registry' = registry /\ joining' = joining /\ inRoom' = inRoom
      /\ watcher' = watcher /\ answer' = answer
      /\ unheard' = unheard /\ stale' = stale /\ belated' = belated
  BY DEF P!Arrive
<1>1. /\ wire # <<>> /\ wire' = Tail(wire)
      /\ shows' = IF Head(wire).kind = "changed" /\ shows = "unknown" THEN shows ELSE P!Says(Head(wire).online)
  BY DEF P!Arrive
<1>2. /\ 1 \in 1..Len(wire) /\ e = wire[1] /\ e \in Emission
      /\ wire' \in Seq(Emission) /\ Len(wire') = Len(wire) - 1
      /\ \A i \in 1..Len(wire') : i + 1 \in 1..Len(wire) /\ wire'[i] = wire[i + 1]
  BY <1>1, WireType, FirstAndRest
<1>3. /\ e.kind \in {"changed", "joined"}
      /\ shows' = IF e.kind = "changed" /\ shows = "unknown" THEN shows ELSE P!Says(e.online)
  <2>1. e.kind \in {"changed", "joined"}
    BY <1>2 DEF Emission
  <2>2. shows' = IF e.kind = "changed" /\ shows = "unknown" THEN shows ELSE P!Says(e.online)
    BY <1>1
  <2> QED BY <2>1, <2>2
<1> HIDE DEF e
<1>4. shows' \in {"unknown", "online", "away"}
  <2>1. P!Says(e.online) \in {"online", "away"} /\ shows \in {"unknown", "online", "away"}
    BY <1>2, SaysType DEF Emission, PresenceInv, P!TypeOK
  <2> QED BY <1>3, <2>1, Zenon
<1>5. P!TypeOK'
  <2>1. wire' \in Seq(Emission) /\ Len(wire') <= MaxWire
    BY <1>2, WireType, ServerAssumption
  <2> QED BY <1>0, <1>4, <2>1 DEF PresenceInv, P!TypeOK, Emission
<1>6. watcher' = "watching" => JoinIsComing'
  <2> SUFFICES ASSUME watcher = "watching", shows' = "unknown"
               PROVE  \E i \in 1..Len(wire') : wire'[i].kind = "joined"
    BY <1>0 DEF JoinIsComing
  <2>1. shows = "unknown" /\ e.kind = "changed"
    BY <1>3 DEF P!Says
  <2>2. PICK i \in 1..Len(wire) : wire[i].kind = "joined"
    BY <2>1 DEF PresenceInv, JoinIsComing
  <2>3. i # 1
    BY <2>1, <2>2, <1>2
  <2>4. i - 1 \in 1..Len(wire') /\ wire'[i - 1] = wire[i]
    BY <1>2, <2>2, <2>3, WireType
  <2> QED BY <2>2, <2>4
<1>7. watcher' = "watching" /\ ~unheard' /\ ~stale' /\ ~belated' => EndsTrue'
  <2> SUFFICES ASSUME watcher = "watching", ~unheard, ~stale, ~belated PROVE EndsTrue'
    BY <1>0
  <2>1. wire[Len(wire)].online = P!IsOnline
    BY <1>1 DEF PresenceInv, EndsTrue
  <2>2. CASE Len(wire) = 1
    <3>1. wire' = <<>> /\ e.online = P!IsOnline
      BY <1>2, <2>1, <2>2
    <3>2. ~(e.kind = "changed" /\ shows = "unknown")
      BY <1>2, <2>2 DEF PresenceInv, JoinIsComing
    <3>3. shows' = P!Says(e.online)
      BY <1>3, <3>2
    <3>5. P!IsOnline' = P!IsOnline
      BY <1>0 DEF P!IsOnline
    <3>6. shows' = P!Says(P!IsOnline)
      BY <3>1, <3>3
    <3> QED BY <3>1, <3>5, <3>6, Zenon DEF EndsTrue
  <2>3. CASE Len(wire) # 1
    <3>1. Len(wire') > 0 /\ wire'[Len(wire')] = wire[Len(wire)]
      BY <1>2, <2>3, WireType
    <3> QED BY <1>0, <2>1, <3>1 DEF EndsTrue, P!IsOnline
  <2> QED BY <2>2, <2>3
<1> QED BY <1>5, <1>6, <1>7 DEF PresenceInv

\* Every step of the tabs and the watcher keeps the invariant.
LEMMA PresenceStep == PresenceInv /\ P!Next => PresenceInv'
<1> SUFFICES ASSUME PresenceInv, P!Next PROVE PresenceInv'
  OBVIOUS
<1>1. CASE P!Describe
  <2>1. /\ watcher' = "described" /\ registry' = registry /\ joining' = joining
        /\ inRoom' = inRoom /\ wire' = wire /\ shows' = shows
        /\ unheard' = unheard /\ stale' = stale /\ belated' = belated
    BY <1>1 DEF P!Describe
  <2>2. answer' \in BOOLEAN
    BY <1>1, Zenon DEF P!Describe, P!IsOnline
  <2> QED BY <2>1, <2>2 DEF PresenceInv, P!TypeOK
<1>2. CASE P!WatcherLeaves
  <2>1. answer' \in BOOLEAN /\ unheard' \in BOOLEAN /\ stale' \in BOOLEAN /\ belated' \in BOOLEAN
    BY <1>2, Zenon DEF P!WatcherLeaves
  <2>2. /\ watcher' = "away" /\ wire' = <<>> /\ shows' = "unknown"
        /\ registry' = registry /\ joining' = joining /\ inRoom' = inRoom
    BY <1>2 DEF P!WatcherLeaves
  <2>3. Len(wire') <= MaxWire
    BY <2>2, ServerAssumption
  <2> QED BY <2>1, <2>2, <2>3 DEF PresenceInv, P!TypeOK
<1> QED BY <1>1, <1>2, TabsStep, AcknowledgeStep, PresenceArriveStep DEF P!Next

\* It is about presence alone.
LEMMA PresenceStutter == PresenceInv /\ UNCHANGED presence => PresenceInv'
BY DEF presence, PresenceInv, P!TypeOK, JoinIsComing, EndsTrue, P!IsOnline, P!Says

\* With nothing on the wire, the end is what is shown.
LEMMA ShownFollows == PresenceInv => ShownIsTrueOtherwise
BY DEF PresenceInv, EndsTrue, ShownIsTrueOtherwise, P!ShownIsTrueOtherwise, P!Watching
-----------------------------------------------------------------------------
\* The bell.

\* Its types: the number and the rows stay within what there is.
BellInv == B!TypeOK

\* The rows can be counted.
LEMMA NotesCounted ==
  ASSUME NEW S \in SUBSET Notes
  PROVE  /\ B!Cardinality(S) \in 0..B!Cardinality(Notes) /\ B!Cardinality(Notes) \in Nat
<1>1. IsFiniteSet(Notes)
  BY ServerAssumption
<1>2. Cardinality(S) \in Nat /\ Cardinality(Notes) \in Nat /\ Cardinality(S) <= Cardinality(Notes)
  BY <1>1, FS_Subset, FS_CardinalityType
<1>3. ASSUME NEW X PROVE B!Cardinality(X) = Cardinality(X)
  BY DEF B!Cardinality, Cardinality
<1> QED BY <1>2, <1>3

\* Some rows may be there; the count is on its way.
LEMMA BellInit == B!Init => BellInv
<1> SUFFICES ASSUME B!Init PROVE BellInv
  OBVIOUS
<1>1. linked \in BOOLEAN /\ pushed \in BOOLEAN
  BY Zenon DEF B!Init
<1>2. note \in [Notes -> {"none", "unread", "read"}] /\ call \in [Calls -> {NoCall, Unanswered} \cup 0..B!Cardinality(Notes)]
  BY DEF B!Init
<1>3. badge \in 0..B!Cardinality(Notes) /\ failed \in 0..MaxFaults
  BY NotesCounted, ServerAssumption DEF B!Init
<1>4. items = {} /\ listing = NoCall /\ marking = {}
  BY DEF B!Init
<1> QED BY <1>1, <1>2, <1>3, <1>4 DEF BellInv, B!TypeOK

\* Another call on its way keeps the calls what they are.
LEMMA RefreshType ==
  ASSUME BellInv, B!RefreshCount
  PROVE  call' \in [Calls -> {NoCall, Unanswered} \cup 0..B!Cardinality(Notes)]
BY DEF B!RefreshCount, BellInv, B!TypeOK

\* A call ends, or changes to something it may be.
LEMMA CallType ==
  ASSUME BellInv, NEW c \in Calls,
         NEW v \in {NoCall, Unanswered} \cup 0..B!Cardinality(Notes), call' = [call EXCEPT ![c] = v]
  PROVE  call' \in [Calls -> {NoCall, Unanswered} \cup 0..B!Cardinality(Notes)]
BY DEF BellInv, B!TypeOK

\* Every step of the bell and its rows keeps the types.
LEMMA BellStep == BellInv /\ B!Next => BellInv'
<1> SUFFICES ASSUME BellInv, B!Next PROVE BellInv'
  OBVIOUS
<1>0. MaxFaults \in Nat /\ B!Cardinality(Notes) \in Nat
  BY ServerAssumption, NotesCounted
<1>1. ASSUME NEW n \in Notes, B!Notify(n) PROVE BellInv'
  <2>1. pushed' \in BOOLEAN
    BY <1>1, Zenon DEF B!Notify, BellInv, B!TypeOK
  <2>2. note' \in [Notes -> {"none", "unread", "read"}]
    BY <1>1 DEF B!Notify, BellInv, B!TypeOK
  <2> QED BY <1>1, <2>1, <2>2 DEF B!Notify, BellInv, B!TypeOK
<1>2. ASSUME NEW n \in Notes, B!ReadElsewhere(n) PROVE BellInv'
  BY <1>2 DEF B!ReadElsewhere, BellInv, B!TypeOK
<1>3. CASE B!PushArrives
  <2>1. pushed' \in BOOLEAN /\ B!RefreshCount
    BY <1>3, Zenon DEF B!PushArrives
  <2> QED BY <1>3, <2>1, RefreshType DEF B!PushArrives, BellInv, B!TypeOK
<1>4. CASE B!Connect
  <2>1. linked' \in BOOLEAN /\ B!RefreshCount
    BY <1>4, Zenon DEF B!Connect
  <2> QED BY <1>4, <2>1, RefreshType DEF B!Connect, BellInv, B!TypeOK
<1>5. CASE B!Disconnect
  <2>1. linked' \in BOOLEAN /\ pushed' \in BOOLEAN
    BY <1>5, Zenon DEF B!Disconnect
  <2> QED BY <1>0, <1>5, <2>1 DEF B!Disconnect, BellInv, B!TypeOK
<1>6. CASE B!Poll
  BY <1>6, RefreshType DEF B!Poll, BellInv, B!TypeOK
<1>7. ASSUME NEW c \in Calls, B!CountUnread(c) PROVE BellInv'
  <2>1. B!Cardinality(B!Unread) \in 0..B!Cardinality(Notes)
    BY NotesCounted DEF B!Unread
  <2>2. call' \in [Calls -> {NoCall, Unanswered} \cup 0..B!Cardinality(Notes)]
    BY <1>7, <2>1, CallType DEF B!CountUnread
  <2> QED BY <1>7, <2>2 DEF B!CountUnread, BellInv, B!TypeOK
<1>8. ASSUME NEW c \in Calls, B!CountArrives(c) PROVE BellInv'
  <2>1. badge' \in 0..B!Cardinality(Notes)
    BY <1>8 DEF B!CountArrives, BellInv, B!TypeOK
  <2>2. call' \in [Calls -> {NoCall, Unanswered} \cup 0..B!Cardinality(Notes)]
    BY <1>8, CallType DEF B!CountArrives
  <2> QED BY <1>8, <2>1, <2>2 DEF B!CountArrives, BellInv, B!TypeOK
<1>9. ASSUME NEW c \in Calls, B!CountFails(c) PROVE BellInv'
  <2>1. call' \in [Calls -> {NoCall, Unanswered} \cup 0..B!Cardinality(Notes)]
    BY <1>9, CallType DEF B!CountFails
  <2> QED BY <1>0, <1>9, <2>1 DEF B!CountFails, BellInv, B!TypeOK
<1>10. CASE B!Open \/ B!ListArrives \/ B!ListFails
  BY <1>0, <1>10 DEF B!Open, B!ListArrives, B!ListFails, BellInv, B!TypeOK
<1>11. CASE B!ListNotifications
  <2>1. \A n \in Notes : [note |-> n, read |-> note[n] = "read"] \in B!Row
    BY DEF B!Row
  <2>2. B!Rows \subseteq B!Row
    BY <2>1, Zenon DEF B!Rows
  <2> QED BY <1>11, <2>2 DEF B!ListNotifications, BellInv, B!TypeOK
<1>12. ASSUME NEW item \in items, B!MarkRead(item) PROVE BellInv'
  <2>1. item.note \in Notes
    BY DEF BellInv, B!TypeOK, B!Row
  <2>2. badge' \in 0..B!Cardinality(Notes)
    BY <1>0, <1>12 DEF B!MarkRead, BellInv, B!TypeOK
  <2> QED BY <1>12, <2>1, <2>2 DEF B!MarkRead, BellInv, B!TypeOK
<1>13. CASE B!MarkAllRead
  <2>1. \A item \in items : [item EXCEPT !.read = TRUE] \in B!Row
    BY DEF BellInv, B!TypeOK, B!Row
  <2>2. items' \subseteq B!Row
    BY <1>13, <2>1, Zenon DEF B!MarkAllRead
  <2> QED BY <1>0, <1>13, <2>2 DEF B!MarkAllRead, BellInv, B!TypeOK
<1>14. ASSUME NEW m \in marking, B!ReadNotification(m) PROVE BellInv'
  <2>1. note' \in [Notes -> {"none", "unread", "read"}]
    BY <1>14 DEF B!ReadNotification, B!Marked, BellInv, B!TypeOK
  <2> QED BY <1>14, <2>1 DEF B!ReadNotification, BellInv, B!TypeOK
<1>15. ASSUME NEW m \in marking, B!MarkFails(m) PROVE BellInv'
  BY <1>0, <1>15 DEF B!MarkFails, BellInv, B!TypeOK
<1> QED BY <1>1, <1>2, <1>3, <1>4, <1>5, <1>6, <1>7, <1>8, <1>9, <1>10, <1>11, <1>12, <1>13, <1>14, <1>15
        DEF B!Next

\* They are about the bell alone.
LEMMA BellStutter == BellInv /\ UNCHANGED bell => BellInv'
BY DEF bell, BellInv, B!TypeOK
-----------------------------------------------------------------------------
\* The closing of an account.

\* What a handler is about to write.
Pending ==
  {C!Idle} \cup [at : {"insert"}, on : Booking]
    \cup [at : {"transition"}, on : Booking, from : C!BookingStates, to : C!BookingStates]
    \cup [at : {"visibility"}, on : Listing, to : {"PUBLISHED", "UNPUBLISHED"}]
    \cup [at : {"delete"}, on : User]
ClosureInv == C!TypeOK /\ acting \in [Handler \cup {Sweeper} -> Pending]

\* The tables of bookingStateMachine.js stay among its own statuses.
LEMMA RulesAreClosed ==
  /\ \A action \in C!ActionNames : C!BookingActions[action].to \in C!BookingStates
  /\ \A phase \in C!SweepPhases : C!SweptAction[phase] \in C!ActionNames
  /\ "REQUESTED" \in C!BookingStates
BY DEF C!ActionNames, C!BookingActions, C!BookingStates, C!SweepPhases, C!SweptAction

\* Nothing is booked, and nobody is at work.
LEMMA ClosureInit == C!Init => ClosureInv
<1> SUFFICES ASSUME C!Init PROVE ClosureInv
  OBVIOUS
<1>1. acting \in [Handler \cup {Sweeper} -> Pending] /\ \A h \in Handler \cup {Sweeper} : acting[h] = C!Idle
  BY DEF C!Init, Pending
<1>2. /\ account \in [User -> {"ACTIVE", "DELETED"}]
      /\ offered \in [Listing -> {"DRAFT", "PUBLISHED", "UNPUBLISHED"}]
      /\ booking \in [Booking -> C!BookingStates \cup {"NONE"}]
  BY DEF C!Init
<1> QED BY <1>1, <1>2 DEF ClosureInv, C!TypeOK

\* What a step has to keep.
LEMMA PendingType ==
  ASSUME acting' \in [Handler \cup {Sweeper} -> Pending],
         account' \in [User -> {"ACTIVE", "DELETED"}],
         offered' \in [Listing -> {"DRAFT", "PUBLISHED", "UNPUBLISHED"}],
         booking' \in [Booking -> C!BookingStates \cup {"NONE"}]
  PROVE  ClosureInv'
BY DEF ClosureInv, C!TypeOK, Pending

\* A handler takes something up: nothing else changes.
LEMMA TakenUp ==
  ASSUME ClosureInv, NEW h \in Handler \cup {Sweeper}, NEW what \in Pending,
         C!Do(h, what), account' = account, offered' = offered, booking' = booking
  PROVE  ClosureInv'
<1>1. acting' \in [Handler \cup {Sweeper} -> Pending]
  BY DEF C!Do, ClosureInv
<1> QED BY <1>1, PendingType DEF ClosureInv, C!TypeOK

\* A booking is acted on, by a party or by the sweep.
LEMMA ActStep ==
  ASSUME ClosureInv, NEW h \in Handler \cup {Sweeper}, NEW b \in Booking, NEW u,
         NEW action \in C!ActionNames, C!ActOnBooking(h, b, u, action)
  PROVE  ClosureInv'
<1> DEFINE what == [at |-> "transition", on |-> b, from |-> booking[b], to |-> C!BookingActions[action].to]
<1>1. /\ C!Do(h, what) /\ account' = account /\ offered' = offered /\ booking' = booking
      /\ booking[b] # "NONE"
  BY DEF C!ActOnBooking, C!Open
<1>2. booking[b] \in C!BookingStates /\ C!BookingActions[action].to \in C!BookingStates
  BY <1>1, RulesAreClosed DEF ClosureInv, C!TypeOK
<1>3. what \in Pending
  BY <1>2 DEF Pending
<1> HIDE DEF what
<1> QED BY <1>1, <1>3, TakenUp

\* The transition is written, if the booking is still where it was read.
LEMMA TransitionStep ==
  ASSUME ClosureInv, NEW h \in Handler \cup {Sweeper}, C!UpdateBookingStatus(h)
  PROVE  ClosureInv'
<1>1. /\ acting[h].at = "transition" /\ acting' = [acting EXCEPT ![h] = C!Idle]
      /\ account' = account /\ offered' = offered
      /\ booking' = IF booking[acting[h].on] = acting[h].from
                    THEN [booking EXCEPT ![acting[h].on] = acting[h].to] ELSE booking
  BY DEF C!UpdateBookingStatus, C!Done
<1>2. acting[h].on \in Booking /\ acting[h].to \in C!BookingStates
  BY <1>1 DEF ClosureInv, Pending, C!Idle
<1>3. booking' \in [Booking -> C!BookingStates \cup {"NONE"}]
  BY <1>1, <1>2 DEF ClosureInv, C!TypeOK
<1>4. acting' \in [Handler \cup {Sweeper} -> Pending]
  BY <1>1 DEF ClosureInv, Pending
<1> QED BY <1>1, <1>3, <1>4, PendingType DEF ClosureInv, C!TypeOK

\* A request is read, writes, or is abandoned.
LEMMA ServeStep ==
  ASSUME ClosureInv, NEW h \in Handler, C!Serve(h) \/ C!Abandon(h)
  PROVE  ClosureInv'
<1>0. h \in Handler \cup {Sweeper}
  OBVIOUS
<1>1. ASSUME C!Done(h) PROVE acting' \in [Handler \cup {Sweeper} -> Pending]
  BY <1>1 DEF C!Done, ClosureInv, Pending
<1>2. CASE \E b \in Booking : C!RequestBooking(h, b)
  <2>1. PICK b \in Booking : C!RequestBooking(h, b)
    BY <1>2
  <2>2. [at |-> "insert", on |-> b] \in Pending
    BY DEF Pending
  <2> QED BY <1>0, <2>1, <2>2, TakenUp DEF C!RequestBooking
<1>3. CASE C!InsertBooking(h)
  <2>1. acting[h].at = "insert" /\ booking' = [booking EXCEPT ![acting[h].on] = "REQUESTED"]
        /\ C!Done(h) /\ account' = account /\ offered' = offered
    BY <1>3 DEF C!InsertBooking
  <2>2. acting[h].on \in Booking
    BY <2>1, <1>0 DEF ClosureInv, Pending, C!Idle
  <2>3. booking' \in [Booking -> C!BookingStates \cup {"NONE"}]
    BY <2>1, <2>2, RulesAreClosed DEF ClosureInv, C!TypeOK
  <2> QED BY <1>1, <2>1, <2>3, PendingType DEF ClosureInv, C!TypeOK
<1>4. CASE \E b \in Booking, action \in C!ActionNames :
             \E u \in {v \in C!Party(b) : C!Active(v)} : C!ActOnBooking(h, b, u, action)
  BY <1>0, <1>4, ActStep
<1>5. CASE C!UpdateBookingStatus(h)
  BY <1>0, <1>5, TransitionStep
<1>6. CASE \E l \in Listing, to \in {"PUBLISHED", "UNPUBLISHED"} : C!ChangeVisibility(h, l, to)
  <2>1. PICK l \in Listing, to \in {"PUBLISHED", "UNPUBLISHED"} : C!ChangeVisibility(h, l, to)
    BY <1>6
  <2>2. [at |-> "visibility", on |-> l, to |-> to] \in Pending
    BY DEF Pending
  <2> QED BY <1>0, <2>1, <2>2, TakenUp DEF C!ChangeVisibility
<1>7. CASE C!UpdateListingStatus(h)
  <2>1. acting[h].at = "visibility" /\ offered' = [offered EXCEPT ![acting[h].on] = acting[h].to]
        /\ C!Done(h) /\ account' = account /\ booking' = booking
    BY <1>7 DEF C!UpdateListingStatus
  <2>2. acting[h].on \in Listing /\ acting[h].to \in {"PUBLISHED", "UNPUBLISHED"}
    BY <2>1, <1>0 DEF ClosureInv, Pending, C!Idle
  <2>3. offered' \in [Listing -> {"DRAFT", "PUBLISHED", "UNPUBLISHED"}]
    BY <2>1, <2>2 DEF ClosureInv, C!TypeOK
  <2> QED BY <1>1, <2>1, <2>3, PendingType DEF ClosureInv, C!TypeOK
<1>8. CASE \E u \in User : C!FindOpenBookings(h, u)
  <2>1. PICK u \in User : C!FindOpenBookings(h, u)
    BY <1>8
  <2>2. [at |-> "delete", on |-> u] \in Pending
    BY DEF Pending
  <2> QED BY <1>0, <2>1, <2>2, TakenUp DEF C!FindOpenBookings
<1>9. CASE C!DeleteOwnAccount(h)
  <2>1. /\ acting[h].at = "delete" /\ C!Done(h) /\ booking' = booking
        /\ account' = [account EXCEPT ![acting[h].on] = "DELETED"]
        /\ offered' = [l \in Listing |-> IF OwnerOf[l] = acting[h].on /\ offered[l] = "PUBLISHED"
                                         THEN "UNPUBLISHED" ELSE offered[l]]
    BY <1>9 DEF C!DeleteOwnAccount
  <2>2. account' \in [User -> {"ACTIVE", "DELETED"}]
    BY <2>1 DEF ClosureInv, C!TypeOK
  <2>3. offered' \in [Listing -> {"DRAFT", "PUBLISHED", "UNPUBLISHED"}]
    <3>1. \A l \in Listing : (IF OwnerOf[l] = acting[h].on /\ offered[l] = "PUBLISHED"
                             THEN "UNPUBLISHED" ELSE offered[l]) \in {"DRAFT", "PUBLISHED", "UNPUBLISHED"}
      BY DEF ClosureInv, C!TypeOK
    <3> QED BY <2>1, <3>1
  <2> QED BY <1>1, <2>1, <2>2, <2>3, PendingType DEF ClosureInv, C!TypeOK
<1>10. CASE C!Abandon(h)
  BY <1>1, <1>10, PendingType DEF C!Abandon, ClosureInv, C!TypeOK
<1> QED BY <1>2, <1>3, <1>4, <1>5, <1>6, <1>7, <1>8, <1>9, <1>10 DEF C!Serve

\* Every step of the requests and the sweep keeps the types.
LEMMA ClosureStep == ClosureInv /\ C!Next => ClosureInv'
<1> SUFFICES ASSUME ClosureInv, C!Next PROVE ClosureInv'
  OBVIOUS
<1>1. ASSUME NEW b \in Booking, C!Sweep(b) PROVE ClosureInv'
  <2>1. PICK phase \in C!SweepPhases : C!ActOnBooking(Sweeper, b, System, C!SweptAction[phase])
    BY <1>1 DEF C!Sweep
  <2>2. C!SweptAction[phase] \in C!ActionNames
    BY RulesAreClosed
  <2> QED BY <2>1, <2>2, ActStep
<1> QED BY <1>1, ServeStep, TransitionStep DEF C!Next, C!SweepStep

\* They are about the closing of accounts alone.
LEMMA ClosureStutter == ClosureInv /\ UNCHANGED closure => ClosureInv'
BY DEF closure, ClosureInv, C!TypeOK

\* From every status that is not final, one way out is not the owner's.
LEMMA WaysOut ==
  ASSUME NEW s \in C!BookingStates, s \notin C!TerminalStates
  PROVE  \E action \in C!ActionNames, role \in {"renter", "system"} : C!CheckTransition(action, s, role)
<1> USE DEF C!ActionNames, C!CheckTransition, C!BookingActions
<1>1. CASE s \in {"REQUESTED", "ACCEPTED"}
  <2>1. C!CheckTransition("CANCEL", s, "renter")
    BY <1>1
  <2> QED BY <2>1
<1>2. CASE s \in {"HANDED_OVER", "ACTIVE"}
  <2>1. C!CheckTransition("RETURN", s, "renter")
    BY <1>2
  <2> QED BY <2>1
<1>3. CASE s = "RETURNED"
  <2>1. C!CheckTransition("COMPLETE", s, "system")
    BY <1>3
  <2> QED BY <2>1
<1> QED BY <1>1, <1>2, <1>3 DEF C!BookingStates, C!TerminalStates

\* What is open is in one of the statuses that have a way out.
LEMMA WayOutFollows == ClosureInv => RenterHasAWayOut
<1> SUFFICES ASSUME ClosureInv, NEW b \in Booking, C!Open(b)
             PROVE  \E action \in C!ActionNames, role \in {"renter", "system"} :
                      C!CheckTransition(action, booking[b], role)
  BY DEF RenterHasAWayOut, C!RenterHasAWayOut
<1>1. booking[b] \in C!BookingStates /\ booking[b] \notin C!TerminalStates
  BY DEF ClosureInv, C!TypeOK, C!Open
<1> QED BY <1>1, WaysOut
-----------------------------------------------------------------------------
\* The migration runner.

\* What a run has open is the first file of its own plan, in the words it read.
TxIsOfThePlan ==
  \A r \in Runs :
    /\ tx[r].recorded => tx[r].file # None
    /\ tx[r].file # None =>
         /\ run[r].at = "applying"
         /\ tx[r].file \in M!First(r)
         /\ tx[r].says = run[r].pending[tx[r].file]

\* A run that is applying still plans every file the ledger has not: it was
\* there when the plan was made, or is one of the late ones.
PlanIsWhole ==
  \A r \in Runs : run[r].at = "applying" =>
    \A g \in Files \ overdue : disk[g] # None => ledger[g] # None \/ run[r].pending[g] # None

MigrationsInv == M!TypeOK /\ TxIsOfThePlan /\ PlanIsWhole /\ M!LedgerIsTheSchema /\ M!NoGaps

\* The initial states: nothing is applied, planned or open.
LEMMA MigrationsInit == M!Init => MigrationsInv
<1> SUFFICES ASSUME M!Init PROVE MigrationsInv
  OBVIOUS
<1>1. M!TypeOK
  BY SMT DEF M!Init, M!TypeOK, M!Contents, M!Versions, M!Nothing, M!NoTx
<1>2. TxIsOfThePlan
  BY DEF M!Init, TxIsOfThePlan, M!NoTx
<1>3. PlanIsWhole /\ M!LedgerIsTheSchema /\ M!NoGaps
  BY DEF M!Init, PlanIsWhole, M!LedgerIsTheSchema, M!NoGaps, M!Nothing
<1> QED BY <1>1, <1>2, <1>3 DEF MigrationsInv

\* One step of a run, or one change on disk, keeps the types.
LEMMA MigrationsTypeStep == M!TypeOK /\ M!Next => M!TypeOK'
<1> SUFFICES ASSUME M!TypeOK, M!Next PROVE M!TypeOK'
  OBVIOUS
<1> USE DEF M!TypeOK, M!Contents, M!Versions
<1>1. ASSUME NEW r \in Runs, M!Resolve(r) PROVE M!TypeOK'
  <2>1. M!Pending \in M!Contents
    BY DEF M!Pending
  <2> QED BY <1>1, <2>1 DEF M!Resolve
<1>2. ASSUME NEW r \in Runs, M!Apply(r) PROVE M!TypeOK'
  <2>1. PICK f \in M!First(r) :
          tx' = [tx EXCEPT ![r] = [file |-> f, says |-> run[r].pending[f], recorded |-> FALSE]]
    BY <1>2 DEF M!Apply
  <2>2. f \in Files /\ run[r].pending[f] \in Nat \cup {None}
    BY <2>1 DEF M!First, M!ToDo
  <2> QED BY <1>2, <2>1, <2>2 DEF M!Apply
<1>3. ASSUME NEW r \in Runs, M!InsertLedgerRow(r) PROVE M!TypeOK'
  BY <1>3 DEF M!InsertLedgerRow
<1>4. ASSUME NEW r \in Runs, M!Commit(r) PROVE M!TypeOK'
  BY <1>4 DEF M!Commit, M!NoTx
<1>5. ASSUME NEW r \in Runs, M!Fail(r) PROVE M!TypeOK'
  BY <1>5 DEF M!Fail, M!NoTx
<1>6. ASSUME NEW r \in Runs, M!Done(r) PROVE M!TypeOK'
  BY <1>6 DEF M!Done
<1>7. ASSUME NEW r \in Runs, M!Crash(r) PROVE M!TypeOK'
  BY <1>7 DEF M!Crash, M!NoTx
<1>8. ASSUME NEW f \in Files, M!ChangeFile(f) PROVE M!TypeOK'
  BY <1>8 DEF M!ChangeFile
<1> QED BY <1>1, <1>2, <1>3, <1>4, <1>5, <1>6, <1>7, <1>8 DEF M!Next

\* A step keeps what is open in line with the plan: nobody edits the plan of a
\* run but the run, and only when what it had open is committed.
LEMMA MigrationsTxStep == M!TypeOK /\ TxIsOfThePlan /\ M!Next => TxIsOfThePlan'
<1> SUFFICES ASSUME M!TypeOK, TxIsOfThePlan, M!Next PROVE TxIsOfThePlan'
  OBVIOUS
<1> USE DEF M!TypeOK, TxIsOfThePlan, M!First, M!ToDo
<1>1. ASSUME NEW r \in Runs, M!Resolve(r) PROVE TxIsOfThePlan'
  <2>1. tx[r].file = None
    BY <1>1 DEF M!Resolve
  <2>2. tx' = tx /\ \A s \in Runs \ {r} : run'[s] = run[s]
    BY <1>1 DEF M!Resolve
  <2> QED BY <2>1, <2>2
<1>2. ASSUME NEW r \in Runs, M!Apply(r) PROVE TxIsOfThePlan'
  <2>1. PICK f \in M!First(r) :
          tx' = [tx EXCEPT ![r] = [file |-> f, says |-> run[r].pending[f], recorded |-> FALSE]]
    BY <1>2 DEF M!Apply
  <2>2. run' = run /\ run[r].at = "applying"
    BY <1>2 DEF M!Apply
  <2> QED BY <2>1, <2>2
<1>3. ASSUME NEW r \in Runs, M!InsertLedgerRow(r) PROVE TxIsOfThePlan'
  BY <1>3 DEF M!InsertLedgerRow
<1>4. ASSUME NEW r \in Runs, M!Commit(r) PROVE TxIsOfThePlan'
  BY <1>4 DEF M!Commit, M!NoTx
<1>5. ASSUME NEW r \in Runs, M!Fail(r) PROVE TxIsOfThePlan'
  BY <1>5 DEF M!Fail, M!NoTx
<1>6. ASSUME NEW r \in Runs, M!Done(r) PROVE TxIsOfThePlan'
  <2>1. tx[r].file = None
    BY <1>6 DEF M!Done
  <2>2. tx' = tx /\ \A s \in Runs \ {r} : run'[s] = run[s]
    BY <1>6 DEF M!Done
  <2> QED BY <2>1, <2>2
<1>7. ASSUME NEW r \in Runs, M!Crash(r) PROVE TxIsOfThePlan'
  BY <1>7 DEF M!Crash, M!NoTx
<1>8. ASSUME NEW f \in Files, M!ChangeFile(f) PROVE TxIsOfThePlan'
  BY <1>8 DEF M!ChangeFile
<1> QED BY <1>1, <1>2, <1>3, <1>4, <1>5, <1>6, <1>7, <1>8 DEF M!Next

\* A step keeps the plans whole: a commit takes a file out of a plan and puts
\* it into the ledger at once, and a file that changes on disk is late.
LEMMA MigrationsPlanStep == MigrationsInv /\ M!Next => PlanIsWhole'
<1> SUFFICES ASSUME MigrationsInv, M!Next PROVE PlanIsWhole'
  OBVIOUS
<1> USE DEF MigrationsInv, M!TypeOK, PlanIsWhole
<1>1. ASSUME NEW r \in Runs, M!Resolve(r) PROVE PlanIsWhole'
  <2> SUFFICES ASSUME NEW s \in Runs, run'[s].at = "applying",
                      NEW g \in Files \ overdue, disk[g] # None, ledger[g] = None
               PROVE  run'[s].pending[g] # None
    BY <1>1 DEF M!Resolve
  <2>1. CASE s = r
    <3>1. run'[r] = [at |-> "applying", pending |-> M!Pending]
      BY <1>1, <2>1 DEF M!Resolve
    <3> QED BY <2>1, <3>1 DEF M!Pending
  <2>2. CASE s # r
    BY <1>1, <2>2 DEF M!Resolve
  <2> QED BY <2>1, <2>2
<1>2. ASSUME NEW r \in Runs, M!Apply(r) \/ M!InsertLedgerRow(r) PROVE PlanIsWhole'
  BY <1>2 DEF M!Apply, M!InsertLedgerRow
<1>4. ASSUME NEW r \in Runs, M!Commit(r) PROVE PlanIsWhole'
  <2> DEFINE f == tx[r].file
  <2>1. f \in Files /\ run[r].pending[f] # None
    BY <1>4 DEF M!Commit, TxIsOfThePlan, M!First, M!ToDo
  <2>2. ledger' = [ledger EXCEPT ![f] = run[r].pending[f]] /\ disk' = disk /\ overdue' = overdue
    BY <1>4 DEF M!Commit
  <2>3. run' = [run EXCEPT ![r].pending[f] = None]
    BY <1>4 DEF M!Commit
  <2> HIDE DEF f
  <2> QED BY <2>1, <2>2, <2>3 DEF M!Contents
<1>5. ASSUME NEW r \in Runs, M!Fail(r) \/ M!Done(r) \/ M!Crash(r) PROVE PlanIsWhole'
  BY <1>5 DEF M!Fail, M!Done, M!Crash
<1>8. ASSUME NEW f \in Files, M!ChangeFile(f) PROVE PlanIsWhole'
  BY <1>8 DEF M!ChangeFile, M!Contents
<1> QED BY <1>1, <1>2, <1>4, <1>5, <1>8 DEF M!Next

\* A step keeps the ledger true and leaves no gap: only a commit writes either,
\* and it writes the first file of a whole plan.
LEMMA MigrationsLedgerStep ==
  ASSUME MigrationsInv, M!Next
  PROVE  M!LedgerIsTheSchema' /\ M!NoGaps'
<1>0. Files \subseteq Int
  BY ServerAssumption
<1> USE DEF MigrationsInv, M!TypeOK, M!LedgerIsTheSchema, M!NoGaps
<1>1. ASSUME NEW r \in Runs, M!Commit(r) PROVE M!LedgerIsTheSchema' /\ M!NoGaps'
  <2> DEFINE f == tx[r].file
  <2>1. /\ f \in M!First(r) /\ f \in Files /\ run[r].at = "applying"
        /\ tx[r].says = run[r].pending[f]
    BY <1>1 DEF M!Commit, TxIsOfThePlan, M!First, M!ToDo
  <2>2. schema' = [schema EXCEPT ![f] = tx[r].says]
    BY <1>1 DEF M!Commit
  <2>3. ledger' = [ledger EXCEPT ![f] = run[r].pending[f]] /\ disk' = disk /\ overdue' = overdue
    BY <1>1 DEF M!Commit
  <2>4. run[r].pending[f] # None
    BY <2>1 DEF M!First, M!ToDo
  <2> HIDE DEF f
  <2>5. M!LedgerIsTheSchema'
    BY <2>1, <2>2, <2>3
  <2>6. ASSUME NEW g \in Files \ overdue, g < f, disk[g] # None PROVE schema[g] # None
    <3>1. g \notin M!ToDo(r)
      BY <1>0, <2>1, <2>6 DEF M!First
    <3> QED BY <2>1, <2>6, <3>1 DEF PlanIsWhole, M!ToDo
  <2>7. M!NoGaps'
    <3> SUFFICES ASSUME NEW h \in Files, schema'[h] # None,
                        NEW g \in Files \ overdue, g < h, disk[g] # None
                 PROVE  schema'[g] # None
      BY <2>3
    <3>1. CASE h = f
      BY <3>1, <2>1, <2>2, <2>4, <2>6 DEF M!Contents
    <3>2. CASE h # f
      BY <3>2, <2>1, <2>2, <2>4 DEF M!Contents
    <3> QED BY <3>1, <3>2
  <2> QED BY <2>5, <2>7
<1>2. ASSUME NEW r \in Runs,
             M!Resolve(r) \/ M!Apply(r) \/ M!InsertLedgerRow(r) \/ M!Fail(r) \/ M!Done(r) \/ M!Crash(r)
      PROVE  M!LedgerIsTheSchema' /\ M!NoGaps'
  BY <1>2 DEF M!Resolve, M!Apply, M!InsertLedgerRow, M!Fail, M!Done, M!Crash
<1>3. ASSUME NEW f \in Files, M!ChangeFile(f) PROVE M!LedgerIsTheSchema' /\ M!NoGaps'
  BY <1>3 DEF M!ChangeFile, M!Contents
<1> QED BY <1>1, <1>2, <1>3 DEF M!Next

\* Every step of a run, or change on disk, keeps the invariant.
LEMMA MigrationsStep == MigrationsInv /\ M!Next => MigrationsInv'
BY MigrationsTypeStep, MigrationsTxStep, MigrationsPlanStep, MigrationsLedgerStep DEF MigrationsInv

\* It is about the migrations alone.
LEMMA MigrationsStutter == MigrationsInv /\ UNCHANGED migrations => MigrationsInv'
BY DEF migrations, MigrationsInv, M!TypeOK, TxIsOfThePlan, PlanIsWhole, M!LedgerIsTheSchema, M!NoGaps, M!First, M!ToDo

\* Both its halves are in the invariant.
LEMMA SchemaFollows == MigrationsInv => SchemaIsReproducible
BY DEF MigrationsInv, SchemaIsReproducible, M!SchemaIsReproducible
-----------------------------------------------------------------------------
\* The price of a rental.

RatesOK == /\ rates \in [hour : Nat, day : Nat, month : Nat]
           /\ rates.hour # 0 \/ rates.day # 0 \/ rates.month # 0
InBounds(m, d) == m \in 0..MaxMonths /\ d \in 0..MaxDays(m)
Visited(m, d) == done \/ m < months \/ (m = months /\ d < days)

\* The best so far is a candidate of the loops, and no candidate they have been
\* through is better: "whichever the loop happened to reach first" does not matter.
BestOfVisited ==
  /\ best # NoBest => /\ InBounds(best.months, best.days)
                      /\ Usable(best.months, best.days)
                      /\ best = Candidate(best.months, best.days)
  /\ \A m \in 0..MaxMonths : \A d \in 0..MaxDays(m) :
       Visited(m, d) /\ Usable(m, d) => best # NoBest /\ ~IsBetter(Candidate(m, d), best)

QuoteInv == TypeOK /\ RatesOK /\ InBounds(months, days) /\ BestOfVisited

\* Units rounded up cover, and something takes at least one.
LEMMA CeilingCovers ==
  ASSUME NEW a \in Int, NEW b \in Nat \ {0}
  PROVE  /\ Ceiling(a, b) \in Int
         /\ Ceiling(a, b) * b >= a
         /\ a > 0 => Ceiling(a, b) > 0
BY DEF Ceiling

\* Hours rounded up cover what the instants ask for, and no fewer do.
LEMMA CeilingIsLeast ==
  ASSUME NEW a \in Int, NEW b \in Nat \ {0}, NEW k \in Int, k * b >= a
  PROVE  k >= Ceiling(a, b)
<1>1. Ceiling(a, b) \in Int /\ (Ceiling(a, b) - 1) * b < a
  BY DEF Ceiling
<1>2. SUFFICES ASSUME k <= Ceiling(a, b) - 1 PROVE FALSE
  BY <1>1
<1>3. k * b <= (Ceiling(a, b) - 1) * b
  BY <1>1, <1>2
<1> QED BY <1>1, <1>3

\* Multiplication keeps an order.
LEMMA Scale ==
  ASSUME NEW a \in Int, NEW b \in Int, NEW c \in Nat, a <= b
  PROVE  a * c <= b * c
OBVIOUS

\* And a strict one, by a positive factor.
LEMMA ScaleStrictly ==
  ASSUME NEW a \in Int, NEW b \in Int, NEW c \in Nat \ {0}, a < b
  PROVE  a * c < b * c
OBVIOUS

\* Products of naturals are naturals.
LEMMA Products ==
  ASSUME NEW a \in Nat, NEW b \in Nat
  PROVE  a * b \in Nat
OBVIOUS

\* The hours to be billed are a natural number.
LEMMA HoursType ==
  ASSUME TypeOK
  PROVE  BillableHours(duration) \in Nat \ {0}
<1>1. duration \in Nat \ {0}
  BY QuoteAssumption DEF TypeOK
<1>2. Ceiling(duration, PerHour) \in Int /\ Ceiling(duration, PerHour) > 0
  BY <1>1, CeilingCovers, QuoteAssumption
<1> QED BY <1>2 DEF BillableHours

\* A cost is a natural number.
LEMMA CostType ==
  ASSUME RatesOK, NEW c \in Combination
  PROVE  Cost(c) \in Nat /\ Lines(c) \in Nat
<1>1. c.months \in Nat /\ c.days \in Nat /\ c.hours \in Nat
  BY DEF Combination
<1>2. c.months * rates.month \in Nat /\ c.days * rates.day \in Nat /\ c.hours * rates.hour \in Nat
  BY <1>1, Products DEF RatesOK
<1> QED BY <1>1, <1>2 DEF Cost, Lines

\* IsBetter is a strict order.
LEMMA BetterOrder ==
  ASSUME RatesOK, NEW a \in Combination, NEW b \in Combination, NEW c \in Combination
  PROVE  /\ ~IsBetter(a, a)
         /\ IsBetter(a, b) /\ IsBetter(b, c) => IsBetter(a, c)
<1>1. /\ Cost(a) \in Nat /\ Cost(b) \in Nat /\ Cost(c) \in Nat
      /\ Lines(a) \in Nat /\ Lines(b) \in Nat /\ Lines(c) \in Nat
  BY CostType
<1>2. /\ a.months \in Nat /\ b.months \in Nat /\ c.months \in Nat
      /\ a.days \in Nat /\ b.days \in Nat /\ c.days \in Nat
  BY DEF Combination
<1> QED BY <1>1, <1>2 DEF IsBetter

\* The loops' bounds are natural numbers.
LEMMA BoundsType ==
  ASSUME TypeOK, NEW m \in Nat, NEW d \in Nat
  PROVE  /\ AfterMonths(m) \in Int /\ AfterDays(m, d) \in Int
         /\ MaxMonths \in Nat /\ MaxDays(m) \in Nat
         /\ HoursNeeded(m, d) \in Nat
         /\ Candidate(m, d) \in Combination
<1>1. BillableHours(duration) \in Nat \ {0}
  BY HoursType
<1>2. m * Month \in Nat /\ d * Day \in Nat
  BY QuoteAssumption, Products
<1>3. AfterMonths(m) \in Int /\ AfterDays(m, d) \in Int
  BY <1>1, <1>2 DEF AfterMonths, AfterDays
<1>4. HoursNeeded(m, d) \in Nat
  BY <1>3 DEF HoursNeeded
<1>5. MaxMonths \in Nat
  <2>1. BillableHours(duration) \in Int /\ BillableHours(duration) > 0
    BY <1>1
  <2>2. /\ Ceiling(BillableHours(duration), Month) \in Int
        /\ Ceiling(BillableHours(duration), Month) > 0
    BY <2>1, CeilingCovers, QuoteAssumption
  <2> QED BY <2>2 DEF MaxMonths
<1>6. MaxDays(m) \in Nat
  <2>1. /\ Ceiling(AfterMonths(m), Day) \in Int
        /\ AfterMonths(m) > 0 => Ceiling(AfterMonths(m), Day) > 0
    BY <1>3, CeilingCovers, QuoteAssumption
  <2> QED BY <1>3, <2>1 DEF MaxDays
<1>7. Candidate(m, d) \in Combination
  BY <1>4 DEF Candidate, Combination
<1> QED BY <1>3, <1>4, <1>5, <1>6, <1>7

\* Whatever covers the duration is a candidate of the loops or costs more than one.
LEMMA Exchange ==
  ASSUME TypeOK, RatesOK, NEW c \in Combination, Covers(c)
  PROVE  \E m, d \in Nat : /\ InBounds(m, d) /\ Usable(m, d)
                           /\ c = Candidate(m, d) \/ Cost(Candidate(m, d)) < Cost(c)
<1> DEFINE H == BillableHours(duration)
           m == IF c.months <= MaxMonths THEN c.months ELSE MaxMonths
           d == IF c.days <= MaxDays(m) THEN c.days ELSE MaxDays(m)
           h == HoursNeeded(m, d)
<1>1. c.months \in Nat /\ c.days \in Nat /\ c.hours \in Nat
  BY DEF Combination
<1>2. rates.month \in Nat /\ rates.day \in Nat /\ rates.hour \in Nat
  BY DEF RatesOK
<1>3. H \in Int /\ H > 0
  BY HoursType
<1>4. m \in Nat /\ d \in Nat
  <2>1. MaxMonths \in Nat
    BY BoundsType
  <2>2. m \in Nat
    BY <1>1, <2>1
  <2> HIDE DEF m
  <2>3. MaxDays(m) \in Nat
    BY <2>2, BoundsType
  <2> QED BY <1>1, <2>2, <2>3
<1>5. InBounds(m, d)
  <2>1. MaxMonths \in Nat
    BY BoundsType
  <2>2. m \in 0..MaxMonths
    BY <1>1, <2>1
  <2> HIDE DEF m
  <2>3. MaxDays(m) \in Nat
    BY <1>4, BoundsType
  <2>4. d \in 0..MaxDays(m)
    BY <1>1, <2>3
  <2> QED BY <2>2, <2>4 DEF InBounds
<1>6. c.months * Month + c.days * Day + c.hours >= H
  <2>1. c.months * Month \in Nat /\ c.days * Day \in Nat
    BY <1>1, QuoteAssumption, Products
  <2>2. duration \in Int
    BY QuoteAssumption DEF TypeOK
  <2> DEFINE k == c.months * Month + c.days * Day + c.hours
  <2>3. k \in Int /\ k * PerHour >= duration
    BY <1>1, <2>1 DEF Covers
  <2> HIDE DEF k
  <2>4. k >= Ceiling(duration, PerHour)
    BY <2>2, <2>3, CeilingIsLeast, QuoteAssumption
  <2> QED BY <2>4 DEF BillableHours, k
\* Where the loops stop short of c, they have covered the duration already.
<1>7. m < c.months => AfterMonths(m) <= 0 /\ rates.month # 0
  <2>1. SUFFICES ASSUME m < c.months PROVE AfterMonths(m) <= 0 /\ rates.month # 0
    OBVIOUS
  <2>2. m = MaxMonths /\ c.months # 0
    BY <1>1, <1>4, <2>1
  <2>3. rates.month # 0
    BY <2>2 DEF Covers
  <2>4. m = Ceiling(H, Month)
    BY <2>2, <2>3 DEF MaxMonths
  <2>5. m * Month >= H
    BY <1>3, <2>4, CeilingCovers, QuoteAssumption
  <2>6. m * Month \in Nat
    BY <1>4, Products, QuoteAssumption
  <2> HIDE DEF m
  <2> QED BY <1>3, <2>3, <2>5, <2>6 DEF AfterMonths
<1> HIDE DEF m
<1>8. AfterMonths(m) \in Int /\ AfterDays(m, d) \in Int /\ h \in Nat
  BY <1>4, BoundsType
<1>9. d < c.days => AfterDays(m, d) <= 0 /\ rates.day # 0
  <2>1. SUFFICES ASSUME d < c.days PROVE AfterDays(m, d) <= 0 /\ rates.day # 0
    OBVIOUS
  <2>2. d = MaxDays(m) /\ c.days # 0
    BY <1>1, <1>4, <2>1
  <2>3. rates.day # 0
    BY <2>2 DEF Covers
  <2>4. d * Day \in Nat
    BY <1>4, Products, QuoteAssumption
  <2>5. CASE AfterMonths(m) <= 0
    <3> HIDE DEF d
    <3> QED BY <1>8, <2>3, <2>4, <2>5 DEF AfterDays
  <2>6. CASE AfterMonths(m) > 0
    <3>1. d = Ceiling(AfterMonths(m), Day)
      BY <1>8, <2>2, <2>3, <2>6 DEF MaxDays
    <3> HIDE DEF d
    <3>2. d * Day >= AfterMonths(m)
      BY <1>8, <3>1, CeilingCovers, QuoteAssumption
    <3> QED BY <1>8, <2>3, <2>4, <3>2 DEF AfterDays
  <2> QED BY <1>8, <2>5, <2>6
<1>10. m <= c.months /\ d <= c.days
  <2>1. MaxMonths \in Nat /\ MaxDays(m) \in Nat
    BY <1>4, BoundsType
  <2> QED BY <1>1, <1>4, <2>1 DEF m
<1> HIDE DEF d
<1>11. m < c.months => h = 0
  <2>1. d * Day \in Nat
    BY <1>4, Products, QuoteAssumption
  <2> QED BY <1>7, <1>8, <2>1 DEF HoursNeeded, AfterDays
<1>12. d < c.days => h = 0
  BY <1>8, <1>9 DEF HoursNeeded
<1>13. h <= c.hours
  <2>1. CASE m = c.months /\ d = c.days
    <3>1. c.months * Month \in Nat /\ c.days * Day \in Nat
      BY <1>1, QuoteAssumption, Products
    <3>2. AfterDays(m, d) <= c.hours
      BY <1>1, <1>3, <1>6, <2>1, <3>1 DEF AfterDays, AfterMonths
    <3> QED BY <1>1, <1>8, <3>2 DEF HoursNeeded
  <2> QED BY <1>1, <1>4, <1>10, <1>11, <1>12, <2>1
<1> HIDE DEF h
<1>14. Usable(m, d)
  <2>1. h = 0 \/ rates.hour # 0
    BY <1>1, <1>8, <1>13 DEF Covers
  <2>2. m # 0 \/ d # 0 \/ h # 0
    <3>1. SUFFICES ASSUME m = 0, d = 0 PROVE h # 0
      OBVIOUS
    <3>2. AfterDays(m, d) = H
      BY <1>3, <3>1, QuoteAssumption DEF AfterDays, AfterMonths
    <3> QED BY <1>3, <3>2 DEF h, HoursNeeded
  <2> QED BY <2>1, <2>2 DEF Usable, h
<1>15. c = Candidate(m, d) \/ Cost(Candidate(m, d)) < Cost(c)
  <2>1. /\ m * rates.month <= c.months * rates.month
        /\ d * rates.day <= c.days * rates.day
        /\ h * rates.hour <= c.hours * rates.hour
    BY <1>1, <1>2, <1>4, <1>8, <1>10, <1>13, Scale
  <2>2. /\ m * rates.month \in Nat /\ c.months * rates.month \in Nat
        /\ d * rates.day \in Nat /\ c.days * rates.day \in Nat
        /\ h * rates.hour \in Nat /\ c.hours * rates.hour \in Nat
    BY <1>1, <1>2, <1>4, <1>8, Products
  <2>3. Cost(Candidate(m, d)) = m * rates.month + d * rates.day + h * rates.hour
    BY DEF Cost, Candidate, h
  <2>4. Cost(c) = c.months * rates.month + c.days * rates.day + c.hours * rates.hour
    BY DEF Cost
  <2>5. CASE m < c.months
    <3>1. m * rates.month < c.months * rates.month
      BY <1>1, <1>2, <1>4, <1>7, <2>5, ScaleStrictly
    <3> QED BY <2>1, <2>2, <2>3, <2>4, <3>1
  <2>6. CASE d < c.days
    <3>1. d * rates.day < c.days * rates.day
      BY <1>1, <1>2, <1>4, <1>9, <2>6, ScaleStrictly
    <3> QED BY <2>1, <2>2, <2>3, <2>4, <3>1
  <2>7. CASE h < c.hours
    <3>1. rates.hour # 0
      BY <1>1, <1>8, <2>7 DEF Covers
    <3>2. h * rates.hour < c.hours * rates.hour
      BY <1>1, <1>2, <1>8, <2>7, <3>1, ScaleStrictly
    <3> QED BY <2>1, <2>2, <2>3, <2>4, <3>2
  <2>8. CASE m = c.months /\ d = c.days /\ h = c.hours
    BY <2>8 DEF Candidate, Combination, h
  <2> QED BY <1>1, <1>4, <1>8, <1>10, <1>13, <2>5, <2>6, <2>7, <2>8
<1> QED BY <1>4, <1>5, <1>14, <1>15

\* Before the first candidate there is nothing to compare.
AtStart == TypeOK /\ RatesOK /\ months = 0 /\ days = 0 /\ best = NoBest /\ ~done

\* Before the first candidate nothing has been tried.
LEMMA StartIsGood == AtStart => QuoteInv
<1>1. SUFFICES ASSUME AtStart PROVE QuoteInv
  OBVIOUS
<1>2. TypeOK /\ RatesOK
  BY <1>1 DEF AtStart
<1>3. MaxMonths \in Nat /\ MaxDays(0) \in Nat
  BY <1>2, BoundsType
<1>4. InBounds(months, days)
  BY <1>1, <1>3 DEF AtStart, InBounds
<1>5. ASSUME NEW m \in 0..MaxMonths, NEW d \in 0..MaxDays(m) PROVE ~Visited(m, d)
  <2>1. MaxDays(m) \in Nat
    BY <1>2, <1>3, BoundsType
  <2> QED BY <1>1, <1>3, <2>1 DEF AtStart, Visited
<1>6. BestOfVisited
  BY <1>1, <1>5 DEF AtStart, BestOfVisited
<1> QED BY <1>2, <1>4, <1>6 DEF QuoteInv

\* The first quote starts there.
LEMMA InitIsGood == Init => QuoteInv
<1>1. ASSUME Init PROVE TypeOK
  BY <1>1 DEF Init, Asked, TypeOK
<1>2. ASSUME Init PROVE RatesOK
  <2>1. rates \in [hour : HourRates, day : DayRates, month : MonthRates]
        /\ (rates.hour # 0 \/ rates.day # 0 \/ rates.month # 0)
    BY <1>2 DEF Init, Asked
  <2> QED BY <2>1, QuoteAssumption DEF RatesOK
<1>3. Init => AtStart
  BY <1>1, <1>2 DEF Init, AtStart
<1> QED BY <1>3, StartIsGood

\* The candidate the loops are at, and every one visited before, is no better
\* than the best after the step.
LEMMA ConsiderKeeps == QuoteInv /\ Consider => QuoteInv'
<1>1. SUFFICES ASSUME QuoteInv, Consider PROVE QuoteInv'
  OBVIOUS
<1> DEFINE here == Candidate(months, days)
<1>2. TypeOK /\ RatesOK /\ InBounds(months, days) /\ BestOfVisited
  BY <1>1 DEF QuoteInv
<1>3. ~done /\ duration' = duration /\ rates' = rates
  BY <1>1 DEF Consider
<1>4. months \in Nat /\ days \in Nat
  BY <1>2 DEF TypeOK
<1>5. here \in Combination /\ MaxMonths \in Nat /\ MaxDays(months) \in Nat
  BY <1>2, <1>4, BoundsType
<1>6. here # NoBest
  BY <1>5, QuoteAssumption DEF Combination
<1>7. best' \in Combination \cup {NoBest} /\ months' \in Nat /\ days' \in Nat /\ done' \in BOOLEAN
  <2>1. best \in Combination \cup {NoBest}
    BY <1>2 DEF TypeOK
  <2>2. best' \in Combination \cup {NoBest}
    BY <1>1, <1>5, <2>1 DEF Consider
  <2>3. done' \in BOOLEAN
    <3>1. done \in BOOLEAN
      BY <1>2 DEF TypeOK
    <3>2. done' = done \/ done' = TRUE
      BY <1>1 DEF Consider
    <3> QED BY <3>1, <3>2
  <2> QED BY <1>1, <1>4, <2>2, <2>3 DEF Consider
<1>8. TypeOK'
  BY <1>2, <1>3, <1>7 DEF TypeOK
<1>9. RatesOK'
  BY <1>2, <1>3 DEF RatesOK
<1>10. /\ MaxMonths' = MaxMonths
       /\ \A m : MaxDays(m)' = MaxDays(m)
       /\ \A m, d : Candidate(m, d)' = Candidate(m, d)
       /\ \A m, d : Usable(m, d)' = Usable(m, d)
       /\ \A a, b : IsBetter(a, b)' = IsBetter(a, b)
       /\ \A m, d : InBounds(m, d)' = InBounds(m, d)
  BY <1>3 DEF MaxMonths, MaxDays, Candidate, Usable, IsBetter, Cost, Lines, HoursNeeded,
              AfterDays, AfterMonths, BillableHours, InBounds
<1>11. InBounds(months', days')
  <2>1. CASE days < MaxDays(months)
    BY <1>1, <1>2, <1>4, <1>5, <2>1 DEF Consider, InBounds
  <2>2. CASE ~(days < MaxDays(months))
    <3>1. days' = 0 /\ months' \in 0..MaxMonths
      BY <1>1, <1>2, <1>4, <1>5, <2>2 DEF Consider, InBounds
    <3>2. MaxDays(months') \in Nat
      BY <1>2, <1>7, BoundsType
    <3> QED BY <3>1, <3>2 DEF InBounds
  <2> QED BY <2>1, <2>2
<1>12. InBounds(months, days)'
  BY <1>10, <1>11 DEF InBounds
<1>13. CASE Usable(months, days) /\ (best = NoBest \/ IsBetter(here, best))
  <2>1. best' = here
    BY <1>1, <1>13 DEF Consider
  <2>2. /\ InBounds(best'.months, best'.days)
        /\ Usable(best'.months, best'.days)
        /\ best' = Candidate(best'.months, best'.days)
    BY <1>2, <1>13, <2>1 DEF Candidate
  <2>3. ASSUME NEW m \in 0..MaxMonths, NEW d \in 0..MaxDays(m), Visited(m, d)', Usable(m, d)
        PROVE  ~IsBetter(Candidate(m, d), best')
    <3>1. m \in Nat /\ d \in Nat /\ MaxDays(m) \in Nat
      BY <1>2, <1>5, BoundsType
    <3>2. Candidate(m, d) \in Combination
      BY <1>2, <3>1, BoundsType
    <3>3. CASE m = months /\ d = days
      BY <1>2, <1>5, <2>1, <3>3, BetterOrder
    <3>4. CASE ~(m = months /\ d = days)
      <4>1. Visited(m, d)
        BY <1>1, <1>2, <1>3, <1>4, <1>5, <2>3, <3>1, <3>4 DEF Consider, Visited, InBounds
      <4>2. best # NoBest /\ ~IsBetter(Candidate(m, d), best)
        BY <1>2, <2>3, <4>1 DEF BestOfVisited
      <4>3. IsBetter(here, best) /\ best \in Combination
        BY <1>2, <1>13, <4>2 DEF TypeOK
      <4> QED BY <1>2, <1>5, <2>1, <3>2, <4>2, <4>3, BetterOrder
    <3> QED BY <3>3, <3>4
  <2> HIDE DEF here
  <2>4. BestOfVisited'
    BY <1>6, <1>10, <2>1, <2>2, <2>3 DEF BestOfVisited
  <2> QED BY <1>8, <1>9, <1>12, <2>4 DEF QuoteInv
<1>14. CASE ~(Usable(months, days) /\ (best = NoBest \/ IsBetter(here, best)))
  <2>1. best' = best
    BY <1>1, <1>14 DEF Consider
  <2>2. ASSUME NEW m \in 0..MaxMonths, NEW d \in 0..MaxDays(m), Visited(m, d)', Usable(m, d)
        PROVE  best # NoBest /\ ~IsBetter(Candidate(m, d), best)
    <3>1. m \in Nat /\ d \in Nat /\ MaxDays(m) \in Nat
      BY <1>2, <1>5, BoundsType
    <3>2. CASE m = months /\ d = days
      BY <1>14, <2>2, <3>2
    <3>3. CASE ~(m = months /\ d = days)
      <4>1. Visited(m, d)
        BY <1>1, <1>2, <1>3, <1>4, <1>5, <2>2, <3>1, <3>3 DEF Consider, Visited, InBounds
      <4> QED BY <1>2, <2>2, <4>1 DEF BestOfVisited
    <3> QED BY <3>2, <3>3
  <2>3. BestOfVisited'
    BY <1>2, <1>10, <2>1, <2>2 DEF BestOfVisited
  <2> QED BY <1>8, <1>9, <1>12, <2>3 DEF QuoteInv
<1> QED BY <1>13, <1>14

\* So does every later one.
LEMMA BuildQuoteKeeps == QuoteInv /\ BuildQuote => QuoteInv'
<1>1. ASSUME QuoteInv, BuildQuote PROVE AtStart'
  <2>1. TypeOK'
    BY <1>1 DEF QuoteInv, BuildQuote, TypeOK
  <2>2. RatesOK'
    BY <1>1 DEF QuoteInv, BuildQuote, RatesOK
  <2> QED BY <1>1, <2>1, <2>2 DEF AtStart, BuildQuote
<1>2. AtStart' => QuoteInv'
  BY StartIsGood, PTL
<1> QED BY <1>1, <1>2

\* It is about the search alone.
LEMMA QuoteStutter == QuoteInv /\ UNCHANGED quote => QuoteInv'
BY DEF quote, vars, QuoteInv, TypeOK, RatesOK, InBounds, BestOfVisited, Visited, MaxMonths, MaxDays, Candidate,
       Usable, IsBetter, Cost, Lines, HoursNeeded, AfterDays, AfterMonths, BillableHours

\* When the loops have ended some combination was usable: the one made of the
\* largest unit on offer alone.
LEMMA SomethingIsUsable ==
  ASSUME TypeOK, RatesOK
  PROVE  \E c \in Combination : Covers(c)
<1> DEFINE H == BillableHours(duration)
           c == IF rates.month # 0 THEN [months |-> H, days |-> 0, hours |-> 0]
                ELSE IF rates.day # 0 THEN [months |-> 0, days |-> H, hours |-> 0]
                ELSE [months |-> 0, days |-> 0, hours |-> H]
<1>1. H \in Nat \ {0} /\ duration \in Int
  BY HoursType, QuoteAssumption DEF TypeOK
<1>2. H * PerHour >= duration
  BY <1>1, CeilingCovers, QuoteAssumption DEF BillableHours
<1>3. /\ H * Month \in Nat /\ H * Day \in Nat
      /\ 1 * H <= H * Month /\ 1 * H <= H * Day
  <2>1. H * Month \in Nat /\ H * Day \in Nat
    BY <1>1, Products, QuoteAssumption
  <2>2. 1 * H <= Month * H /\ 1 * H <= Day * H
    BY <1>1, Scale, QuoteAssumption
  <2> QED BY <1>1, <2>1, <2>2, QuoteAssumption
<1>4. c \in Combination
  BY <1>1 DEF Combination
<1> HIDE DEF H
<1>5. c.months * Month + c.days * Day + c.hours \in Int
      /\ c.months * Month + c.days * Day + c.hours >= H
  BY <1>1, <1>3, QuoteAssumption
<1>6. (c.months * Month + c.days * Day + c.hours) * PerHour >= H * PerHour
  BY <1>1, <1>5, Scale, QuoteAssumption
<1>7. H * PerHour \in Int /\ (c.months * Month + c.days * Day + c.hours) * PerHour \in Int
  BY <1>1, <1>5, QuoteAssumption
<1>8. Covers(c)
  BY <1>1, <1>2, <1>6, <1>7 DEF Covers, RatesOK
<1> QED BY <1>4, <1>8

\* When everything within the bounds has been tried, nothing at all is better.
LEMMA DoneIsCheapest == QuoteInv => QuoteIsCheapest
<1>1. SUFFICES ASSUME QuoteInv, done PROVE QuoteIsCheapest
  BY DEF QuoteIsCheapest
<1>2. TypeOK /\ RatesOK /\ BestOfVisited
  BY <1>1 DEF QuoteInv
<1>3. ASSUME NEW m \in Nat, NEW d \in Nat, InBounds(m, d), Usable(m, d)
      PROVE  best # NoBest /\ ~IsBetter(Candidate(m, d), best)
  BY <1>1, <1>2, <1>3 DEF BestOfVisited, Visited, InBounds
<1>4. best # NoBest
  <2>1. PICK c \in Combination : Covers(c)
    BY <1>2, SomethingIsUsable
  <2> QED BY <1>2, <1>3, <2>1, Exchange
<1>5. best \in Combination
  BY <1>2, <1>4 DEF TypeOK
<1>6. ASSUME NEW c \in Combination, Covers(c) PROVE ~IsBetter(c, best)
  <2>1. PICK m \in Nat, d \in Nat : /\ InBounds(m, d) /\ Usable(m, d)
                                    /\ c = Candidate(m, d) \/ Cost(Candidate(m, d)) < Cost(c)
    BY <1>2, <1>6, Exchange
  <2>2. Candidate(m, d) \in Combination
    BY <1>2, BoundsType
  <2>3. ~IsBetter(Candidate(m, d), best)
    BY <1>3, <2>1
  <2>4. Cost(Candidate(m, d)) < Cost(c) => IsBetter(Candidate(m, d), c)
    BY DEF IsBetter
  <2> QED BY <1>2, <1>5, <2>1, <2>2, <2>3, <2>4, BetterOrder
<1>7. Covers(best)
  <2> DEFINE m == best.months
             d == best.days
             h == best.hours
  <2>1. /\ best = Candidate(m, d) /\ Usable(m, d) /\ InBounds(m, d)
        /\ m \in Nat /\ d \in Nat /\ h \in Nat /\ h = HoursNeeded(m, d)
    BY <1>2, <1>4, <1>5 DEF BestOfVisited, Combination, Candidate
  <2>2. m * Month \in Nat /\ d * Day \in Nat /\ AfterDays(m, d) \in Int
    BY <1>2, <2>1, BoundsType, Products, QuoteAssumption
  <2>3. BillableHours(duration) \in Int /\ duration \in Int
    BY <1>2, HoursType, QuoteAssumption DEF TypeOK
  <2> DEFINE k == m * Month + d * Day + h
  <2>4. k \in Int /\ k >= BillableHours(duration)
    BY <2>1, <2>2, <2>3 DEF HoursNeeded, AfterDays, AfterMonths
  <2>5. m = 0 \/ rates.month # 0
    BY <2>1 DEF InBounds, MaxMonths
  <2>6. d = 0 \/ rates.day # 0
    BY <2>1 DEF InBounds, MaxDays
  <2>7. h = 0 \/ rates.hour # 0
    BY <2>1 DEF Usable
  <2> HIDE DEF k
  <2>8. k * PerHour >= BillableHours(duration) * PerHour
    BY <2>3, <2>4, Scale, QuoteAssumption
  <2>9. BillableHours(duration) * PerHour >= duration
    BY <2>3, CeilingCovers, QuoteAssumption DEF BillableHours
  <2>10. k * PerHour \in Int /\ BillableHours(duration) * PerHour \in Int
    BY <2>3, <2>4, QuoteAssumption
  <2>11. k * PerHour >= duration
    BY <2>3, <2>8, <2>9, <2>10
  <2> QED BY <2>5, <2>6, <2>7, <2>11 DEF Covers, k
<1>8. ASSUME NEW c \in [months : Count, days : Count, hours : Count], Covers(c)
      PROVE  ~IsBetter(c, best)
  <2>1. c \in Combination
    BY <1>2, HoursType DEF Count, Combination
  <2> QED BY <1>6, <1>8, <2>1
<1> QED BY <1>1, <1>4, <1>7, <1>8 DEF QuoteIsCheapest
-----------------------------------------------------------------------------
\* The whole: the parts share no state, and one moves at a time.

ServerInv ==
  /\ LifecycleInv /\ RateLimitInv /\ TypingInv /\ PresenceInv
  /\ BellInv /\ ClosureInv /\ MigrationsInv /\ QuoteInv

\* What every part keeps, all of them keep.
LEMMA ServerInductive == AllSpec => []ServerInv
<1>1. AllInit => ServerInv
  BY LifecycleInit, RateLimitInit, TypingInit, PresenceInit, BellInit, ClosureInit, MigrationsInit, InitIsGood
     DEF AllInit, ServerInv
<1>2. ASSUME ServerInv, [AllNext]_everything PROVE ServerInv'
  <2>1. LifecycleInv'
    BY <1>2, LifecycleStep, LifecycleStutter DEF ServerInv, AllNext, everything
  <2>2. RateLimitInv'
    BY <1>2, RateLimitStep, RateLimitStutter DEF ServerInv, AllNext, everything
  <2>3. TypingInv'
    BY <1>2, TypingStep, TypingStutter DEF ServerInv, AllNext, everything
  <2>4. PresenceInv'
    BY <1>2, PresenceStep, PresenceStutter DEF ServerInv, AllNext, everything
  <2>5. BellInv'
    BY <1>2, BellStep, BellStutter DEF ServerInv, AllNext, everything
  <2>6. ClosureInv'
    BY <1>2, ClosureStep, ClosureStutter DEF ServerInv, AllNext, everything
  <2>7. MigrationsInv'
    BY <1>2, MigrationsStep, MigrationsStutter DEF ServerInv, AllNext, everything
  <2>8. QuoteInv'
    BY <1>2, ConsiderKeeps, BuildQuoteKeeps, QuoteStutter DEF ServerInv, AllNext, Next, everything
  <2> QED BY <2>1, <2>2, <2>3, <2>4, <2>5, <2>6, <2>7, <2>8 DEF ServerInv
<1> QED BY <1>1, <1>2, PTL DEF AllSpec

\* Types of the part that moves, whichever it is.
THEOREM ServerTypes == AllSpec => []AllTypesOK
<1>1. ServerInv => AllTypesOK
  BY RateLimitTypeCorrect
     DEF ServerInv, AllTypesOK, LifecycleInv, TypingInv, PresenceInv, BellInv, ClosureInv, MigrationsInv, QuoteInv
<1> QED BY <1>1, ServerInductive, PTL

\* However many requests, sockets and signals there are, a clean exit cuts off
\* nobody, a forced one is somebody's fault who would not finish, and no request
\* finds the pool closed under it (shutdown's order, closeDatabase).
THEOREM ExitsExplained == AllSpec => []ExitIsExplained
<1>1. ServerInv => ExitIsExplained
  BY ExitFollows DEF ServerInv
<1> QED BY <1>1, ServerInductive, PTL

\* Whatever the maximum, the window and the requests at once, no more wrong
\* guesses get through in a window than the maximum and the hits a success of an
\* earlier window took back from this one (limiter, skipSuccessfulRequests).
THEOREM GuessesCapped == AllSpec => []GuessesAreCapped
<1>1. ServerInv => GuessesAreCapped
  BY CapFollows DEF ServerInv
<1> QED BY <1>1, ServerInductive, PTL

\* For every idle time, expiry and limit of the socket, nobody is shown typing
\* longer than the expiry after their last key, whatever is dropped or lost
\* (MessageThread's timer on each relay it is given).
THEOREM NobodyOutlivesTheTypist == AllSpec => []NeverOutlivesTheTypist
<1>1. ServerInv => NeverOutlivesTheTypist
  BY ExpiryFollows DEF ServerInv
<1> QED BY <1>1, ServerInductive, PTL

\* For any number of tabs, what the watcher is shown is what the registry says,
\* but after a change no room was told of or an answer overtaken by a change
\* (connectionRegistry, the `disconnecting` handler of socketServer.js, and the
\* acknowledgement of thread:join in threadHandlers.js).
THEOREM PresenceIsTrueOtherwise == AllSpec => []ShownIsTrueOtherwise
<1>1. ServerInv => ShownIsTrueOtherwise
  BY ShownFollows DEF ServerInv
<1> QED BY <1>1, ServerInductive, PTL

\* For any number of users, listings, bookings and handlers, a renter whose
\* owner closes the account has a way out of every booking still open, by a
\* move of their own or the sweep's (deleteOwnAccount, BOOKING_ACTIONS).
THEOREM NoRenterIsTrapped == AllSpec => []RenterHasAWayOut
<1>1. ServerInv => RenterHasAWayOut
  BY WayOutFollows DEF ServerInv
<1> QED BY <1>1, ServerInductive, PTL

\* The ledger says what the database went through, and no file is applied over
\* the gap of an earlier one (migrate, and resolveState's plan), for any number
\* of files, of runs that overlap, fail and die, and of edits on disk.
THEOREM SchemasAreReproducible == AllSpec => []SchemaIsReproducible
<1>1. ServerInv => SchemaIsReproducible
  BY SchemaFollows DEF ServerInv
<1> QED BY <1>1, ServerInductive, PTL

\* The price of cheapestCombination is the least of any combination of months,
\* days and hours that covers the duration asked for, ties going to fewer lines
\* and then to larger units: for every duration, rates and UNIT_HOURS.
THEOREM Cheapest == AllSpec => []QuoteIsCheapest
<1>1. ServerInv => QuoteIsCheapest
  BY DoneIsCheapest DEF ServerInv
<1> QED BY <1>1, ServerInductive, PTL
=============================================================================

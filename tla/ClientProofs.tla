---------------------------- MODULE ClientProofs ----------------------------
(***************************************************************************)
(* What the pages of the browser show, for every value of their constants: *)
(* the session of a tab, the results of a search, the form of a listing,   *)
(* the price of a request, and the page of a booking with its photos.      *)
(* Each part has an inductive invariant, <Part>Inv, with a lemma per       *)
(* action; MCClient runs the parts side by side, so ClientInv is their     *)
(* conjunction.  Every one of them says what the answers on their way will *)
(* bring, since that is what the page shows once it is quiet: of the       *)
(* session AnswersAreTrue, of the search QuestionsAskTheUrl, of the form   *)
(* AnswersAreTheListing, of the price CardsAreInOrder, and of the booking  *)
(* LoadsAreCurrent.                                                        *)
(***************************************************************************)
EXTENDS MCClient, FiniteSetTheorems, SequenceTheorems, TLAPS

-----------------------------------------------------------------------------
(* The session of a tab (Session). *)

\* With nothing lost, overlapped or done elsewhere one request at most is on its
\* way, and what its answer will make of the tab is how things are then.
AnswersAreTrue ==
  behind = {} =>
    /\ pending = {} => user = S!Me
    /\ \A r, s \in pending : r = s
    /\ \A r \in pending :
         /\ r.kind \in {"boot", "refresh"} => r.answer = S!Me
         /\ r.kind = "login" => r.answer.as \in Users /\ r.answer.details = details

\* With nothing inherited, whoever is shown is whom the cookie and the socket name.
OneNameForAll ==
  inherited = {} =>
    /\ user.as # Nobody => user.as = cookie
    /\ socket \in Users => socket = user.as

\* What holds of the session in every reachable state, and is kept by every step.
SessionInv == S!TypeOK /\ AnswersAreTrue /\ OneNameForAll

\* A request on its way.
PendingType ==
  [kind : {"boot", "refresh", "login", "logout", "save", "verify"}, answer : S!Account]

\* Nobody is no user, and neither are the two states of a socket that has none.
LEMMA SessionConstants ==
  MaxEdits \in Nat /\ Nobody \notin Users /\ "none" \notin Users /\ "refused" \notin Users
BY ClientAssumption

\* What is answered has the type of an account.
LEMMA SessionTypes ==
  /\ S!SignedOut \in S!Account /\ S!SignedOut.as = Nobody
  /\ cookie = Nobody => S!Me = S!SignedOut
  /\ cookie # Nobody => S!Me.as = cookie /\ S!Me.details = details
  /\ S!Me.as = cookie
  /\ cookie \in Users \cup {Nobody} /\ details \in 0..MaxEdits => S!Me \in S!Account
<1>1. S!SignedOut \in S!Account /\ S!SignedOut.as = Nobody
  BY SessionConstants DEF S!SignedOut, S!Account
<1> QED BY <1>1 DEF S!Me, S!SignedOut, S!Account

\* It holds when the tab opens.
LEMMA SessionInit == S!Init => SessionInv
<1> SUFFICES ASSUME S!Init PROVE SessionInv
  OBVIOUS
<1>1. /\ cookie \in Users \cup {Nobody} /\ details = 0 /\ user = S!SignedOut /\ loading = TRUE
      /\ pending = {[kind |-> "boot", answer |-> S!Me]}
      /\ socket = "none" /\ behind = {} /\ inherited = {}
  BY DEF S!Init
<1>2. S!Me \in S!Account /\ user \in S!Account /\ user.as = Nobody /\ details \in 0..MaxEdits
  BY <1>1, SessionTypes, SessionConstants
<1> HIDE DEF S!Me, S!SignedOut, S!Account
<1>3. S!TypeOK
  <2>1. pending \subseteq PendingType
    BY <1>1, <1>2 DEF PendingType
  <2>2. loading \in BOOLEAN
    BY <1>1
  <2> QED BY <1>1, <1>2, <2>1, <2>2 DEF S!TypeOK, PendingType
<1>4. AnswersAreTrue
  <2> DEFINE r == [kind |-> "boot", answer |-> S!Me]
  <2>1. pending = {r} /\ r.kind = "boot" /\ r.answer = S!Me
    BY <1>1
  <2> HIDE DEF r
  <2> QED BY <2>1 DEF AnswersAreTrue
<1>5. OneNameForAll
  BY <1>1, <1>2, SessionConstants DEF OneNameForAll
<1> QED BY <1>3, <1>4, <1>5 DEF SessionInv

\* It holds on while another part moves.
LEMMA SessionStutter == SessionInv /\ UNCHANGED session => SessionInv'
BY DEF SessionInv, session, S!TypeOK, AnswersAreTrue, OneNameForAll, S!Me

\* A request is sent: the first, or one too many.
LEMMA SentKeeps ==
  ASSUME SessionInv, NEW kind \in {"boot", "refresh", "login", "logout", "save", "verify"},
         NEW answer \in S!Account, S!Send(kind, answer),
         kind \in {"boot", "refresh"} => answer = S!Me',
         kind = "login" => answer.as \in Users /\ answer.details = details',
         details' \in 0..MaxEdits, UNCHANGED <<cookie, user, loading, socket, inherited>>
  PROVE  SessionInv'
<1> DEFINE r == [kind |-> kind, answer |-> answer]
<1>1. pending' = pending \cup {r} /\ behind' = IF pending = {} THEN behind ELSE behind \cup {"overlapped"}
  BY DEF S!Send
<1>2. r \in PendingType /\ r.kind = kind /\ r.answer = answer
  BY DEF PendingType
<1> HIDE DEF r
<1>3. S!TypeOK'
  BY <1>1, <1>2 DEF SessionInv, S!TypeOK, PendingType
<1>4. AnswersAreTrue'
  <2>1. CASE pending = {}
    BY <1>1, <1>2, <2>1 DEF AnswersAreTrue
  <2>2. CASE pending # {}
    BY <1>1, <2>2 DEF AnswersAreTrue
  <2> QED BY <2>1, <2>2
<1>5. OneNameForAll'
  BY DEF SessionInv, OneNameForAll
<1> QED BY <1>3, <1>4, <1>5 DEF SessionInv

\* The five ways to send one.
LEMMA SendersKeep ==
  ASSUME SessionInv,
         \/ \E u \in Users : S!Login(u)
         \/ S!Logout \/ S!Refresh
         \/ \E kind \in {"save", "verify"} : S!Save(kind)
  PROVE  SessionInv'
<1>1. /\ cookie \in Users \cup {Nobody} /\ details \in 0..MaxEdits
      /\ S!Me \in S!Account /\ S!SignedOut \in S!Account
  BY SessionTypes DEF SessionInv, S!TypeOK
<1>2. ASSUME NEW u \in Users, S!Login(u) PROVE SessionInv'
  <2> DEFINE answer == [as |-> u, details |-> details]
  <2>1. answer \in S!Account /\ answer.as = u /\ answer.details = details
    BY <1>1 DEF S!Account
  <2>2. S!Send("login", answer) /\ UNCHANGED <<cookie, details, user, loading, socket, inherited>>
    BY <1>2 DEF S!Login
  <2> HIDE DEF answer
  <2> QED BY <1>1, <2>1, <2>2, SentKeeps
<1>3. CASE S!Logout
  BY <1>1, <1>3, SentKeeps DEF S!Logout
<1>4. CASE S!Refresh
  <2>1. S!Me' = S!Me
    BY <1>4 DEF S!Refresh, S!Me
  <2> QED BY <1>1, <1>4, <2>1, SentKeeps DEF S!Refresh
<1>5. ASSUME NEW kind \in {"save", "verify"}, S!Save(kind) PROVE SessionInv'
  <2>1. details' \in 0..MaxEdits
    BY <1>1, <1>5, SessionConstants DEF S!Save
  <2> QED BY <1>1, <1>5, <2>1, SentKeeps DEF S!Save
<1> QED BY <1>2, <1>3, <1>4, <1>5

\* What an answer leaves: the request gone, the excuses or a tab that knows better.
LEMMA ArrivalKeeps ==
  ASSUME SessionInv, NEW r \in pending, pending' = pending \ {r}, details' = details,
         cookie' \in Users \cup {Nobody}, user' \in S!Account, loading' \in BOOLEAN,
         socket' \in {"none", "refused"} \cup Users,
         behind' \subseteq {"overlapped", "lost", "elsewhere"},
         inherited' \subseteq {"overtaken", "lost", "elsewhere"},
         behind' = {} => \/ behind = {} /\ user' = S!Me'
                         \/ pending' = {} /\ user' = S!Me',
         OneNameForAll'
  PROVE  SessionInv'
<1>1. S!TypeOK'
  BY DEF SessionInv, S!TypeOK
<1>2. behind' = {} => pending' = {} /\ user' = S!Me'
  BY DEF SessionInv, AnswersAreTrue
<1>3. AnswersAreTrue'
  BY <1>2 DEF AnswersAreTrue
<1> QED BY <1>1, <1>3 DEF SessionInv

\* The answers and their failures.
LEMMA ArrivalsKeep ==
  ASSUME SessionInv, NEW r \in pending,
         \/ S!MeArrives(r) \/ S!MeFails(r) \/ S!LoginArrives(r) \/ S!LoginFails(r)
         \/ S!LogoutArrives(r) \/ S!LogoutFails(r) \/ S!SaveArrives(r) \/ S!SaveFails(r)
  PROVE  SessionInv'
<1>1. /\ cookie \in Users \cup {Nobody} /\ details \in 0..MaxEdits
      /\ user \in S!Account /\ loading \in BOOLEAN /\ pending \subseteq PendingType
      /\ socket \in {"none", "refused"} \cup Users
      /\ behind \subseteq {"overlapped", "lost", "elsewhere"}
      /\ inherited \subseteq {"overtaken", "lost", "elsewhere"}
  BY DEF SessionInv, S!TypeOK, PendingType
<1>2. /\ r.answer \in S!Account /\ r.answer.as \in Users \cup {Nobody}
      /\ S!SignedOut \in S!Account /\ S!SignedOut.as = Nobody /\ user.as \in Users \cup {Nobody}
  BY <1>1, SessionTypes DEF PendingType, S!Account
<1>3. \A x \in {"overlapped", "lost", "elsewhere"} : behind \cup {x} # {} /\ inherited \cup {x} # {}
  OBVIOUS
<1>4. CASE S!MeArrives(r)
  <2>1. /\ r.kind \in {"boot", "refresh"} /\ user' = r.answer /\ pending' = pending \ {r}
        /\ inherited' = IF r.answer.as = cookie THEN inherited ELSE inherited \cup {"overtaken"}
        /\ behind' = S!Settled(r) /\ UNCHANGED <<cookie, details, socket>>
    BY <1>4 DEF S!MeArrives
  <2>2. loading' \in BOOLEAN
    <3>1. loading' = (loading /\ r.kind # "boot")
      BY <1>4 DEF S!MeArrives
    <3> QED BY <3>1
  <2>3. behind' \in {behind, {}} /\ (behind' = {} => behind = {} \/ (pending' = {} /\ user' = S!Me'))
    BY <2>1 DEF S!Settled
  <2>4. behind = {} => user' = S!Me'
    BY <2>1 DEF SessionInv, AnswersAreTrue, S!Me
  <2>5. OneNameForAll'
    BY <1>2, <2>1, SessionConstants DEF SessionInv, OneNameForAll
  <2>6. inherited' \subseteq {"overtaken", "lost", "elsewhere"}
    BY <1>1, <2>1
  <2> QED BY <1>1, <1>2, <2>1, <2>2, <2>3, <2>4, <2>5, <2>6, ArrivalKeeps
<1>5. CASE S!MeFails(r)
  <2>1. /\ user' = S!SignedOut /\ pending' = pending \ {r}
        /\ behind' = behind \cup {"lost"} /\ inherited' = inherited \cup {"lost"}
        /\ UNCHANGED <<cookie, details, socket>>
    BY <1>5 DEF S!MeFails
  <2>2. loading' \in BOOLEAN
    <3>1. loading' = (loading /\ r.kind # "boot")
      BY <1>5 DEF S!MeFails
    <3> QED BY <3>1
  <2>3. OneNameForAll'
    BY <2>1 DEF OneNameForAll
  <2> QED BY <1>1, <1>2, <2>1, <2>2, <2>3, ArrivalKeeps
<1>6. CASE S!LoginArrives(r)
  <2>1. /\ r.kind = "login" /\ cookie' = r.answer.as /\ user' = r.answer /\ pending' = pending \ {r}
        /\ inherited' = IF user.as \in {Nobody, r.answer.as} THEN inherited ELSE inherited \cup {"overtaken"}
        /\ behind' = S!Settled(r) /\ UNCHANGED <<details, loading, socket>>
    BY <1>6 DEF S!LoginArrives
  <2>2. behind' \in {behind, {}} /\ (behind' = {} => behind = {} \/ (pending' = {} /\ user' = S!Me'))
    BY <2>1 DEF S!Settled
  <2>3. behind = {} => user' = S!Me'
    <3>1. SUFFICES ASSUME behind = {} PROVE user' = S!Me'
      OBVIOUS
    <3>2. r.answer.as \in Users /\ r.answer.details = details
      BY <2>1, <3>1 DEF SessionInv, AnswersAreTrue
    <3>3. S!Me' = [as |-> r.answer.as, details |-> r.answer.details]
      BY <2>1, <3>2, SessionConstants DEF S!Me
    <3> QED BY <1>2, <2>1, <3>3 DEF S!Account
  <2>4. OneNameForAll'
    BY <1>2, <2>1, SessionConstants DEF SessionInv, OneNameForAll
  <2>5. inherited' \subseteq {"overtaken", "lost", "elsewhere"}
    BY <1>1, <2>1
  <2> QED BY <1>1, <1>2, <2>1, <2>2, <2>3, <2>4, <2>5, ArrivalKeeps
<1>7. CASE S!LoginFails(r)
  <2>1. /\ cookie' \in {cookie, r.answer.as} /\ pending' = pending \ {r}
        /\ behind' = behind \cup {"lost"} /\ inherited' = inherited \cup {"lost"}
        /\ UNCHANGED <<details, user, loading, socket>>
    BY <1>7 DEF S!LoginFails
  <2>2. OneNameForAll'
    BY <2>1 DEF OneNameForAll
  <2> QED BY <1>1, <1>2, <2>1, <2>2, ArrivalKeeps
<1>8. CASE S!LogoutArrives(r)
  <2>1. /\ cookie' = Nobody /\ socket' = "none" /\ inherited' = {} /\ user' = S!SignedOut
        /\ pending' = pending \ {r} /\ behind' = S!Settled(r) /\ UNCHANGED <<details, loading>>
    BY <1>8 DEF S!LogoutArrives, S!CloseSocket
  <2>2. S!Me' = S!SignedOut
    BY <2>1 DEF S!Me, S!SignedOut
  <2>3. behind' \in {behind, {}} /\ (behind' = {} => behind = {} \/ (pending' = {} /\ user' = S!Me'))
    BY <2>1 DEF S!Settled
  <2>4. OneNameForAll'
    BY <1>2, <2>1, SessionConstants DEF OneNameForAll
  <2> QED BY <1>1, <1>2, <2>1, <2>2, <2>3, <2>4, ArrivalKeeps
<1>9. CASE S!LogoutFails(r)
  <2>1. /\ cookie' \in {cookie, Nobody} /\ socket' = "none" /\ inherited' = {} /\ user' = S!SignedOut
        /\ pending' = pending \ {r} /\ behind' = behind \cup {"lost"} /\ UNCHANGED <<details, loading>>
    BY <1>9 DEF S!LogoutFails, S!CloseSocket
  <2>2. OneNameForAll'
    BY <1>2, <2>1, SessionConstants DEF OneNameForAll
  <2> QED BY <1>1, <1>2, <2>1, <2>2, ArrivalKeeps
<1>10. CASE S!SaveArrives(r)
  <2> DEFINE s == [kind |-> "refresh", answer |-> S!Me]
  <2>1. /\ pending' = (pending \ {r}) \cup {s}
        /\ UNCHANGED <<cookie, details, user, loading, socket, behind, inherited>>
    BY <1>10 DEF S!SaveArrives
  <2>2. s \in PendingType /\ s.kind = "refresh" /\ s.answer = S!Me
    BY <1>1, SessionTypes DEF PendingType
  <2>3. S!Me' = S!Me
    BY <2>1 DEF S!Me
  <2> HIDE DEF s
  <2>4. S!TypeOK'
    BY <1>1, <2>1, <2>2 DEF S!TypeOK, PendingType
  <2>5. AnswersAreTrue'
    BY <2>1, <2>2, <2>3 DEF SessionInv, AnswersAreTrue
  <2>6. OneNameForAll'
    BY <2>1 DEF SessionInv, OneNameForAll
  <2> QED BY <2>4, <2>5, <2>6 DEF SessionInv
<1>11. CASE S!SaveFails(r)
  <2>1. /\ pending' = pending \ {r} /\ behind' = behind \cup {"lost"}
        /\ UNCHANGED <<cookie, details, user, loading, socket, inherited>>
    BY <1>11 DEF S!SaveFails
  <2>2. OneNameForAll'
    BY <2>1 DEF SessionInv, OneNameForAll
  <2> QED BY <1>1, <1>2, <2>1, <2>2, ArrivalKeeps
<1> QED BY <1>4, <1>5, <1>6, <1>7, <1>8, <1>9, <1>10, <1>11

\* The cookie changes hands elsewhere, or the socket is made.
LEMMA SocketKeeps ==
  ASSUME SessionInv,
         (\E u \in Users \cup {Nobody} : S!Elsewhere(u)) \/ S!GetSocket \/ S!Reconnect
  PROVE  SessionInv'
<1>1. ASSUME NEW u \in Users \cup {Nobody}, S!Elsewhere(u) PROVE SessionInv'
  <2>1. /\ cookie' = u /\ behind' = behind \cup {"elsewhere"} /\ inherited' = inherited \cup {"elsewhere"}
        /\ UNCHANGED <<details, user, loading, pending, socket>>
    BY <1>1 DEF S!Elsewhere
  <2>2. S!TypeOK'
    BY <2>1 DEF SessionInv, S!TypeOK
  <2>3. AnswersAreTrue' /\ OneNameForAll'
    BY <2>1 DEF AnswersAreTrue, OneNameForAll
  <2> QED BY <2>2, <2>3 DEF SessionInv
<1>2. CASE S!GetSocket \/ S!Reconnect
  <2>1. /\ UNCHANGED <<cookie, details, user, loading, pending, behind, inherited>>
        /\ socket' = IF cookie = Nobody THEN "refused" ELSE cookie
        /\ user.as # Nobody \/ socket \in Users
    BY <1>2 DEF S!GetSocket, S!Reconnect, S!Handshake
  <2>2. S!TypeOK'
    BY <2>1 DEF SessionInv, S!TypeOK
  <2>3. AnswersAreTrue'
    BY <2>1 DEF SessionInv, AnswersAreTrue, S!Me
  <2>4. OneNameForAll'
    BY <2>1, SessionConstants DEF SessionInv, OneNameForAll
  <2> QED BY <2>2, <2>3, <2>4 DEF SessionInv
<1> QED BY <1>1, <1>2

\* Every step of the tab and of the other one keeps it.
LEMMA SessionStep == SessionInv /\ S!Next => SessionInv'
BY SendersKeep, ArrivalsKeep, SocketKeeps DEF S!Next

\* A quiet tab shows the browser's session, and its socket is the user's.
LEMMA OneUserFollows == SessionInv => OneUserAtATime
BY DEF SessionInv, AnswersAreTrue, OneNameForAll, OneUserAtATime, S!OneUserAtATime,
       S!SignedInIsTrue, S!SocketIsTheUsers

-----------------------------------------------------------------------------
(* Looking for a listing (Browse). *)

\* Current questions are of the address, and with no stray offset their answers
\* are what the shelf would answer still.
QuestionsAskTheUrl ==
  \A a \in questions : a.active =>
    /\ a.url = url
    /\ strayed = {} /\ a.answered => a.answer = B!FindPublishedListings(url)

\* A first page without rows means no match.
MeansNoMatch(u, answer) == answer.rows = <<>> /\ u.offset = 0 => answer.matches = 0

\* So it is of what is shown, and of every answer on its way.
FirstPagesMeanIt ==
  /\ MeansNoMatch(view.url, view.answer)
  /\ \A a \in questions : MeansNoMatch(a.url, a.answer)

\* With no excuse a page past the first has matches, and what is shown was turned
\* from an answer the shelf would still give.
OffsetIsInRange ==
  strayed = {} /\ url.offset # 0 =>
    /\ url.offset < Len(B!Ordered(B!Matching(url)))
    /\ view.status = "failed" \/ view.answer = B!FindPublishedListings(view.url)

\* The types.
BrowseTypeOK ==
  /\ shelf \subseteq B!Listings /\ url \in B!Url
  /\ box \in Prices \cup {Unset}
  /\ view \in [status : {"loading", "ready", "failed"}, url : B!Url, answer : B!Answer]
  /\ questions \subseteq [url : B!Url, active : BOOLEAN, answered : BOOLEAN, answer : B!Answer]
  /\ changes \in 0..MaxChanges /\ strayed \subseteq {"link", "shelf", "outdated"}

\* What holds of the results in every reachable state, and is kept by every step.
BrowseInv ==
  /\ BrowseTypeOK /\ QuestionsAskTheUrl /\ B!ResultsAnswerTheUrl
  /\ FirstPagesMeanIt /\ OffsetIsInRange

\* The bounds of this part.
LEMMA BrowseBounds ==
  PageSize \in Nat \ {0} /\ MaxChanges \in Nat /\ Len(City) \in Nat \ {0}
BY ClientAssumption

\* The i-th newest of a set is the one that i - 1 are newer than: there is one.
LEMMA Ranks ==
  ASSUME NEW X \in SUBSET Int, IsFiniteSet(X)
  PROVE  \A i \in 1..Cardinality(X) : \E l \in X : Cardinality(B!Newer(X, l)) = i - 1
<1> DEFINE n == Cardinality(X)
           f == [l \in X |-> Cardinality(B!Newer(X, l))]
<1>1. n \in Nat
  BY FS_CardinalityType
<1>2. ASSUME NEW l \in X
      PROVE  /\ IsFiniteSet(B!Newer(X, l)) /\ f[l] \in Nat /\ f[l] <= n - 1
             /\ l \notin B!Newer(X, l)
  <2>1. B!Newer(X, l) \subseteq X \ {l} /\ l \notin B!Newer(X, l)
    BY DEF B!Newer
  <2>2. IsFiniteSet(X \ {l}) /\ Cardinality(X \ {l}) = n - 1
    BY FS_RemoveElement
  <2>3. IsFiniteSet(B!Newer(X, l)) /\ Cardinality(B!Newer(X, l)) <= n - 1
    BY <2>1, <2>2, FS_Subset
  <2>4. Cardinality(B!Newer(X, l)) \in Nat
    BY <2>3, FS_CardinalityType
  <2> QED BY <2>1, <2>3, <2>4
<1>3. ASSUME NEW l \in X, NEW k \in X, l < k PROVE f[k] < f[l]
  <2>1. B!Newer(X, k) \cup {k} \subseteq B!Newer(X, l)
    <3>1. \A m \in X : m > k => m > l
      BY <1>3
    <3>2. k > l
      BY <1>3
    <3> HIDE DEF f, n
    <3> QED BY <3>1, <3>2, Zenon DEF B!Newer
  <2>2. Cardinality(B!Newer(X, k) \cup {k}) = f[k] + 1
    BY <1>2, FS_AddElement
  <2>3. Cardinality(B!Newer(X, k) \cup {k}) <= f[l]
    BY <1>2, <2>1, FS_Subset
  <2> QED BY <1>2, <2>2, <2>3
<1>4. f \in [X -> 0..(n - 1)]
  BY <1>1, <1>2
<1>5. \A l, k \in X : f[l] = f[k] => l = k
  <2>1. SUFFICES ASSUME NEW l \in X, NEW k \in X, f[l] = f[k], l # k PROVE FALSE
    OBVIOUS
  <2>2. l \in Int /\ k \in Int /\ f[l] \in Nat
    BY <1>2
  <2>3. l < k \/ k < l
    BY <2>1, <2>2
  <2>4. f[k] < f[l] \/ f[l] < f[k]
    BY <1>3, <2>3
  <2> HIDE DEF f
  <2> QED BY <2>1, <2>2, <2>4
<1> HIDE DEF f
<1>6. f \in Injection(X, 0..(n - 1))
  BY <1>4, <1>5 DEF Injection, IsInjective
<1>7. IsFiniteSet(0..(n - 1)) /\ Cardinality(0..(n - 1)) = n
  BY <1>1, FS_Interval
<1>8. f \in Surjection(X, 0..(n - 1))
  BY <1>6, <1>7, FS_Injection
<1>9. ASSUME NEW i \in 1..n PROVE \E l \in X : f[l] = i - 1
  <2>1. i - 1 \in 0..(n - 1)
    BY <1>1
  <2> QED BY <1>8, <2>1 DEF Surjection
<1> QED BY <1>9 DEF f

\* The shelf in order: as long as what it holds, and of nothing else.
LEMMA OrderedTypes ==
  ASSUME NEW X \in SUBSET B!Listings
  PROVE  /\ B!Ordered(X) \in Seq(B!Listings)
         /\ Len(B!Ordered(X)) \in 0..Len(City)
<1>1. IsFiniteSet(B!Listings) /\ Cardinality(B!Listings) = Len(City) /\ X \subseteq Int
  BY BrowseBounds, FS_Interval DEF B!Listings
<1>2. IsFiniteSet(X) /\ Cardinality(X) <= Len(City) /\ Cardinality(X) \in Nat
  BY <1>1, FS_Subset, FS_CardinalityType
<1>3. \A Y : B!Cardinality(Y) = Cardinality(Y)
  BY DEF B!Cardinality, Cardinality
<1> DEFINE pick == [i \in 1..Cardinality(X) |-> CHOOSE l \in X : Cardinality(B!Newer(X, l)) = i - 1]
<1>4. B!Ordered(X) = pick
  BY <1>3 DEF B!Ordered
<1>5. \A i \in 1..Cardinality(X) : pick[i] \in X
  BY <1>1, <1>2, Ranks
<1>6. pick \in [1..Cardinality(X) -> B!Listings]
  BY <1>5
<1> HIDE DEF pick
<1>7. pick \in Seq(B!Listings) /\ Len(pick) = Cardinality(X)
  BY <1>2, <1>6
<1> QED BY <1>2, <1>4, <1>7, BrowseBounds

\* Matches are on the shelf, and depend on the filters alone.
LEMMA MatchesAreListings ==
  ASSUME shelf \subseteq B!Listings, NEW u
  PROVE  B!Matching(u) \in SUBSET B!Listings
BY DEF B!Matching

\* What a page of the shelf holds, how many match, and when it is empty.
LEMMA FindFacts ==
  ASSUME shelf \subseteq B!Listings, NEW u, u.offset \in Nat
  PROVE  /\ B!FindPublishedListings(u) \in B!Answer
         /\ B!FindPublishedListings(u).matches = Len(B!Ordered(B!Matching(u)))
         /\ B!FindPublishedListings(u).total <= Len(B!Ordered(B!Matching(u)))
         /\ Len(B!Ordered(B!Matching(u))) \in 0..Len(City)
         /\ B!FindPublishedListings(u).rows = <<>> => u.offset >= Len(B!Ordered(B!Matching(u)))
<1> DEFINE all == B!Ordered(B!Matching(u))
           n == Len(all)
           end == IF u.offset + PageSize > n THEN n ELSE u.offset + PageSize
           pageRows == SubSeq(all, u.offset + 1, end)
<1>1. all \in Seq(B!Listings) /\ n \in 0..Len(City)
  BY MatchesAreListings, OrderedTypes
<1>2. B!FindPublishedListings(u) = [rows |-> pageRows, total |-> IF pageRows = <<>> THEN 0 ELSE n, matches |-> n]
  BY DEF B!FindPublishedListings
<1> HIDE DEF all
<1>3. n \in Nat /\ end \in Nat /\ end <= n /\ u.offset + 1 \in Nat \ {0}
      /\ (u.offset < n => u.offset + 1 <= end)
  BY <1>1, BrowseBounds
<1> HIDE DEF end
<1>4. \A i \in (u.offset + 1)..end : all[i] \in B!Listings
  <2>1. SUFFICES ASSUME NEW i \in (u.offset + 1)..end PROVE all[i] \in B!Listings
    OBVIOUS
  <2>2. i \in 1..n
    BY <1>3
  <2> QED BY <1>1, <2>2
<1>5. pageRows \in Seq(B!Listings) /\ (u.offset + 1 <= end => Len(pageRows) # 0)
  <2>1. u.offset + 1 \in Int /\ end \in Int
    BY <1>3
  <2>2. pageRows \in Seq(B!Listings) /\ Len(pageRows) = (IF u.offset + 1 <= end THEN end - (u.offset + 1) + 1 ELSE 0)
    BY <1>4, <2>1, SubSeqProperties
  <2> HIDE DEF pageRows
  <2> QED BY <1>3, <2>2
<1> HIDE DEF pageRows
<1>6. pageRows = <<>> => Len(pageRows) = 0
  BY <1>5
<1> HIDE DEF n
<1>7. /\ B!FindPublishedListings(u).matches = n /\ B!FindPublishedListings(u).rows = pageRows
      /\ B!FindPublishedListings(u).total = IF pageRows = <<>> THEN 0 ELSE n
      /\ B!FindPublishedListings(u).total \in 0..Len(City)
  BY <1>1, <1>2, <1>3, BrowseBounds
<1>8. B!FindPublishedListings(u) \in B!Answer
  BY <1>1, <1>2, <1>5, <1>7 DEF B!Answer
<1>9. /\ pageRows = <<>> => u.offset >= n
      /\ (IF pageRows = <<>> THEN 0 ELSE n) <= n
  BY <1>3, <1>5, <1>6
<1> QED BY <1>1, <1>7, <1>8, <1>9 DEF n, all

\* No answer at all is an answer, and addresses count their pages from none.
LEMMA BrowseTypes ==
  /\ B!NoAnswer \in B!Answer /\ B!NoAnswer.matches = 0
  /\ \A u \in B!Url : u.offset \in Nat /\ B!Narrowed(u) \in B!Url /\ B!Narrowed(u).offset = 0
  /\ B!NoFilters \in B!Url /\ B!NoFilters.offset = 0
<1>1. B!NoAnswer \in B!Answer /\ B!NoAnswer.matches = 0
  BY BrowseBounds DEF B!NoAnswer, B!Answer
<1>2. \A k \in 0..Len(City) : k * PageSize \in Nat
  BY BrowseBounds
<1>3. 0 \in {k * PageSize : k \in 0..Len(City)}
  <2>1. 0 \in 0..Len(City) /\ 0 = 0 * PageSize
    BY BrowseBounds
  <2> QED BY <2>1
<1>4. ASSUME NEW u \in B!Url
      PROVE  u.offset \in Nat /\ B!Narrowed(u) \in B!Url /\ B!Narrowed(u).offset = 0
  BY <1>2, <1>3 DEF B!Url, B!Narrowed
<1>5. B!NoFilters \in B!Url /\ B!NoFilters.offset = 0
  BY <1>3 DEF B!NoFilters, B!Url
<1> QED BY <1>1, <1>4, <1>5

\* A question on its way, or answered.
QuestionType == [url : B!Url, active : BOOLEAN, answered : BOOLEAN, answer : B!Answer]

\* Asking makes one active question, of the new address.
LEMMA AskFacts ==
  ASSUME questions \subseteq QuestionType, NEW u \in B!Url, B!Ask(u), FirstPagesMeanIt
  PROVE  /\ url' = u /\ questions' \subseteq QuestionType
         /\ \A a \in questions' : a.active => a.url = u /\ ~a.answered
         /\ \E a \in questions' : a.active /\ a.url = u
         /\ \A a \in questions' : MeansNoMatch(a.url, a.answer)
<1> DEFINE old == {[a EXCEPT !.active = FALSE] : a \in questions}
           q == B!Question(u)
<1>1. url' = u /\ questions' = old \cup {q}
  BY DEF B!Ask
<1>2. q \in QuestionType /\ q.active /\ q.url = u /\ ~q.answered /\ q.answer = B!NoAnswer
  BY BrowseTypes DEF B!Question, QuestionType
<1>3. MeansNoMatch(q.url, q.answer)
  BY <1>2, BrowseTypes DEF MeansNoMatch
<1>4. ASSUME NEW a \in questions
      PROVE  /\ [a EXCEPT !.active = FALSE] \in QuestionType
             /\ ~[a EXCEPT !.active = FALSE].active
             /\ MeansNoMatch([a EXCEPT !.active = FALSE].url, [a EXCEPT !.active = FALSE].answer)
  <2>1. a \in QuestionType /\ MeansNoMatch(a.url, a.answer)
    BY DEF FirstPagesMeanIt
  <2>2. [a EXCEPT !.active = FALSE].url = a.url /\ [a EXCEPT !.active = FALSE].answer = a.answer
        /\ [a EXCEPT !.active = FALSE] \in QuestionType /\ ~[a EXCEPT !.active = FALSE].active
    BY <2>1 DEF QuestionType
  <2> QED BY <2>1, <2>2
<1> HIDE DEF q
<1>5. ASSUME NEW b \in old
      PROVE  b \in QuestionType /\ ~b.active /\ MeansNoMatch(b.url, b.answer)
  BY <1>4
<1> HIDE DEF old
<1> QED BY <1>1, <1>2, <1>3, <1>5

\* It holds of the first page, and of a link to the second.
LEMMA BrowseInit == B!Init => BrowseInv
<1> SUFFICES ASSUME B!Init PROVE BrowseInv
  OBVIOUS
<1> DEFINE second == [B!NoFilters EXCEPT !.offset = PageSize]
<1>1. /\ shelf \subseteq B!Listings /\ url \in {B!NoFilters, second} /\ box = url.max
      /\ view = B!View("loading", url, B!NoAnswer) /\ questions = {B!Question(url)}
      /\ changes = 0 /\ strayed = IF url.offset = 0 THEN {} ELSE {"link"}
  BY DEF B!Init
<1>2. B!NoFilters \in B!Url /\ second \in B!Url /\ second.offset = PageSize
  <2>1. 1 \in 0..Len(City) /\ PageSize = 1 * PageSize
    BY BrowseBounds
  <2>2. PageSize \in {k * PageSize : k \in 0..Len(City)}
    BY <2>1
  <2> QED BY <2>2, BrowseTypes DEF B!Url
<1>3. url \in B!Url /\ (url.offset # 0 => strayed = {"link"}) /\ strayed \subseteq {"link", "shelf", "outdated"}
  BY <1>1, <1>2, BrowseTypes, BrowseBounds
<1> HIDE DEF second
<1> DEFINE q == B!Question(url)
<1>4. questions = {q} /\ q.url = url /\ q.active /\ ~q.answered /\ q.answer = B!NoAnswer /\ q \in QuestionType
  BY <1>1, <1>3, BrowseTypes DEF B!Question, QuestionType
<1> HIDE DEF q
<1>5. /\ view.url = url /\ view.answer = B!NoAnswer
      /\ view \in [status : {"loading", "ready", "failed"}, url : B!Url, answer : B!Answer]
  BY <1>1, <1>3, BrowseTypes DEF B!View
<1>6. BrowseTypeOK
  <2>1. box \in Prices \cup {Unset}
    BY <1>1, <1>3 DEF B!Url
  <2>2. questions \subseteq QuestionType /\ changes \in 0..MaxChanges
    BY <1>1, <1>4, BrowseBounds
  <2> QED BY <1>1, <1>3, <1>5, <2>1, <2>2 DEF BrowseTypeOK, QuestionType
<1>7. QuestionsAskTheUrl /\ B!ResultsAnswerTheUrl
  BY <1>4, <1>5 DEF QuestionsAskTheUrl, B!ResultsAnswerTheUrl
<1>8. FirstPagesMeanIt
  BY <1>4, <1>5, BrowseTypes DEF FirstPagesMeanIt, MeansNoMatch
<1>9. OffsetIsInRange
  BY <1>3 DEF OffsetIsInRange
<1> QED BY <1>6, <1>7, <1>8, <1>9 DEF BrowseInv

\* The shelf answers the same as long as it stands.
LEMMA FindStays ==
  ASSUME shelf' = shelf
  PROVE  /\ url' = url => /\ B!FindPublishedListings(url)' = B!FindPublishedListings(url)
                          /\ Len(B!Ordered(B!Matching(url)))' = Len(B!Ordered(B!Matching(url)))
         /\ view' = view => B!FindPublishedListings(view.url)' = B!FindPublishedListings(view.url)
<1>1. ASSUME url' = url
      PROVE  /\ B!FindPublishedListings(url)' = B!FindPublishedListings(url)
             /\ Len(B!Ordered(B!Matching(url)))' = Len(B!Ordered(B!Matching(url)))
  <2>1. B!Matching(url)' = B!Matching(url)
    BY <1>1 DEF B!Matching
  <2>2. B!Ordered(B!Matching(url))' = B!Ordered(B!Matching(url))
    BY <2>1 DEF B!Ordered
  <2> QED BY <1>1, <2>1, <2>2 DEF B!FindPublishedListings
<1>2. ASSUME view' = view
      PROVE  B!FindPublishedListings(view.url)' = B!FindPublishedListings(view.url)
  <2>1. B!Matching(view.url)' = B!Matching(view.url)
    BY <1>2 DEF B!Matching
  <2>2. B!Ordered(B!Matching(view.url))' = B!Ordered(B!Matching(view.url))
    BY <2>1 DEF B!Ordered
  <2> QED BY <1>2, <2>1, <2>2 DEF B!FindPublishedListings
<1> QED BY <1>1, <1>2

\* It holds on while another part moves.
LEMMA BrowseStutter == BrowseInv /\ UNCHANGED browse => BrowseInv'
<1> SUFFICES ASSUME BrowseInv, UNCHANGED browse PROVE BrowseInv'
  OBVIOUS
<1>1. UNCHANGED <<shelf, url, box, view, questions, changes, strayed>>
  BY DEF browse
<1> QED BY <1>1, FindStays DEF BrowseInv, BrowseTypeOK, QuestionsAskTheUrl, B!ResultsAnswerTheUrl,
             FirstPagesMeanIt, MeansNoMatch, OffsetIsInRange

\* A change of the filters: back to the first page, with a question of its own.
LEMMA ApplyStep ==
  ASSUME BrowseInv, NEW u \in B!Url, B!Apply(u), box' \in Prices \cup {Unset}
  PROVE  BrowseInv'
<1> DEFINE v == B!Narrowed(u)
<1>1. /\ B!Ask(v) /\ v \in B!Url /\ v.offset = 0
      /\ strayed' = {} /\ UNCHANGED <<shelf, view, changes>>
  BY BrowseTypes DEF B!Apply
<1> HIDE DEF v
<1>2. BrowseTypeOK /\ FirstPagesMeanIt /\ questions \subseteq QuestionType
  BY DEF BrowseInv, BrowseTypeOK, QuestionType
<1>3. /\ url' = v /\ questions' \subseteq QuestionType
      /\ \A a \in questions' : a.active => a.url = v /\ ~a.answered
      /\ \E a \in questions' : a.active /\ a.url = v
      /\ \A a \in questions' : MeansNoMatch(a.url, a.answer)
  BY <1>1, <1>2, AskFacts
<1>4. BrowseTypeOK'
  BY <1>1, <1>2, <1>3 DEF BrowseTypeOK, QuestionType
<1>5. QuestionsAskTheUrl' /\ B!ResultsAnswerTheUrl'
  BY <1>3 DEF QuestionsAskTheUrl, B!ResultsAnswerTheUrl
<1>6. FirstPagesMeanIt'
  BY <1>1, <1>2, <1>3 DEF FirstPagesMeanIt, MeansNoMatch
<1>7. OffsetIsInRange'
  BY <1>1, <1>3 DEF OffsetIsInRange
<1> QED BY <1>4, <1>5, <1>6, <1>7 DEF BrowseInv

\* The pages of a number of listings: k < j whole pages leave room for k + 1.
LEMMA PagesScale ==
  ASSUME NEW j \in Nat, NEW k \in Nat
  PROVE  /\ k * PageSize \in Nat
         /\ j <= k => j * PageSize <= k * PageSize
         /\ j * PageSize < k * PageSize => j < k
         /\ (k + 1) * PageSize = k * PageSize + PageSize
         /\ k <= k * PageSize
<1>1. PageSize \in Nat \ {0}
  BY BrowseBounds
<1>2. ASSUME j <= k PROVE j * PageSize <= k * PageSize
  <2>1. PICK d \in Nat : k = j + d
    <3>1. k - j \in Nat /\ k = j + (k - j)
      BY <1>2
    <3> QED BY <3>1
  <2>2. k * PageSize = j * PageSize + d * PageSize /\ d * PageSize \in Nat /\ j * PageSize \in Nat
    BY <1>1, <2>1
  <2> QED BY <2>2
<1>3. ASSUME j * PageSize < k * PageSize PROVE j < k
  <2>1. SUFFICES ASSUME ~(j < k) PROVE FALSE
    OBVIOUS
  <2>2. PICK d \in Nat : j = k + d
    <3>1. j - k \in Nat /\ j = k + (j - k)
      BY <2>1
    <3> QED BY <3>1
  <2>3. j * PageSize = k * PageSize + d * PageSize /\ d * PageSize \in Nat /\ k * PageSize \in Nat
    BY <1>1, <2>2
  <2> QED BY <1>3, <2>3
<1>4. k * PageSize \in Nat /\ (k + 1) * PageSize = k * PageSize + PageSize
  BY <1>1
<1>5. k <= k * PageSize
  <2>1. PICK p \in Nat : PageSize = p + 1
    <3>1. PageSize - 1 \in Nat /\ PageSize = (PageSize - 1) + 1
      BY <1>1
    <3> QED BY <3>1
  <2>2. k * PageSize = k * p + k /\ k * p \in Nat
    BY <2>1
  <2> QED BY <2>2
<1> QED BY <1>2, <1>3, <1>4, <1>5

\* The last page begins at a whole number of pages, and before the last match.
LEMMA LastPage ==
  ASSUME NEW n \in Nat, n > PageSize
  PROVE  \E q \in 0..n : ((n - 1) \div PageSize) * PageSize = q * PageSize /\ q * PageSize < n
<1> DEFINE q == (n - 1) \div PageSize
<1>1. PageSize \in Nat \ {0} /\ n - 1 \in Nat
  BY BrowseBounds
<1>2. q \in Nat /\ q * PageSize <= n - 1
  BY <1>1
<1> HIDE DEF q
<1>3. q <= q * PageSize
  BY <1>2, PagesScale
<1>4. q \in 0..n /\ q * PageSize < n
  BY <1>1, <1>2, <1>3, PagesScale
<1> QED BY <1>4 DEF q

\* Where the pager leads is an address, and one that has matches when nothing
\* excuses it.
LEMMA PageTurned ==
  ASSUME BrowseInv, B!Previous \/ B!NextPage
  PROVE  \E o \in Nat :
           /\ B!ChangePage(o) /\ [url EXCEPT !.offset = o] \in B!Url
           /\ strayed = {} /\ ~B!Outdated => o < Len(B!Ordered(B!Matching(url)))
<1> DEFINE n == Len(B!Ordered(B!Matching(url)))
           t == view.answer.total
<1>1. BrowseTypeOK /\ OffsetIsInRange /\ url \in B!Url /\ url.offset \in Nat /\ t \in 0..Len(City)
  BY BrowseTypes DEF BrowseInv, BrowseTypeOK, B!Answer
<1>2. PICK k \in 0..Len(City) : url.offset = k * PageSize
  BY <1>1 DEF B!Url
<1>3. \A j \in 0..Len(City) : [url EXCEPT !.offset = j * PageSize] \in B!Url
  BY <1>1 DEF B!Url
<1>4. n \in 0..Len(City)
  BY <1>1, FindFacts DEF BrowseTypeOK
<1>5. ASSUME ~B!Outdated PROVE t <= n
  <2>1. view.answer = B!FindPublishedListings(view.url) /\ view.url = [url EXCEPT !.offset = view.url.offset]
    BY <1>5 DEF B!Outdated
  <2>2. view.url.city = url.city /\ view.url.max = url.max /\ view.url.offset \in Nat
    BY <1>1, <2>1, BrowseTypes DEF B!Url, BrowseTypeOK
  <2>3. B!Matching(view.url) = B!Matching(url)
    BY <2>2 DEF B!Matching
  <2>4. B!FindPublishedListings(view.url).total <= Len(B!Ordered(B!Matching(view.url)))
    BY <1>1, <2>2, FindFacts DEF BrowseTypeOK
  <2> QED BY <2>1, <2>3, <2>4
<1> HIDE DEF n, t
<1>6. CASE B!Previous
  <2>1. url.offset > 0 /\ B!ChangePage(IF url.offset < PageSize THEN 0 ELSE url.offset - PageSize)
    BY <1>6 DEF B!Previous
  <2>2. k # 0
    BY <1>2, <2>1, BrowseBounds
  <2>3. k - 1 \in 0..Len(City) /\ k - 1 \in Nat
    BY <2>2, BrowseBounds
  <2>4. ((k - 1) + 1) * PageSize = (k - 1) * PageSize + PageSize /\ (k - 1) * PageSize \in Nat
    BY <2>3, PagesScale
  <2>5. url.offset = (k - 1) * PageSize + PageSize
    BY <1>2, <2>3, <2>4, BrowseBounds
  <2> DEFINE o == (k - 1) * PageSize
  <2>6. [url EXCEPT !.offset = o] \in B!Url
    BY <1>3, <2>3
  <2> HIDE DEF o
  <2>7. o \in Nat /\ url.offset = o + PageSize
    BY <2>4, <2>5 DEF o
  <2>8. B!ChangePage(o)
    <3>1. o = IF url.offset < PageSize THEN 0 ELSE url.offset - PageSize
      BY <2>7, BrowseBounds
    <3> QED BY <2>1, <3>1
  <2>9. strayed = {} => o < n
    BY <1>1, <1>4, <2>1, <2>7, BrowseBounds DEF OffsetIsInRange, n
  <2> QED BY <2>6, <2>7, <2>8, <2>9 DEF n
<1>7. CASE B!NextPage
  <2>1. url.offset < B!LastOffset /\ B!ChangePage(url.offset + PageSize)
    BY <1>7 DEF B!NextPage
  <2>2. t > PageSize /\ t \in Nat
    BY <1>1, <2>1, BrowseBounds DEF B!ChangePage, t
  <2>3. PICK q \in 0..t : ((t - 1) \div PageSize) * PageSize = q * PageSize /\ q * PageSize < t
    BY <2>2, LastPage
  <2>4. B!LastOffset = q * PageSize
    <3>1. q * PageSize \in Nat
      BY <2>2, <2>3, PagesScale
    <3> QED BY <2>3, <3>1 DEF B!LastOffset, t
  <2>5. k < q /\ q \in Nat /\ k \in Nat
    BY <1>2, <2>1, <2>2, <2>3, <2>4, PagesScale
  <2>6. k + 1 \in 0..Len(City) /\ k + 1 <= q
    BY <1>1, <2>2, <2>3, <2>5, BrowseBounds
  <2>7. /\ (k + 1) * PageSize = url.offset + PageSize
        /\ (k + 1) * PageSize <= q * PageSize /\ (k + 1) * PageSize \in Nat
    BY <1>2, <2>5, <2>6, PagesScale
  <2>8. [url EXCEPT !.offset = url.offset + PageSize] \in B!Url
    BY <1>3, <2>6, <2>7
  <2>9. ~B!Outdated => url.offset + PageSize < n
    <3>1. q * PageSize \in Nat
      BY <2>5, PagesScale
    <3> QED BY <1>4, <1>5, <2>2, <2>3, <2>7, <3>1
  <2> QED BY <1>1, <2>1, <2>7, <2>8, <2>9 DEF n
<1> QED BY <1>6, <1>7

\* A page turned.
LEMMA PageStep ==
  ASSUME BrowseInv, B!Previous \/ B!NextPage
  PROVE  BrowseInv'
<1>1. PICK o \in Nat : /\ B!ChangePage(o) /\ [url EXCEPT !.offset = o] \in B!Url
                       /\ strayed = {} /\ ~B!Outdated => o < Len(B!Ordered(B!Matching(url)))
  BY PageTurned
<1> DEFINE v == [url EXCEPT !.offset = o]
<1>2. /\ B!Ask(v) /\ UNCHANGED <<shelf, box, view, changes>>
      /\ strayed' = IF B!Outdated THEN strayed \cup {"outdated"} ELSE strayed
  BY <1>1 DEF B!ChangePage
<1>3. BrowseTypeOK /\ FirstPagesMeanIt /\ questions \subseteq QuestionType
  BY DEF BrowseInv, BrowseTypeOK, QuestionType
<1>4. v \in B!Url /\ v.offset = o /\ v.city = url.city /\ v.max = url.max
  BY <1>1, <1>3 DEF BrowseTypeOK, B!Url
<1> HIDE DEF v
<1>5. /\ url' = v /\ questions' \subseteq QuestionType
      /\ \A a \in questions' : a.active => a.url = v /\ ~a.answered
      /\ \E a \in questions' : a.active /\ a.url = v
      /\ \A a \in questions' : MeansNoMatch(a.url, a.answer)
  BY <1>2, <1>3, <1>4, AskFacts
<1>6. BrowseTypeOK'
  BY <1>2, <1>3, <1>4, <1>5 DEF BrowseTypeOK, QuestionType
<1>7. QuestionsAskTheUrl' /\ B!ResultsAnswerTheUrl'
  BY <1>5 DEF QuestionsAskTheUrl, B!ResultsAnswerTheUrl
<1>8. FirstPagesMeanIt'
  BY <1>2, <1>3, <1>5 DEF FirstPagesMeanIt, MeansNoMatch
<1>9. OffsetIsInRange'
  <2>1. SUFFICES ASSUME strayed' = {}
                 PROVE  /\ url'.offset < Len(B!Ordered(B!Matching(url)))'
                        /\ view'.answer = B!FindPublishedListings(view.url)'
    BY DEF OffsetIsInRange
  <2>2. strayed = {} /\ ~B!Outdated
    BY <1>2, <2>1
  <2>3. B!Matching(url)' = B!Matching(url)
    BY <1>2, <1>4, <1>5 DEF B!Matching
  <2>4. B!Ordered(B!Matching(url))' = B!Ordered(B!Matching(url))
    BY <2>3 DEF B!Ordered
  <2>5. url'.offset < Len(B!Ordered(B!Matching(url)))'
    BY <1>1, <1>4, <1>5, <2>2, <2>4
  <2>6. B!FindPublishedListings(view.url)' = B!FindPublishedListings(view.url)
    BY <1>2, FindStays
  <2> QED BY <1>2, <2>2, <2>5, <2>6 DEF B!Outdated
<1> QED BY <1>6, <1>7, <1>8, <1>9 DEF BrowseInv

\* The server answers a question from the shelf as it is then.
LEMMA BrowseListingsStep ==
  ASSUME BrowseInv, NEW a \in questions, B!BrowseListings(a)
  PROVE  BrowseInv'
<1> DEFINE answer == B!FindPublishedListings(a.url)
           b == [a EXCEPT !.answered = TRUE, !.answer = answer]
<1>1. questions' = (questions \ {a}) \cup {b} /\ UNCHANGED <<shelf, url, box, view, changes, strayed>>
  BY DEF B!BrowseListings
<1>2. BrowseTypeOK /\ FirstPagesMeanIt /\ questions \subseteq QuestionType /\ a \in QuestionType
  BY DEF BrowseInv, BrowseTypeOK, QuestionType
<1>3. /\ answer \in B!Answer
      /\ answer.rows = <<>> /\ a.url.offset = 0 => answer.matches = 0
  <2>1. a.url.offset \in Nat
    BY <1>2, BrowseTypes DEF QuestionType
  <2>2. /\ answer \in B!Answer /\ answer.matches = Len(B!Ordered(B!Matching(a.url)))
        /\ Len(B!Ordered(B!Matching(a.url))) \in 0..Len(City)
        /\ answer.rows = <<>> => a.url.offset >= Len(B!Ordered(B!Matching(a.url)))
    BY <1>2, <2>1, FindFacts DEF BrowseTypeOK
  <2> HIDE DEF answer
  <2> QED BY <2>2
<1>4. b \in QuestionType /\ b.url = a.url /\ b.active = a.active /\ b.answer = B!FindPublishedListings(a.url)
  <2> HIDE DEF answer
  <2>1. b \in QuestionType /\ b.url = a.url /\ b.active = a.active /\ b.answer = answer
    BY <1>2, <1>3 DEF QuestionType
  <2> QED BY <2>1 DEF answer
<1>5. MeansNoMatch(b.url, b.answer)
  BY <1>3, <1>4 DEF MeansNoMatch
<1> HIDE DEF b, answer
<1>6. BrowseTypeOK'
  BY <1>1, <1>2, <1>4 DEF BrowseTypeOK, QuestionType
<1>7. B!FindPublishedListings(url)' = B!FindPublishedListings(url)
  BY <1>1, FindStays
<1>8. QuestionsAskTheUrl'
  <2>1. SUFFICES ASSUME NEW c \in questions', c.active
                 PROVE  /\ c.url = url
                        /\ strayed = {} /\ c.answered => c.answer = B!FindPublishedListings(url)
    BY <1>1, <1>7 DEF QuestionsAskTheUrl
  <2>2. CASE c \in questions
    BY <2>1, <2>2 DEF BrowseInv, QuestionsAskTheUrl
  <2>3. CASE c = b
    <3>1. a.url = url
      BY <1>4, <2>1, <2>3 DEF BrowseInv, QuestionsAskTheUrl
    <3> QED BY <1>4, <2>3, <3>1
  <2> QED BY <1>1, <2>2, <2>3
<1>9. B!ResultsAnswerTheUrl'
  BY <1>1, <1>4 DEF BrowseInv, B!ResultsAnswerTheUrl
<1>10. FirstPagesMeanIt'
  <2>1. MeansNoMatch(view.url, view.answer)' /\ \A c \in questions : MeansNoMatch(c.url, c.answer)
    BY <1>1, <1>2 DEF FirstPagesMeanIt, MeansNoMatch
  <2>2. \A c \in questions' : MeansNoMatch(c.url, c.answer)
    BY <1>1, <1>5, <2>1
  <2> QED BY <2>1, <2>2 DEF FirstPagesMeanIt, MeansNoMatch
<1>11. OffsetIsInRange'
  BY <1>1, FindStays DEF BrowseInv, OffsetIsInRange
<1> QED BY <1>6, <1>8, <1>9, <1>10, <1>11 DEF BrowseInv

\* An answer, or a failure, reaches the page: it is shown if the question still
\* is the address's.
LEMMA ArrivalStep ==
  ASSUME BrowseInv, NEW a \in questions, B!Answered(a) \/ B!Failed(a)
  PROVE  BrowseInv'
<1>1. PICK s \in {"ready", "failed"}, answer \in {a.answer, B!NoAnswer} :
        /\ view' = B!Shown(a, s, answer) /\ questions' = questions \ {a}
        /\ UNCHANGED <<shelf, url, box, changes, strayed>>
        /\ s # "failed" => answer = a.answer /\ a.answered
        /\ s = "failed" => answer = B!NoAnswer
  BY DEF B!Answered, B!Failed
<1>2. /\ BrowseTypeOK /\ FirstPagesMeanIt /\ QuestionsAskTheUrl /\ OffsetIsInRange
      /\ B!ResultsAnswerTheUrl /\ a \in QuestionType
  BY DEF BrowseInv, BrowseTypeOK, QuestionType
<1>3. answer \in B!Answer
  BY <1>2, BrowseTypes DEF QuestionType
<1>4. MeansNoMatch(a.url, answer)
  BY <1>2, BrowseTypes DEF FirstPagesMeanIt, MeansNoMatch
<1>5. CASE a.active
  <2>1. a.url = url
    BY <1>2, <1>5 DEF QuestionsAskTheUrl
  <2>2. view' = [status |-> s, url |-> url, answer |-> answer]
    BY <1>1, <1>5, <2>1 DEF B!Shown, B!View
  <2>3. BrowseTypeOK'
    BY <1>1, <1>2, <1>3, <2>2 DEF BrowseTypeOK
  <2>4. B!ResultsAnswerTheUrl'
    BY <1>1, <2>2 DEF B!ResultsAnswerTheUrl
  <2>5. FirstPagesMeanIt'
    BY <1>1, <1>2, <1>4, <2>1, <2>2 DEF FirstPagesMeanIt, MeansNoMatch
  <2>6. /\ B!FindPublishedListings(url)' = B!FindPublishedListings(url)
        /\ Len(B!Ordered(B!Matching(url)))' = Len(B!Ordered(B!Matching(url)))
    BY <1>1, FindStays
  <2>7. QuestionsAskTheUrl'
    <3>1. SUFFICES ASSUME NEW c \in questions', c.active
                   PROVE  /\ c.url = url
                          /\ strayed = {} /\ c.answered => c.answer = B!FindPublishedListings(url)
      BY <1>1, <2>6 DEF QuestionsAskTheUrl
    <3> QED BY <1>1, <1>2, <3>1 DEF QuestionsAskTheUrl
  <2>8. OffsetIsInRange'
    <3>1. SUFFICES ASSUME strayed' = {}, url'.offset # 0
                   PROVE  /\ url'.offset < Len(B!Ordered(B!Matching(url)))'
                          /\ view'.status = "failed" \/ view'.answer = B!FindPublishedListings(view.url)'
      BY DEF OffsetIsInRange
    <3>2. url'.offset < Len(B!Ordered(B!Matching(url)))'
      BY <1>1, <1>2, <2>6, <3>1 DEF OffsetIsInRange
    <3>3. ASSUME s # "failed" PROVE view'.answer = B!FindPublishedListings(view.url)'
      <4>1. a.answer = B!FindPublishedListings(url) /\ answer = a.answer
        BY <1>1, <1>2, <1>5, <3>1, <3>3 DEF QuestionsAskTheUrl
      <4>2. view'.url = url' /\ view'.answer = answer
        BY <1>1, <2>2
      <4>3. B!Matching(view.url)' = B!Matching(url)'
        BY <4>2 DEF B!Matching
      <4>4. B!Ordered(B!Matching(view.url))' = B!Ordered(B!Matching(url))'
        BY <4>3 DEF B!Ordered
      <4>5. B!FindPublishedListings(view.url)' = B!FindPublishedListings(url)'
        BY <4>2, <4>3, <4>4 DEF B!FindPublishedListings
      <4> QED BY <2>6, <4>1, <4>2, <4>5
    <3>4. view'.status = s
      BY <2>2
    <3> QED BY <3>2, <3>3, <3>4
  <2> QED BY <2>3, <2>4, <2>5, <2>7, <2>8 DEF BrowseInv
<1>6. CASE ~a.active
  <2>1. view' = view /\ questions' \subseteq questions /\ UNCHANGED <<shelf, url, box, changes, strayed>>
    BY <1>1, <1>6 DEF B!Shown
  <2>2. BrowseTypeOK'
    BY <1>2, <2>1 DEF BrowseTypeOK
  <2>3. B!ResultsAnswerTheUrl'
    BY <1>1, <1>2, <1>6, <2>1 DEF B!ResultsAnswerTheUrl
  <2>4. FirstPagesMeanIt'
    BY <1>2, <2>1 DEF FirstPagesMeanIt, MeansNoMatch
  <2>5. QuestionsAskTheUrl'
    <3>1. B!FindPublishedListings(url)' = B!FindPublishedListings(url)
      BY <2>1, FindStays
    <3>2. SUFFICES ASSUME NEW c \in questions', c.active
                   PROVE  /\ c.url = url
                          /\ strayed = {} /\ c.answered => c.answer = B!FindPublishedListings(url)
      BY <2>1, <3>1 DEF QuestionsAskTheUrl
    <3> QED BY <1>2, <2>1, <3>2 DEF QuestionsAskTheUrl
  <2>6. OffsetIsInRange'
    BY <1>2, <2>1, FindStays DEF OffsetIsInRange
  <2> QED BY <2>2, <2>3, <2>4, <2>5, <2>6 DEF BrowseInv
<1> QED BY <1>5, <1>6

\* A listing comes on the shelf, or leaves it: from here everything is excused.
LEMMA ShelfStep ==
  ASSUME BrowseInv, NEW l \in B!Listings, B!ShelfChanges(l)
  PROVE  BrowseInv'
<1>1. /\ changes < MaxChanges /\ changes' = changes + 1
      /\ shelf' = (shelf \ {l}) \cup ({l} \ shelf)
      /\ strayed' = strayed \cup {"shelf"} /\ UNCHANGED <<url, box, view, questions>>
  BY DEF B!ShelfChanges
<1>2. BrowseTypeOK'
  BY <1>1, BrowseBounds DEF BrowseInv, BrowseTypeOK
<1>3. strayed' # {}
  BY <1>1
<1>4. QuestionsAskTheUrl' /\ OffsetIsInRange'
  BY <1>1, <1>3 DEF BrowseInv, QuestionsAskTheUrl, OffsetIsInRange
<1>5. B!ResultsAnswerTheUrl' /\ FirstPagesMeanIt'
  BY <1>1 DEF BrowseInv, B!ResultsAnswerTheUrl, FirstPagesMeanIt, MeansNoMatch
<1> QED BY <1>2, <1>4, <1>5 DEF BrowseInv

\* Every step keeps the invariant.
LEMMA BrowseStep == BrowseInv /\ B!Next => BrowseInv'
<1> SUFFICES ASSUME BrowseInv, B!Next PROVE BrowseInv'
  OBVIOUS
<1>1. url \in B!Url /\ box \in Prices \cup {Unset}
  BY DEF BrowseInv, BrowseTypeOK
<1>2. ASSUME NEW c \in B!Cities \cup {Unset}, B!ChangeCity(c) PROVE BrowseInv'
  <2>1. [url EXCEPT !.city = c] \in B!Url
    BY <1>1 DEF B!Url
  <2> QED BY <1>1, <1>2, <2>1, ApplyStep DEF B!ChangeCity
<1>3. ASSUME NEW p \in Prices \cup {Unset}, B!LeavePriceField(p) PROVE BrowseInv'
  <2>1. [url EXCEPT !.max = p] \in B!Url
    BY <1>1 DEF B!Url
  <2> QED BY <1>3, <2>1, ApplyStep DEF B!LeavePriceField
<1>4. CASE B!ClearFilters
  BY <1>1, <1>4, BrowseTypes, ApplyStep DEF B!ClearFilters
<1>5. CASE B!Previous \/ B!NextPage
  BY <1>5, PageStep
<1>6. ASSUME NEW a \in questions, B!BrowseListings(a) \/ B!Answered(a) \/ B!Failed(a) PROVE BrowseInv'
  BY <1>6, BrowseListingsStep, ArrivalStep
<1>7. ASSUME NEW l \in B!Listings, B!ShelfChanges(l) PROVE BrowseInv'
  BY <1>7, ShelfStep
<1> QED BY <1>2, <1>3, <1>4, <1>5, <1>6, <1>7 DEF B!Next

\* What the page of results is made of.
LEMMA BrowseTypeCorrect == BrowseTypeOK => B!TypeOK
BY DEF BrowseTypeOK, B!TypeOK

\* An empty page of a search that matches something has its excuse: without one
\* a page past the first has rows, and a first page without rows has no match.
LEMMA ResultsFollow == BrowseInv => B!ResultsTellTheTruth
<1> SUFFICES ASSUME BrowseInv PROVE B!EmptyIsExplained
  BY DEF BrowseInv, B!ResultsTellTheTruth
<1> SUFFICES ASSUME view.url = url, view.status = "ready", view.answer.rows = <<>>,
                    view.answer.matches # 0, strayed = {}
             PROVE  FALSE
  BY DEF B!EmptyIsExplained
<1>1. url.offset # 0
  BY DEF BrowseInv, FirstPagesMeanIt, MeansNoMatch
<1>2. /\ url.offset < Len(B!Ordered(B!Matching(url)))
      /\ B!FindPublishedListings(url).rows = <<>>
  BY <1>1 DEF BrowseInv, OffsetIsInRange
<1>3. shelf \subseteq B!Listings /\ url.offset \in Nat
  BY BrowseTypes DEF BrowseInv, BrowseTypeOK
<1>4. /\ Len(B!Ordered(B!Matching(url))) \in 0..Len(City)
      /\ url.offset >= Len(B!Ordered(B!Matching(url)))
  BY <1>2, <1>3, FindFacts
<1> QED BY <1>2, <1>3, <1>4, BrowseBounds

-----------------------------------------------------------------------------
(* The form of a listing (ListingForm). *)

\* Each flag has its kinds of request, and one that was served has its listing.
FlagsHaveTheirKinds ==
  /\ saving.kind \in {"none", "create", "save", "publish", "unpublish", "checklist"}
  /\ photoBusy.kind \in {"none", "add", "remove"}
  /\ getting.kind \in {"none", "get", "reread"}
  /\ saving.kind = "none" => saving = F!Idle
  /\ photoBusy.kind = "none" => photoBusy = F!Idle
  /\ getting.kind = "none" => getting = F!Idle
  /\ saving.kind = "checklist" => saving.at = "sent" /\ \E a \in checklists : a.awaited
  /\ saving.at # "sent" => saving.listing # None
  /\ photoBusy.at # "sent" => photoBusy.listing # None
  /\ getting.at # "sent" => getting.listing # None

\* Nothing is shown of a listing, saved, asked or changed about it before there is
\* one, and nothing else happens while it is created.
ListingComesFirst ==
  /\ row = None =>
       /\ photoBusy = F!Idle /\ getting = F!Idle /\ checklists = {} /\ shown = None
       /\ saving.kind \in {"none", "create"} /\ saving.at = "sent"
  /\ saving.kind = "create" =>
       /\ photoBusy = F!Idle /\ getting = F!Idle /\ checklists = {} /\ shown = None
       /\ saving.at = "sent" => row = None
  /\ shown = None =>
       /\ photoBusy = F!Idle /\ checklists = {} /\ readiness = None
       /\ saving.kind \notin {"publish", "unpublish"}

\* With no excuse one thing is on its way.
OneAtATime ==
  unsure = {} =>
    /\ saving.kind \notin {"none", "checklist"} => photoBusy = F!Idle /\ checklists = {}
    /\ photoBusy # F!Idle => saving = F!Idle /\ checklists = {}
    /\ getting # F!Idle =>
         shown = None /\ saving = F!Idle /\ photoBusy = F!Idle /\ checklists = {}
    /\ \A a, b \in checklists : a = b

\* With no excuse an answer on its way brings the listing as it is, and unless it
\* is one that changes it, the page shows it as it is.
AnswersAreTheListing ==
  unsure = {} =>
    /\ saving.at # "sent" => saving.listing = row
    /\ photoBusy.at # "sent" => photoBusy.listing = row
    /\ getting.at # "sent" => getting.listing = row
    /\ shown # None /\ saving.at = "sent" /\ photoBusy.at = "sent" => shown = row

\* And so does the checklist, unless its answer is still to come.
ChecklistIsTrue ==
  unsure = {} =>
    /\ \A a \in checklists : a.may = None \/ a.may = F!CanPublish(row)
    /\ checklists = {} /\ (saving.kind = "save" => saving.at = "sent") /\ photoBusy.at = "sent"
         => readiness = None \/ readiness = F!CanPublish(row)

\* What holds of the form in every reachable state, and is kept by every step.
FormInv ==
  /\ F!TypeOK /\ FlagsHaveTheirKinds /\ ListingComesFirst
  /\ OneAtATime /\ AnswersAreTheListing /\ ChecklistIsTrue

\* None is no listing.
LEMMA FormConstants == MaxPhotos \in Nat \ {0} /\ MaxElsewhere \in Nat /\ None \notin F!Listing
BY ClientAssumption

\* No request, and one that is sent.
LEMMA RequestTypes ==
  /\ F!Idle \in F!Request /\ F!Idle.kind = "none" /\ F!Idle.at = "sent"
  /\ \A k \in F!Kinds : form \in BOOLEAN =>
       /\ F!Sent(k) \in F!Request /\ F!Sent(k).kind = k /\ F!Sent(k).at = "sent"
       /\ k # "none" => F!Sent(k) # F!Idle
<1>1. F!Idle \in F!Request /\ F!Idle.kind = "none" /\ F!Idle.at = "sent"
  BY DEF F!Idle, F!Request, F!Kinds
<1>2. ASSUME NEW k \in F!Kinds, form \in BOOLEAN
      PROVE  F!Sent(k) \in F!Request /\ F!Sent(k).kind = k /\ F!Sent(k).at = "sent"
  <2> DEFINE e == form /\ k \in {"create", "save"}
  <2>1. e \in BOOLEAN
    OBVIOUS
  <2>2. F!Sent(k) = [F!Idle EXCEPT !.kind = k, !.enough = e]
    BY DEF F!Sent
  <2> HIDE DEF e
  <2> QED BY <1>1, <2>1, <2>2 DEF F!Request
<1> QED BY <1>1, <1>2

\* The first statement of a request.
LEMMA FirstServes ==
  ASSUME NEW r \in F!Request, F!First(r), row \in F!Listing \cup {None},
         r.kind # "create" => row # None
  PROVE  /\ row' \in F!Listing /\ row' # None
         /\ F!Started(r) \in F!Request /\ F!Started(r).kind = r.kind
         /\ F!Started(r).at = "half" /\ F!Started(r).listing = row'
         /\ r.kind \in {"publish", "unpublish", "get", "reread"} => row' = row
         /\ r.kind \notin {"none", "checklist"} /\ r.at = "sent"
<1>1. r.at = "sent" /\ r.kind \notin {"none", "checklist"} /\ row' = F!Effect(r) /\ r.kind \in F!Kinds /\ r.enough \in BOOLEAN
  BY DEF F!First, F!Request
<1>2. row' \in F!Listing
  <2>1. CASE r.kind = "create"
    BY <1>1, <2>1, FormConstants DEF F!Effect, F!Listing
  <2>2. CASE r.kind = "save"
    BY <1>1, <2>2 DEF F!Effect, F!Listing
  <2>3. CASE r.kind = "add"
    <3>1. row' = [row EXCEPT !.photos = IF @ < MaxPhotos THEN @ + 1 ELSE @] /\ row \in F!Listing
      BY <1>1, <2>3 DEF F!Effect
    <3>2. (IF row.photos < MaxPhotos THEN row.photos + 1 ELSE row.photos) \in 0..MaxPhotos
      BY <3>1, FormConstants DEF F!Listing
    <3> QED BY <3>1, <3>2 DEF F!Listing
  <2>4. CASE r.kind = "remove"
    <3>1. row' = [row EXCEPT !.photos = IF @ > 0 THEN @ - 1 ELSE @] /\ row \in F!Listing
      BY <1>1, <2>4 DEF F!Effect
    <3>2. (IF row.photos > 0 THEN row.photos - 1 ELSE row.photos) \in 0..MaxPhotos
      BY <3>1, FormConstants DEF F!Listing
    <3> QED BY <3>1, <3>2 DEF F!Listing
  <2>5. CASE r.kind \in {"publish", "unpublish", "get", "reread"}
    BY <1>1, <2>5 DEF F!Effect
  <2> QED BY <1>1, <2>1, <2>2, <2>3, <2>4, <2>5 DEF F!Kinds
<1>3. r.kind \in {"publish", "unpublish", "get", "reread"} => row' = row
  BY <1>1 DEF F!Effect
<1>4. /\ F!Started(r) \in F!Request /\ F!Started(r).kind = r.kind
      /\ F!Started(r).at = "half" /\ F!Started(r).listing = row'
  BY <1>2 DEF F!Started, F!Request
<1> QED BY <1>1, <1>2, <1>3, <1>4, FormConstants

\* The second.
LEMMA SecondServes ==
  ASSUME NEW r \in F!Request, F!Second(r), row \in F!Listing, r.listing # None
  PROVE  /\ row' \in F!Listing /\ row' # None
         /\ F!Done(r) \in F!Request /\ F!Done(r).kind = r.kind
         /\ F!Done(r).at = "answered" /\ F!Done(r).listing # None
         /\ r.listing = row => F!Done(r).listing = row'
         /\ row'.photos = row.photos /\ row'.enough = row.enough
         /\ r.kind \notin {"publish", "unpublish"} => row' = row
         /\ r.at = "half"
<1> DEFINE live == IF r.kind \in {"publish", "unpublish"} THEN r.kind = "publish" ELSE row.live
<1>1. r.at = "half" /\ row' = [row EXCEPT !.live = live]
  BY DEF F!Second
<1>2. live \in BOOLEAN /\ (r.kind \notin {"publish", "unpublish"} => live = row.live)
  <2>1. row.live \in BOOLEAN /\ (r.kind = "publish") \in BOOLEAN
    BY DEF F!Listing
  <2> QED BY <2>1
<1> HIDE DEF live
<1>3. row' \in F!Listing /\ row'.photos = row.photos /\ row'.enough = row.enough
  BY <1>1, <1>2 DEF F!Listing
<1>4. r.kind \notin {"publish", "unpublish"} => row' = row
  BY <1>1, <1>2 DEF F!Listing
<1> DEFINE l == IF r.kind \in {"save", "get", "reread"} THEN [r.listing EXCEPT !.photos = row.photos] ELSE row'
<1>5. l \in F!Listing /\ (r.listing = row => l = row')
  <2>1. r.listing \in F!Listing
    BY DEF F!Request
  <2>2. [r.listing EXCEPT !.photos = row.photos] \in F!Listing
    BY <2>1 DEF F!Listing
  <2>3. r.listing = row => [r.listing EXCEPT !.photos = row.photos] = row
    BY <2>1 DEF F!Listing
  <2> QED BY <1>3, <1>4, <2>2, <2>3
<1>6. F!Done(r) = [r EXCEPT !.at = "answered", !.listing = l]
  BY DEF F!Done
<1> HIDE DEF l
<1>7. /\ F!Done(r) \in F!Request /\ F!Done(r).kind = r.kind
      /\ F!Done(r).at = "answered" /\ F!Done(r).listing = l
  BY <1>5, <1>6 DEF F!Request
<1> QED BY <1>1, <1>3, <1>4, <1>5, <1>7, FormConstants

\* It holds of a new form and of one that opens on a listing.
LEMMA FormInit == F!Init => FormInv
<1> SUFFICES ASSUME F!Init PROVE FormInv
  OBVIOUS
<1> DEFINE draft == [enough |-> FALSE, live |-> FALSE, photos |-> 0]
           posted == [enough |-> TRUE, live |-> TRUE, photos |-> 1]
<1>1. /\ row \in {None, draft, posted}
      /\ verified \in BOOLEAN /\ form = FALSE /\ shown = None /\ readiness = None
      /\ saving = F!Idle /\ photoBusy = F!Idle
      /\ getting = IF row = None THEN F!Idle ELSE F!Sent("get")
      /\ checklists = {} /\ elsewhere = 0 /\ unsure = {}
  BY DEF F!Init
<1>2. draft \in F!Listing /\ posted \in F!Listing
  BY FormConstants DEF F!Listing
<1> HIDE DEF draft, posted
<1>3. form \in BOOLEAN
  BY <1>1
<1>4. /\ F!Idle \in F!Request /\ F!Idle.kind = "none" /\ F!Idle.at = "sent"
      /\ F!Sent("get") \in F!Request /\ F!Sent("get").kind = "get" /\ F!Sent("get").at = "sent"
  BY <1>3, RequestTypes DEF F!Kinds
<1>5. getting \in F!Request /\ getting.at = "sent" /\ getting.kind \in {"none", "get"}
      /\ (getting.kind = "none" => getting = F!Idle) /\ (row = None => getting = F!Idle)
  BY <1>1, <1>4
<1>6. F!TypeOK
  BY <1>1, <1>2, <1>3, <1>4, <1>5, FormConstants DEF F!TypeOK
<1>7. FlagsHaveTheirKinds /\ ListingComesFirst
  BY <1>1, <1>4, <1>5 DEF FlagsHaveTheirKinds, ListingComesFirst
<1>8. OneAtATime /\ AnswersAreTheListing /\ ChecklistIsTrue
  BY <1>1, <1>4, <1>5 DEF OneAtATime, AnswersAreTheListing, ChecklistIsTrue
<1> QED BY <1>6, <1>7, <1>8 DEF FormInv

\* It holds on while another part moves.
LEMMA FormStutter == FormInv /\ UNCHANGED listing => FormInv'
<1> SUFFICES ASSUME FormInv, UNCHANGED listing PROVE FormInv'
  OBVIOUS
<1>1. F!CanPublish(row)' = F!CanPublish(row)
  BY DEF listing, F!CanPublish
<1> QED BY <1>1 DEF FormInv, listing, F!TypeOK, FlagsHaveTheirKinds, ListingComesFirst, OneAtATime,
             AnswersAreTheListing, ChecklistIsTrue

\* What is typed changes nothing but itself.
LEMMA TypeKeeps == FormInv /\ F!Type => FormInv'
<1> SUFFICES ASSUME FormInv, F!Type PROVE FormInv'
  OBVIOUS
<1>1. UNCHANGED <<row, verified, shown, readiness, saving, photoBusy, getting, checklists, elsewhere, unsure>>
  BY DEF F!Type, F!requests
<1>2. form' \in BOOLEAN
  <2>1. form' = ~form
    BY DEF F!Type
  <2> QED BY <2>1
<1>3. F!CanPublish(row)' = F!CanPublish(row)
  BY <1>1 DEF F!CanPublish
<1>4. F!TypeOK'
  BY <1>1, <1>2 DEF FormInv, F!TypeOK
<1> QED BY <1>1, <1>3, <1>4 DEF FormInv, FlagsHaveTheirKinds, ListingComesFirst, OneAtATime,
             AnswersAreTheListing, ChecklistIsTrue

\* A request is sent: with no excuse, it is the only one.
LEMMA SentAlone ==
  ASSUME FormInv, F!Overlap
  PROVE  /\ unsure' = {} => /\ unsure = {} /\ saving = F!Idle /\ photoBusy = F!Idle
                            /\ getting = F!Idle /\ checklists = {}
         /\ unsure' \subseteq {"overlapped", "lost", "elsewhere"}
BY DEF F!Overlap, F!Quiet, FormInv, F!TypeOK

\* The form is saved, or the listing is published or hidden.
LEMMA SubmitKeeps ==
  ASSUME FormInv, F!HandleSubmit \/ F!HandlePublishToggle
  PROVE  FormInv'
<1>1. /\ F!TypeOK /\ FlagsHaveTheirKinds /\ ListingComesFirst
      /\ OneAtATime /\ AnswersAreTheListing /\ ChecklistIsTrue
  BY DEF FormInv
<1>2. form \in BOOLEAN
  BY <1>1 DEF F!TypeOK
<1>3. PICK k \in {"create", "save", "publish", "unpublish"} :
        /\ saving' = F!Sent(k) /\ saving = F!Idle
        /\ row = None <=> k = "create"
        /\ shown = None => k \in {"create", "save"}
  BY <1>1 DEF F!HandleSubmit, F!HandlePublishToggle, ListingComesFirst
<1>4. /\ UNCHANGED <<row, verified, form, shown, readiness, photoBusy, getting, checklists, elsewhere>>
      /\ F!Overlap
  BY DEF F!HandleSubmit, F!HandlePublishToggle
<1>5. /\ saving' \in F!Request /\ saving'.kind = k /\ saving'.at = "sent"
      /\ F!Idle.kind = "none" /\ F!Idle.at = "sent"
  BY <1>2, <1>3, RequestTypes DEF F!Kinds
<1>6. F!CanPublish(row)' = F!CanPublish(row)
  BY <1>4 DEF F!CanPublish
<1>7. F!TypeOK'
  BY <1>1, <1>4, <1>5, SentAlone DEF F!TypeOK
<1>8. FlagsHaveTheirKinds'
  BY <1>1, <1>4, <1>5 DEF FlagsHaveTheirKinds
<1>9. ListingComesFirst'
  BY <1>1, <1>3, <1>4, <1>5 DEF ListingComesFirst
<1>10. OneAtATime'
  BY <1>1, <1>3, <1>4, <1>5, SentAlone DEF OneAtATime
<1>11. AnswersAreTheListing'
  BY <1>1, <1>3, <1>4, <1>5, SentAlone DEF AnswersAreTheListing
<1>12. ChecklistIsTrue'
  BY <1>1, <1>3, <1>4, <1>5, <1>6, SentAlone DEF ChecklistIsTrue
<1> QED BY <1>7, <1>8, <1>9, <1>10, <1>11, <1>12 DEF FormInv

\* A photo is added or removed.
LEMMA PhotoManagerKeeps ==
  ASSUME FormInv, F!PhotoManager
  PROVE  FormInv'
<1>1. /\ F!TypeOK /\ FlagsHaveTheirKinds /\ ListingComesFirst
      /\ OneAtATime /\ AnswersAreTheListing /\ ChecklistIsTrue
  BY DEF FormInv
<1>2. form \in BOOLEAN
  BY <1>1 DEF F!TypeOK
<1>3. PICK k \in {"add", "remove"} : photoBusy' = F!Sent(k)
  BY DEF F!PhotoManager
<1>4. /\ UNCHANGED <<row, verified, form, shown, readiness, saving, getting, checklists, elsewhere>>
      /\ F!Overlap /\ shown # None /\ photoBusy = F!Idle
  BY DEF F!PhotoManager
<1>5. /\ photoBusy' \in F!Request /\ photoBusy'.kind = k /\ photoBusy'.at = "sent"
      /\ F!Idle.kind = "none" /\ F!Idle.at = "sent"
  BY <1>2, <1>3, RequestTypes DEF F!Kinds
<1>6. F!CanPublish(row)' = F!CanPublish(row)
  BY <1>4 DEF F!CanPublish
<1>7. F!TypeOK'
  BY <1>1, <1>4, <1>5, SentAlone DEF F!TypeOK
<1>8. FlagsHaveTheirKinds'
  BY <1>1, <1>4, <1>5 DEF FlagsHaveTheirKinds
<1>9. ListingComesFirst'
  BY <1>1, <1>3, <1>4, <1>5 DEF ListingComesFirst
<1>10. OneAtATime'
  BY <1>1, <1>3, <1>4, <1>5, SentAlone DEF OneAtATime
<1>11. AnswersAreTheListing'
  BY <1>1, <1>3, <1>4, <1>5, SentAlone DEF AnswersAreTheListing
<1>12. ChecklistIsTrue'
  BY <1>1, <1>3, <1>4, <1>5, <1>6, SentAlone DEF ChecklistIsTrue
<1> QED BY <1>7, <1>8, <1>9, <1>10, <1>11, <1>12 DEF FormInv

\* The server takes the first statement of a request, or the second.
LEMMA ServeSavingKeeps == FormInv /\ F!ServeSaving => FormInv'
<1> SUFFICES ASSUME FormInv, F!ServeSaving PROVE FormInv'
  OBVIOUS
<1>1. /\ F!TypeOK /\ FlagsHaveTheirKinds /\ ListingComesFirst
      /\ OneAtATime /\ AnswersAreTheListing /\ ChecklistIsTrue
  BY DEF FormInv
<1>2. /\ UNCHANGED <<verified, form, shown, readiness, photoBusy, getting, checklists, elsewhere, unsure>>
      /\ \/ F!First(saving) /\ saving' = F!Started(saving)
         \/ F!Second(saving) /\ saving' = F!Done(saving)
  BY DEF F!ServeSaving
<1>3. /\ row \in F!Listing \cup {None} /\ saving \in F!Request
      /\ F!Idle.kind = "none" /\ F!Idle.at = "sent"
  BY <1>1, RequestTypes DEF F!TypeOK
<1>4. /\ row' \in F!Listing /\ row' # None /\ saving' \in F!Request /\ saving'.kind = saving.kind
      /\ saving'.at # "sent" /\ saving'.listing # None
      /\ saving.kind \notin {"none", "checklist"}
      /\ unsure = {} => saving'.listing = row'
  <2>1. CASE F!First(saving) /\ saving' = F!Started(saving)
    <3>1. saving.kind # "create" => row # None
      BY <1>1, <2>1, <1>3 DEF ListingComesFirst, F!First
    <3> QED BY <1>3, <2>1, <3>1, FirstServes
  <2>2. CASE F!Second(saving) /\ saving' = F!Done(saving)
    <3>1. saving.at = "half" /\ saving.listing # None /\ row # None
      BY <1>1, <2>2 DEF ListingComesFirst, FlagsHaveTheirKinds, F!Second
    <3>2. saving.kind \notin {"none", "checklist"}
      BY <1>1, <1>3, <3>1 DEF FlagsHaveTheirKinds
    <3>3. unsure = {} => saving.listing = row
      BY <1>1, <3>1 DEF AnswersAreTheListing
    <3> QED BY <1>3, <2>2, <3>1, <3>2, <3>3, SecondServes
  <2> QED BY <1>2, <2>1, <2>2
<1>5. saving.kind \in {"publish", "unpublish"} => F!CanPublish(row)' = F!CanPublish(row)
  <2>1. SUFFICES ASSUME saving.kind \in {"publish", "unpublish"}
                 PROVE  F!CanPublish(row)' = F!CanPublish(row)
    OBVIOUS
  <2>2. row'.photos = row.photos /\ row'.enough = row.enough
    <3>1. CASE F!First(saving)
      BY <1>3, <2>1, <3>1 DEF F!First, F!Effect
    <3>2. CASE F!Second(saving)
      <4>1. saving.listing # None /\ row # None
        BY <1>1, <3>2 DEF ListingComesFirst, FlagsHaveTheirKinds, F!Second
      <4> QED BY <1>3, <3>2, <4>1, SecondServes
    <3> QED BY <1>2, <3>1, <3>2
  <2> QED BY <1>2, <2>2 DEF F!CanPublish
<1>6. F!TypeOK'
  BY <1>1, <1>2, <1>4 DEF F!TypeOK
<1>7. FlagsHaveTheirKinds'
  BY <1>1, <1>2, <1>4 DEF FlagsHaveTheirKinds
<1>8. ListingComesFirst'
  BY <1>1, <1>2, <1>3, <1>4 DEF ListingComesFirst
<1>9. OneAtATime'
  BY <1>1, <1>2, <1>3, <1>4 DEF OneAtATime
<1>10. AnswersAreTheListing'
  BY <1>1, <1>2, <1>3, <1>4 DEF AnswersAreTheListing, OneAtATime, ListingComesFirst
<1>11. ChecklistIsTrue'
  <2>1. SUFFICES ASSUME unsure = {} PROVE ChecklistIsTrue'
    BY <1>2 DEF ChecklistIsTrue
  <2>2. checklists = {} /\ photoBusy = F!Idle
    BY <1>1, <1>4, <2>1 DEF OneAtATime
  <2>3. saving.kind \in {"create", "save", "publish", "unpublish"}
    BY <1>1, <1>4 DEF FlagsHaveTheirKinds
  <2>4. saving.kind = "create" => readiness = None
    BY <1>1 DEF ListingComesFirst
  <2>5. saving.kind \in {"publish", "unpublish"} => readiness = None \/ readiness = F!CanPublish(row)
    BY <1>1, <1>3, <2>1, <2>2 DEF ChecklistIsTrue
  <2> QED BY <1>2, <1>4, <1>5, <2>2, <2>3, <2>4, <2>5 DEF ChecklistIsTrue
<1> QED BY <1>6, <1>7, <1>8, <1>9, <1>10, <1>11 DEF FormInv

\* The server adds the photo, or takes it away.
LEMMA ServePhotoKeeps == FormInv /\ F!ServePhoto => FormInv'
<1> SUFFICES ASSUME FormInv, F!ServePhoto PROVE FormInv'
  OBVIOUS
<1>1. /\ F!TypeOK /\ FlagsHaveTheirKinds /\ ListingComesFirst
      /\ OneAtATime /\ AnswersAreTheListing /\ ChecklistIsTrue
  BY DEF FormInv
<1>2. /\ UNCHANGED <<verified, form, shown, readiness, saving, getting, checklists, elsewhere, unsure>>
      /\ \/ F!First(photoBusy) /\ photoBusy' = F!Started(photoBusy)
         \/ F!Second(photoBusy) /\ photoBusy' = F!Done(photoBusy)
  BY DEF F!ServePhoto
<1>3. /\ row \in F!Listing \cup {None} /\ photoBusy \in F!Request
      /\ F!Idle.kind = "none" /\ F!Idle.at = "sent" /\ photoBusy.kind # "create"
  BY <1>1, RequestTypes DEF F!TypeOK, FlagsHaveTheirKinds
<1>4. photoBusy # F!Idle /\ row # None
  BY <1>1, <1>2, <1>3 DEF F!First, F!Second, ListingComesFirst
<1>5. /\ row' \in F!Listing /\ row' # None /\ photoBusy' \in F!Request /\ photoBusy'.kind = photoBusy.kind
      /\ photoBusy'.at # "sent" /\ photoBusy'.listing # None
      /\ unsure = {} => photoBusy'.listing = row'
  <2>1. CASE F!First(photoBusy) /\ photoBusy' = F!Started(photoBusy)
    BY <1>3, <1>4, <2>1, FirstServes
  <2>2. CASE F!Second(photoBusy) /\ photoBusy' = F!Done(photoBusy)
    <3>1. photoBusy.at = "half" /\ photoBusy.listing # None
      BY <1>1, <2>2 DEF FlagsHaveTheirKinds, F!Second
    <3>2. unsure = {} => photoBusy.listing = row
      BY <1>1, <3>1 DEF AnswersAreTheListing
    <3> QED BY <1>3, <1>4, <2>2, <3>1, <3>2, SecondServes
  <2> QED BY <1>2, <2>1, <2>2
<1>6. /\ photoBusy.kind # "none" /\ shown # None
      /\ unsure = {} => getting = F!Idle
  BY <1>1, <1>4 DEF FlagsHaveTheirKinds, ListingComesFirst, OneAtATime
<1>7. F!TypeOK'
  BY <1>1, <1>2, <1>5 DEF F!TypeOK
<1>8. FlagsHaveTheirKinds'
  BY <1>1, <1>2, <1>5, <1>6 DEF FlagsHaveTheirKinds
<1>9. ListingComesFirst'
  BY <1>1, <1>2, <1>4, <1>5, <1>6 DEF ListingComesFirst
<1>10. OneAtATime'
  BY <1>1, <1>2, <1>3, <1>4, <1>5 DEF OneAtATime
<1>11. AnswersAreTheListing'
  BY <1>1, <1>2, <1>3, <1>4, <1>5, <1>6 DEF AnswersAreTheListing, OneAtATime
<1>12. ChecklistIsTrue'
  BY <1>1, <1>2, <1>4, <1>5 DEF ChecklistIsTrue, OneAtATime
<1> QED BY <1>7, <1>8, <1>9, <1>10, <1>11, <1>12 DEF FormInv

\* The server reads the listing for the page that opens on it.
LEMMA ServeLoadKeeps == FormInv /\ F!ServeLoad => FormInv'
<1> SUFFICES ASSUME FormInv, F!ServeLoad PROVE FormInv'
  OBVIOUS
<1>1. /\ F!TypeOK /\ FlagsHaveTheirKinds /\ ListingComesFirst
      /\ OneAtATime /\ AnswersAreTheListing /\ ChecklistIsTrue
  BY DEF FormInv
<1>2. /\ UNCHANGED <<verified, form, shown, readiness, saving, photoBusy, checklists, elsewhere, unsure>>
      /\ \/ F!First(getting) /\ getting' = F!Started(getting)
         \/ F!Second(getting) /\ getting' = F!Done(getting)
  BY DEF F!ServeLoad
<1>3. /\ row \in F!Listing \cup {None} /\ getting \in F!Request
      /\ F!Idle.kind = "none" /\ F!Idle.at = "sent" /\ getting.kind \in {"none", "get", "reread"}
  BY <1>1, RequestTypes DEF F!TypeOK, FlagsHaveTheirKinds
<1>4. getting # F!Idle /\ row # None
  BY <1>1, <1>2, <1>3 DEF F!First, F!Second, ListingComesFirst
<1>5. /\ getting.kind \in {"get", "reread"}
      /\ unsure = {} => shown = None /\ saving = F!Idle /\ photoBusy = F!Idle /\ checklists = {}
  BY <1>1, <1>3, <1>4 DEF FlagsHaveTheirKinds, OneAtATime
<1>6. /\ row' = row /\ getting' \in F!Request /\ getting'.kind = getting.kind
      /\ getting'.at # "sent" /\ getting'.listing # None
      /\ unsure = {} => getting'.listing = row'
  <2>1. CASE F!First(getting) /\ getting' = F!Started(getting)
    BY <1>3, <1>4, <1>5, <2>1, FirstServes
  <2>2. CASE F!Second(getting) /\ getting' = F!Done(getting)
    <3>1. getting.at = "half" /\ getting.listing # None
      BY <1>1, <2>2 DEF FlagsHaveTheirKinds, F!Second
    <3>2. unsure = {} => getting.listing = row
      BY <1>1, <3>1 DEF AnswersAreTheListing
    <3> QED BY <1>3, <1>4, <1>5, <2>2, <3>1, <3>2, SecondServes
  <2> QED BY <1>2, <2>1, <2>2
<1>7. F!CanPublish(row)' = F!CanPublish(row)
  BY <1>2, <1>6 DEF F!CanPublish
<1>8. F!TypeOK'
  BY <1>1, <1>2, <1>6 DEF F!TypeOK
<1>9. FlagsHaveTheirKinds'
  BY <1>1, <1>2, <1>5, <1>6 DEF FlagsHaveTheirKinds
<1>10. ListingComesFirst'
  BY <1>1, <1>2, <1>4, <1>5, <1>6 DEF ListingComesFirst
<1>11. OneAtATime'
  BY <1>1, <1>2, <1>5, <1>6 DEF OneAtATime
<1>12. AnswersAreTheListing'
  BY <1>1, <1>2, <1>5, <1>6 DEF AnswersAreTheListing
<1>13. ChecklistIsTrue'
  BY <1>1, <1>2, <1>6, <1>7 DEF ChecklistIsTrue
<1> QED BY <1>8, <1>9, <1>10, <1>11, <1>12, <1>13 DEF FormInv

\* Asking for the checklist adds questions without an answer.
LEMMA ReadinessAsked ==
  ASSUME NEW by \in SUBSET BOOLEAN, F!RefreshReadiness(by),
         checklists \subseteq [may : BOOLEAN \cup {None}, awaited : BOOLEAN]
  PROVE  /\ checklists' \subseteq [may : BOOLEAN \cup {None}, awaited : BOOLEAN]
         /\ checklists \subseteq checklists'
         /\ \A b \in checklists' \ checklists : b.may = None
         /\ \A w \in by : \E b \in checklists' : b.may = None /\ b.awaited = w
         /\ \A w \in by : by = {w} =>
              \E b \in checklists' : checklists' = checklists \cup {b} /\ b.may = None /\ b.awaited = w
<1> DEFINE b(w) == [may |-> None, awaited |-> w]
<1>1. checklists' = checklists \cup {b(w) : w \in by}
  BY DEF F!RefreshReadiness
<1>2. \A w \in by : /\ b(w) \in [may : BOOLEAN \cup {None}, awaited : BOOLEAN]
                     /\ b(w).may = None /\ b(w).awaited = w
  OBVIOUS
<1> HIDE DEF b
<1>3. \A w \in by : by = {w} => checklists' = checklists \cup {b(w)}
  BY <1>1
<1> QED BY <1>1, <1>2, <1>3

\* Created: the page reads the listing it has just made.
LEMMA CreateArrivesKeeps == FormInv /\ F!CreateArrives => FormInv'
<1> SUFFICES ASSUME FormInv, F!CreateArrives PROVE FormInv'
  OBVIOUS
<1>1. /\ F!TypeOK /\ FlagsHaveTheirKinds /\ ListingComesFirst
      /\ OneAtATime /\ AnswersAreTheListing /\ ChecklistIsTrue
  BY DEF FormInv
<1>2. /\ saving.kind = "create" /\ saving.at = "answered"
      /\ saving' = F!Idle /\ getting' = F!Sent("reread")
      /\ UNCHANGED <<row, verified, form, shown, readiness, photoBusy, checklists, elsewhere, unsure>>
  BY DEF F!CreateArrives
<1>3. form \in BOOLEAN
  BY <1>1 DEF F!TypeOK
<1>4. /\ F!Idle \in F!Request /\ F!Idle.kind = "none" /\ F!Idle.at = "sent"
      /\ getting' \in F!Request /\ getting'.kind = "reread" /\ getting'.at = "sent"
  BY <1>2, <1>3, RequestTypes DEF F!Kinds
<1>5. /\ photoBusy = F!Idle /\ checklists = {} /\ shown = None /\ row # None /\ readiness = None
  BY <1>1, <1>2 DEF ListingComesFirst
<1>6. F!TypeOK'
  BY <1>1, <1>2, <1>4 DEF F!TypeOK
<1>7. FlagsHaveTheirKinds' /\ ListingComesFirst'
  BY <1>1, <1>2, <1>4, <1>5 DEF FlagsHaveTheirKinds, ListingComesFirst
<1>8. OneAtATime' /\ AnswersAreTheListing' /\ ChecklistIsTrue'
  BY <1>2, <1>4, <1>5 DEF OneAtATime, AnswersAreTheListing, ChecklistIsTrue
<1> QED BY <1>6, <1>7, <1>8 DEF FormInv

\* Saved: the checklist is asked for, and the form stays disabled until it comes.
LEMMA SaveArrivesKeeps == FormInv /\ F!SaveArrives => FormInv'
<1> SUFFICES ASSUME FormInv, F!SaveArrives PROVE FormInv'
  OBVIOUS
<1>1. /\ F!TypeOK /\ FlagsHaveTheirKinds /\ ListingComesFirst
      /\ OneAtATime /\ AnswersAreTheListing /\ ChecklistIsTrue
  BY DEF FormInv
<1>2. /\ saving.kind = "save" /\ saving.at = "answered"
      /\ shown' = saving.listing
      /\ saving' = F!Sent("checklist")
      /\ F!RefreshReadiness(IF shown = None THEN {TRUE, FALSE} ELSE {TRUE})
      /\ unsure' = IF checklists = {} /\ shown # None THEN unsure ELSE unsure \cup {"overlapped"}
      /\ UNCHANGED <<row, verified, form, readiness, photoBusy, getting, elsewhere>>
  BY DEF F!SaveArrives
<1>3. form \in BOOLEAN /\ checklists \subseteq [may : BOOLEAN \cup {None}, awaited : BOOLEAN]
      /\ saving.listing \in F!Listing \cup {None}
  BY <1>1 DEF F!TypeOK, F!Request
<1>4. /\ F!Idle.kind = "none" /\ F!Idle.at = "sent"
      /\ saving' \in F!Request /\ saving'.kind = "checklist" /\ saving'.at = "sent"
  BY <1>2, <1>3, RequestTypes DEF F!Kinds
<1> DEFINE by == IF shown = None THEN {TRUE, FALSE} ELSE {TRUE}
<1>5. /\ checklists' \subseteq [may : BOOLEAN \cup {None}, awaited : BOOLEAN]
      /\ \E a \in checklists' : a.awaited
      /\ shown # None => \E b \in checklists' : checklists' = checklists \cup {b} /\ b.may = None
  <2>1. by \in SUBSET BOOLEAN /\ TRUE \in by /\ (shown # None => by = {TRUE})
    OBVIOUS
  <2>2. F!RefreshReadiness(by)
    BY <1>2
  <2> HIDE DEF by
  <2>3. \E b \in checklists' : b.may = None /\ b.awaited = TRUE
    BY <1>3, <2>1, <2>2, ReadinessAsked
  <2>4. shown # None =>
          \E b \in checklists' : checklists' = checklists \cup {b} /\ b.may = None /\ b.awaited = TRUE
    BY <1>3, <2>1, <2>2, ReadinessAsked
  <2>5. checklists' \subseteq [may : BOOLEAN \cup {None}, awaited : BOOLEAN]
    BY <1>3, <2>1, <2>2, ReadinessAsked
  <2> QED BY <2>3, <2>4, <2>5
<1>7. shown' # None /\ row # None
  BY <1>1, <1>2, <1>4 DEF FlagsHaveTheirKinds, ListingComesFirst
<1>8. unsure' = {} => /\ unsure = {} /\ checklists = {} /\ photoBusy = F!Idle /\ saving.listing = row
                      /\ shown # None /\ getting = F!Idle
  BY <1>1, <1>2, <1>4 DEF OneAtATime, AnswersAreTheListing
<1>6. unsure' = {} => \E b : checklists' = {b} /\ b.may = None
  BY <1>5, <1>8
<1>9. F!CanPublish(row)' = F!CanPublish(row)
  BY <1>2 DEF F!CanPublish
<1>10. F!TypeOK'
  BY <1>1, <1>2, <1>3, <1>4, <1>5, <1>7 DEF F!TypeOK
<1>11. FlagsHaveTheirKinds' /\ ListingComesFirst'
  BY <1>1, <1>2, <1>4, <1>5, <1>7 DEF FlagsHaveTheirKinds, ListingComesFirst
<1>12. OneAtATime'
  BY <1>2, <1>4, <1>6, <1>8 DEF OneAtATime
<1>13. AnswersAreTheListing'
  BY <1>1, <1>2, <1>4, <1>7, <1>8 DEF AnswersAreTheListing
<1>14. ChecklistIsTrue'
  BY <1>6, <1>8, <1>9 DEF ChecklistIsTrue
<1> QED BY <1>10, <1>11, <1>12, <1>13, <1>14 DEF FormInv

\* Published or hidden.
LEMMA ToggleArrivesKeeps == FormInv /\ F!ToggleArrives => FormInv'
<1> SUFFICES ASSUME FormInv, F!ToggleArrives PROVE FormInv'
  OBVIOUS
<1>1. /\ F!TypeOK /\ FlagsHaveTheirKinds /\ ListingComesFirst
      /\ OneAtATime /\ AnswersAreTheListing /\ ChecklistIsTrue
  BY DEF FormInv
<1>2. /\ saving.kind \in {"publish", "unpublish"} /\ saving.at = "answered"
      /\ shown' = saving.listing /\ saving' = F!Idle
      /\ UNCHANGED <<row, verified, form, readiness, photoBusy, getting, checklists, elsewhere, unsure>>
  BY DEF F!ToggleArrives
<1>3. saving.listing \in F!Listing \cup {None} /\ saving.listing # None
  BY <1>1, <1>2 DEF F!TypeOK, F!Request, FlagsHaveTheirKinds
<1>4. F!Idle \in F!Request /\ F!Idle.kind = "none" /\ F!Idle.at = "sent"
  BY RequestTypes
<1>5. row # None /\ shown # None
  BY <1>1, <1>2 DEF ListingComesFirst
<1>6. unsure = {} => /\ photoBusy = F!Idle /\ checklists = {} /\ saving.listing = row
                     /\ getting = F!Idle
  BY <1>1, <1>2, <1>5 DEF OneAtATime, AnswersAreTheListing
<1>7. F!CanPublish(row)' = F!CanPublish(row)
  BY <1>2 DEF F!CanPublish
<1>8. F!TypeOK'
  BY <1>1, <1>2, <1>3, <1>4 DEF F!TypeOK
<1>9. FlagsHaveTheirKinds' /\ ListingComesFirst'
  BY <1>1, <1>2, <1>3, <1>4, <1>5 DEF FlagsHaveTheirKinds, ListingComesFirst
<1>10. OneAtATime' /\ AnswersAreTheListing'
  BY <1>1, <1>2, <1>4, <1>5, <1>6 DEF OneAtATime, AnswersAreTheListing
<1>11. ChecklistIsTrue'
  BY <1>1, <1>2, <1>4, <1>7 DEF ChecklistIsTrue
<1> QED BY <1>8, <1>9, <1>10, <1>11 DEF FormInv

\* Refused or lost: only a refusal leaves the page without an excuse.
LEMMA SavingFailsKeeps == FormInv /\ F!SavingFails => FormInv'
<1> SUFFICES ASSUME FormInv, F!SavingFails PROVE FormInv'
  OBVIOUS
<1>1. /\ F!TypeOK /\ FlagsHaveTheirKinds /\ ListingComesFirst
      /\ OneAtATime /\ AnswersAreTheListing /\ ChecklistIsTrue
  BY DEF FormInv
<1>2. /\ unsure' = unsure \cup (IF saving.at = "sent" THEN {} ELSE {"lost"})
                          \cup (IF checklists = {} THEN {} ELSE {"overlapped"})
      /\ row' = IF saving.kind = "create" THEN None ELSE row
      /\ UNCHANGED <<verified, form, shown, readiness, photoBusy, getting, elsewhere>>
      /\ saving.kind \notin {"none", "checklist"}
  BY DEF F!SavingFails
<1>3. form \in BOOLEAN /\ checklists \subseteq [may : BOOLEAN \cup {None}, awaited : BOOLEAN]
  BY <1>1 DEF F!TypeOK
<1>4. F!Idle \in F!Request /\ F!Idle.kind = "none" /\ F!Idle.at = "sent"
  BY RequestTypes
<1>5. /\ unsure' = {} => unsure = {} /\ checklists = {} /\ saving.at = "sent" /\ photoBusy = F!Idle
      /\ unsure' \subseteq {"overlapped", "lost", "elsewhere"}
  BY <1>1, <1>2 DEF OneAtATime, F!TypeOK
<1>6. CASE saving.kind \in {"publish", "unpublish"}
  <2>1. saving' = F!Sent("checklist") /\ F!RefreshReadiness({TRUE}) /\ row' = row
    BY <1>2, <1>6 DEF F!SavingFails
  <2>2. saving' \in F!Request /\ saving'.kind = "checklist" /\ saving'.at = "sent"
    BY <1>3, <2>1, RequestTypes DEF F!Kinds
  <2>3. checklists' \subseteq [may : BOOLEAN \cup {None}, awaited : BOOLEAN]
    BY <1>3, <2>1, ReadinessAsked
  <2>4. PICK b \in checklists' : checklists' = checklists \cup {b} /\ b.may = None /\ b.awaited
    BY <1>3, <2>1, ReadinessAsked
  <2>5. row # None /\ shown # None /\ (unsure = {} => getting = F!Idle)
    BY <1>1, <1>4, <1>6 DEF ListingComesFirst, OneAtATime
  <2>6. F!TypeOK'
    BY <1>1, <1>2, <1>5, <2>1, <2>2, <2>3 DEF F!TypeOK
  <2>7. FlagsHaveTheirKinds' /\ ListingComesFirst'
    BY <1>1, <1>2, <1>4, <2>1, <2>2, <2>4, <2>5 DEF FlagsHaveTheirKinds, ListingComesFirst
  <2>8. OneAtATime' /\ AnswersAreTheListing'
    BY <1>1, <1>2, <1>4, <1>5, <2>1, <2>2, <2>4, <2>5 DEF OneAtATime, AnswersAreTheListing
  <2>9. ChecklistIsTrue'
    BY <1>5, <2>4 DEF ChecklistIsTrue
  <2> QED BY <2>6, <2>7, <2>8, <2>9 DEF FormInv
<1>7. CASE saving.kind \in {"create", "save"}
  <2>1. saving' = F!Idle /\ checklists' = checklists
    BY <1>2, <1>7 DEF F!SavingFails
  <2>2. F!TypeOK'
    BY <1>1, <1>2, <1>4, <1>5, <2>1 DEF F!TypeOK
  <2>3. FlagsHaveTheirKinds' /\ ListingComesFirst'
    BY <1>1, <1>2, <1>4, <1>7, <2>1 DEF FlagsHaveTheirKinds, ListingComesFirst
  <2>4. OneAtATime' /\ AnswersAreTheListing'
    BY <1>1, <1>2, <1>4, <1>5, <1>7, <2>1 DEF OneAtATime, AnswersAreTheListing, ListingComesFirst
  <2>5. ChecklistIsTrue'
    <3>1. CASE saving.kind = "create"
      <4>1. checklists = {} /\ readiness = None
        BY <1>1, <3>1 DEF ListingComesFirst
      <4> QED BY <1>2, <2>1, <4>1 DEF ChecklistIsTrue
    <3>2. CASE saving.kind = "save"
      <4>1. F!CanPublish(row)' = F!CanPublish(row)
        BY <1>2, <3>2 DEF F!CanPublish
      <4> QED BY <1>1, <1>2, <1>4, <1>5, <2>1, <4>1 DEF ChecklistIsTrue
    <3> QED BY <1>7, <3>1, <3>2
  <2> QED BY <2>2, <2>3, <2>4, <2>5 DEF FormInv
<1>8. saving.kind \in {"create", "save", "publish", "unpublish"}
  BY <1>1, <1>2 DEF FlagsHaveTheirKinds
<1> QED BY <1>6, <1>7, <1>8

\* A photo was added or removed: the checklist is asked for again.
LEMMA PhotoArrivesKeeps == FormInv /\ F!PhotoArrives => FormInv'
<1> SUFFICES ASSUME FormInv, F!PhotoArrives PROVE FormInv'
  OBVIOUS
<1>1. /\ F!TypeOK /\ FlagsHaveTheirKinds /\ ListingComesFirst
      /\ OneAtATime /\ AnswersAreTheListing /\ ChecklistIsTrue
  BY DEF FormInv
<1>2. /\ photoBusy.at = "answered" /\ shown' = photoBusy.listing
      /\ photoBusy' = F!Idle /\ F!RefreshReadiness({FALSE})
      /\ unsure' = IF checklists = {} THEN unsure ELSE unsure \cup {"overlapped"}
      /\ UNCHANGED <<row, verified, form, readiness, saving, getting, elsewhere>>
  BY DEF F!PhotoArrives
<1>3. /\ checklists \subseteq [may : BOOLEAN \cup {None}, awaited : BOOLEAN]
      /\ photoBusy.listing \in F!Listing \cup {None} /\ photoBusy.listing # None
  BY <1>1, <1>2 DEF F!TypeOK, F!Request, FlagsHaveTheirKinds
<1>4. F!Idle \in F!Request /\ F!Idle.kind = "none" /\ F!Idle.at = "sent"
  BY RequestTypes
<1>5. checklists' \subseteq [may : BOOLEAN \cup {None}, awaited : BOOLEAN]
  BY <1>2, <1>3, ReadinessAsked
<1>6. PICK b \in checklists' : checklists' = checklists \cup {b} /\ b.may = None
  BY <1>2, <1>3, ReadinessAsked
<1>7. /\ photoBusy # F!Idle /\ row # None /\ shown # None
      /\ unsure = {} => getting = F!Idle
  BY <1>1, <1>2, <1>4 DEF ListingComesFirst, OneAtATime
<1>8. saving.kind # "create"
  BY <1>1, <1>7 DEF ListingComesFirst
<1>9. unsure' = {} => unsure = {} /\ checklists = {} /\ saving = F!Idle /\ photoBusy.listing = row
  BY <1>1, <1>2, <1>7 DEF OneAtATime, AnswersAreTheListing
<1>10. F!TypeOK'
  BY <1>1, <1>2, <1>3, <1>4, <1>5 DEF F!TypeOK
<1>11. FlagsHaveTheirKinds' /\ ListingComesFirst'
  <2>1. FlagsHaveTheirKinds'
    BY <1>1, <1>2, <1>4, <1>6 DEF FlagsHaveTheirKinds
  <2>2. shown' # None
    BY <1>2, <1>3
  <2>3. ListingComesFirst'
    BY <1>2, <1>7, <1>8, <2>2 DEF ListingComesFirst
  <2> QED BY <2>1, <2>3
<1>12. OneAtATime'
  BY <1>2, <1>4, <1>6, <1>7, <1>9 DEF OneAtATime
<1>13. AnswersAreTheListing'
  BY <1>1, <1>2, <1>4, <1>7, <1>9 DEF AnswersAreTheListing
<1>14. ChecklistIsTrue'
  BY <1>6, <1>9 DEF ChecklistIsTrue
<1> QED BY <1>10, <1>11, <1>12, <1>13, <1>14 DEF FormInv

\* A photo's request is refused, or its answer lost.
LEMMA PhotoFailsKeeps == FormInv /\ F!PhotoFails => FormInv'
<1> SUFFICES ASSUME FormInv, F!PhotoFails PROVE FormInv'
  OBVIOUS
<1>1. /\ F!TypeOK /\ FlagsHaveTheirKinds /\ ListingComesFirst
      /\ OneAtATime /\ AnswersAreTheListing /\ ChecklistIsTrue
  BY DEF FormInv
<1>2. /\ photoBusy # F!Idle /\ photoBusy' = F!Idle
      /\ unsure' = unsure \cup (IF photoBusy.at = "sent" THEN {} ELSE {"lost"})
      /\ UNCHANGED <<row, verified, form, shown, readiness, saving, getting, checklists, elsewhere>>
  BY DEF F!PhotoFails
<1>3. F!Idle \in F!Request /\ F!Idle.kind = "none" /\ F!Idle.at = "sent"
  BY RequestTypes
<1>4. /\ unsure' = {} => unsure = {} /\ photoBusy.at = "sent"
      /\ unsure' \subseteq {"overlapped", "lost", "elsewhere"}
  BY <1>1, <1>2 DEF F!TypeOK
<1>5. F!CanPublish(row)' = F!CanPublish(row)
  BY <1>2 DEF F!CanPublish
<1>6. F!TypeOK'
  BY <1>1, <1>2, <1>3, <1>4 DEF F!TypeOK
<1>7. FlagsHaveTheirKinds' /\ ListingComesFirst'
  BY <1>1, <1>2, <1>3 DEF FlagsHaveTheirKinds, ListingComesFirst
<1>8. OneAtATime' /\ AnswersAreTheListing'
  BY <1>1, <1>2, <1>3, <1>4 DEF OneAtATime, AnswersAreTheListing
<1>9. ChecklistIsTrue'
  BY <1>1, <1>2, <1>3, <1>4, <1>5 DEF ChecklistIsTrue
<1> QED BY <1>6, <1>7, <1>8, <1>9 DEF FormInv

\* The page's own reading comes, or fails.
LEMMA LoadEndsKeeps == FormInv /\ (F!LoadArrives \/ F!LoadFails) => FormInv'
<1> SUFFICES ASSUME FormInv, F!LoadArrives \/ F!LoadFails PROVE FormInv'
  OBVIOUS
<1>1. /\ F!TypeOK /\ FlagsHaveTheirKinds /\ ListingComesFirst
      /\ OneAtATime /\ AnswersAreTheListing /\ ChecklistIsTrue
  BY DEF FormInv
<1>2. F!Idle \in F!Request /\ F!Idle.kind = "none" /\ F!Idle.at = "sent"
  BY RequestTypes
<1>3. getting # F!Idle
  BY <1>2 DEF F!LoadArrives, F!LoadFails
<1>4. /\ row # None
      /\ shown = None => photoBusy = F!Idle /\ checklists = {} /\ readiness = None
      /\ unsure = {} => shown = None /\ saving = F!Idle
  BY <1>1, <1>3 DEF ListingComesFirst, OneAtATime
<1>5. CASE F!LoadArrives
  <2>1. /\ getting.at = "answered" /\ form' = getting.listing.enough /\ shown' = getting.listing
        /\ getting' = F!Idle
        /\ IF shown = None THEN F!RefreshReadiness({FALSE}) ELSE UNCHANGED checklists
        /\ UNCHANGED <<row, verified, readiness, saving, photoBusy, elsewhere, unsure>>
    BY <1>4, <1>5 DEF F!LoadArrives
  <2>2. getting.listing \in F!Listing
    BY <1>1, <2>1 DEF F!TypeOK, F!Request, FlagsHaveTheirKinds
  <2>3. form' \in BOOLEAN /\ shown' # None
    BY <2>1, <2>2, FormConstants DEF F!Listing
  <2>4. checklists' \subseteq [may : BOOLEAN \cup {None}, awaited : BOOLEAN]
    BY <1>1, <2>1, ReadinessAsked DEF F!TypeOK
  <2>5. /\ shown = None => \E b : checklists' = checklists \cup {b} /\ b.may = None
        /\ checklists \subseteq checklists'
    <3>1. checklists \subseteq [may : BOOLEAN \cup {None}, awaited : BOOLEAN]
      BY <1>1 DEF F!TypeOK
    <3>2. CASE shown = None
      <4>1. {FALSE} \in SUBSET BOOLEAN /\ F!RefreshReadiness({FALSE})
        BY <2>1, <3>2
      <4> QED BY <3>1, <4>1, ReadinessAsked
    <3>3. CASE shown # None
      BY <2>1, <3>3
    <3> QED BY <3>2, <3>3
  <2>6. unsure = {} => getting.listing = row
    BY <1>1, <2>1 DEF AnswersAreTheListing
  <2>7. F!TypeOK'
    BY <1>1, <1>2, <2>1, <2>2, <2>3, <2>4 DEF F!TypeOK
  <2>8. FlagsHaveTheirKinds' /\ ListingComesFirst'
    BY <1>1, <1>2, <1>4, <2>1, <2>3 DEF FlagsHaveTheirKinds, ListingComesFirst
  <2>9. OneAtATime' /\ AnswersAreTheListing' /\ ChecklistIsTrue'
    BY <1>2, <1>4, <2>1, <2>5, <2>6 DEF OneAtATime, AnswersAreTheListing, ChecklistIsTrue
  <2> QED BY <2>7, <2>8, <2>9 DEF FormInv
<1>6. CASE F!LoadFails
  <2>1. /\ getting' = F!Idle /\ unsure' = unsure \cup {"lost"}
        /\ UNCHANGED <<row, verified, form, shown, readiness, saving, photoBusy, checklists, elsewhere>>
    BY <1>6 DEF F!LoadFails
  <2>2. F!TypeOK'
    BY <1>1, <1>2, <2>1 DEF F!TypeOK
  <2>3. FlagsHaveTheirKinds' /\ ListingComesFirst'
    BY <1>1, <1>2, <1>4, <2>1 DEF FlagsHaveTheirKinds, ListingComesFirst
  <2>4. OneAtATime' /\ AnswersAreTheListing' /\ ChecklistIsTrue'
    BY <2>1 DEF OneAtATime, AnswersAreTheListing, ChecklistIsTrue
  <2> QED BY <2>2, <2>3, <2>4 DEF FormInv
<1> QED BY <1>5, <1>6

\* The server answers what may be published now.
LEMMA GetReadinessKeeps ==
  ASSUME FormInv, NEW a \in checklists, F!GetPublishReadiness(a)
  PROVE  FormInv'
<1>1. /\ F!TypeOK /\ FlagsHaveTheirKinds /\ ListingComesFirst
      /\ OneAtATime /\ AnswersAreTheListing /\ ChecklistIsTrue
  BY DEF FormInv
<1> DEFINE b == [a EXCEPT !.may = F!CanPublish(row)]
<1>2. /\ checklists' = (checklists \ {a}) \cup {b}
      /\ UNCHANGED <<row, verified, form, shown, readiness, saving, photoBusy, getting, elsewhere, unsure>>
  BY DEF F!GetPublishReadiness, F!requests
<1>3. F!CanPublish(row) \in BOOLEAN
  BY DEF F!CanPublish
<1>4. a \in [may : BOOLEAN \cup {None}, awaited : BOOLEAN]
  BY <1>1 DEF F!TypeOK
<1>5. b \in [may : BOOLEAN \cup {None}, awaited : BOOLEAN] /\ b.may = F!CanPublish(row) /\ b.awaited = a.awaited
  BY <1>3, <1>4
<1> HIDE DEF b
<1>6. F!CanPublish(row)' = F!CanPublish(row)
  BY <1>2 DEF F!CanPublish
<1>7. F!TypeOK'
  BY <1>1, <1>2, <1>5 DEF F!TypeOK
<1>8. FlagsHaveTheirKinds' /\ ListingComesFirst'
  BY <1>1, <1>2, <1>5 DEF FlagsHaveTheirKinds, ListingComesFirst
<1>9. OneAtATime' /\ AnswersAreTheListing'
  BY <1>1, <1>2 DEF OneAtATime, AnswersAreTheListing
<1>10. ChecklistIsTrue'
  BY <1>1, <1>2, <1>5, <1>6 DEF ChecklistIsTrue
<1> QED BY <1>7, <1>8, <1>9, <1>10 DEF FormInv

\* The checklist arrives: the page knows better again when all of it is right.
LEMMA ReadinessArrivesKeeps ==
  ASSUME FormInv, NEW a \in checklists, F!ReadinessArrives(a)
  PROVE  FormInv'
<1>1. /\ F!TypeOK /\ FlagsHaveTheirKinds /\ ListingComesFirst
      /\ OneAtATime /\ AnswersAreTheListing /\ ChecklistIsTrue
  BY DEF FormInv
<1>2. /\ a.may # None /\ readiness' = a.may /\ checklists' = checklists \ {a}
      /\ saving' = IF a.awaited THEN F!Idle ELSE saving
      /\ UNCHANGED <<row, verified, form, shown, photoBusy, getting, elsewhere>>
      /\ \/ /\ unsure' = {} /\ saving' = F!Idle /\ photoBusy' = F!Idle /\ getting' = F!Idle /\ checklists' = {}
            /\ shown = row /\ readiness' = F!CanPublish(row)
         \/ unsure' = unsure
  BY DEF F!ReadinessArrives, F!Settled, F!Quiet
<1>3. F!Idle \in F!Request /\ F!Idle.kind = "none" /\ F!Idle.at = "sent"
  BY RequestTypes
<1>4. a.may \in BOOLEAN \cup {None} /\ a.awaited \in BOOLEAN
  BY <1>1 DEF F!TypeOK
<1>5. shown # None /\ row # None /\ (unsure = {} => getting = F!Idle)
  BY <1>1 DEF ListingComesFirst, OneAtATime
<1>6. F!CanPublish(row)' = F!CanPublish(row)
  BY <1>2 DEF F!CanPublish
<1>7. F!TypeOK'
  BY <1>1, <1>2, <1>3, <1>4 DEF F!TypeOK
<1>8. FlagsHaveTheirKinds'
  BY <1>1, <1>2, <1>3, <1>4 DEF FlagsHaveTheirKinds
<1>9. ListingComesFirst'
  BY <1>1, <1>2, <1>3, <1>5 DEF ListingComesFirst
<1>10. unsure = {} => /\ saving.kind \in {"none", "checklist"} /\ photoBusy = F!Idle
                      /\ saving.at = "sent" /\ saving'.at = "sent" /\ checklists' = {}
                      /\ saving' = saving \/ saving' = F!Idle
  BY <1>1, <1>2, <1>3 DEF OneAtATime, FlagsHaveTheirKinds
<1>11. OneAtATime'
  BY <1>1, <1>2, <1>3, <1>10 DEF OneAtATime
<1>12. AnswersAreTheListing'
  BY <1>1, <1>2, <1>3, <1>5, <1>10 DEF AnswersAreTheListing
<1>13. ChecklistIsTrue'
  BY <1>1, <1>2, <1>6, <1>10 DEF ChecklistIsTrue
<1> QED BY <1>7, <1>8, <1>9, <1>11, <1>12, <1>13 DEF FormInv

\* A checklist that cannot be had leaves the old one.
LEMMA ReadinessFailsKeeps ==
  ASSUME FormInv, NEW a \in checklists, F!ReadinessFails(a)
  PROVE  FormInv'
<1>1. F!TypeOK /\ FlagsHaveTheirKinds /\ ListingComesFirst
  BY DEF FormInv
<1>2. /\ checklists' = checklists \ {a} /\ unsure' = unsure \cup {"lost"}
      /\ saving' = IF a.awaited THEN F!Idle ELSE saving
      /\ UNCHANGED <<row, verified, form, shown, readiness, photoBusy, getting, elsewhere>>
  BY DEF F!ReadinessFails
<1>3. F!Idle \in F!Request /\ F!Idle.kind = "none" /\ F!Idle.at = "sent"
  BY RequestTypes
<1>4. F!TypeOK'
  BY <1>1, <1>2, <1>3 DEF F!TypeOK
<1>5. FlagsHaveTheirKinds' /\ ListingComesFirst'
  BY <1>1, <1>2, <1>3 DEF FlagsHaveTheirKinds, ListingComesFirst
<1>6. OneAtATime' /\ AnswersAreTheListing' /\ ChecklistIsTrue'
  BY <1>2 DEF OneAtATime, AnswersAreTheListing, ChecklistIsTrue
<1> QED BY <1>4, <1>5, <1>6 DEF FormInv

\* Something changes elsewhere, and that is an excuse.
LEMMA ElsewhereKeeps == FormInv /\ F!Elsewhere => FormInv'
<1> SUFFICES ASSUME FormInv, F!Elsewhere PROVE FormInv'
  OBVIOUS
<1>1. F!TypeOK /\ FlagsHaveTheirKinds /\ ListingComesFirst
  BY DEF FormInv
<1>2. /\ elsewhere < MaxElsewhere /\ shown # None /\ elsewhere' = elsewhere + 1
      /\ unsure' = unsure \cup {"elsewhere"}
      /\ UNCHANGED <<form, shown, readiness, saving, photoBusy, getting, checklists>>
      /\ \/ verified' = TRUE /\ row' = row
         \/ row' \in {[row EXCEPT !.live = FALSE], [row EXCEPT !.photos = 0]} /\ verified' = verified
  BY DEF F!Elsewhere, F!requests
<1>3. row \in F!Listing
  BY <1>1, <1>2 DEF F!TypeOK, ListingComesFirst
<1>4. row' \in F!Listing /\ row' # None
  <2>1. [row EXCEPT !.live = FALSE] \in F!Listing /\ [row EXCEPT !.photos = 0] \in F!Listing
    <3>1. 0 \in 0..MaxPhotos
      BY FormConstants
    <3> QED BY <1>3, <3>1 DEF F!Listing
  <2> QED BY <1>2, <1>3, <2>1, FormConstants
<1>5. verified' \in BOOLEAN
  BY <1>1, <1>2 DEF F!TypeOK
<1>6. elsewhere' \in 0..MaxElsewhere
  BY <1>1, <1>2, FormConstants DEF F!TypeOK
<1>7. F!TypeOK'
  BY <1>1, <1>2, <1>4, <1>5, <1>6 DEF F!TypeOK
<1>8. FlagsHaveTheirKinds' /\ ListingComesFirst'
  BY <1>1, <1>2, <1>3, <1>4, FormConstants DEF FlagsHaveTheirKinds, ListingComesFirst
<1>9. OneAtATime' /\ AnswersAreTheListing' /\ ChecklistIsTrue'
  BY <1>2 DEF OneAtATime, AnswersAreTheListing, ChecklistIsTrue
<1> QED BY <1>7, <1>8, <1>9 DEF FormInv

\* Every step of the page, the server and the other tab keeps it.
LEMMA FormStep == FormInv /\ F!Next => FormInv'
BY TypeKeeps, SubmitKeeps, PhotoManagerKeeps, ServeSavingKeeps, ServePhotoKeeps, ServeLoadKeeps,
   CreateArrivesKeeps, SaveArrivesKeeps, ToggleArrivesKeeps, SavingFailsKeeps,
   PhotoArrivesKeeps, PhotoFailsKeeps, LoadEndsKeeps,
   GetReadinessKeeps, ReadinessArrivesKeeps, ReadinessFailsKeeps, ElsewhereKeeps DEF F!Next

\* A quiet form with no excuse is right.
LEMMA QuietFormFollows == FormInv => QuietFormIsTrue
BY RequestTypes DEF FormInv, AnswersAreTheListing, ChecklistIsTrue, QuietFormIsTrue, F!QuietFormIsTrue, F!Quiet

-----------------------------------------------------------------------------
(* The price of a request (Pricing). *)

\* A card that can be read, or none.
Card == 0..MaxEdits \cup {NoCard}

\* A question of the page, and the request it sends.
AskedType == [dates : Dates, card : Card, active : BOOLEAN]
RequestType == [stage : {"none", "sent", "read", "done"}, dates : Dates \cup {Blank},
                card : Card, shown : P!Quoted, awaited : BOOLEAN]

\* The types, said of a set of questions known to be small enough to count.
PricingTypeOK ==
  /\ card \in 0..MaxEdits /\ dates \in Dates \cup {Blank}
  /\ quote \in P!Quoted /\ booking \in P!Quoted
  /\ quotes \subseteq AskedType /\ Cardinality(quotes) <= MaxQuotes
  /\ request \in RequestType

\* The effect asks for the dates of the form, and while a price for other
\* dates is on the page the question for these ones is on its way.
QuestionsAreForTheDates == \A a \in quotes : a.active => a.dates = dates
OldPriceIsAwaited ==
  quote.status = "ready" /\ dates # Blank => quote.dates = dates \/ \E a \in quotes : a.active

\* A rate card is read no earlier than it is written: what was read first is
\* the older, and the booking is at the card the request read.
CardsAreInOrder ==
  /\ \A a \in quotes : a.card # NoCard => a.card <= card
  /\ quote.status = "ready" => quote.card \in 0..card
  /\ request.stage # "none" =>
       /\ request.shown.card \in 0..card
       /\ request.shown.dates = request.dates \/ request.awaited
  /\ request.stage \in {"read", "done"} => request.card \in request.shown.card..card

\* A booking is of the dates and the card the request was priced with.
BookedAsRead ==
  booking # P!NoBooking =>
    request.stage = "done" /\ booking = P!Priced(request.dates, request.card)

\* There are finitely many questions, so that they can be counted.
QuotesAreFinite == IsFiniteSet(quotes)

\* What holds of the price in every reachable state, and is kept by every step.
PricingInv ==
  /\ PricingTypeOK /\ QuotesAreFinite
  /\ QuestionsAreForTheDates /\ OldPriceIsAwaited /\ CardsAreInOrder /\ BookedAsRead

\* The bounds of this part.
LEMMA PricingBounds == MaxEdits \in Nat /\ MaxQuotes \in Nat \ {0}
BY ClientAssumption

\* What is made has its type.
LEMMA PricingTypes ==
  /\ \A s \in {"idle", "ready", "failed"} : P!NoQuote(s) \in P!Quoted /\ P!NoQuote(s).status = s
  /\ \A d \in Dates, c \in 0..MaxEdits : P!Priced(d, c) \in P!Quoted
  /\ \A d \in Dates : P!Asking(d) \in AskedType
  /\ P!NoRequest \in RequestType /\ P!NoRequest.stage = "none"
<1>1. \A s \in {"idle", "ready", "failed"} : P!NoQuote(s) \in P!Quoted /\ P!NoQuote(s).status = s
  BY DEF P!NoQuote, P!Quoted
<1>2. \A d \in Dates, c \in 0..MaxEdits : P!Priced(d, c) \in P!Quoted
  BY DEF P!Priced, P!Quoted
<1>3. \A d \in Dates : P!Asking(d) \in AskedType
  BY DEF P!Asking, AskedType, Card
<1>4. P!NoRequest \in RequestType /\ P!NoRequest.stage = "none"
  <2>1. P!NoQuote("idle") \in P!Quoted
    BY <1>1
  <2> HIDE DEF P!NoQuote
  <2> QED BY <2>1 DEF P!NoRequest, RequestType, Card
<1> QED BY <1>1, <1>2, <1>3, <1>4

\* These are the types of the module.
LEMMA PricingTypeCorrect == PricingTypeOK => P!TypeOK
<1>1. P!Cardinality(quotes) = Cardinality(quotes)
  BY DEF P!Cardinality, Cardinality
<1> QED BY <1>1 DEF P!TypeOK, PricingTypeOK, AskedType, RequestType, Card

\* An effect's clean-up leaves as many questions as there were, all disowned.
LEMMA SupersededIsSmall ==
  ASSUME IsFiniteSet(quotes), quotes \subseteq AskedType
  PROVE  /\ IsFiniteSet(P!Superseded) /\ Cardinality(P!Superseded) <= Cardinality(quotes)
         /\ P!Superseded \subseteq AskedType
         /\ \A a \in P!Superseded : ~a.active /\ \E b \in quotes : a.card = b.card
<1> DEFINE f == [a \in quotes |-> [a EXCEPT !.active = FALSE]]
<1>1. f \in Surjection(quotes, P!Superseded)
  BY DEF Surjection, P!Superseded
<1>2. IsFiniteSet(P!Superseded) /\ Cardinality(P!Superseded) <= Cardinality(quotes)
  BY <1>1, FS_Surjection
<1>3. ASSUME NEW b \in quotes
      PROVE  /\ [b EXCEPT !.active = FALSE] \in AskedType
             /\ ~[b EXCEPT !.active = FALSE].active
             /\ [b EXCEPT !.active = FALSE].card = b.card
  BY DEF AskedType
<1> QED BY <1>2, <1>3 DEF P!Superseded

\* One question more, or one in the place of another.
LEMMA QuotesCount ==
  ASSUME NEW Q, IsFiniteSet(Q), NEW b
  PROVE  /\ IsFiniteSet(Q \cup {b}) /\ Cardinality(Q) \in Nat
         /\ Cardinality(Q \cup {b}) <= Cardinality(Q) + 1
         /\ \A a \in Q : /\ IsFiniteSet(Q \ {a}) /\ Cardinality(Q \ {a}) <= Cardinality(Q)
                         /\ IsFiniteSet((Q \ {a}) \cup {b})
                         /\ Cardinality((Q \ {a}) \cup {b}) <= Cardinality(Q)
<1>1. Cardinality(Q) \in Nat
  BY FS_CardinalityType
<1>2. ASSUME NEW X, IsFiniteSet(X)
      PROVE  /\ IsFiniteSet(X \cup {b}) /\ Cardinality(X) \in Nat
             /\ Cardinality(X \cup {b}) <= Cardinality(X) + 1
  <2>1. IsFiniteSet(X \cup {b}) /\ (Cardinality(X \cup {b}) = Cardinality(X) \/ Cardinality(X \cup {b}) = Cardinality(X) + 1)
    BY <1>2, FS_AddElement, Zenon
  <2>2. Cardinality(X) \in Nat
    BY <1>2, FS_CardinalityType
  <2> QED BY <2>1, <2>2
<1>3. ASSUME NEW a \in Q
      PROVE  /\ IsFiniteSet(Q \ {a}) /\ Cardinality(Q \ {a}) <= Cardinality(Q)
             /\ IsFiniteSet((Q \ {a}) \cup {b}) /\ Cardinality((Q \ {a}) \cup {b}) <= Cardinality(Q)
  <2>1. IsFiniteSet(Q \ {a}) /\ Cardinality(Q \ {a}) = Cardinality(Q) - 1
    BY <1>3, FS_RemoveElement
  <2>2. IsFiniteSet((Q \ {a}) \cup {b}) /\ Cardinality((Q \ {a}) \cup {b}) <= Cardinality(Q \ {a}) + 1
    BY <1>2, <2>1
  <2>3. Cardinality((Q \ {a}) \cup {b}) \in Nat
    BY <2>2, FS_CardinalityType
  <2> QED BY <1>1, <2>1, <2>2, <2>3
<1>4. IsFiniteSet(Q \cup {b}) /\ Cardinality(Q \cup {b}) <= Cardinality(Q) + 1
  BY <1>2
<1> QED BY <1>1, <1>3, <1>4

\* It holds before the first price is asked for.
LEMMA PricingInit == P!Init => PricingInv
<1> SUFFICES ASSUME P!Init PROVE PricingInv
  OBVIOUS
<1>1. /\ card = 0 /\ dates \in Dates /\ quote = P!NoQuote("idle") /\ quotes = {P!Asking(dates)}
      /\ request = P!NoRequest /\ booking = P!NoBooking
  BY DEF P!Init
<1>2. quote \in P!Quoted /\ booking \in P!Quoted /\ request \in RequestType /\ P!Asking(dates) \in AskedType
  BY <1>1, PricingTypes DEF P!NoBooking
<1>3. IsFiniteSet(quotes) /\ Cardinality(quotes) = 1
  BY <1>1, FS_Singleton
<1>4. PricingTypeOK /\ QuotesAreFinite
  BY <1>1, <1>2, <1>3, PricingBounds DEF QuotesAreFinite, PricingTypeOK
<1>5. QuestionsAreForTheDates /\ OldPriceIsAwaited
  BY <1>1 DEF QuestionsAreForTheDates, OldPriceIsAwaited, P!Asking, P!NoQuote
<1>6. quote.status # "ready" /\ request.stage = "none"
  BY <1>1, PricingTypes
<1>7. \A a \in quotes : a.card = NoCard
  BY <1>1 DEF P!Asking
<1>8. CardsAreInOrder /\ BookedAsRead
  BY <1>1, <1>6, <1>7 DEF CardsAreInOrder, BookedAsRead
<1> QED BY <1>4, <1>5, <1>8 DEF PricingInv

\* It holds on while another part moves.
LEMMA PricingStutter == PricingInv /\ UNCHANGED pricing => PricingInv'
BY DEF PricingInv, pricing, PricingTypeOK, QuotesAreFinite, QuestionsAreForTheDates, OldPriceIsAwaited,
       CardsAreInOrder, BookedAsRead

\* The dates change, and the question for the old ones is disowned.
LEMMA ChangeDatesKeeps ==
  ASSUME PricingInv, NEW d \in Dates \cup {Blank}, P!ChangeDates(d)
  PROVE  PricingInv'
<1>1. /\ dates' = d /\ Cardinality(quotes) < MaxQuotes
      /\ quotes' = P!Superseded \cup (IF d = Blank THEN {} ELSE {P!Asking(d)})
      /\ UNCHANGED <<card, quote, request, booking>>
  BY DEF P!ChangeDates, P!Cardinality, Cardinality
<1>2. /\ card \in 0..MaxEdits /\ quote \in P!Quoted /\ booking \in P!Quoted
      /\ quotes \subseteq AskedType /\ IsFiniteSet(quotes) /\ request \in RequestType
  BY DEF PricingInv, PricingTypeOK, QuotesAreFinite
<1>3. /\ IsFiniteSet(P!Superseded) /\ Cardinality(P!Superseded) <= Cardinality(quotes)
      /\ P!Superseded \subseteq AskedType
      /\ \A a \in P!Superseded : ~a.active /\ \E b \in quotes : a.card = b.card
  BY <1>2, SupersededIsSmall
<1>4. Cardinality(quotes) \in Nat /\ Cardinality(P!Superseded) \in Nat
  BY <1>2, <1>3, FS_CardinalityType
<1>5. CASE d = Blank
  <2>1. quotes' = P!Superseded
    BY <1>1, <1>5
  <2> HIDE DEF P!Superseded
  <2>2. IsFiniteSet(quotes') /\ quotes' \subseteq AskedType /\ Cardinality(quotes') <= MaxQuotes
    BY <1>1, <1>3, <1>4, <2>1, PricingBounds
  <2>3. (PricingTypeOK /\ QuotesAreFinite)'
    BY <1>1, <1>2, <2>2 DEF QuotesAreFinite, PricingTypeOK
  <2>4. (QuestionsAreForTheDates /\ OldPriceIsAwaited)'
    BY <1>1, <1>3, <1>5, <2>1 DEF QuestionsAreForTheDates, OldPriceIsAwaited
  <2>5. (CardsAreInOrder /\ BookedAsRead)'
    BY <1>1, <1>3, <2>1 DEF PricingInv, CardsAreInOrder, BookedAsRead, P!NoBooking, P!Priced, P!NoQuote
  <2> QED BY <2>3, <2>4, <2>5 DEF PricingInv
<1>6. CASE d # Blank
  <2> DEFINE b == P!Asking(d)
  <2>1. quotes' = P!Superseded \cup {b} /\ b \in AskedType /\ b.active /\ b.dates = d /\ b.card = NoCard
    BY <1>1, <1>6, PricingTypes DEF P!Asking
  <2> HIDE DEF P!Superseded, b
  <2>2. IsFiniteSet(quotes') /\ quotes' \subseteq AskedType /\ Cardinality(quotes') <= MaxQuotes
    <3>1. /\ IsFiniteSet(P!Superseded \cup {b})
          /\ Cardinality(P!Superseded \cup {b}) <= Cardinality(P!Superseded) + 1
      BY <1>3, QuotesCount
    <3>2. Cardinality(P!Superseded \cup {b}) \in Nat
      BY <3>1, FS_CardinalityType
    <3> DEFINE n == Cardinality(P!Superseded \cup {b})
    <3>3. n \in Nat /\ n <= Cardinality(P!Superseded) + 1
      BY <3>1, <3>2
    <3> HIDE DEF n
    <3>4. n <= MaxQuotes
      BY <1>1, <1>3, <1>4, <3>3, PricingBounds
    <3> QED BY <1>3, <2>1, <3>1, <3>4 DEF n
  <2>3. (PricingTypeOK /\ QuotesAreFinite)'
    BY <1>1, <1>2, <2>2 DEF QuotesAreFinite, PricingTypeOK
  <2>4. (QuestionsAreForTheDates /\ OldPriceIsAwaited)'
    BY <1>1, <1>3, <2>1 DEF QuestionsAreForTheDates, OldPriceIsAwaited
  <2>5. (CardsAreInOrder /\ BookedAsRead)'
    BY <1>1, <1>3, <2>1 DEF PricingInv, CardsAreInOrder, BookedAsRead, P!NoBooking, P!Priced, P!NoQuote
  <2> QED BY <2>3, <2>4, <2>5 DEF PricingInv
<1> QED BY <1>5, <1>6

\* The server quotes from the card as it is.
LEMMA QuoteListingKeeps ==
  ASSUME PricingInv, NEW a \in quotes, P!QuoteListing(a)
  PROVE  PricingInv'
<1> DEFINE b == [a EXCEPT !.card = card]
<1>1. /\ quotes' = (quotes \ {a}) \cup {b} /\ UNCHANGED <<card, dates, quote, request, booking>>
  BY DEF P!QuoteListing
<1>2. /\ quotes \subseteq AskedType /\ IsFiniteSet(quotes) /\ card \in 0..MaxEdits
      /\ Cardinality(quotes) <= MaxQuotes
  BY DEF PricingInv, PricingTypeOK, QuotesAreFinite
<1>3. b \in AskedType /\ b.card = card /\ b.active = a.active /\ b.dates = a.dates
  BY <1>2 DEF AskedType, Card
<1> HIDE DEF b
<1>4. IsFiniteSet(quotes') /\ Cardinality(quotes') <= MaxQuotes
  <2>1. /\ IsFiniteSet(quotes') /\ Cardinality(quotes') <= Cardinality(quotes) /\ Cardinality(quotes) \in Nat
    BY <1>1, <1>2, QuotesCount
  <2>2. Cardinality(quotes') \in Nat
    BY <2>1, FS_CardinalityType
  <2> QED BY <1>2, <2>1, <2>2, PricingBounds
<1>5. (PricingTypeOK /\ QuotesAreFinite)'
  BY <1>1, <1>2, <1>3, <1>4 DEF PricingInv, PricingTypeOK, QuotesAreFinite
<1>6. (QuestionsAreForTheDates /\ OldPriceIsAwaited)'
  BY <1>1, <1>3 DEF PricingInv, QuestionsAreForTheDates, OldPriceIsAwaited
<1>7. (CardsAreInOrder /\ BookedAsRead)'
  BY <1>1, <1>2, <1>3 DEF PricingInv, CardsAreInOrder, BookedAsRead
<1> QED BY <1>5, <1>6, <1>7 DEF PricingInv

\* An answer arrives: a disowned one is dropped, a current one is for the dates.
LEMMA AnsweredKeeps ==
  ASSUME PricingInv, NEW a \in quotes, P!Answered(a) \/ P!Failed(a)
  PROVE  PricingInv'
<1>1. /\ quotes' = quotes \ {a} /\ UNCHANGED <<card, dates, request, booking>>
      /\ \/ quote' = quote /\ ~a.active
         \/ quote' = P!Priced(a.dates, a.card) /\ a.active /\ a.card # NoCard
         \/ quote' = P!NoQuote("failed")
  BY DEF P!Answered, P!Failed
<1>2. /\ quotes \subseteq AskedType /\ IsFiniteSet(quotes) /\ card \in 0..MaxEdits
      /\ Cardinality(quotes) <= MaxQuotes
  BY DEF PricingInv, PricingTypeOK, QuotesAreFinite
<1>3. IsFiniteSet(quotes') /\ Cardinality(quotes') <= MaxQuotes
  <2>1. /\ IsFiniteSet(quotes') /\ Cardinality(quotes') <= Cardinality(quotes) /\ Cardinality(quotes) \in Nat
    BY <1>1, <1>2, QuotesCount
  <2>2. Cardinality(quotes') \in Nat
    BY <2>1, FS_CardinalityType
  <2> QED BY <1>2, <2>1, <2>2, PricingBounds
<1>4. a.dates \in Dates /\ a.card \in 0..MaxEdits \cup {NoCard}
  BY <1>2 DEF AskedType, Card
<1>5. a.card # NoCard => a.card \in 0..card
  BY <1>2, <1>4, PricingBounds DEF PricingInv, CardsAreInOrder
<1>6. quote' \in P!Quoted
  BY <1>1, <1>4, PricingTypes DEF PricingInv, PricingTypeOK
<1>7. /\ quote' = P!Priced(a.dates, a.card) => quote'.dates = a.dates /\ quote'.card = a.card
      /\ quote' = P!NoQuote("failed") => quote'.status = "failed"
  BY DEF P!Priced, P!NoQuote
<1>8. (PricingTypeOK /\ QuotesAreFinite)'
  BY <1>1, <1>2, <1>3, <1>6 DEF PricingInv, PricingTypeOK, QuotesAreFinite
<1>9. (QuestionsAreForTheDates /\ OldPriceIsAwaited)'
  BY <1>1, <1>7 DEF PricingInv, QuestionsAreForTheDates, OldPriceIsAwaited
<1>10. (CardsAreInOrder /\ BookedAsRead)'
  BY <1>1, <1>5, <1>7 DEF PricingInv, CardsAreInOrder, BookedAsRead
<1> QED BY <1>8, <1>9, <1>10 DEF PricingInv

\* The request: sent with what is shown, read, priced again or refused.
LEMMA RequestKeeps ==
  ASSUME PricingInv, P!HandleSubmit \/ P!FindListing \/ P!RequestBooking \/ P!Refused
  PROVE  PricingInv'
<1>1. UNCHANGED <<card, dates, quote, quotes>>
  BY DEF P!HandleSubmit, P!FindListing, P!RequestBooking, P!Refused
<1>2. /\ card \in 0..MaxEdits /\ dates \in Dates \cup {Blank} /\ quote \in P!Quoted
      /\ request \in RequestType /\ booking \in P!Quoted
  BY DEF PricingInv, PricingTypeOK
<1>3. (QuotesAreFinite /\ QuestionsAreForTheDates /\ OldPriceIsAwaited)'
  BY <1>1 DEF PricingInv, QuotesAreFinite, QuestionsAreForTheDates, OldPriceIsAwaited
<1>4. CASE P!HandleSubmit
  <2> DEFINE w == \E a \in quotes : a.active /\ a.dates = dates
  <2>1. /\ request' = [stage |-> "sent", dates |-> dates, card |-> NoCard, shown |-> quote, awaited |-> w]
        /\ quote.status = "ready" /\ dates # Blank /\ booking = P!NoBooking /\ booking' = booking
    BY <1>4 DEF P!HandleSubmit, P!Blocked
  <2>2. quote.dates = dates \/ w
    BY <2>1 DEF PricingInv, QuestionsAreForTheDates, OldPriceIsAwaited
  <2>3. w \in BOOLEAN
    OBVIOUS
  <2> HIDE DEF w
  <2>4. request' \in RequestType
    BY <1>2, <2>1, <2>3 DEF RequestType, Card
  <2>5. PricingTypeOK'
    BY <1>1, <2>1, <2>4 DEF PricingInv, PricingTypeOK
  <2>6. (CardsAreInOrder /\ BookedAsRead)'
    BY <1>1, <2>1, <2>2 DEF PricingInv, CardsAreInOrder, BookedAsRead
  <2> QED BY <1>3, <2>5, <2>6 DEF PricingInv
<1>5. CASE P!FindListing
  <2>1. /\ request.stage = "sent" /\ booking' = booking
        /\ request' = [request EXCEPT !.stage = "read", !.card = card]
    BY <1>5 DEF P!FindListing
  <2>2. /\ request' \in RequestType /\ request'.stage = "read" /\ request'.card = card
        /\ request'.shown = request.shown /\ request'.dates = request.dates /\ request'.awaited = request.awaited
    BY <1>2, <2>1 DEF RequestType, Card
  <2>3. PricingTypeOK'
    BY <1>1, <2>1, <2>2 DEF PricingInv, PricingTypeOK
  <2>4. CardsAreInOrder'
    <3>1. request.shown.card \in 0..card /\ (request.shown.dates = request.dates \/ request.awaited)
      BY <2>1 DEF PricingInv, CardsAreInOrder
    <3>2. card \in request.shown.card..card
      BY <1>2, <3>1, PricingBounds
    <3> QED BY <1>1, <2>2, <3>1, <3>2 DEF PricingInv, CardsAreInOrder
  <2>5. BookedAsRead'
    BY <2>1 DEF PricingInv, BookedAsRead
  <2> QED BY <1>3, <2>3, <2>4, <2>5 DEF PricingInv
<1>6. CASE P!RequestBooking
  <2>1. /\ request.stage = "read" /\ booking' = P!Priced(request.dates, request.card)
        /\ request' = [request EXCEPT !.stage = "done"]
    BY <1>6 DEF P!RequestBooking
  <2>2. /\ request' \in RequestType /\ request'.stage = "done" /\ request'.card = request.card
        /\ request'.shown = request.shown /\ request'.dates = request.dates /\ request'.awaited = request.awaited
    BY <1>2, <2>1 DEF RequestType
  <2>3. booking' \in P!Quoted
    BY <1>2, <2>1 DEF RequestType, Card, P!Priced, P!Quoted
  <2>4. PricingTypeOK'
    BY <1>1, <2>2, <2>3 DEF PricingInv, PricingTypeOK
  <2>5. CardsAreInOrder'
    BY <1>1, <2>1, <2>2 DEF PricingInv, CardsAreInOrder
  <2>6. BookedAsRead'
    BY <2>1, <2>2 DEF BookedAsRead
  <2> QED BY <1>3, <2>4, <2>5, <2>6 DEF PricingInv
<1>7. CASE P!Refused
  <2>1. request.stage = "read" /\ request' = P!NoRequest /\ booking' = booking
    BY <1>7 DEF P!Refused
  <2>2. request' \in RequestType /\ request'.stage = "none"
    BY <2>1, PricingTypes
  <2>3. PricingTypeOK'
    BY <1>1, <2>1, <2>2 DEF PricingInv, PricingTypeOK
  <2>4. (CardsAreInOrder /\ BookedAsRead)'
    BY <1>1, <2>1, <2>2 DEF PricingInv, CardsAreInOrder, BookedAsRead
  <2> QED BY <1>3, <2>3, <2>4 DEF PricingInv
<1> QED BY <1>4, <1>5, <1>6, <1>7

\* The owner's edit: every card read before it is older.
LEMMA EditListingKeeps == PricingInv /\ P!EditListing => PricingInv'
<1> SUFFICES ASSUME PricingInv, P!EditListing PROVE PricingInv'
  OBVIOUS
<1>1. card < MaxEdits /\ card' = card + 1 /\ UNCHANGED <<dates, quote, quotes, request, booking>>
  BY DEF P!EditListing
<1>2. card \in 0..MaxEdits /\ quotes \subseteq AskedType
  BY DEF PricingInv, PricingTypeOK
<1>3. card' \in 0..MaxEdits /\ \A c \in 0..MaxEdits : c <= card => c <= card'
  BY <1>1, <1>2, PricingBounds
<1>4. (PricingTypeOK /\ QuotesAreFinite)'
  BY <1>1, <1>3 DEF PricingInv, PricingTypeOK, QuotesAreFinite
<1>5. (QuestionsAreForTheDates /\ OldPriceIsAwaited /\ BookedAsRead)'
  BY <1>1 DEF PricingInv, QuestionsAreForTheDates, OldPriceIsAwaited, BookedAsRead
<1>6. CardsAreInOrder'
  <2>1. \A n, m \in Int : m \in n..card => m \in n..card'
    BY <1>1, <1>2, PricingBounds
  <2>2. \A a \in quotes : a.card # NoCard => a.card <= card'
    <3>1. ASSUME NEW a \in quotes, a.card # NoCard PROVE a.card <= card'
      <4>1. a.card \in 0..MaxEdits /\ a.card <= card
        BY <1>2, <3>1 DEF AskedType, Card, PricingInv, CardsAreInOrder
      <4> QED BY <1>3, <4>1
    <3> QED BY <3>1
  <2>3. quote.status = "ready" => quote.card \in 0..card'
    BY <1>2, <2>1, PricingBounds DEF PricingInv, CardsAreInOrder
  <2>4. request.stage # "none" => /\ request.shown.card \in 0..card'
                                  /\ request.shown.dates = request.dates \/ request.awaited
    BY <1>2, <2>1, PricingBounds DEF PricingInv, CardsAreInOrder
  <2>5. request.stage \in {"read", "done"} => request.card \in request.shown.card..card'
    BY <1>2, <2>1, PricingBounds DEF PricingInv, CardsAreInOrder
  <2> QED BY <1>1, <2>2, <2>3, <2>4, <2>5 DEF CardsAreInOrder
<1> QED BY <1>4, <1>5, <1>6 DEF PricingInv

\* Every step of the page and of its owner keeps it.
LEMMA PricingStep == PricingInv /\ P!Next => PricingInv'
BY ChangeDatesKeeps, QuoteListingKeeps, AnsweredKeeps, RequestKeeps, EditListingKeeps DEF P!Next

\* What was shown and what was read, beside what was booked.
LEMMA PriceFollows == PricingInv => PricedForTheDates
<1> SUFFICES ASSUME PricingInv, booking # P!NoBooking
             PROVE  /\ request.shown.dates = booking.dates \/ request.awaited
                    /\ request.shown.card <= booking.card
  BY DEF PricedForTheDates, P!PricedForTheDates
<1>1. request.stage = "done" /\ booking.dates = request.dates /\ booking.card = request.card
  BY DEF PricingInv, BookedAsRead, P!Priced
<1>2. /\ request.shown.card \in 0..card /\ request.card \in request.shown.card..card
      /\ request.shown.dates = request.dates \/ request.awaited
  BY <1>1 DEF PricingInv, CardsAreInOrder
<1>3. card \in 0..MaxEdits
  BY DEF PricingInv, PricingTypeOK
<1> QED BY <1>1, <1>2, <1>3, PricingBounds

-----------------------------------------------------------------------------
(* The page of a booking and its photos (BookingPage). *)

\* The images of an upload are of its phase and in the store, and a phase with
\* rows has had its upload.
UploadsKeepTheirImages ==
  \A p \in Phases : \A i \in upload[p].kept : i[1] = p /\ i \in images
RowsComeFromUploads ==
  \A i \in rows : upload[i[1]].stage \in {"done", "over"}

\* Only an action that is waiting for it has a load of its own, and it has one.
RunWaitsForItsLoad ==
  \A l \in loads : l.by = "run" =>
    acting.stage = "loading" /\ \A m \in loads : m.by = "run" => m = l

\* With no excuse, one load at most is on its way, and it will bring the status
\* as it is, unless an action has been taken whose own load is still to come.
OneLoadAtATime == excuse = {} => \A l, m \in loads : l = m
LoadsAreCurrent ==
  excuse = {} /\ acting.stage # "done" =>
    /\ \A l \in loads : l.booking \in {NotRead, status}
    /\ loads = {} /\ page.status = "ready" => page.booking = status

\* What the invariant says of the photos, and of the page.
Photos == UploadsKeepTheirImages /\ RowsComeFromUploads /\ PrivateImagesAccounted
Reading == RunWaitsForItsLoad /\ OneLoadAtATime /\ LoadsAreCurrent

\* What holds of the booking's page in every reachable state, and is kept by every step.
DetailInv == TypeOK /\ Photos /\ Reading

\* Every action leads to a status of the table.
LEMMA ActionsLead == \A a \in ActionNames : BookingActions[a].to \in BookingStates
BY DEF ActionNames, BookingActions, BookingStates

\* A load on its way, and an upload.
LoadType == [by : {"effect", "run"} \cup Phases, booking : BookingStates \cup {NotRead},
             photos : (SUBSET Image) \cup {NotRead}]
UploadType == [stage : {"none", "sent", "storing", "cleaning", "done", "failed", "over"},
               kept : SUBSET Image]

\* A batch of each phase is finite, so the images kept can be counted.
LEMMA ImagesAreFinite == ASSUME Batch \in Nat PROVE IsFiniteSet(Image)
<1>1. IsFiniteSet(Phases)
  <2>1. IsFiniteSet({"HANDOVER"})
    BY FS_Singleton
  <2>2. IsFiniteSet({"HANDOVER"} \cup {"RETURN"})
    BY <2>1, FS_AddElement
  <2>3. Phases = {"HANDOVER"} \cup {"RETURN"}
    BY DEF Phases
  <2> QED BY <2>2, <2>3
<1>2. IsFiniteSet(1..Batch)
  BY FS_Interval
<1> QED BY <1>1, <1>2, FS_Product DEF Image

\* A new load has its type, and so has one that was answered.
LEMMA LoadTypes ==
  ASSUME TypeOK
  PROVE  /\ \A by \in {"effect", "run"} \cup Phases : NewLoad(by) \in LoadType
         /\ \A l \in loads : /\ l \in LoadType
                             /\ [l EXCEPT !.booking = status] \in LoadType
                             /\ [l EXCEPT !.photos = rows] \in LoadType
                             /\ [l EXCEPT !.photos = {}] \in LoadType
<1>1. ASSUME NEW by \in {"effect", "run"} \cup Phases PROVE NewLoad(by) \in LoadType
  <2>1. NotRead \in BookingStates \cup {NotRead} /\ NotRead \in (SUBSET Image) \cup {NotRead}
    OBVIOUS
  <2> QED BY <2>1 DEF NewLoad, LoadType
<1>2. ASSUME NEW l \in loads, NEW found \in SUBSET Image
      PROVE  /\ l \in LoadType /\ [l EXCEPT !.booking = status] \in LoadType
             /\ [l EXCEPT !.photos = found] \in LoadType
  <2>1. l \in LoadType /\ status \in BookingStates
    BY DEF TypeOK, LoadType
  <2> QED BY <2>1 DEF LoadType
<1>3. rows \in SUBSET Image /\ {} \in SUBSET Image
  BY DEF TypeOK
<1> QED BY <1>1, <1>2, <1>3

\* The steps that only the page takes keep the types.
LEMMA PageTypes ==
  ASSUME TypeOK,
         \/ \E l \in loads : GetBooking(l) \/ ListBookingPhotos(l) \/ Loaded(l) \/ LoadFails(l)
         \/ \E a \in ActionNames : Run(a)
         \/ ActOnBooking \/ RunEnds \/ OtherActs
  PROVE  TypeOK'
<1> USE LoadTypes
<1>0. loads \subseteq LoadType
  BY DEF LoadType
<1>1. ASSUME NEW l \in loads, GetBooking(l) PROVE TypeOK'
  <2>1. loads' \subseteq LoadType
    BY <1>0, <1>1 DEF GetBooking
  <2> QED BY <1>1, <2>1 DEF GetBooking, TypeOK, LoadType, server
<1>2. ASSUME NEW l \in loads, ListBookingPhotos(l) PROVE TypeOK'
  <2>1. loads' \subseteq LoadType
    <3>1. PICK found \in {rows, {}} :
            loads' = (loads \ {l}) \cup {[l EXCEPT !.photos = found]}
      BY <1>2 DEF ListBookingPhotos
    <3>2. [l EXCEPT !.photos = found] \in LoadType
      BY <3>1
    <3> QED BY <1>0, <3>1, <3>2
  <2>2. UNCHANGED <<me, status, rows, images, astray, page, acting, upload, excuse>>
    BY <1>2 DEF ListBookingPhotos, server
  <2> QED BY <2>1, <2>2 DEF TypeOK, LoadType
<1>3. ASSUME NEW l \in loads, Loaded(l) PROVE TypeOK'
  <2>1. page' \in Shown
    BY <1>3 DEF Loaded, TypeOK, Shown
  <2>2. acting' \in [stage : {"none", "sent", "done", "refused", "loading"}, action : ActionNames]
    BY <1>3 DEF Loaded, TypeOK, Released
  <2> QED BY <1>3, <2>1, <2>2 DEF Loaded, TypeOK, server
<1>4. ASSUME NEW l \in loads, LoadFails(l) PROVE TypeOK'
  <2>1. page' \in Shown
    BY <1>4 DEF LoadFails, TypeOK, Shown
  <2>2. acting' \in [stage : {"none", "sent", "done", "refused", "loading"}, action : ActionNames]
    BY <1>4 DEF LoadFails, TypeOK, Released
  <2> QED BY <1>4, <2>1, <2>2 DEF LoadFails, TypeOK, server
<1>5. ASSUME NEW a \in ActionNames, Run(a) PROVE TypeOK'
  BY <1>5 DEF Run, TypeOK, server
<1>6. CASE ActOnBooking
  <2>1. status' \in BookingStates
    BY <1>6, ActionsLead DEF ActOnBooking, TypeOK
  <2>2. acting' \in [stage : {"none", "sent", "done", "refused", "loading"}, action : ActionNames]
    BY <1>6 DEF ActOnBooking, TypeOK
  <2> QED BY <1>6, <2>1, <2>2 DEF ActOnBooking, TypeOK
<1>7. CASE RunEnds
  <2>1. loads' \subseteq LoadType /\ excuse' \subseteq {"other", "lost", "overlapped"}
    BY <1>0, <1>7 DEF RunEnds, Reload, Overlapping, TypeOK
  <2>2. acting' \in [stage : {"none", "sent", "done", "refused", "loading"}, action : ActionNames]
    BY <1>7 DEF RunEnds, TypeOK
  <2> QED BY <1>7, <2>1, <2>2 DEF RunEnds, TypeOK, LoadType, server
<1>8. CASE OtherActs
  <2>1. status' \in BookingStates
    BY <1>8, ActionsLead DEF OtherActs
  <2> QED BY <1>8, <2>1 DEF OtherActs, TypeOK
<1> QED BY <1>1, <1>2, <1>3, <1>4, <1>5, <1>6, <1>7, <1>8

\* So do the steps of an upload.
LEMMA UploadTypes ==
  ASSUME TypeOK, Batch \in Nat, NEW p \in Phases,
         \/ Upload(p) \/ AddBookingPhotos(p) \/ UploadPrivateAsset(p) \/ UploadFails(p)
         \/ DestroyPrivateAsset(p) \/ InsertBookingPhotos(p) \/ Abandon(p) \/ UploadEnds(p)
  PROVE  TypeOK'
<1>1. upload \in [Phases -> UploadType]
  BY DEF TypeOK, UploadType
<1>2. upload[p] \in UploadType /\ upload[p].kept \subseteq Image
  BY <1>1 DEF UploadType
<1> DEFINE i == <<p, Cardinality(upload[p].kept) + 1>>
<1>2a. UploadPrivateAsset(p) \/ UploadFails(p) => i \in Image
  <2>1. Cardinality(upload[p].kept) \in Nat
    BY <1>2, ImagesAreFinite, FS_Subset, FS_CardinalityType
  <2>2. SUFFICES ASSUME UploadPrivateAsset(p) \/ UploadFails(p) PROVE i \in Image
    OBVIOUS
  <2>3. Cardinality(upload[p].kept) < Batch
    BY <2>2 DEF UploadPrivateAsset, UploadFails
  <2>4. Cardinality(upload[p].kept) + 1 \in 1..Batch
    BY <2>1, <2>3
  <2> QED BY <2>4 DEF Image
<1>3. CASE Upload(p) \/ AddBookingPhotos(p) \/ UploadFails(p)
  <2>1. upload' \in [Phases -> UploadType]
    BY <1>1, <1>3 DEF Upload, AddBookingPhotos, UploadFails, UploadType
  <2>2. CASE UploadFails(p)
    <3>1. /\ i \in Image /\ UNCHANGED <<me, status, rows, page, loads, acting, excuse>>
          /\ \/ UNCHANGED <<images, astray>>
             \/ images' = images \cup {i} /\ astray' = astray \cup {i}
      BY <1>2a, <2>2 DEF UploadFails
    <3> HIDE DEF i
    <3> QED BY <2>1, <3>1 DEF TypeOK, UploadType
  <2> QED BY <1>3, <2>1, <2>2 DEF Upload, AddBookingPhotos, TypeOK, UploadType, server
<1>4. CASE UploadPrivateAsset(p)
  <2>1. i \in Image
    BY <1>2a, <1>4
  <2>2. /\ images' = images \cup {i} /\ upload' = [upload EXCEPT ![p].kept = @ \cup {i}]
        /\ UNCHANGED <<me, status, rows, astray, page, loads, acting, excuse>>
    BY <1>4 DEF UploadPrivateAsset
  <2> HIDE DEF i
  <2>3. upload' \in [Phases -> UploadType]
    BY <1>1, <2>1, <2>2 DEF UploadType
  <2> QED BY <2>1, <2>2, <2>3 DEF TypeOK, UploadType
<1>5. CASE DestroyPrivateAsset(p)
  <2>1. upload' \in [Phases -> UploadType]
    BY <1>1, <1>5 DEF DestroyPrivateAsset, UploadType
  <2>2. images' \subseteq Image /\ astray' \subseteq Image
    BY <1>2, <1>5 DEF DestroyPrivateAsset, TypeOK
  <2> QED BY <1>5, <2>1, <2>2 DEF DestroyPrivateAsset, TypeOK, UploadType
<1>6. CASE InsertBookingPhotos(p) \/ Abandon(p)
  <2>1. upload' \in [Phases -> UploadType]
    BY <1>1, <1>6 DEF InsertBookingPhotos, Abandon, UploadType
  <2>2. rows' \subseteq Image /\ astray' \subseteq Image
    BY <1>2, <1>6 DEF InsertBookingPhotos, Abandon, TypeOK
  <2> QED BY <1>6, <2>1, <2>2 DEF InsertBookingPhotos, Abandon, TypeOK, UploadType
<1>7. CASE UploadEnds(p)
  <2>1. upload' \in [Phases -> UploadType]
    BY <1>1, <1>7 DEF UploadEnds, UploadType
  <2>2. loads \subseteq LoadType /\ NewLoad(p) \in LoadType
    BY LoadTypes DEF LoadType
  <2>3. loads' \subseteq LoadType /\ excuse' \subseteq {"other", "lost", "overlapped"}
    BY <1>7, <2>2 DEF UploadEnds, Reload, Overlapping, TypeOK
  <2> QED BY <1>7, <2>1, <2>3 DEF UploadEnds, TypeOK, UploadType, LoadType, server
<1> QED BY <1>3, <1>4, <1>5, <1>6, <1>7

-----------------------------------------------------------------------------
(* The photos: only uploads touch them. *)

\* A step that touches neither the photos nor the uploads.
LEMMA PhotosStay ==
  Photos /\ UNCHANGED <<rows, images, astray, upload>> => Photos'
BY DEF Photos, UploadsKeepTheirImages, RowsComeFromUploads, PrivateImagesAccounted

\* A step of one phase's upload: its images stay accounted for.
LEMMA UploadPhotos ==
  ASSUME TypeOK, Photos, NEW p \in Phases,
         \/ Upload(p) \/ AddBookingPhotos(p) \/ UploadPrivateAsset(p) \/ UploadFails(p)
         \/ DestroyPrivateAsset(p) \/ InsertBookingPhotos(p) \/ Abandon(p) \/ UploadEnds(p)
  PROVE  Photos'
<1>1. /\ upload \in [Phases -> UploadType] /\ rows \subseteq Image
      /\ \A i \in Image : i[1] \in Phases
  BY DEF TypeOK, UploadType, Image
<1>2. /\ \A q \in Phases : \A i \in upload[q].kept : i[1] = q /\ i \in images
      /\ \A i \in rows : upload[i[1]].stage \in {"done", "over"}
      /\ rows \subseteq images
      /\ \A i \in images \ rows : i \in astray \/ \E q \in Phases : i \in upload[q].kept
  BY DEF Photos, UploadsKeepTheirImages, RowsComeFromUploads, PrivateImagesAccounted
<1>3. ASSUME /\ \A q \in Phases : \A i \in upload'[q].kept : i[1] = q /\ i \in images'
             /\ \A i \in rows' : upload'[i[1]].stage \in {"done", "over"}
             /\ rows' \subseteq images'
             /\ \A i \in images' \ rows' : i \in astray' \/ \E q \in Phases : i \in upload'[q].kept
      PROVE  Photos'
  BY <1>3 DEF Photos, UploadsKeepTheirImages, RowsComeFromUploads, PrivateImagesAccounted
<1>4. CASE Upload(p) \/ AddBookingPhotos(p) \/ UploadFails(p) \/ UploadEnds(p)
  <2>1. /\ UNCHANGED rows /\ images \subseteq images' /\ astray \subseteq astray'
        /\ images' \ images \subseteq astray'
    <3>1. CASE UploadFails(p)
      <4> DEFINE i == <<p, Cardinality(upload[p].kept) + 1>>
      <4>1. /\ UNCHANGED rows
            /\ \/ UNCHANGED <<images, astray>>
               \/ images' = images \cup {i} /\ astray' = astray \cup {i}
        BY <3>1 DEF UploadFails
      <4> HIDE DEF i
      <4> QED BY <4>1
    <3>2. CASE UNCHANGED server
      BY <3>2 DEF server
    <3> QED BY <1>4, <3>1, <3>2 DEF Upload, AddBookingPhotos, UploadEnds
  <2>2. /\ \A q \in Phases \ {p} : upload'[q] = upload[q]
        /\ upload'[p].kept = upload[p].kept
        /\ upload[p].stage \in {"done", "over"} => upload'[p].stage \in {"done", "over"}
    BY <1>1, <1>4 DEF Upload, AddBookingPhotos, UploadFails, UploadEnds, UploadType
  <2> QED BY <1>1, <1>2, <1>3, <2>1, <2>2
<1>5. CASE UploadPrivateAsset(p)
  <2> DEFINE i == <<p, Cardinality(upload[p].kept) + 1>>
  <2>1. /\ UNCHANGED <<rows, astray>> /\ images' = images \cup {i} /\ upload[p].stage = "storing"
        /\ upload' = [upload EXCEPT ![p].kept = @ \cup {i}]
    BY <1>5 DEF UploadPrivateAsset
  <2>2. i[1] = p
    OBVIOUS
  <2> HIDE DEF i
  <2>3. /\ \A q \in Phases \ {p} : upload'[q] = upload[q]
        /\ upload'[p].kept = upload[p].kept \cup {i} /\ upload'[p].stage = upload[p].stage
    BY <1>1, <2>1 DEF UploadType
  <2> QED BY <1>1, <1>2, <1>3, <2>1, <2>2, <2>3
<1>6. CASE DestroyPrivateAsset(p)
  <2>1. UNCHANGED rows /\ upload[p].stage = "cleaning"
    BY <1>6 DEF DestroyPrivateAsset
  <2>2. CASE upload[p].kept = {}
    <3>1. /\ UNCHANGED <<images, astray>> /\ upload' = [upload EXCEPT ![p].stage = "failed"]
      BY <1>6, <2>2 DEF DestroyPrivateAsset
    <3>2. /\ \A q \in Phases \ {p} : upload'[q] = upload[q]
          /\ upload'[p].kept = upload[p].kept
      BY <1>1, <3>1 DEF UploadType
    <3> QED BY <1>1, <1>2, <1>3, <2>1, <3>1, <3>2
  <2>3. CASE upload[p].kept # {}
    <3>1. PICK i \in upload[p].kept :
            /\ upload' = [upload EXCEPT ![p].kept = @ \ {i}]
            /\ \/ images' = images \ {i} /\ UNCHANGED astray
               \/ astray' = astray \cup {i} /\ UNCHANGED images
      BY <1>6, <2>3 DEF DestroyPrivateAsset
    <3>2. /\ \A q \in Phases \ {p} : upload'[q] = upload[q]
          /\ upload'[p].kept = upload[p].kept \ {i} /\ upload'[p].stage = upload[p].stage
      BY <1>1, <3>1 DEF UploadType
    <3>3. i[1] = p /\ i \notin rows
      BY <1>1, <1>2, <2>1
    <3> QED BY <1>1, <1>2, <1>3, <2>1, <3>1, <3>2, <3>3
  <2> QED BY <2>2, <2>3
<1>7. CASE InsertBookingPhotos(p)
  <2>1. /\ UNCHANGED <<images, astray>> /\ rows' = rows \cup upload[p].kept
        /\ upload' = [upload EXCEPT ![p] = [stage |-> "done", kept |-> {}]]
    BY <1>7 DEF InsertBookingPhotos
  <2>2. /\ \A q \in Phases \ {p} : upload'[q] = upload[q]
        /\ upload'[p].kept = {} /\ upload'[p].stage = "done"
    BY <1>1, <2>1
  <2> QED BY <1>1, <1>2, <1>3, <2>1, <2>2
<1>8. CASE Abandon(p)
  <2>1. /\ UNCHANGED <<images, rows>> /\ astray' = astray \cup upload[p].kept
        /\ upload' = [upload EXCEPT ![p] = [stage |-> "failed", kept |-> {}]]
        /\ upload[p].stage \in {"sent", "storing", "cleaning"}
    BY <1>8 DEF Abandon
  <2>2. /\ \A q \in Phases \ {p} : upload'[q] = upload[q]
        /\ upload'[p].kept = {} /\ upload'[p].stage = "failed"
    BY <1>1, <2>1
  <2> QED BY <1>1, <1>2, <1>3, <2>1, <2>2
<1> QED BY <1>4, <1>5, <1>6, <1>7, <1>8

-----------------------------------------------------------------------------
(* The readings: what the loads on their way will bring. *)

\* A step that neither loads, acts nor moves the booking.
LEMMA ReadingStays ==
  Reading /\ UNCHANGED <<status, page, loads, acting, excuse>> => Reading'
BY DEF Reading, RunWaitsForItsLoad, OneLoadAtATime, LoadsAreCurrent

\* A load is put on its way: the first one, or one too many.
LEMMA ReloadReads ==
  ASSUME Reading, NEW by, Reload(by), excuse' = Overlapping, UNCHANGED <<status, page>>,
         by = "run" => acting.stage = "done" /\ acting'.stage = "loading",
         by # "run" => acting' = acting
  PROVE  Reading'
<1>1. loads' = loads \cup {NewLoad(by)} /\ NewLoad(by).by = by /\ NewLoad(by).booking = NotRead
  BY DEF Reload, NewLoad
<1>2. RunWaitsForItsLoad'
  <2>1. CASE by = "run"
    <3>1. \A l \in loads : l.by # "run"
      BY <2>1 DEF Reading, RunWaitsForItsLoad
    <3> QED BY <1>1, <2>1, <3>1 DEF RunWaitsForItsLoad
  <2>2. CASE by # "run"
    BY <1>1, <2>2 DEF Reading, RunWaitsForItsLoad
  <2> QED BY <2>1, <2>2
<1>3. CASE loads = {}
  BY <1>1, <1>2, <1>3 DEF Reading, OneLoadAtATime, LoadsAreCurrent
<1>4. CASE loads # {}
  BY <1>2, <1>4 DEF Reading, OneLoadAtATime, LoadsAreCurrent, Overlapping
<1> QED BY <1>3, <1>4

\* A load is answered in part.
LEMMA AnswerReads ==
  ASSUME Reading, NEW l \in loads, NEW m, m.by = l.by, m.booking \in {l.booking, status},
         loads' = (loads \ {l}) \cup {m}, UNCHANGED <<status, page, acting, excuse>>
  PROVE  Reading'
<1>1. RunWaitsForItsLoad'
  BY DEF Reading, RunWaitsForItsLoad
<1>2. OneLoadAtATime'
  BY DEF Reading, OneLoadAtATime
<1>3. LoadsAreCurrent'
  BY DEF Reading, LoadsAreCurrent
<1> QED BY <1>1, <1>2, <1>3 DEF Reading

\* A load comes back, or fails.
LEMMA LoadReads ==
  ASSUME TypeOK, Reading, NEW l \in loads, Loaded(l) \/ LoadFails(l)
  PROVE  Reading'
<1>1. /\ loads' = loads \ {l} /\ status' = status
      /\ acting' = IF l.by = "run" THEN [acting EXCEPT !.stage = "none"] ELSE acting
  BY DEF Loaded, LoadFails, Released, server
<1>2. acting'.stage = IF l.by = "run" THEN "none" ELSE acting.stage
  BY <1>1 DEF TypeOK
<1>3. RunWaitsForItsLoad'
  BY <1>1, <1>2 DEF Reading, RunWaitsForItsLoad
<1>4. acting'.stage # "done" => acting.stage # "done"
  BY <1>2 DEF Reading, RunWaitsForItsLoad
<1>5. CASE Loaded(l)
  <2>1. /\ page'.booking = l.booking /\ l.booking # NotRead
        /\ excuse' = IF loads' = {} /\ l.booking = status THEN {} ELSE excuse
    BY <1>5 DEF Loaded
  <2>2. CASE loads' = {} /\ l.booking = status
    BY <1>1, <1>3, <2>1, <2>2 DEF Reading, OneLoadAtATime, LoadsAreCurrent
  <2>3. CASE excuse' = excuse
    BY <1>1, <1>3, <1>4, <2>1, <2>3 DEF Reading, OneLoadAtATime, LoadsAreCurrent
  <2> QED BY <2>1, <2>2, <2>3
<1>6. CASE LoadFails(l)
  <2>1. page'.status = "failed" /\ excuse' = excuse
    BY <1>6 DEF LoadFails, TypeOK, Shown
  <2> QED BY <1>1, <1>3, <1>4, <2>1 DEF Reading, OneLoadAtATime, LoadsAreCurrent
<1> QED BY <1>5, <1>6

\* An action is sent, taken or refused, and its answer comes or is lost.
LEMMA ActingReads ==
  ASSUME TypeOK, Reading, (\E a \in ActionNames : Run(a)) \/ ActOnBooking \/ RunEnds \/ OtherActs
  PROVE  Reading'
<1> USE DEF Reading, RunWaitsForItsLoad, OneLoadAtATime, LoadsAreCurrent
<1>1. ASSUME NEW a \in ActionNames, Run(a) PROVE Reading'
  BY <1>1 DEF Run, server
<1>2. CASE ActOnBooking
  <2>1. /\ acting.stage = "sent" /\ UNCHANGED <<page, loads, excuse>>
        /\ \/ acting'.stage = "done"
           \/ acting'.stage = "refused" /\ status' = status
    BY <1>2 DEF ActOnBooking, TypeOK
  <2> QED BY <2>1
<1>3. CASE OtherActs
  <2>1. excuse' # {} /\ UNCHANGED <<loads, acting>>
    BY <1>3 DEF OtherActs
  <2> QED BY <2>1
<1>4. CASE RunEnds
  <2>1. CASE acting.stage = "done" /\ Reload("run") /\ excuse' = Overlapping
             /\ acting' = [acting EXCEPT !.stage = "loading"] /\ UNCHANGED <<me, server, page, upload>>
    <3>1. acting'.stage = "loading" /\ UNCHANGED <<status, page>>
      BY <2>1 DEF TypeOK, server
    <3> HIDE DEF Reading
    <3> QED BY <2>1, <3>1, ReloadReads
  <2>2. CASE acting.stage = "refused" /\ acting' = [acting EXCEPT !.stage = "none"]
             /\ UNCHANGED <<me, server, page, loads, upload, excuse>>
    <3>1. acting'.stage = "none" /\ UNCHANGED <<status, page, loads, excuse>>
      BY <2>2 DEF TypeOK, server
    <3> QED BY <2>2, <3>1
  <2>3. CASE acting.stage = "done" /\ acting' = [acting EXCEPT !.stage = "none"]
             /\ excuse' = excuse \cup {"lost"} /\ UNCHANGED <<me, server, page, loads, upload>>
    <3>1. excuse' # {} /\ UNCHANGED loads
      BY <2>3
    <3> QED BY <2>3, <3>1
  <2> QED BY <1>4, <2>1, <2>2, <2>3 DEF RunEnds
<1> QED BY <1>1, <1>2, <1>3, <1>4

-----------------------------------------------------------------------------
(* The theorems. *)

\* The page as it is first mounted.
LEMMA DetailInit == Init => DetailInv
<1> SUFFICES ASSUME Init PROVE DetailInv
  OBVIOUS
<1>1. TypeOK
  <2>1. {} \subseteq Image /\ status \in BookingStates
    BY DEF Init, BookingStates
  <2>2. "ACCEPT" \in ActionNames
    BY DEF ActionNames
  <2>3. NewLoad("effect") \in LoadType
    BY DEF NewLoad, LoadType
  <2> QED BY <2>1, <2>2, <2>3 DEF Init, TypeOK, Shown, LoadType
<1>2. Photos
  BY DEF Init, Photos, UploadsKeepTheirImages, RowsComeFromUploads, PrivateImagesAccounted
<1>3. Reading
  BY DEF Init, Reading, RunWaitsForItsLoad, OneLoadAtATime, LoadsAreCurrent, NewLoad
<1> QED BY <1>1, <1>2, <1>3 DEF DetailInv

\* It holds on while another part moves.
LEMMA DetailStutter == DetailInv /\ UNCHANGED vars => DetailInv'
<1> SUFFICES ASSUME DetailInv, UNCHANGED vars PROVE DetailInv'
  OBVIOUS
<1>1. TypeOK'
  BY DEF vars, DetailInv, TypeOK
<1> QED BY <1>1, PhotosStay, ReadingStays DEF vars, DetailInv

\* Each step keeps the types, the photos and what the loads will bring.
LEMMA DetailStep == DetailInv /\ Next => DetailInv'
<1> SUFFICES ASSUME DetailInv, Next PROVE DetailInv'
  OBVIOUS
<1> Batch \in Nat
  BY ClientAssumption
<1>1. ASSUME NEW l \in loads, GetBooking(l) PROVE DetailInv'
  <2> DEFINE m == [l EXCEPT !.booking = status]
  <2>1. m.by = l.by /\ m.booking = status
    BY LoadTypes DEF LoadType, DetailInv
  <2>2. loads' = (loads \ {l}) \cup {m} /\ UNCHANGED <<status, page, acting, excuse>>
    BY <1>1 DEF GetBooking, server
  <2> HIDE DEF m
  <2>3. Reading'
    BY <2>1, <2>2, AnswerReads DEF DetailInv
  <2>4. TypeOK' /\ Photos'
    BY <1>1, PageTypes, PhotosStay DEF DetailInv, GetBooking, server
  <2> QED BY <2>3, <2>4 DEF DetailInv
<1>2. ASSUME NEW l \in loads, ListBookingPhotos(l) PROVE DetailInv'
  <2>1. PICK found \in {rows, {}} : loads' = (loads \ {l}) \cup {[l EXCEPT !.photos = found]}
    BY <1>2 DEF ListBookingPhotos
  <2> DEFINE m == [l EXCEPT !.photos = found]
  <2>2. m.by = l.by /\ m.booking = l.booking
    BY LoadTypes DEF LoadType, DetailInv
  <2>3. loads' = (loads \ {l}) \cup {m} /\ UNCHANGED <<status, page, acting, excuse>>
    BY <1>2, <2>1 DEF ListBookingPhotos, server
  <2> HIDE DEF m
  <2>4. Reading'
    BY <2>2, <2>3, AnswerReads DEF DetailInv
  <2>5. TypeOK' /\ Photos'
    BY <1>2, PageTypes, PhotosStay DEF DetailInv, ListBookingPhotos, server
  <2> QED BY <2>4, <2>5 DEF DetailInv
<1>3. ASSUME NEW l \in loads, Loaded(l) \/ LoadFails(l) PROVE DetailInv'
  BY <1>3, LoadReads, PageTypes, PhotosStay DEF DetailInv, Loaded, LoadFails, server
<1>4. ASSUME (\E a \in ActionNames : Run(a)) \/ ActOnBooking \/ RunEnds \/ OtherActs PROVE DetailInv'
  <2>1. UNCHANGED <<rows, images, astray, upload>>
    BY <1>4 DEF Run, ActOnBooking, RunEnds, OtherActs, server
  <2> QED BY <1>4, <2>1, ActingReads, PageTypes, PhotosStay DEF DetailInv
<1>5. ASSUME NEW p \in Phases, UploadEnds(p) PROVE DetailInv'
  <2>1. Reading'
    <3>1. CASE Reload(p) /\ excuse' = Overlapping /\ UNCHANGED <<me, server, page, acting>>
      <4>1. p # "run"
        BY DEF Phases
      <4> QED BY <3>1, <4>1, ReloadReads DEF DetailInv, server
    <3>2. CASE UNCHANGED <<me, server, page, loads, acting, excuse>>
      BY <3>2, ReadingStays DEF DetailInv, server
    <3> QED BY <1>5, <3>1, <3>2 DEF UploadEnds
  <2> QED BY <1>5, <2>1, UploadTypes, UploadPhotos DEF DetailInv
<1>6. ASSUME NEW p \in Phases,
             \/ Upload(p) \/ AddBookingPhotos(p) \/ UploadPrivateAsset(p) \/ UploadFails(p)
             \/ DestroyPrivateAsset(p) \/ InsertBookingPhotos(p) \/ Abandon(p)
      PROVE  DetailInv'
  <2>1. UNCHANGED <<status, page, loads, acting, excuse>>
    BY <1>6 DEF Upload, AddBookingPhotos, UploadPrivateAsset, UploadFails, DestroyPrivateAsset,
       InsertBookingPhotos, Abandon, server
  <2> QED BY <1>6, <2>1, UploadTypes, UploadPhotos, ReadingStays DEF DetailInv
<1> QED BY <1>1, <1>2, <1>3, <1>4, <1>5, <1>6 DEF Next

-----------------------------------------------------------------------------
(* The parts together. *)

\* Every part is in order, whichever it is that moves.
ClientInv == SessionInv /\ BrowseInv /\ FormInv /\ PricingInv /\ DetailInv

\* It is inductive: each part takes its own steps, and stands still otherwise.
LEMMA ClientInductive == AllSpec => []ClientInv
<1>1. AllInit => ClientInv
  BY SessionInit, BrowseInit, FormInit, PricingInit, DetailInit DEF AllInit, ClientInv
<1>2. ClientInv /\ [AllNext]_everything => ClientInv'
  <2> SUFFICES ASSUME ClientInv, [AllNext]_everything PROVE ClientInv'
    OBVIOUS
  <2>1. SessionInv'
    BY SessionStep, SessionStutter DEF ClientInv, AllNext, everything
  <2>2. BrowseInv'
    BY BrowseStep, BrowseStutter DEF ClientInv, AllNext, everything
  <2>3. FormInv'
    BY FormStep, FormStutter DEF ClientInv, AllNext, everything
  <2>4. PricingInv'
    BY PricingStep, PricingStutter DEF ClientInv, AllNext, everything
  <2>5. DetailInv'
    BY DetailStep, DetailStutter DEF ClientInv, AllNext, everything, detail
  <2> QED BY <2>1, <2>2, <2>3, <2>4, <2>5 DEF ClientInv
<1> QED BY <1>1, <1>2, PTL DEF AllSpec

\* Types of the part that moves, whichever it is.
THEOREM ClientTypes == AllSpec => []AllTypesOK
<1>1. ClientInv => AllTypesOK
  BY BrowseTypeCorrect, PricingTypeCorrect
     DEF ClientInv, AllTypesOK, SessionInv, BrowseInv, FormInv, PricingInv, DetailInv
<1> QED BY <1>1, ClientInductive, PTL

\* However many users, changes of details and requests at once, a tab that is
\* quiet shows the session the browser has, and its socket is that user's, but
\* for the reasons the model names (AuthContext's refresh, login and logout).
THEOREM OneUser == AllSpec => []OneUserAtATime
<1>1. ClientInv => OneUserAtATime
  BY OneUserFollows DEF ClientInv
<1> QED BY <1>1, ClientInductive, PTL

\* For every shelf, page size and number of questions: the results answer the
\* address, or the question that does is on its way; and an empty page of a
\* search that matches something has its excuse (HomePage's results effect,
\* SearchBox's apply, Pagination's bounds).
THEOREM ResultsAreTrue == AllSpec => []ResultsTellTheTruth
<1>1. ClientInv => ResultsTellTheTruth
  BY ResultsFollow DEF ClientInv, ResultsTellTheTruth
<1> QED BY <1>1, ClientInductive, PTL

\* However many photos and checklists there are, a form of a listing that has
\* gone quiet shows the listing and its checklist as they are, or has one of the
\* excuses (EditListingPage's submit, togglePublish, load and loadReadiness).
THEOREM QuietFormsAreTrue == AllSpec => []QuietFormIsTrue
<1>1. ClientInv => QuietFormIsTrue
  BY QuietFormFollows DEF ClientInv
<1> QED BY <1>1, ClientInductive, PTL

\* A request is charged for the dates it was sent with, and at a card no older
\* than the price its sender saw (createBooking, and the quote effect of
\* BookingPanel), however often owner and renter change their minds.
THEOREM PricesAreForTheDates == AllSpec => []PricedForTheDates
<1>1. ClientInv => PricedForTheDates
  BY PriceFollows DEF ClientInv
<1> QED BY <1>1, ClientInductive, PTL

\* No row points at an image that is gone, and no image is without a row or an
\* upload but those that an insert, a process or a destroy that failed left
\* (addBookingPhotos), whatever the two phases' uploads and the loads do at once
\* and however large a batch is.
THEOREM NoImageIsLostSightOf == AllSpec => []PrivateImagesAccounted
<1>1. ClientInv => PrivateImagesAccounted
  BY DEF ClientInv, DetailInv, Photos
<1> QED BY <1>1, ClientInductive, PTL

\* A booking page that has gone quiet is current, or has one of the three
\* excuses (load and run of BookingDetailPage), however many loads there were.
THEOREM QuietMeansCurrent == AllSpec => []QuietPageIsCurrent
<1>1. ClientInv => QuietPageIsCurrent
  BY DEF ClientInv, DetailInv, Reading, LoadsAreCurrent, QuietPageIsCurrent
<1> QED BY <1>1, ClientInductive, PTL
=============================================================================

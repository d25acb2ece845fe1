------------------------------ MODULE Session ------------------------------
(***************************************************************************)
(* The session one tab believes in (AuthContext.jsx), the cookie it shares *)
(* with the other tabs of the browser, and the one socket of the tab       *)
(* (lib/socket.js), which speaks for whoever the cookie named when it was  *)
(* opened.  A request carries the cookie it is sent with; its answer may   *)
(* come after later answers, or not at all.                                *)
(***************************************************************************)
EXTENDS Integers, FiniteSets

CONSTANTS
  Users,        \* accounts of the people using this browser
  Nobody,       \* no session
  MaxEdits,     \* bound: changes to what /auth/me says of the account
  MaxPending    \* bound: requests of the tab on their way at once

VARIABLES
  cookie,       \* whose session the browser holds
  details,      \* the version of what /auth/me would answer
  user,         \* setUser's value
  loading,      \* the first /auth/me has not answered
  pending,      \* requests on their way, with the answers they will bring
  socket,       \* no socket, one that was refused, or whose it is
  behind,       \* why the tab may be wrong about its session
  inherited     \* why the socket may be another's than the session shown

vars == <<cookie, details, user, loading, pending, socket, behind, inherited>>

Account == [as : Users \cup {Nobody}, details : 0..MaxEdits]
SignedOut == [as |-> Nobody, details |-> 0]
Me == IF cookie = Nobody THEN SignedOut ELSE [as |-> cookie, details |-> details]

Init ==
  /\ cookie \in Users \cup {Nobody}
  /\ details = 0
  /\ user = SignedOut /\ loading = TRUE
  /\ pending = {[kind |-> "boot", answer |-> Me]}
  /\ socket = "none"
  /\ behind = {} /\ inherited = {}

\* Sent, and answered by the server at once; the answer is on its way.
Send(kind, answer) ==
  /\ Cardinality(pending) < MaxPending
  /\ pending' = pending \cup {[kind |-> kind, answer |-> answer]}
  /\ behind' = IF pending = {} THEN behind ELSE behind \cup {"overlapped"}

\* The tab knows better again when the last answer says how things are.
Settled(r) == IF pending' = {} /\ user' = Me' THEN {} ELSE behind

\* PublicOnlyRoute: the form is there for a visitor without a session.
LoginShown == ~loading /\ user.as = Nobody /\ \A r \in pending : r.kind # "login"

Login(u) ==
  /\ LoginShown
  /\ Send("login", [as |-> u, details |-> details])
  /\ UNCHANGED <<cookie, details, user, loading, socket, inherited>>

\* Offered by the menu, and by the deletion of the account.
Logout ==
  /\ user.as # Nobody
  /\ Send("logout", SignedOut)
  /\ UNCHANGED <<cookie, details, user, loading, socket, inherited>>

\* A section of the profile, or the link in a verification letter: what the
\* account is has changed, and the tab asks again once it hears so.
Save(kind) ==
  /\ details < MaxEdits
  /\ kind = "save" => user.as # Nobody
  /\ details' = details + 1
  /\ Send(kind, SignedOut)
  /\ UNCHANGED <<cookie, user, loading, socket, inherited>>

\* Something else on the page calls refresh(): a change taken back.
Refresh ==
  /\ user.as # Nobody
  /\ Send("refresh", Me)
  /\ UNCHANGED <<cookie, details, user, loading, socket, inherited>>

MeArrives(r) ==
  /\ r.kind \in {"boot", "refresh"}
  /\ user' = r.answer
  /\ loading' = (loading /\ r.kind # "boot")
  /\ pending' = pending \ {r}
  /\ inherited' = IF r.answer.as = cookie THEN inherited ELSE inherited \cup {"overtaken"}
  /\ UNCHANGED <<cookie, details, socket>>
  /\ behind' = Settled(r)

\* Any failure, the server out of reach included, reads as "not signed in".
MeFails(r) ==
  /\ r.kind \in {"boot", "refresh"}
  /\ user' = SignedOut
  /\ loading' = (loading /\ r.kind # "boot")
  /\ pending' = pending \ {r}
  /\ behind' = behind \cup {"lost"} /\ inherited' = inherited \cup {"lost"}
  /\ UNCHANGED <<cookie, details, socket>>

LoginArrives(r) ==
  /\ r.kind = "login"
  /\ cookie' = r.answer.as /\ user' = r.answer
  /\ pending' = pending \ {r}
  /\ inherited' = IF user.as \in {Nobody, r.answer.as} THEN inherited ELSE inherited \cup {"overtaken"}
  /\ UNCHANGED <<details, loading, socket>>
  /\ behind' = Settled(r)

\* The answer is lost; the cookie that came with it may not be.
LoginFails(r) ==
  /\ r.kind = "login"
  /\ cookie' \in {cookie, r.answer.as}
  /\ pending' = pending \ {r}
  /\ behind' = behind \cup {"lost"} /\ inherited' = inherited \cup {"lost"}
  /\ UNCHANGED <<details, user, loading, socket>>

\* The finally: the socket is closed and the user forgotten, answer or none.
\* Mutant: only the user is forgotten.
KeepSocket == socket' = socket /\ inherited' = inherited
CloseSocket == socket' = "none" /\ inherited' = {}

LogoutArrives(r) ==
  /\ r.kind = "logout"
  /\ cookie' = Nobody
  /\ CloseSocket /\ user' = SignedOut
  /\ pending' = pending \ {r}
  /\ UNCHANGED <<details, loading>>
  /\ behind' = Settled(r)

LogoutFails(r) ==
  /\ r.kind = "logout"
  /\ cookie' \in {cookie, Nobody}
  /\ CloseSocket /\ user' = SignedOut
  /\ pending' = pending \ {r}
  /\ behind' = behind \cup {"lost"}
  /\ UNCHANGED <<details, loading>>

SaveArrives(r) ==
  /\ r.kind \in {"save", "verify"}
  /\ pending' = (pending \ {r}) \cup {[kind |-> "refresh", answer |-> Me]}
  /\ UNCHANGED <<cookie, details, user, loading, socket, behind, inherited>>

SaveFails(r) ==
  /\ r.kind \in {"save", "verify"}
  /\ pending' = pending \ {r}
  /\ behind' = behind \cup {"lost"}
  /\ UNCHANGED <<cookie, details, user, loading, socket, inherited>>

\* The cookie changes hands behind the tab: another tab signs in or out, or the
\* session it names ends.
Elsewhere(u) ==
  /\ u # cookie
  /\ cookie' = u
  /\ behind' = behind \cup {"elsewhere"} /\ inherited' = inherited \cup {"elsewhere"}
  /\ UNCHANGED <<details, user, loading, pending, socket>>

\* The handshake carries the cookie; without one it is refused for good.
Handshake == socket' = IF cookie = Nobody THEN "refused" ELSE cookie

\* The bell and the thread are only there for a signed-in user.
GetSocket ==
  /\ user.as # Nobody /\ socket = "none"
  /\ Handshake
  /\ UNCHANGED <<cookie, details, user, loading, pending, behind, inherited>>

Reconnect ==
  /\ socket \in Users
  /\ Handshake
  /\ UNCHANGED <<cookie, details, user, loading, pending, behind, inherited>>

Next ==
  \/ \E u \in Users : Login(u)
  \/ Logout \/ Refresh
  \/ \E kind \in {"save", "verify"} : Save(kind)
  \/ \E r \in pending : \/ MeArrives(r) \/ MeFails(r) \/ LoginArrives(r) \/ LoginFails(r)
                        \/ LogoutArrives(r) \/ LogoutFails(r) \/ SaveArrives(r) \/ SaveFails(r)
  \/ \E u \in Users \cup {Nobody} : Elsewhere(u)
  \/ GetSocket \/ Reconnect

Spec == Init /\ [][Next]_vars
-----------------------------------------------------------------------------
TypeOK ==
  /\ cookie \in Users \cup {Nobody} /\ details \in 0..MaxEdits
  /\ user \in Account /\ loading \in BOOLEAN
  /\ pending \subseteq [kind : {"boot", "refresh", "login", "logout", "save", "verify"}, answer : Account]
  /\ socket \in {"none", "refused"} \cup Users
  /\ behind \subseteq {"overlapped", "lost", "elsewhere"}
  /\ inherited \subseteq {"overtaken", "lost", "elsewhere"}

\* With nothing on its way the tab shows the session the browser holds and the
\* account as it is, unless an answer was lost, two requests overlapped or the
\* cookie changed hands elsewhere (AuthContext's login, logout, refresh).
SignedInIsTrue == pending = {} /\ behind = {} => user = Me

\* The socket speaks for the user on the screen, unless /auth/me failed or was
\* overtaken, or the cookie changed hands elsewhere, since it was opened
\* (closeSocket in logout).
SocketIsTheUsers == socket \in Users /\ inherited = {} => user.as = socket

\* The screen, the cookie and the socket are of one user, but for those reasons.
OneUserAtATime == SignedInIsTrue /\ SocketIsTheUsers

\* "Closing it also makes the next sign-in build a fresh connection rather than
\* inherit one that authenticated as somebody else" (AuthContext.jsx): refresh
\* signs the tab out without closing the socket.
SignInStartsFresh ==
  [][user.as = Nobody /\ user'.as # Nobody => socket' \in {"none", "refused", user'.as}]_vars
=============================================================================

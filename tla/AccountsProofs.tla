--------------------------- MODULE AccountsProofs ---------------------------
(***************************************************************************)
(* The safety properties of Accounts, for every set of accounts,           *)
(* addresses and requests.                                                 *)
(***************************************************************************)
EXTENDS AccountsInvariant, TLAPS

(* A response leaves a row that has read nothing. *)
LEMMA Answered ==
  ASSUME TypeOK, NEW r \in Request, NEW w \in {"ok", "gone", "denied", None}, Answer(r, w)
  PROVE  \E q \in Row : /\ req' = [req EXCEPT ![r] = q]
                        /\ q.at = "done" /\ q.op = req[r].op /\ q.link = req[r].link
                        /\ q.epoch = None /\ q.answer = w
                        /\ HasRead(q)
<1> DEFINE q == [Idle EXCEPT !.op = req[r].op, !.at = "done", !.link = req[r].link, !.answer = w]
<1>1. req[r] \in Row
  BY DEF TypeOK
<1>2. q \in Row
  BY <1>1 DEF Row, Idle, Step
<1>3. /\ q.at = "done" /\ q.op = req[r].op /\ q.link = req[r].link
      /\ q.epoch = None /\ q.answer = w
  BY DEF Idle
<1>4. HasRead(q)
  BY <1>3 DEF HasRead, Needs
<1>. QED  BY <1>2, <1>3, <1>4 DEF Answer

(* A handler that goes on keeps what it has read. *)
LEMMA Went ==
  ASSUME TypeOK, NEW r \in Request, NEW s \in Step, Go(r, s)
  PROVE  \E q \in Row : /\ req' = [req EXCEPT ![r] = q] /\ q = [req[r] EXCEPT !.at = s]
                        /\ q.at = s /\ q.op = req[r].op /\ q.link = req[r].link
                        /\ q.user = req[r].user /\ q.own = req[r].own /\ q.email = req[r].email
                        /\ q.epoch = req[r].epoch /\ q.password = req[r].password
                        /\ q.token = req[r].token
<1> DEFINE q == [req[r] EXCEPT !.at = s]
<1>1. req[r] \in Row
  BY DEF TypeOK
<1>2. q \in Row
  BY <1>1 DEF Row
<1>3. req' = [req EXCEPT ![r] = q]
  BY DEF Go
<1>. QED  BY <1>1, <1>2, <1>3 DEF Row

(* What a statement of one request must respect for the invariant to stand *)
(* when it neither mails a link nor issues a cookie.                       *)
Respects(r, q) ==
    /\ req' = [req EXCEPT ![r] = q]
    /\ users' \in [Account -> User] /\ RowsAreComplete'
    /\ \A u \in Account :
         \/ users'[u].epoch = users[u].epoch /\ users'[u].password = users[u].password
         \/ users'[u].epoch = r /\ req[r].at \notin Rotated /\ q.at \in Rotated
    /\ evt' \subseteq Token /\ prt' \subseteq Token
    /\ \A t \in evt' : \E o \in evt : t.link = o.link /\ t.user = o.user /\ t.email = o.email
    /\ mail' = mail /\ sessions' = sessions
    /\ HasRead(q)
    /\ req[r].at \in Rotated => q.at \in Rotated
    /\ q.at # "done" => req[r].at # "done"
    /\ \/ q.epoch \in {None, req[r].epoch}
       \/ \E u \in Account : q.epoch = users[u].epoch
    /\ q.at = "sign" /\ users'[q.user].epoch = q.epoch => users'[q.user].password = q.password
    /\ q.at = "invalidateAndReissue" => users'[q.user].password = r
    /\ q.op = "verify" /\ q.at \in Needs.token =>
         mail[q.link] = [purpose |-> "verify", user |-> q.token.user, email |-> q.token.email]

LEMMA RespectingSteps ==
  ASSUME IInv, NEW r \in Request, NEW q \in Row, Respects(r, q)
  PROVE  IInv'
<1>1. /\ TypeOK /\ RowsAreComplete /\ HandlersHaveRead /\ EpochsAreFresh /\ PendingSessions
      /\ CurrentSessionsKnowThePassword /\ LinksAreFresh /\ ClicksKnowTheAddress
  BY DEF IInv
<1>2. /\ req'[r] = q
      /\ \A l \in Request \ {r} : req'[l] = req[l]
      /\ req' \in [Request -> Row]
  BY <1>1 DEF Respects, TypeOK
<1>3. TypeOK'
  BY <1>1, <1>2 DEF Respects, TypeOK
<1>4. RowsAreComplete'
  BY DEF Respects
<1>5. HandlersHaveRead'
  <2>1. \A l \in Request : HasRead(req'[l])
    BY <1>1, <1>2 DEF Respects, HandlersHaveRead
  <2>. QED  BY <2>1 DEF HandlersHaveRead, HasRead
<1>6. EpochsAreFresh'
  <2> SUFFICES ASSUME NEW l \in Request, req'[l].at \notin Rotated
               PROVE  /\ \A u \in Account : users'[u].epoch # l
                      /\ \A s \in sessions' : s.epoch # l
                      /\ \A k \in Request : req'[k].epoch # l
    BY DEF EpochsAreFresh, Rotated
  <2>1. req[l].at \notin Rotated
    BY <1>2 DEF Respects
  <2>2. /\ \A u \in Account : users[u].epoch # l
        /\ \A s \in sessions : s.epoch # l
        /\ \A k \in Request : req[k].epoch # l
    BY <1>1, <2>1 DEF EpochsAreFresh
  <2>3. \A u \in Account : users'[u].epoch # l
    BY <1>2, <2>2 DEF Respects
  <2>4. q.epoch # l
    BY <2>2, FreshNames DEF Respects
  <2>. QED  BY <1>2, <2>2, <2>3, <2>4 DEF Respects
<1>7. PendingSessions'
  <2> SUFFICES ASSUME NEW l \in Request
               PROVE  /\ req'[l].at = "sign" /\ users'[req'[l].user].epoch = req'[l].epoch
                           => users'[req'[l].user].password = req'[l].password
                      /\ req'[l].at = "invalidateAndReissue" /\ users'[req'[l].user].epoch = l
                           => users'[req'[l].user].password = l
    BY DEF PendingSessions
  <2>1. CASE l = r
    BY <1>2, <2>1 DEF Respects
  <2>2. CASE l # r
    <3>1. req'[l] = req[l] /\ HasRead(req[l])
      BY <1>1, <1>2, <2>2 DEF HandlersHaveRead
    <3>2. req[l].at \in {"sign", "invalidateAndReissue"} => req[l].user \in Account
      BY <3>1 DEF HasRead, Needs
    <3>3. req[r].at \notin Rotated => req[l].epoch # r
      BY <1>1 DEF EpochsAreFresh
    <3>. QED  BY <1>1, <2>2, <3>1, <3>2, <3>3 DEF Respects, PendingSessions
  <2>. QED  BY <2>1, <2>2
<1>8. CurrentSessionsKnowThePassword'
  <2> SUFFICES ASSUME NEW s \in sessions, users'[s.user].epoch = s.epoch
               PROVE  users'[s.user].password = s.password
    BY DEF CurrentSessionsKnowThePassword, Respects
  <2>1. s.user \in Account
    BY <1>1 DEF TypeOK, Session
  <2>2. req[r].at \notin Rotated => s.epoch # r
    BY <1>1 DEF EpochsAreFresh
  <2>. QED  BY <1>1, <2>1, <2>2 DEF Respects, CurrentSessionsKnowThePassword
<1>9. LinksAreFresh'
  <2>1. \A l \in Request : req'[l].at # "done" => mail'[l] = None
    BY <1>1, <1>2 DEF Respects, LinksAreFresh
  <2>2. \A t \in evt' : mail'[t.link] = [purpose |-> "verify", user |-> t.user, email |-> t.email]
    BY <1>1 DEF Respects, LinksAreFresh
  <2>. QED  BY <2>1, <2>2 DEF LinksAreFresh
<1>10. ClicksKnowTheAddress'
  BY <1>1, <1>2 DEF Respects, ClicksKnowTheAddress
<1>. QED  BY <1>3, <1>4, <1>5, <1>6, <1>7, <1>8, <1>9, <1>10 DEF IInv

(* Most statements read: they change nothing but their own request. *)
LEMMA ReadingSteps ==
  ASSUME IInv, NEW r \in Request, NEW q \in Row, req' = [req EXCEPT ![r] = q],
         UNCHANGED <<users, evt, prt, mail, sessions>>, HasRead(q),
         req[r].at \notin Rotated, q.at # "invalidateAndReissue",
         \/ q.epoch = None \/ q.epoch = req[r].epoch
         \/ \E u \in Account : q.epoch = users[u].epoch,
         q.at = "sign" /\ users[q.user].epoch = q.epoch => users[q.user].password = q.password,
         q.op = "verify" /\ q.at \in Needs.token =>
           mail[q.link] = [purpose |-> "verify", user |-> q.token.user, email |-> q.token.email]
  PROVE  IInv'
<1>1. TypeOK /\ RowsAreComplete
  BY DEF IInv
<1>2. RowsAreComplete'
  BY <1>1 DEF RowsAreComplete
<1>3. Respects(r, q)
  BY <1>1, <1>2 DEF Respects, TypeOK, Rotated
<1>. QED  BY <1>3, RespectingSteps

(* An answer with nothing else changed. *)
LEMMA AnsweringSteps ==
  ASSUME IInv, NEW r \in Request, NEW w \in {"ok", "gone", "denied", None}, Answer(r, w),
         req[r].at # "unsent" => req[r].at # "done",
         UNCHANGED <<users, evt, prt, mail, sessions>>
  PROVE  IInv'
<1>1. TypeOK /\ RowsAreComplete
  BY DEF IInv
<1>2. PICK q \in Row : /\ req' = [req EXCEPT ![r] = q]
                       /\ q.at = "done" /\ q.op = req[r].op /\ q.link = req[r].link
                       /\ q.epoch = None /\ q.answer = w
                       /\ HasRead(q)
  BY <1>1, Answered
<1>3. RowsAreComplete'
  BY <1>1 DEF RowsAreComplete
<1>4. Respects(r, q)
  BY <1>1, <1>2, <1>3 DEF Respects, TypeOK, Rotated, Needs
<1>. QED  BY <1>2, <1>4, RespectingSteps

(* What the invariant says of the request about to run a statement. *)
LEMMA AboutTo ==
  ASSUME IInv, NEW r \in Request
  PROVE  /\ req[r] \in Row /\ HasRead(req[r])
         /\ \A u \in Account : users[u] \in User
         /\ TypeOK /\ RowsAreComplete
BY DEF IInv, TypeOK, HandlersHaveRead

LEMMA ArriveKeeps ==
  ASSUME IInv, NEW r \in Request, Arrive(r)
  PROVE  IInv'
<1> DEFINE Fresh(q) == /\ q \in Row /\ req' = [req EXCEPT ![r] = q]
                       /\ q.epoch = None /\ q.at \notin {"sign", "invalidateAndReissue"}
                       /\ q.at \notin Needs.token /\ HasRead(q)
<1>1. /\ req[r].at \notin Rotated
      /\ UNCHANGED <<users, evt, prt, mail, sessions>>
  BY DEF Arrive, Rotated
<1>2. TypeOK /\ RowsAreComplete /\ \A u \in Account : users[u] \in User
  BY AboutTo
<1>3. CASE ArriveSignedOut(r)
  <2>1. PICK op \in Operation \cap {"register", "forgot", "login"}, e \in Email :
          \E p \in IF op = "login" THEN Minted ELSE {None} :
            req' = [req EXCEPT ![r] = [Idle EXCEPT !.op = op, !.at = FirstStep(op),
                                                   !.email = e, !.password = p]]
    BY <1>3 DEF ArriveSignedOut
  <2>2. PICK p \in IF op = "login" THEN Minted ELSE {None} :
            req' = [req EXCEPT ![r] = [Idle EXCEPT !.op = op, !.at = FirstStep(op),
                                                   !.email = e, !.password = p]]
    BY <2>1
  <2> DEFINE q == [Idle EXCEPT !.op = op, !.at = FirstStep(op), !.email = e, !.password = p]
  <2>3. FirstStep(op) = "findUserByEmail"
    BY DEF FirstStep
  <2>4. q \in Row
    BY <2>3 DEF Row, Idle, Step, Minted
  <2>5. Fresh(q)
    BY <2>2, <2>3, <2>4 DEF Idle, Needs, HasRead
  <2>. QED  BY <1>1, <2>5, ReadingSteps
<1>4. CASE ArriveFromMail(r)
  <2>1. PICK op \in Operation \cap {"verify", "reset"}, l \in Request :
            req' = [req EXCEPT ![r] = [Idle EXCEPT !.op = op, !.at = FirstStep(op), !.link = l]]
    BY <1>4 DEF ArriveFromMail
  <2> DEFINE q == [Idle EXCEPT !.op = op, !.at = FirstStep(op), !.link = l]
  <2>2. FirstStep(op) = "findToken"
    BY DEF FirstStep
  <2>3. q \in Row
    BY <2>2 DEF Row, Idle, Step
  <2>4. Fresh(q)
    BY <2>1, <2>2, <2>3 DEF Idle, Needs, HasRead
  <2>. QED  BY <1>1, <2>4, ReadingSteps
<1>5. CASE ArriveSignedIn(r)
  <2>1. PICK op \in Operation \cap SignedInOperation, s \in sessions :
          /\ Authenticated(s)
          /\ \E e \in IF op = "changeEmail" THEN Email \ {users[s.user].email} ELSE {None},
                p \in IF FirstStep(op) = "assertPassword" THEN Minted ELSE {None} :
              req' = [req EXCEPT ![r] = [Idle EXCEPT !.op = op, !.at = FirstStep(op),
                  !.user = s.user, !.own = users[s.user].email, !.email = e, !.password = p]]
    BY <1>5 DEF ArriveSignedIn
  <2>2. PICK e \in IF op = "changeEmail" THEN Email \ {users[s.user].email} ELSE {None},
             p \in IF FirstStep(op) = "assertPassword" THEN Minted ELSE {None} :
              req' = [req EXCEPT ![r] = [Idle EXCEPT !.op = op, !.at = FirstStep(op),
                  !.user = s.user, !.own = users[s.user].email, !.email = e, !.password = p]]
    BY <2>1
  <2> DEFINE q == [Idle EXCEPT !.op = op, !.at = FirstStep(op), !.user = s.user,
                               !.own = users[s.user].email, !.email = e, !.password = p]
  <2>3. /\ FirstStep(op) \in {"lastIssuedAt", "clearPendingEmail", "assertPassword"}
        /\ FirstStep(op) = "assertPassword" => op \in {"changeEmail", "changePassword", "close"}
    BY DEF FirstStep, SignedInOperation
  <2>4. s.user \in Account /\ users[s.user].status = "ACTIVE"
    BY <1>2, <2>1 DEF TypeOK, Session, Authenticated
  <2>5. users[s.user].email \in Email
    BY <1>2, <2>4 DEF RowsAreComplete
  <2>6. q \in Row
    BY <2>3, <2>4, <2>5 DEF Row, Idle, Step, SignedInOperation
  <2>7. /\ q.op = op /\ q.at = FirstStep(op) /\ q.user = s.user /\ q.own = users[s.user].email
        /\ q.email = e /\ q.epoch = None
    BY DEF Idle
  <2>8. op = "changeEmail" => e \in Email
    OBVIOUS
  <2> HIDE DEF q
  <2>9. HasRead(q)
    BY <2>3, <2>4, <2>5, <2>7, <2>8 DEF Needs, HasRead, SignedInOperation
  <2>10. req' = [req EXCEPT ![r] = q]
    BY <2>2 DEF q
  <2>. QED  BY <1>1, <2>3, <2>6, <2>7, <2>9, <2>10, ReadingSteps DEF Needs
<1>. QED  BY <1>3, <1>4, <1>5 DEF Arrive

LEMMA AbandonKeeps ==
  ASSUME IInv, NEW r \in Request, Abandon(r)
  PROVE  IInv'
BY AnsweringSteps DEF Abandon

LEMMA FindForRegistrationKeeps ==
  ASSUME IInv, NEW r \in Request, FindForRegistration(r)
  PROVE  IInv'
<1>1. /\ req[r].op = "register" /\ req[r].at = "findUserByEmail"
      /\ UNCHANGED <<users, evt, prt, mail, sessions>>
  BY DEF FindForRegistration, At
<1>2. req[r] \in Row /\ HasRead(req[r]) /\ TypeOK
  BY AboutTo
<1>3. CASE Go(r, "insertUser")
  <2>1. PICK q \in Row : /\ req' = [req EXCEPT ![r] = q] /\ q.at = "insertUser"
                         /\ q.op = req[r].op /\ q.email = req[r].email /\ q.epoch = req[r].epoch
    BY <1>2, <1>3, Went DEF Step
  <2>2. HasRead(q)
    BY <1>1, <1>2, <2>1 DEF HasRead, Needs
  <2>. QED  BY <1>1, <2>1, <2>2, ReadingSteps DEF Needs, Rotated
<1>4. CASE Answer(r, "ok")
  BY <1>1, <1>4, AnsweringSteps
<1>5. ASSUME NEW u \in Account, req' = [req EXCEPT ![r].at = "reclaim", ![r].user = u]
      PROVE  IInv'
  <2> DEFINE q == [req[r] EXCEPT !.at = "reclaim", !.user = u]
  <2>1. q \in Row /\ req' = [req EXCEPT ![r] = q]
    BY <1>2, <1>5 DEF Row, Step
  <2>2. HasRead(q) /\ q.epoch = req[r].epoch /\ q.at = "reclaim" /\ q.op = "register"
    BY <1>1, <1>2 DEF HasRead, Needs, Row
  <2>. QED  BY <1>1, <2>1, <2>2, ReadingSteps DEF Needs, Rotated
<1>. QED  BY <1>3, <1>4, <1>5 DEF FindForRegistration, HasEmail

LEMMA InsertUserKeeps ==
  ASSUME IInv, NEW r \in Request, InsertUser(r)
  PROVE  IInv'
<1>1. /\ req[r].op = "register" /\ req[r].at = "insertUser"
      /\ UNCHANGED <<evt, prt, mail, sessions>>
  BY DEF InsertUser, At
<1>2. req[r] \in Row /\ HasRead(req[r]) /\ TypeOK /\ RowsAreComplete
  BY AboutTo
<1>3. CASE Answer(r, "ok") /\ UNCHANGED users
  BY <1>1, <1>3, AnsweringSteps
<1>4. ASSUME NEW u \in Account, users[u] = Absent,
             users' = [users EXCEPT ![u] = NewUser(req[r].email, r)],
             req' = [req EXCEPT ![r].at = "issueVerification", ![r].user = u]
      PROVE  IInv'
  <2> DEFINE q == [req[r] EXCEPT !.at = "issueVerification", !.user = u]
             n == NewUser(req[r].email, r)
  <2>1. q \in Row /\ req' = [req EXCEPT ![r] = q]
    BY <1>2, <1>4 DEF Row, Step
  <2>2. req[r].email \in Email
    BY <1>1, <1>2 DEF HasRead, Needs
  <2>3. /\ q.at = "issueVerification" /\ q.op = "register" /\ q.epoch = req[r].epoch
        /\ HasRead(q)
    BY <1>1, <1>2, <2>2 DEF HasRead, Needs, Row
  <2>4. n \in User /\ n.email \in Email /\ n.password = r /\ n.epoch = r
    BY <2>2 DEF NewUser, Absent, User, Minted, Status
  <2>5. users' \in [Account -> User] /\ RowsAreComplete'
    BY <1>2, <1>4, <2>4 DEF TypeOK, RowsAreComplete, Minted
  <2>6. Respects(r, q)
    BY <1>1, <1>2, <1>4, <2>1, <2>3, <2>4, <2>5 DEF Respects, TypeOK, Rotated, Needs
  <2>. QED  BY <2>1, <2>6, RespectingSteps
<1>. QED  BY <1>3, <1>4 DEF InsertUser

(* New credentials leave a complete row, and the epoch is the request's. *)
LEMMA NewCredentialsFit ==
  ASSUME IInv, NEW r \in Request, NEW u \in Account, users[u].status = "ACTIVE"
  PROVE  LET n == NewCredentials(users[u], r) IN
         /\ n \in User /\ n.email = users[u].email /\ n.email \in Email
         /\ n.password = r /\ n.epoch = r /\ n.status = "ACTIVE"
BY AboutTo DEF NewCredentials, User, RowsAreComplete, Minted

LEMMA ReclaimKeeps ==
  ASSUME IInv, NEW r \in Request, ReclaimUnverifiedRegistration(r)
  PROVE  IInv'
<1> DEFINE u == req[r].user
<1>1. /\ req[r].op = "register" /\ req[r].at = "reclaim"
      /\ UNCHANGED <<evt, prt, mail, sessions>>
  BY DEF ReclaimUnverifiedRegistration, At
<1>2. req[r] \in Row /\ HasRead(req[r]) /\ TypeOK /\ RowsAreComplete
  BY AboutTo
<1>3. CASE Answer(r, "ok") /\ UNCHANGED users
  BY <1>1, <1>3, AnsweringSteps
<1>4. ASSUME users[u].status = "ACTIVE",
             users' = [users EXCEPT ![u] = NewCredentials(@, r)],
             req' = [req EXCEPT ![r].at = "issueVerification", ![r].email = users[u].email]
      PROVE  IInv'
  <2> DEFINE q == [req[r] EXCEPT !.at = "issueVerification", !.email = users[u].email]
             n == NewCredentials(users[u], r)
  <2>1. u \in Account
    BY <1>1, <1>2 DEF HasRead, Needs
  <2>2. /\ n \in User /\ n.email = users[u].email /\ n.email \in Email
        /\ n.password = r /\ n.epoch = r /\ n.status = "ACTIVE"
    BY <1>4, <2>1, NewCredentialsFit
  <2>3. q \in Row /\ req' = [req EXCEPT ![r] = q]
    BY <1>2, <1>4, <2>2 DEF Row, Step
  <2>4. /\ q.at = "issueVerification" /\ q.op = "register" /\ q.epoch = req[r].epoch
        /\ HasRead(q)
    BY <1>1, <1>2, <2>1, <2>2 DEF HasRead, Needs, Row
  <2>5. users' = [users EXCEPT ![u] = n]
    BY <1>4
  <2>6. users' \in [Account -> User] /\ RowsAreComplete'
    BY <1>2, <2>2, <2>5 DEF TypeOK, RowsAreComplete, Minted
  <2>7. Respects(r, q)
    BY <1>1, <1>2, <2>2, <2>3, <2>4, <2>5, <2>6 DEF Respects, TypeOK, Rotated, Needs
  <2>. QED  BY <2>3, <2>7, RespectingSteps
<1>. QED  BY <1>3, <1>4 DEF ReclaimUnverifiedRegistration

(* A token row issued is the account's, for the new link and address; the  *)
(* others stay as they were.                                               *)
LEMMA IssuedFits ==
  ASSUME NEW t \in SUBSET Token, NEW u \in Account, NEW e \in Email, NEW r \in Request
  PROVE  /\ Issued(t, u, e, r) \subseteq Token
         /\ \A k \in Issued(t, u, e, r) :
              k \in t \/ (k.user = u /\ k.email = e /\ k.link = r)
<1>1. Live(t, u) \subseteq t /\ \A k \in Live(t, u) : k.user = u
  BY DEF Live
<1>2. CASE Live(t, u) = {}
  <2> DEFINE n == [id |-> r, user |-> u, link |-> r, email |-> e, used |-> FALSE, age |-> "fresh"]
  <2>1. n \in Token /\ n.user = u /\ n.email = e /\ n.link = r
    BY DEF Token, Age
  <2>2. Issued(t, u, e, r) = t \cup {n}
    BY <1>2 DEF Issued
  <2>3. t \subseteq Token
    OBVIOUS
  <2> HIDE DEF n
  <2>. QED  BY <2>1, <2>2, <2>3
<1>3. CASE Live(t, u) # {}
  <2> DEFINE n(k) == [k EXCEPT !.link = r, !.email = e, !.age = "fresh"]
  <2>1. \A k \in Live(t, u) : n(k) \in Token /\ n(k).user = u /\ n(k).email = e /\ n(k).link = r
    BY <1>1 DEF Token, Age
  <2>2. Issued(t, u, e, r) = (t \ Live(t, u)) \cup {n(k) : k \in Live(t, u)}
    BY <1>3 DEF Issued
  <2>4. t \subseteq Token
    OBVIOUS
  <2> HIDE DEF n
  <2>3. ASSUME NEW k \in Issued(t, u, e, r)
        PROVE  k \in Token /\ (k \in t \/ (k.user = u /\ k.email = e /\ k.link = r))
    BY <2>1, <2>2, <2>3, <2>4
  <2>. QED  BY <2>3
<1>. QED  BY <1>2, <1>3

LEMMA SpentFits ==
  ASSUME NEW t \in SUBSET Token, NEW w
  PROVE  /\ Spent(t, w) \subseteq Token
         /\ \A k \in Spent(t, w) : \E o \in t : k.link = o.link /\ k.user = o.user /\ k.email = o.email
<1>1. \A o \in t : LET k == IF o \in w THEN [o EXCEPT !.used = TRUE] ELSE o IN
        k \in Token /\ k.link = o.link /\ k.user = o.user /\ k.email = o.email
  BY DEF Token
<1>. QED  BY <1>1 DEF Spent

(* A link minted by r is in no table before r mails it. *)
LEMMA MailingSteps ==
  ASSUME IInv, NEW r \in Request, req[r].at # "done", NEW l \in Letter,
         mail' = [mail EXCEPT ![r] = l], Answer(r, "ok"),
         UNCHANGED <<users, sessions>>,
         evt' \subseteq Token, prt' \subseteq Token,
         \A t \in evt' : \/ t \in evt
                         \/ t.link = r /\ l = [purpose |-> "verify", user |-> t.user, email |-> t.email]
  PROVE  IInv'
<1>1. /\ TypeOK /\ RowsAreComplete /\ HandlersHaveRead /\ EpochsAreFresh /\ PendingSessions
      /\ CurrentSessionsKnowThePassword /\ LinksAreFresh /\ ClicksKnowTheAddress
  BY DEF IInv
<1>2. PICK q \in Row : /\ req' = [req EXCEPT ![r] = q]
                       /\ q.at = "done" /\ q.op = req[r].op /\ q.link = req[r].link
                       /\ q.epoch = None /\ HasRead(q)
  BY <1>1, Answered
<1>3. /\ req'[r] = q /\ \A k \in Request \ {r} : req'[k] = req[k]
      /\ req' \in [Request -> Row]
  BY <1>1, <1>2 DEF TypeOK
<1>4. TypeOK'
  BY <1>1, <1>3 DEF TypeOK
<1>5. RowsAreComplete' /\ CurrentSessionsKnowThePassword'
  BY <1>1 DEF RowsAreComplete, CurrentSessionsKnowThePassword
<1>6. HandlersHaveRead'
  <2>1. \A k \in Request : HasRead(req'[k])
    BY <1>1, <1>2, <1>3 DEF HandlersHaveRead
  <2>. QED  BY <2>1 DEF HandlersHaveRead, HasRead
<1>7. EpochsAreFresh'
  BY <1>1, <1>2, <1>3, FreshNames DEF EpochsAreFresh, Rotated
<1>8. PendingSessions'
  BY <1>1, <1>2, <1>3 DEF PendingSessions
<1>9. mail[r] = None /\ mail'[r] = l /\ \A k \in Request \ {r} : mail'[k] = mail[k]
  BY <1>1 DEF LinksAreFresh, TypeOK
<1>10. \A u \in Account, e \in Email : [purpose |-> "verify", user |-> u, email |-> e] # None
  BY NoneIsNothing
<1>11. LinksAreFresh'
  <2>1. \A k \in Request : req'[k].at # "done" => mail'[k] = None
    BY <1>1, <1>2, <1>3, <1>9 DEF LinksAreFresh
  <2>2. ASSUME NEW t \in evt'
        PROVE  mail'[t.link] = [purpose |-> "verify", user |-> t.user, email |-> t.email]
    <3>1. t.link \in Request /\ t.user \in Account /\ t.email \in Email
      BY DEF Token
    <3>2. CASE t \in evt
      BY <1>1, <1>9, <1>10, <3>1, <3>2 DEF LinksAreFresh
    <3>3. CASE t.link = r /\ l = [purpose |-> "verify", user |-> t.user, email |-> t.email]
      BY <1>9, <3>3
    <3>. QED  BY <3>2, <3>3
  <2>. QED  BY <2>1, <2>2 DEF LinksAreFresh
<1>12. ClicksKnowTheAddress'
  <2> SUFFICES ASSUME NEW k \in Request, req'[k].op = "verify", req'[k].at \in Needs.token
               PROVE  mail'[req'[k].link] = [purpose |-> "verify", user |-> req'[k].token.user,
                                             email |-> req'[k].token.email]
    BY DEF ClicksKnowTheAddress, Needs
  <2>1. k # r
    BY <1>2, <1>3 DEF Needs
  <2>2. req'[k] = req[k] /\ HasRead(req[k]) /\ req[k] \in Row
    BY <1>1, <1>3, <2>1 DEF HandlersHaveRead, TypeOK
  <2>3. req[k].link \in Request /\ req[k].token # None
    BY <2>2 DEF HasRead, Needs
  <2>4. req[k].token.user \in Account /\ req[k].token.email \in Email
    BY <2>2, <2>3 DEF Row
  <2>5. mail[req[k].link] = [purpose |-> "verify", user |-> req[k].token.user,
                             email |-> req[k].token.email]
    BY <1>1, <2>2 DEF ClicksKnowTheAddress
  <2>. QED  BY <1>9, <1>10, <2>2, <2>3, <2>4, <2>5
<1>. QED  BY <1>4, <1>5, <1>6, <1>7, <1>8, <1>11, <1>12 DEF IInv

LEMMA IssueVerificationKeeps ==
  ASSUME IInv, NEW r \in Request, IssueVerification(r)
  PROVE  IInv'
<1> DEFINE l == [purpose |-> "verify", user |-> req[r].user, email |-> req[r].email]
<1>1. req[r].at = "issueVerification" /\ req[r] \in Row /\ HasRead(req[r]) /\ TypeOK
  BY AboutTo DEF IssueVerification
<1>2. req[r].user \in Account /\ req[r].email \in Email
  BY <1>1 DEF HasRead, Needs
<1>3. l \in Letter
  BY <1>2 DEF Letter
<1>4. /\ evt' \subseteq Token
      /\ \A k \in evt' : k \in evt \/ (k.user = req[r].user /\ k.email = req[r].email /\ k.link = r)
  BY <1>1, <1>2, IssuedFits DEF IssueVerification, TypeOK
<1>5. prt' \subseteq Token
  BY <1>1 DEF IssueVerification, TypeOK
<1>6. mail' = [mail EXCEPT ![r] = l] /\ Answer(r, "ok") /\ UNCHANGED <<users, sessions>>
  BY DEF IssueVerification
<1>. QED  BY <1>1, <1>3, <1>4, <1>5, <1>6, MailingSteps

LEMMA IssueResetKeeps ==
  ASSUME IInv, NEW r \in Request, IssuePasswordResetToken(r)
  PROVE  IInv'
<1> DEFINE l == [purpose |-> "reset", user |-> req[r].user, email |-> req[r].email]
<1>1. /\ req[r].at = "issueReset" /\ req[r] \in Row /\ HasRead(req[r]) /\ TypeOK
      /\ Answer(r, "ok") /\ UNCHANGED <<users, evt, sessions>>
  BY AboutTo DEF IssuePasswordResetToken, At
<1>2. req[r].user \in Account /\ req[r].email \in Email
  BY <1>1 DEF HasRead, Needs
<1>3. CASE UNCHANGED <<prt, mail>>
  BY <1>1, <1>3, AnsweringSteps
<1>4. CASE prt' = Issued(prt, req[r].user, req[r].email, r) /\ mail' = [mail EXCEPT ![r] = l]
  <2>1. l \in Letter
    BY <1>2 DEF Letter
  <2>2. prt' \subseteq Token /\ evt' \subseteq Token
    BY <1>1, <1>2, <1>4, IssuedFits DEF TypeOK
  <2>. QED  BY <1>1, <1>4, <2>1, <2>2, MailingSteps
<1>. QED  BY <1>3, <1>4 DEF IssuePasswordResetToken

LEMMA ResendVerificationKeeps ==
  ASSUME IInv, NEW r \in Request, ResendVerification(r)
  PROVE  IInv'
<1>1. /\ req[r].op = "resend" /\ req[r].at = "lastIssuedAt"
      /\ UNCHANGED <<users, evt, prt, mail, sessions>>
  BY DEF ResendVerification, At
<1>2. req[r] \in Row /\ HasRead(req[r])
  BY AboutTo
<1>3. CASE Answer(r, "ok")
  BY <1>1, <1>3, AnsweringSteps
<1>4. CASE req' = [req EXCEPT ![r].at = "issueVerification", ![r].email = req[r].own]
  <2> DEFINE q == [req[r] EXCEPT !.at = "issueVerification", !.email = req[r].own]
  <2>1. q \in Row /\ req' = [req EXCEPT ![r] = q]
    BY <1>2, <1>4 DEF Row, Step
  <2>2. /\ HasRead(q) /\ q.epoch = req[r].epoch /\ q.at = "issueVerification" /\ q.op = "resend"
    BY <1>1, <1>2 DEF HasRead, Needs, Row
  <2>. QED  BY <1>1, <2>1, <2>2, ReadingSteps DEF Needs, Rotated
<1>. QED  BY <1>3, <1>4 DEF ResendVerification

LEMMA FindTokenKeeps ==
  ASSUME IInv, NEW r \in Request, FindToken(r)
  PROVE  IInv'
<1>1. /\ req[r].op = "verify" /\ req[r].at = "findToken"
      /\ UNCHANGED <<users, evt, prt, mail, sessions>>
  BY DEF FindToken, At
<1>2. req[r] \in Row /\ HasRead(req[r]) /\ TypeOK
  BY AboutTo
<1>3. CASE Answer(r, "gone")
  BY <1>1, <1>3, AnsweringSteps
<1>4. ASSUME NEW t \in evt, t.link = req[r].link, NEW s \in {"alreadyConfirmed", "consumeToken"},
             req' = [req EXCEPT ![r].token = [id |-> t.id, user |-> t.user, email |-> t.email],
                                ![r].at = s]
      PROVE  IInv'
  <2> DEFINE k == [id |-> t.id, user |-> t.user, email |-> t.email]
             q == [req[r] EXCEPT !.token = k, !.at = s]
  <2>1. k \in [id : Request, user : Account, email : Email] /\ k # None
    BY <1>2, NoneIsNothing DEF TypeOK, Token
  <2>2. q \in Row /\ req' = [req EXCEPT ![r] = q]
    <3> HIDE DEF k
    <3>1. q \in Row
      BY <1>2, <2>1 DEF Row, Step
    <3>. QED  BY <1>2, <1>4, <3>1 DEF k, TypeOK
  <2>3. /\ q.epoch = req[r].epoch /\ q.at = s /\ q.op = "verify" /\ q.token = k
        /\ q.link = req[r].link
    BY <1>1, <1>2 DEF Row
  <2>4. HasRead(q)
    BY <1>1, <1>2, <2>1, <2>3 DEF HasRead, Needs
  <2>5. q.op = "verify" =>
          mail[q.link] = [purpose |-> "verify", user |-> q.token.user, email |-> q.token.email]
    BY <1>4, <2>3 DEF IInv, LinksAreFresh
  <2>. QED  BY <1>1, <2>2, <2>3, <2>4, <2>5, ReadingSteps DEF Needs, Rotated
<1>5. ASSUME NEW t \in evt, t.link = req[r].link,
             IF t.age = "expired" THEN Answer(r, "gone")
             ELSE req' = [req EXCEPT ![r].token = [id |-> t.id, user |-> t.user, email |-> t.email],
                                     ![r].at = IF t.used THEN "alreadyConfirmed" ELSE "consumeToken"]
      PROVE  IInv'
  BY <1>3, <1>4, <1>5
<1>. QED  BY <1>3, <1>5 DEF FindToken

LEMMA FindResetTokenKeeps ==
  ASSUME IInv, NEW r \in Request, FindResetToken(r)
  PROVE  IInv'
<1>1. /\ req[r].op = "reset" /\ req[r].at = "findToken"
      /\ UNCHANGED <<users, evt, prt, mail, sessions>>
  BY DEF FindResetToken, At
<1>2. req[r] \in Row /\ HasRead(req[r]) /\ TypeOK
  BY AboutTo
<1>3. CASE Answer(r, "gone")
  BY <1>1, <1>3, AnsweringSteps
<1>4. ASSUME NEW t \in prt, t.link = req[r].link, NEW s \in {"consumeAndSet"},
             req' = [req EXCEPT ![r].token = [id |-> t.id, user |-> t.user, email |-> t.email],
                                ![r].at = s]
      PROVE  IInv'
  <2> DEFINE k == [id |-> t.id, user |-> t.user, email |-> t.email]
             q == [req[r] EXCEPT !.token = k, !.at = s]
  <2>1. k \in [id : Request, user : Account, email : Email] /\ k # None
    BY <1>2, NoneIsNothing DEF TypeOK, Token
  <2>2. q \in Row /\ req' = [req EXCEPT ![r] = q]
    BY <1>2, <1>4, <2>1 DEF Row, Step
  <2>3. /\ q.epoch = req[r].epoch /\ q.at = s /\ q.op = "reset" /\ q.token = k
        /\ q.link = req[r].link
    BY <1>1, <1>2 DEF Row
  <2>4. HasRead(q)
    BY <1>1, <1>2, <2>1, <2>3 DEF HasRead, Needs
  <2>5. q.op = "verify" =>
          mail[q.link] = [purpose |-> "verify", user |-> q.token.user, email |-> q.token.email]
    BY <2>3
  <2>. QED  BY <1>1, <2>2, <2>3, <2>4, <2>5, ReadingSteps DEF Needs, Rotated
<1>. QED  BY <1>3, <1>4 DEF FindResetToken

LEMMA AddressAlreadyConfirmedKeeps ==
  ASSUME IInv, NEW r \in Request, AddressAlreadyConfirmed(r)
  PROVE  IInv'
<1>1. /\ req[r].at = "alreadyConfirmed" /\ UNCHANGED <<users, evt, prt, mail, sessions>>
      /\ Answer(r, "ok") \/ Answer(r, "gone")
  BY DEF AddressAlreadyConfirmed, At
<1>. QED  BY <1>1, AnsweringSteps

(* A statement after which the handler goes on with what it had. *)
LEMMA GoingSteps ==
  ASSUME IInv, NEW r \in Request, NEW s \in Step, Go(r, s),
         req[r].at \notin Rotated, s \notin {"sign", "invalidateAndReissue"},
         UNCHANGED <<users, prt, mail, sessions>>, evt' \subseteq Token,
         \A t \in evt' : \E o \in evt : t.link = o.link /\ t.user = o.user /\ t.email = o.email,
         \A q \in Row : q = [req[r] EXCEPT !.at = s] => HasRead(q),
         s \in Needs.token => req[r].at \in Needs.token
  PROVE  IInv'
<1>1. TypeOK /\ RowsAreComplete /\ ClicksKnowTheAddress
  BY DEF IInv
<1>2. PICK q \in Row : /\ req' = [req EXCEPT ![r] = q] /\ q = [req[r] EXCEPT !.at = s]
                       /\ q.at = s /\ q.op = req[r].op /\ q.link = req[r].link
                       /\ q.epoch = req[r].epoch /\ q.token = req[r].token
  BY <1>1, Went
<1>3. RowsAreComplete'
  BY <1>1 DEF RowsAreComplete
<1>4. q.op = "verify" /\ q.at \in Needs.token =>
         mail[q.link] = [purpose |-> "verify", user |-> q.token.user, email |-> q.token.email]
  BY <1>1, <1>2 DEF ClicksKnowTheAddress
<1>5. HasRead(q)
  BY <1>2
<1>6. Respects(r, q)
  BY <1>1, <1>2, <1>3, <1>4, <1>5 DEF Respects, TypeOK, Rotated
<1>. QED  BY <1>2, <1>6, RespectingSteps

LEMMA WhichAddressKeeps ==
  ASSUME IInv, NEW r \in Request, WhichAddress(r)
  PROVE  IInv'
<1>1. req[r].at = "findUserById" /\ UNCHANGED <<users, evt, prt, mail, sessions>>
  BY DEF WhichAddress, At
<1>2. req[r] \in Row /\ HasRead(req[r])
  BY AboutTo
<1>3. ASSUME NEW s \in {"markEmailVerified", "confirmEmailChange"}, Go(r, s)
      PROVE  IInv'
  <2>1. \A q \in Row : q = [req[r] EXCEPT !.at = s] => HasRead(q)
    BY <1>1, <1>2 DEF HasRead, Needs, Row
  <2>2. s \in Step /\ evt' \subseteq Token
    BY <1>1, AboutTo DEF Step, TypeOK
  <2>. QED  BY <1>1, <1>3, <2>1, <2>2, GoingSteps DEF Rotated, Needs
<1>4. CASE Answer(r, "gone")
  BY <1>1, <1>4, AnsweringSteps
<1>. QED  BY <1>3, <1>4 DEF WhichAddress

LEMMA ConsumeTokenKeeps ==
  ASSUME IInv, NEW r \in Request, ConsumeToken(r)
  PROVE  IInv'
<1> DEFINE mine == {t \in evt : t.id = req[r].token.id /\ ~t.used}
<1>1. /\ req[r].at = "consumeToken" /\ UNCHANGED <<users, prt, mail, sessions>>
      /\ evt' = Spent(evt, mine)
      /\ Go(r, IF mine = {} THEN "alreadyConfirmed" ELSE "findUserById")
  BY DEF ConsumeToken, At
<1>2. req[r] \in Row /\ HasRead(req[r]) /\ TypeOK
  BY AboutTo
<1>3. /\ evt' \subseteq Token
      /\ \A t \in evt' : \E o \in evt : t.link = o.link /\ t.user = o.user /\ t.email = o.email
  BY <1>1, <1>2, SpentFits DEF TypeOK
<1>4. ASSUME NEW s \in {"alreadyConfirmed", "findUserById"}, Go(r, s)
      PROVE  IInv'
  <2>1. \A q \in Row : q = [req[r] EXCEPT !.at = s] => HasRead(q)
    BY <1>1, <1>2 DEF HasRead, Needs, Row
  <2>2. s \in Step
    BY DEF Step
  <2>. QED  BY <1>1, <1>3, <1>4, <2>1, <2>2, GoingSteps DEF Rotated, Needs
<1>. QED  BY <1>1, <1>4

LEMMA AssertPasswordKeeps ==
  ASSUME IInv, NEW r \in Request, AssertPassword(r)
  PROVE  IInv'
<1>1. req[r].at = "assertPassword" /\ UNCHANGED <<users, evt, prt, mail, sessions>>
  BY DEF AssertPassword, At
<1>2. req[r] \in Row /\ HasRead(req[r])
  BY AboutTo
<1>3. ASSUME Go(r, AfterPassword(req[r].op))
      PROVE  IInv'
  <2>1. req[r].op \in {"changeEmail", "changePassword", "close"}
    BY <1>1, <1>2 DEF HasRead
  <2>2. AfterPassword(req[r].op) \in {"findNewEmail", "updatePasswordHash", "softDelete"}
    BY <2>1 DEF AfterPassword
  <2>3. \A q \in Row : q = [req[r] EXCEPT !.at = AfterPassword(req[r].op)] => HasRead(q)
    BY <1>1, <1>2, <2>1, <2>2 DEF HasRead, Needs, Row, AfterPassword
  <2>4. AfterPassword(req[r].op) \in Step /\ evt' \subseteq Token
    BY <1>1, <2>2, AboutTo DEF Step, TypeOK
  <2>. QED  BY <1>1, <1>3, <2>2, <2>3, <2>4, GoingSteps DEF Rotated, Needs
<1>4. CASE Answer(r, "denied")
  BY <1>1, <1>4, AnsweringSteps
<1>. QED  BY <1>3, <1>4 DEF AssertPassword

LEMMA FindNewEmailKeeps ==
  ASSUME IInv, NEW r \in Request, FindNewEmail(r)
  PROVE  IInv'
<1>1. req[r].at = "findNewEmail" /\ UNCHANGED <<users, evt, prt, mail, sessions>>
  BY DEF FindNewEmail, At
<1>2. req[r] \in Row /\ HasRead(req[r])
  BY AboutTo
<1>3. CASE Go(r, "setPendingEmail")
  <2>1. \A q \in Row : q = [req[r] EXCEPT !.at = "setPendingEmail"] => HasRead(q)
    BY <1>1, <1>2 DEF HasRead, Needs, Row
  <2>2. evt' \subseteq Token
    BY <1>1, AboutTo DEF TypeOK
  <2>. QED  BY <1>1, <1>3, <2>1, <2>2, GoingSteps DEF Rotated, Needs, Step
<1>4. CASE Answer(r, "ok")
  BY <1>1, <1>4, AnsweringSteps
<1>. QED  BY <1>3, <1>4 DEF FindNewEmail

LEMMA FindWithHashKeeps ==
  ASSUME IInv, NEW r \in Request, FindWithHash(r)
  PROVE  IInv'
<1>1. req[r].op = "login" /\ req[r].at = "findUserByEmail" /\ UNCHANGED <<users, evt, prt, mail, sessions>>
  BY DEF FindWithHash, At
<1>2. req[r] \in Row /\ HasRead(req[r])
  BY AboutTo
<1>3. CASE Answer(r, "denied")
  BY <1>1, <1>3, AnsweringSteps
<1>4. ASSUME NEW u \in Account, users[u].password = req[r].password, users[u].status = "ACTIVE",
             req' = [req EXCEPT ![r].at = "sign", ![r].user = u, ![r].epoch = users[u].epoch]
      PROVE  IInv'
  <2> DEFINE q == [req[r] EXCEPT !.at = "sign", !.user = u, !.epoch = users[u].epoch]
  <2>1. users[u].epoch \in Minted
    BY <1>4, AboutTo DEF RowsAreComplete
  <2>2. q \in Row /\ req' = [req EXCEPT ![r] = q]
    BY <1>2, <1>4, <2>1 DEF Row, Step
  <2>3. /\ q.at = "sign" /\ q.op = "login" /\ q.user = u /\ q.epoch = users[u].epoch
        /\ q.password = req[r].password
    BY <1>1, <1>2 DEF Row
  <2>4. HasRead(q)
    BY <1>1, <1>2, <2>1, <2>3 DEF HasRead, Needs
  <2>. QED  BY <1>1, <1>4, <2>2, <2>3, <2>4, ReadingSteps DEF Rotated
<1>. QED  BY <1>3, <1>4 DEF FindWithHash, HasEmail

LEMMA FindForResetKeeps ==
  ASSUME IInv, NEW r \in Request, FindForReset(r)
  PROVE  IInv'
<1>1. req[r].op = "forgot" /\ req[r].at = "findUserByEmail" /\ UNCHANGED <<users, evt, prt, mail, sessions>>
  BY DEF FindForReset, At
<1>2. req[r] \in Row /\ HasRead(req[r])
  BY AboutTo
<1>3. CASE Answer(r, "ok")
  BY <1>1, <1>3, AnsweringSteps
<1>4. ASSUME NEW u \in Account, req' = [req EXCEPT ![r].at = "issueReset", ![r].user = u]
      PROVE  IInv'
  <2> DEFINE q == [req[r] EXCEPT !.at = "issueReset", !.user = u]
  <2>1. q \in Row /\ req' = [req EXCEPT ![r] = q]
    BY <1>2, <1>4 DEF Row, Step
  <2>2. HasRead(q) /\ q.epoch = req[r].epoch /\ q.at = "issueReset" /\ q.op = "forgot"
    BY <1>1, <1>2 DEF HasRead, Needs, Row
  <2>. QED  BY <1>1, <2>1, <2>2, ReadingSteps DEF Needs, Rotated
<1>. QED  BY <1>3, <1>4 DEF FindForReset, HasEmail

(* A row of the users table that changes neither its password nor its      *)
(* epoch, while the request answers or goes on.                            *)
LEMMA HarmlessUpdates ==
  ASSUME IInv, NEW r \in Request, req[r].at \notin Rotated, NEW q \in Row,
         req' = [req EXCEPT ![r] = q], HasRead(q), q.at \notin {"sign", "invalidateAndReissue"},
         q.epoch \in {None, req[r].epoch}, q.at \notin Needs.token,
         NEW u \in Account, NEW n \in User, users' = [users EXCEPT ![u] = n],
         n.epoch = users[u].epoch, n.password = users[u].password, n.email = users[u].email,
         n.status = "ACTIVE" => users[u].status = "ACTIVE",
         UNCHANGED <<evt, prt, mail, sessions>>
  PROVE  IInv'
<1>1. TypeOK /\ RowsAreComplete
  BY DEF IInv
<1>2. users' \in [Account -> User] /\ RowsAreComplete'
  BY <1>1 DEF TypeOK, RowsAreComplete
<1>3. Respects(r, q)
  BY <1>1, <1>2 DEF Respects, TypeOK, Rotated
<1>. QED  BY <1>3, RespectingSteps

LEMMA MarkEmailVerifiedKeeps ==
  ASSUME IInv, NEW r \in Request, MarkEmailVerified(r)
  PROVE  IInv'
<1> DEFINE u == req[r].token.user
<1>1. req[r].at = "markEmailVerified" /\ UNCHANGED <<evt, prt, mail, sessions>>
  BY DEF MarkEmailVerified, At
<1>2. req[r] \in Row /\ HasRead(req[r]) /\ TypeOK
  BY AboutTo
<1>3. u \in Account
  BY <1>1, <1>2 DEF HasRead, Needs, Row
<1>4. CASE users' = [users EXCEPT ![u].verified = TRUE] /\ Answer(r, "ok")
  <2> DEFINE n == [users[u] EXCEPT !.verified = TRUE]
  <2>1. /\ n \in User /\ n.epoch = users[u].epoch /\ n.password = users[u].password
        /\ n.email = users[u].email /\ n.status = users[u].status
    BY <1>3, AboutTo DEF User
  <2>2. users' = [users EXCEPT ![u] = n]
    BY <1>4
  <2>3. PICK q \in Row : /\ req' = [req EXCEPT ![r] = q] /\ q.at = "done" /\ q.epoch = None
                         /\ HasRead(q)
    BY <1>2, <1>4, Answered
  <2> HIDE DEF n
  <2>. QED  BY <1>1, <1>3, <2>1, <2>2, <2>3, HarmlessUpdates DEF Rotated, Needs
<1>5. CASE Answer(r, "gone") /\ UNCHANGED users
  BY <1>1, <1>5, AnsweringSteps
<1>. QED  BY <1>4, <1>5 DEF MarkEmailVerified

LEMMA SetPendingEmailKeeps ==
  ASSUME IInv, NEW r \in Request, SetPendingEmail(r)
  PROVE  IInv'
<1> DEFINE u == req[r].user
<1>1. req[r].op = "changeEmail" /\ req[r].at = "setPendingEmail" /\ UNCHANGED <<evt, prt, mail, sessions>>
  BY DEF SetPendingEmail, At
<1>2. req[r] \in Row /\ HasRead(req[r]) /\ TypeOK
  BY AboutTo
<1>3. u \in Account
  BY <1>1, <1>2 DEF HasRead, Needs
<1>4. CASE users' = [users EXCEPT ![u].pending = req[r].email] /\ Go(r, "issueVerification")
  <2> DEFINE n == [users[u] EXCEPT !.pending = req[r].email]
  <2>1. /\ n \in User /\ n.epoch = users[u].epoch /\ n.password = users[u].password
        /\ n.email = users[u].email /\ n.status = users[u].status
    BY <1>2, <1>3, AboutTo DEF User, Row
  <2>2. users' = [users EXCEPT ![u] = n]
    BY <1>4
  <2>3. PICK q \in Row : /\ req' = [req EXCEPT ![r] = q] /\ q.at = "issueVerification"
                         /\ q.op = req[r].op /\ q.user = req[r].user /\ q.email = req[r].email
                         /\ q.epoch = req[r].epoch
    BY <1>2, <1>4, Went DEF Step
  <2>4. HasRead(q)
    BY <1>1, <1>2, <2>3 DEF HasRead, Needs
  <2>. QED  BY <1>1, <1>3, <2>1, <2>2, <2>3, <2>4, HarmlessUpdates DEF Rotated, Needs
<1>5. CASE Answer(r, "ok") /\ UNCHANGED users
  BY <1>1, <1>5, AnsweringSteps
<1>. QED  BY <1>4, <1>5 DEF SetPendingEmail

LEMMA ClearPendingEmailKeeps ==
  ASSUME IInv, NEW r \in Request, ClearPendingEmail(r)
  PROVE  IInv'
<1> DEFINE u == req[r].user
<1>1. req[r].op = "cancelEmail" /\ req[r].at = "clearPendingEmail" /\ UNCHANGED <<evt, prt, mail, sessions>>
  BY DEF ClearPendingEmail, At
<1>2. req[r] \in Row /\ HasRead(req[r]) /\ TypeOK
  BY AboutTo
<1>3. u \in Account
  BY <1>1, <1>2 DEF HasRead, Needs
<1>4. CASE users' = [users EXCEPT ![u].pending = None] /\ Answer(r, "ok")
  <2> DEFINE n == [users[u] EXCEPT !.pending = None]
  <2>1. /\ n \in User /\ n.epoch = users[u].epoch /\ n.password = users[u].password
        /\ n.email = users[u].email /\ n.status = users[u].status
    BY <1>3, AboutTo DEF User
  <2>2. users' = [users EXCEPT ![u] = n]
    BY <1>4
  <2>3. PICK q \in Row : /\ req' = [req EXCEPT ![r] = q] /\ q.at = "done" /\ q.epoch = None
                         /\ HasRead(q)
    BY <1>2, <1>4, Answered
  <2> HIDE DEF n
  <2>. QED  BY <1>1, <1>3, <2>1, <2>2, <2>3, HarmlessUpdates DEF Rotated, Needs
<1>5. CASE Answer(r, "denied") /\ UNCHANGED users
  BY <1>1, <1>5, AnsweringSteps
<1>. QED  BY <1>4, <1>5 DEF ClearPendingEmail

LEMMA SoftDeleteUserKeeps ==
  ASSUME IInv, NEW r \in Request, SoftDeleteUser(r)
  PROVE  IInv'
<1> DEFINE u == req[r].user
<1>1. req[r].op = "close" /\ req[r].at = "softDelete" /\ UNCHANGED <<evt, prt, mail, sessions>>
  BY DEF SoftDeleteUser, At
<1>2. req[r] \in Row /\ HasRead(req[r]) /\ TypeOK
  BY AboutTo
<1>3. u \in Account
  BY <1>1, <1>2 DEF HasRead, Needs
<1>4. CASE Answer(r, "denied") /\ UNCHANGED users
  BY <1>1, <1>4, AnsweringSteps
<1>5. CASE /\ users' = IF users[u].status = "DELETED" THEN users
                       ELSE [users EXCEPT ![u].status = "DELETED", ![u].pending = None]
           /\ Go(r, "invalidateResetTokens")
  <2>1. PICK q \in Row : /\ req' = [req EXCEPT ![r] = q] /\ q.at = "invalidateResetTokens"
                         /\ q.op = req[r].op /\ q.user = req[r].user
                         /\ q.epoch = req[r].epoch
    BY <1>2, <1>5, Went DEF Step
  <2>2. HasRead(q)
    BY <1>1, <1>3, <2>1 DEF HasRead, Needs
  <2> DEFINE n == IF users[u].status = "DELETED" THEN users[u]
                  ELSE [users[u] EXCEPT !.status = "DELETED", !.pending = None]
  <2>3. n \in User /\ n.epoch = users[u].epoch /\ n.password = users[u].password
        /\ n.email = users[u].email
    BY <1>3, AboutTo DEF User, Status
  <2>4. users' = [users EXCEPT ![u] = n]
    BY <1>2, <1>5 DEF TypeOK
  <2>5. n.status = "DELETED"
    BY <1>3, AboutTo DEF User
  <2>. QED  BY <1>1, <1>3, <2>1, <2>2, <2>3, <2>4, <2>5, HarmlessUpdates DEF Rotated, Needs
<1>. QED  BY <1>4, <1>5 DEF SoftDeleteUser

LEMMA UpdatePasswordHashKeeps ==
  ASSUME IInv, NEW r \in Request, UpdatePasswordHash(r)
  PROVE  IInv'
<1> DEFINE u == req[r].user
<1>1. req[r].op = "changePassword" /\ req[r].at = "updatePasswordHash" /\ UNCHANGED <<evt, prt, mail, sessions>>
  BY DEF UpdatePasswordHash, At
<1>2. req[r] \in Row /\ HasRead(req[r]) /\ TypeOK
  BY AboutTo
<1>3. u \in Account
  BY <1>1, <1>2 DEF HasRead, Needs
<1>4. CASE /\ users[u].status = "ACTIVE"
           /\ users' = [users EXCEPT ![u] = NewCredentials(@, r)]
           /\ Go(r, "invalidateAndReissue")
  <2> DEFINE n == NewCredentials(users[u], r)
  <2>1. /\ n \in User /\ n.email \in Email /\ n.password = r /\ n.epoch = r
    BY <1>3, <1>4, NewCredentialsFit
  <2>2. users' = [users EXCEPT ![u] = n]
    BY <1>4
  <2>3. PICK q \in Row : /\ req' = [req EXCEPT ![r] = q] /\ q.at = "invalidateAndReissue"
                         /\ q.op = req[r].op /\ q.user = req[r].user
                         /\ q.epoch = req[r].epoch
    BY <1>2, <1>4, Went DEF Step
  <2>4. HasRead(q)
    BY <1>1, <1>3, <2>3 DEF HasRead, Needs
  <2>5. users' \in [Account -> User] /\ RowsAreComplete'
    BY <1>2, <2>1, <2>2, AboutTo DEF TypeOK, RowsAreComplete, Minted
  <2>6. Respects(r, q)
    BY <1>1, <1>2, <1>3, <2>1, <2>2, <2>3, <2>4, <2>5 DEF Respects, TypeOK, Rotated, Needs
  <2>. QED  BY <2>3, <2>6, RespectingSteps
<1>5. CASE Answer(r, "denied") /\ UNCHANGED users
  BY <1>1, <1>5, AnsweringSteps
<1>. QED  BY <1>4, <1>5 DEF UpdatePasswordHash

LEMMA ConfirmEmailChangeKeeps ==
  ASSUME IInv, NEW r \in Request, ConfirmEmailChange(r)
  PROVE  IInv'
<1> DEFINE t == req[r].token
           u == t.user
<1>1. req[r].op = "verify" /\ req[r].at = "confirmEmailChange" /\ UNCHANGED <<evt, prt, mail, sessions>>
  BY DEF ConfirmEmailChange, At
<1>2. req[r] \in Row /\ HasRead(req[r]) /\ TypeOK /\ RowsAreComplete
  BY AboutTo
<1>3. u \in Account /\ t.email \in Email
  BY <1>1, <1>2 DEF HasRead, Needs, Row
<1>4. ASSUME users[u].status = "ACTIVE",
             users' = [users EXCEPT ![u] =
                        [@ EXCEPT !.email = t.email, !.pending = None, !.verified = TRUE, !.epoch = r]],
             req' = [req EXCEPT ![r].at = "invalidateResetTokens", ![r].user = u]
      PROVE  IInv'
  <2> DEFINE n == [users[u] EXCEPT !.email = t.email, !.pending = None, !.verified = TRUE, !.epoch = r]
             q == [req[r] EXCEPT !.at = "invalidateResetTokens", !.user = u]
  <2>1. /\ n \in User /\ n.epoch = r /\ n.password = users[u].password /\ n.email \in Email
        /\ n.password \in Minted
    BY <1>2, <1>3, <1>4, AboutTo DEF User, Minted, RowsAreComplete
  <2>2. users' = [users EXCEPT ![u] = n]
    BY <1>4
  <2>3. q \in Row /\ req' = [req EXCEPT ![r] = q]
    BY <1>2, <1>3, <1>4 DEF Row, Step
  <2>4. q.at = "invalidateResetTokens" /\ q.op = "verify" /\ q.epoch = req[r].epoch /\ HasRead(q)
    BY <1>1, <1>2, <1>3 DEF HasRead, Needs, Row
  <2> HIDE DEF n, q
  <2>5. users' \in [Account -> User] /\ RowsAreComplete'
    BY <1>2, <2>1, <2>2 DEF TypeOK, RowsAreComplete, Minted
  <2>6. Respects(r, q)
    BY <1>1, <1>2, <1>3, <2>1, <2>2, <2>3, <2>4, <2>5 DEF Respects, TypeOK, Rotated, Needs
  <2>. QED  BY <2>3, <2>6, RespectingSteps
<1>5. CASE Answer(r, "gone") /\ UNCHANGED users
  BY <1>1, <1>5, AnsweringSteps
<1>. QED  BY <1>4, <1>5 DEF ConfirmEmailChange

LEMMA ConsumeAndSetKeeps ==
  ASSUME IInv, NEW r \in Request, ConsumeTokenAndSetPassword(r)
  PROVE  IInv'
<1> DEFINE mine == {t \in prt : t.id = req[r].token.id /\ ~t.used}
           to == {u \in Account : /\ users[u].status = "ACTIVE"
                                  /\ \E t \in mine : t.user = u /\ t.email = users[u].email}
<1>1. /\ req[r].op = "reset" /\ req[r].at = "consumeAndSet" /\ UNCHANGED <<evt, mail, sessions>>
      /\ prt' = Spent(prt, mine)
      /\ users' = [u \in Account |-> IF u \in to THEN NewCredentials(users[u], r) ELSE users[u]]
      /\ Answer(r, IF to = {} THEN "gone" ELSE "ok")
  BY DEF ConsumeTokenAndSetPassword, At
<1>2. req[r] \in Row /\ HasRead(req[r]) /\ TypeOK /\ RowsAreComplete
  BY AboutTo
<1>3. PICK q \in Row : /\ req' = [req EXCEPT ![r] = q]
                       /\ q.at = "done" /\ q.op = req[r].op /\ q.epoch = None /\ HasRead(q)
  BY <1>1, <1>2, Answered
<1>4. prt' \subseteq Token
  BY <1>1, <1>2, SpentFits DEF TypeOK
<1>5. \A u \in Account : users[u].status = "ACTIVE" =>
        LET n == NewCredentials(users[u], r) IN
        /\ n \in User /\ n.email \in Email /\ n.password = r /\ n.epoch = r
  BY NewCredentialsFit
<1>6. \A u \in to : u \in Account /\ users[u].status = "ACTIVE"
  OBVIOUS
<1> HIDE DEF to
<1>7. users' \in [Account -> User] /\ RowsAreComplete'
  BY <1>1, <1>2, <1>5, <1>6 DEF TypeOK, RowsAreComplete, Minted
<1>8. Respects(r, q)
  BY <1>1, <1>2, <1>3, <1>4, <1>5, <1>6, <1>7 DEF Respects, TypeOK, Rotated, Needs
<1>. QED  BY <1>3, <1>8, RespectingSteps

LEMMA InvalidateResetTokensKeeps ==
  ASSUME IInv, NEW r \in Request, InvalidateResetTokens(r)
  PROVE  IInv'
<1>1. /\ req[r].at = "invalidateResetTokens" /\ UNCHANGED <<users, evt, mail, sessions>>
      /\ prt' = Spent(prt, Live(prt, req[r].user)) /\ Answer(r, "ok")
  BY DEF InvalidateResetTokens
<1>2. req[r] \in Row /\ TypeOK /\ RowsAreComplete
  BY AboutTo
<1>3. PICK q \in Row : /\ req' = [req EXCEPT ![r] = q]
                       /\ q.at = "done" /\ q.op = req[r].op /\ q.epoch = None /\ HasRead(q)
  BY <1>1, <1>2, Answered
<1>4. prt' \subseteq Token
  BY <1>1, <1>2, SpentFits DEF TypeOK
<1>5. RowsAreComplete'
  BY <1>1, <1>2 DEF RowsAreComplete
<1>6. Respects(r, q)
  BY <1>1, <1>2, <1>3, <1>4, <1>5 DEF Respects, TypeOK, Rotated, Needs
<1>. QED  BY <1>3, <1>6, RespectingSteps

(* A cookie is issued: it may not contradict the row it will be read with. *)
LEMMA IssuingSteps ==
  ASSUME IInv, NEW r \in Request, req[r].at \in {"sign", "invalidateAndReissue"},
         NEW s \in Session, sessions' = sessions \cup {s}, Answer(r, "ok"),
         s.epoch = r \/ s.epoch = req[r].epoch, s.epoch = r => req[r].at \in Rotated,
         users[s.user].epoch = s.epoch => users[s.user].password = s.password,
         prt' \subseteq Token, UNCHANGED <<users, evt, mail>>
  PROVE  IInv'
<1>1. /\ TypeOK /\ RowsAreComplete /\ HandlersHaveRead /\ EpochsAreFresh /\ PendingSessions
      /\ CurrentSessionsKnowThePassword /\ LinksAreFresh /\ ClicksKnowTheAddress
  BY DEF IInv
<1>2. PICK q \in Row : /\ req' = [req EXCEPT ![r] = q]
                       /\ q.at = "done" /\ q.op = req[r].op /\ q.link = req[r].link
                       /\ q.epoch = None /\ HasRead(q)
  BY <1>1, Answered
<1>3. /\ req'[r] = q /\ \A k \in Request \ {r} : req'[k] = req[k]
      /\ req' \in [Request -> Row]
  BY <1>1, <1>2 DEF TypeOK
<1>4. TypeOK'
  BY <1>1, <1>3 DEF TypeOK
<1>5. RowsAreComplete' /\ CurrentSessionsKnowThePassword'
  BY <1>1 DEF RowsAreComplete, CurrentSessionsKnowThePassword
<1>6. HandlersHaveRead'
  <2>1. \A k \in Request : HasRead(req'[k])
    BY <1>1, <1>2, <1>3 DEF HandlersHaveRead
  <2>. QED  BY <2>1 DEF HandlersHaveRead, HasRead
<1>7. EpochsAreFresh'
  <2> SUFFICES ASSUME NEW l \in Request, req'[l].at \notin Rotated
               PROVE  /\ \A u \in Account : users[u].epoch # l
                      /\ \A k \in sessions' : k.epoch # l
                      /\ \A k \in Request : req'[k].epoch # l
    BY DEF EpochsAreFresh, Rotated
  <2>1. l # r /\ req[l].at \notin Rotated
    BY <1>2, <1>3 DEF Rotated
  <2>2. /\ \A u \in Account : users[u].epoch # l
        /\ \A k \in sessions : k.epoch # l
        /\ \A k \in Request : req[k].epoch # l
    BY <1>1, <2>1 DEF EpochsAreFresh
  <2>. QED  BY <1>2, <1>3, <2>1, <2>2, FreshNames
<1>8. PendingSessions'
  BY <1>1, <1>2, <1>3 DEF PendingSessions
<1>9. LinksAreFresh' /\ ClicksKnowTheAddress'
  BY <1>1, <1>2, <1>3 DEF LinksAreFresh, ClicksKnowTheAddress, Needs
<1>. QED  BY <1>4, <1>5, <1>6, <1>7, <1>8, <1>9 DEF IInv

LEMMA SignAuthTokenKeeps ==
  ASSUME IInv, NEW r \in Request, SignAuthToken(r)
  PROVE  IInv'
<1> DEFINE s == [user |-> req[r].user, epoch |-> req[r].epoch, password |-> req[r].password]
<1>1. /\ req[r].at = "sign" /\ sessions' = sessions \cup {s} /\ Answer(r, "ok")
      /\ UNCHANGED <<users, evt, prt, mail>>
  BY DEF SignAuthToken, At
<1>2. HasRead(req[r]) /\ TypeOK
  BY AboutTo
<1>3. s \in Session
  BY <1>1, <1>2 DEF HasRead, Needs, Session
<1>4. req[r].epoch # r
  BY <1>1 DEF IInv, EpochsAreFresh, Rotated
<1>5. users[s.user].epoch = s.epoch => users[s.user].password = s.password
  BY <1>1 DEF IInv, PendingSessions
<1>6. prt' \subseteq Token
  BY <1>1, <1>2 DEF TypeOK
<1>. QED  BY <1>1, <1>3, <1>4, <1>5, <1>6, IssuingSteps

LEMMA InvalidateAndReissueKeeps ==
  ASSUME IInv, NEW r \in Request, InvalidateAndReissue(r)
  PROVE  IInv'
<1> DEFINE s == [user |-> req[r].user, epoch |-> r, password |-> r]
<1>1. /\ req[r].at = "invalidateAndReissue" /\ sessions' = sessions \cup {s} /\ Answer(r, "ok")
      /\ UNCHANGED <<users, evt, mail>> /\ prt' = Spent(prt, Live(prt, req[r].user))
  BY DEF InvalidateAndReissue, At
<1>2. HasRead(req[r]) /\ TypeOK
  BY AboutTo
<1>3. s \in Session
  BY <1>1, <1>2 DEF HasRead, Needs, Session, Minted
<1>4. users[s.user].epoch = s.epoch => users[s.user].password = s.password
  BY <1>1 DEF IInv, PendingSessions
<1>5. prt' \subseteq Token
  BY <1>1, <1>2, SpentFits DEF TypeOK
<1>. QED  BY <1>1, <1>3, <1>4, <1>5, IssuingSteps DEF Rotated

LEMMA ServeKeeps ==
  ASSUME IInv, NEW r \in Request, Serve(r)
  PROVE  IInv'
BY FindForRegistrationKeeps, InsertUserKeeps, ReclaimKeeps, IssueVerificationKeeps,
   ResendVerificationKeeps, FindTokenKeeps, AddressAlreadyConfirmedKeeps, ConsumeTokenKeeps,
   WhichAddressKeeps, MarkEmailVerifiedKeeps, ConfirmEmailChangeKeeps, InvalidateResetTokensKeeps,
   FindWithHashKeeps, SignAuthTokenKeeps, FindForResetKeeps, IssueResetKeeps, FindResetTokenKeeps,
   ConsumeAndSetKeeps, AssertPasswordKeeps, FindNewEmailKeeps, SetPendingEmailKeeps,
   ClearPendingEmailKeeps, UpdatePasswordHashKeeps, InvalidateAndReissueKeeps, SoftDeleteUserKeeps
   DEF Serve

(* The world's steps touch no request, password, epoch or address. *)
LEMMA WorldKeeps ==
  ASSUME IInv, GrowOld \/ \E u \in Account : Suspend(u)
  PROVE  IInv'
<1>1. /\ TypeOK /\ RowsAreComplete /\ HandlersHaveRead /\ EpochsAreFresh /\ PendingSessions
      /\ CurrentSessionsKnowThePassword /\ LinksAreFresh /\ ClicksKnowTheAddress
  BY DEF IInv
<1>2. ASSUME NEW t \in SUBSET Token, NEW o \in t
      PROVE  /\ Grown(t, o) \subseteq Token
             /\ \A k \in Grown(t, o) : \E p \in t : k.link = p.link /\ k.user = p.user /\ k.email = p.email
  <2> DEFINE n == [o EXCEPT !.age = Older(o.age)]
  <2>1. o \in Token
    OBVIOUS
  <2>2. Older(o.age) \in Age
    BY DEF Older, Age
  <2>3. n \in Token /\ n.link = o.link /\ n.user = o.user /\ n.email = o.email
    BY <2>1, <2>2 DEF Token
  <2>. QED  BY <2>3 DEF Grown
<1>3. /\ UNCHANGED <<mail, sessions, req>> /\ evt' \subseteq Token /\ prt' \subseteq Token
      /\ \A k \in evt' : \E p \in evt : k.link = p.link /\ k.user = p.user /\ k.email = p.email
  BY <1>1, <1>2 DEF GrowOld, Suspend, TypeOK
<1>4. /\ users' \in [Account -> User]
      /\ \A u \in Account :
           /\ users'[u].epoch = users[u].epoch /\ users'[u].password = users[u].password
           /\ users'[u].email = users[u].email
           /\ users'[u].status = "ACTIVE" => users[u].status = "ACTIVE"
  BY <1>1 DEF GrowOld, Suspend, TypeOK, User, Status
<1>5. TypeOK' /\ RowsAreComplete'
  BY <1>1, <1>3, <1>4 DEF TypeOK, RowsAreComplete
<1>6. HandlersHaveRead'
  <2>1. \A k \in Request : HasRead(req'[k])
    BY <1>1, <1>3 DEF HandlersHaveRead
  <2>. QED  BY <2>1 DEF HandlersHaveRead, HasRead
<1>7. EpochsAreFresh'
  BY <1>1, <1>3, <1>4 DEF EpochsAreFresh
<1>8. CurrentSessionsKnowThePassword'
  BY <1>1, <1>3, <1>4 DEF CurrentSessionsKnowThePassword, TypeOK, Session
<1>9. PendingSessions'
  <2>1. ASSUME NEW k \in Request, req[k].at \in {"sign", "invalidateAndReissue"}
        PROVE  req[k].user \in Account
    BY <1>1, <2>1 DEF HandlersHaveRead, HasRead, Needs
  <2>. QED  BY <1>1, <1>3, <1>4, <2>1 DEF PendingSessions
<1>10. LinksAreFresh' /\ ClicksKnowTheAddress'
  BY <1>1, <1>3 DEF LinksAreFresh, ClicksKnowTheAddress
<1>. QED  BY <1>5, <1>6, <1>7, <1>8, <1>9, <1>10 DEF IInv

LEMMA InitGood == Init => IInv
<1> SUFFICES ASSUME Init PROVE IInv
  OBVIOUS
<1>1. \A r \in Request : req[r] = Idle
  BY DEF Init
<1>2. Idle \in Row /\ HasRead(Idle)
  BY DEF Idle, Row, Step, HasRead, Needs
<1>3. /\ Absent \in User
      /\ \A e \in Email, v \in BOOLEAN :
           LET n == [NewUser(e, First) EXCEPT !.verified = v] IN
           /\ n \in User /\ n.email = e /\ n.password = First /\ n.epoch = First
  BY DEF Absent, User, NewUser, Minted, Status
<1>4. users \in [Account -> User]
  BY <1>3 DEF Init
<1>5. \A u \in Account : users[u] = Absent \/
        (users[u].email \in Email /\ users[u].password = First /\ users[u].epoch = First)
  <2> SUFFICES ASSUME NEW u \in Account, users[u] # Absent
               PROVE  users[u].email \in Email /\ users[u].password = First /\ users[u].epoch = First
    OBVIOUS
  <2>1. PICK e \in Email, v \in BOOLEAN : users[u] = [NewUser(e, First) EXCEPT !.verified = v]
    BY DEF Init
  <2>. QED  BY <1>3, <2>1
<1>6. \A s \in sessions : s \in Session /\ s.epoch = First /\ s.password = First /\ users[s.user] # Absent
  BY DEF Init, Session, Minted
<1>7. TypeOK
  BY <1>1, <1>2, <1>4, <1>6 DEF Init, TypeOK
<1>8. RowsAreComplete
  BY <1>5 DEF RowsAreComplete, Absent, Minted
<1>9. HandlersHaveRead
  BY <1>1, <1>2 DEF HandlersHaveRead
<1>10. EpochsAreFresh
  BY <1>1, <1>5, <1>6, FreshNames DEF EpochsAreFresh, Absent, Idle
<1>11. PendingSessions /\ LinksAreFresh /\ ClicksKnowTheAddress
  BY <1>1 DEF PendingSessions, LinksAreFresh, ClicksKnowTheAddress, Idle, Init, Needs
<1>12. CurrentSessionsKnowThePassword
  BY <1>5, <1>6, <1>7 DEF CurrentSessionsKnowThePassword, TypeOK, Session
<1>. QED  BY <1>7, <1>8, <1>9, <1>10, <1>11, <1>12 DEF IInv

LEMMA NextKeeps == IInv /\ [Next]_vars => IInv'
<1> SUFFICES ASSUME IInv, [Next]_vars PROVE IInv'
  OBVIOUS
<1>1. CASE UNCHANGED vars
  BY <1>1 DEF vars, IInv, TypeOK, RowsAreComplete, HandlersHaveRead, HasRead, EpochsAreFresh,
     PendingSessions, CurrentSessionsKnowThePassword, LinksAreFresh, ClicksKnowTheAddress
<1>2. ASSUME NEW r \in Request, Arrive(r) \/ Serve(r) \/ Abandon(r)
      PROVE  IInv'
  BY <1>2, ArriveKeeps, ServeKeeps, AbandonKeeps
<1>3. CASE GrowOld \/ \E u \in Account : Suspend(u)
  BY <1>3, WorldKeeps
<1>. QED  BY <1>1, <1>2, <1>3 DEF Next

(* What the requests in flight know and what nobody knows yet stays true   *)
(* of the tables whatever the others commit.                               *)
THEOREM Inductive == Spec => []IInv
BY InitGood, NextKeeps, PTL DEF Spec

(* Every variable keeps the shape its table or handler gives it. *)
THEOREM Typed == Spec => []TypeOK
<1>1. IInv => TypeOK
  BY DEF IInv
<1>. QED  BY <1>1, Inductive, PTL

(* A cookie that authenticates rests on the account's present password,    *)
(* however many requests were under way when the password was replaced.    *)
THEOREM SessionsEndWithThePassword == Spec => []CurrentSessionsKnowThePassword
<1>1. IInv => CurrentSessionsKnowThePassword
  BY DEF IInv
<1>. QED  BY <1>1, Inductive, PTL

(* The statements that write the users table, each for the row it finds. *)
LEMMA WritersOfUsers ==
  ASSUME IInv, NEW r \in Request, Arrive(r) \/ Serve(r) \/ Abandon(r)
  PROVE  \/ users' = users
         \/ InsertUser(r) \/ ReclaimUnverifiedRegistration(r) \/ MarkEmailVerified(r)
         \/ ConfirmEmailChange(r) \/ ConsumeTokenAndSetPassword(r) \/ SetPendingEmail(r)
         \/ ClearPendingEmail(r) \/ UpdatePasswordHash(r) \/ SoftDeleteUser(r)
BY DEF Serve, Arrive, Abandon, FindForRegistration, IssueVerification, ResendVerification, FindToken,
   AddressAlreadyConfirmed, ConsumeToken, WhichAddress, InvalidateResetTokens, FindWithHash,
   SignAuthToken, FindForReset, IssuePasswordResetToken, FindResetToken, AssertPassword,
   FindNewEmail, InvalidateAndReissue

StaysPut(u) ==
    users[u].status \in {"SUSPENDED", "DELETED"} =>
        /\ users'[u].status \in {users[u].status, "DELETED"}
        /\ users'[u].email = users[u].email
        /\ users'[u].password = users[u].password
        /\ users'[u].epoch = users[u].epoch

(* Nothing under way when an account was suspended or closed brings it     *)
(* back or gives it another address, password or session epoch.            *)
THEOREM ClosedForGood == Spec => ClosedAccountsStayPut
<1>1. ASSUME IInv, NEW u \in Account, NEW r \in Request, Arrive(r) \/ Serve(r) \/ Abandon(r)
      PROVE  StaysPut(u)
  <2>1. users[u] \in User /\ users \in [Account -> User] /\ req[r] \in Row
    BY <1>1, AboutTo DEF TypeOK
  <2>2. CASE users' = users
    BY <2>2 DEF StaysPut
  <2>3. CASE InsertUser(r)
    BY <2>1, <2>3 DEF InsertUser, StaysPut, Absent
  <2>4. CASE ReclaimUnverifiedRegistration(r)
    BY <2>1, <2>4 DEF ReclaimUnverifiedRegistration, StaysPut
  <2>5. CASE MarkEmailVerified(r)
    BY <2>1, <2>5 DEF MarkEmailVerified, StaysPut, User
  <2>6. CASE ConfirmEmailChange(r)
    BY <2>1, <2>6 DEF ConfirmEmailChange, StaysPut
  <2>7. CASE ConsumeTokenAndSetPassword(r)
    BY <2>1, <2>7 DEF ConsumeTokenAndSetPassword, StaysPut
  <2>8. CASE SetPendingEmail(r)
    BY <2>1, <2>8 DEF SetPendingEmail, StaysPut
  <2>9. CASE ClearPendingEmail(r)
    BY <2>1, <2>9 DEF ClearPendingEmail, StaysPut
  <2>10. CASE UpdatePasswordHash(r)
    BY <2>1, <2>10 DEF UpdatePasswordHash, StaysPut
  <2>11. CASE SoftDeleteUser(r)
    BY <2>1, <2>11 DEF SoftDeleteUser, StaysPut, User
  <2>. QED  BY <1>1, <2>2, <2>3, <2>4, <2>5, <2>6, <2>7, <2>8, <2>9, <2>10, <2>11, WritersOfUsers
<1>2. ASSUME IInv, NEW u \in Account, GrowOld \/ \E w \in Account : Suspend(w)
      PROVE  StaysPut(u)
  BY <1>2, AboutTo DEF GrowOld, Suspend, StaysPut, IInv, TypeOK, User
<1>3. IInv /\ [Next]_vars => [\A u \in Account : StaysPut(u)]_vars
  BY <1>1, <1>2 DEF Next
<1>4. [][\A u \in Account : StaysPut(u)]_vars => ClosedAccountsStayPut
  BY PTL DEF ClosedAccountsStayPut, StaysPut
<1>. QED  BY <1>3, <1>4, Inductive, PTL DEF Spec

Proven(u) ==
    users'[u].verified /\ (~users[u].verified \/ users'[u].email # users[u].email)
        => Clicked(u, users'[u].email)

(* A confirmed address was clicked for on a link mailed to it, whatever    *)
(* became of the token's row between the click and the claim.              *)
THEOREM ConfirmedMeansClicked == Spec => AddressesAreProven
<1>1. ASSUME IInv, NEW u \in Account, NEW r \in Request, Arrive(r) \/ Serve(r) \/ Abandon(r)
      PROVE  Proven(u)
  <2>1. users[u] \in User /\ users \in [Account -> User] /\ req[r] \in Row /\ HasRead(req[r])
    BY <1>1, AboutTo DEF TypeOK
  <2>2. CASE users' = users
    BY <2>2 DEF Proven
  <2>3. CASE InsertUser(r)
    BY <2>1, <2>3 DEF InsertUser, Proven, NewUser, Absent
  <2>0. LET n == NewCredentials(users[u], r) IN
        n.verified = users[u].verified /\ n.email = users[u].email
    BY <2>1 DEF NewCredentials, User
  <2>4. CASE ReclaimUnverifiedRegistration(r)
    BY <2>0, <2>1, <2>4 DEF ReclaimUnverifiedRegistration, Proven
  <2>5. req[r].op = "verify" /\ req[r].at \in {"markEmailVerified", "confirmEmailChange"} =>
          Clicked(req[r].token.user, req[r].token.email)
    <3> SUFFICES ASSUME req[r].op = "verify", req[r].at \in {"markEmailVerified", "confirmEmailChange"}
                 PROVE  Clicked(req[r].token.user, req[r].token.email)
      OBVIOUS
    <3>1. mail[req[r].link] = [purpose |-> "verify", user |-> req[r].token.user,
                               email |-> req[r].token.email]
      BY <1>1 DEF IInv, ClicksKnowTheAddress, Needs
    <3>. QED  BY <3>1 DEF Clicked
  <2>6. CASE MarkEmailVerified(r)
    BY <2>1, <2>5, <2>6 DEF MarkEmailVerified, Proven, User, At
  <2>7. CASE ConfirmEmailChange(r)
    <3> DEFINE t == req[r].token
               n == [users[t.user] EXCEPT !.email = t.email, !.pending = None, !.verified = TRUE, !.epoch = r]
    <3>1. req[r].op = "verify" /\ req[r].at = "confirmEmailChange"
          /\ (users' = [users EXCEPT ![t.user] = n] \/ users' = users)
      BY <2>7 DEF ConfirmEmailChange, At
    <3>2. t.user = u => n.email = t.email
      BY <2>1 DEF User
    <3>. QED  BY <2>1, <2>5, <3>1, <3>2 DEF Proven
  <2>8. CASE ConsumeTokenAndSetPassword(r)
    BY <2>0, <2>1, <2>8 DEF ConsumeTokenAndSetPassword, Proven
  <2>9. CASE SetPendingEmail(r)
    BY <2>1, <2>9 DEF SetPendingEmail, Proven, User
  <2>10. CASE ClearPendingEmail(r)
    BY <2>1, <2>10 DEF ClearPendingEmail, Proven, User
  <2>11. CASE UpdatePasswordHash(r)
    BY <2>0, <2>1, <2>11 DEF UpdatePasswordHash, Proven
  <2>12. CASE SoftDeleteUser(r)
    BY <2>1, <2>12 DEF SoftDeleteUser, Proven, User
  <2>. QED  BY <1>1, <2>2, <2>3, <2>4, <2>6, <2>7, <2>8, <2>9, <2>10, <2>11, <2>12, WritersOfUsers
<1>2. ASSUME IInv, NEW u \in Account, GrowOld \/ \E w \in Account : Suspend(w)
      PROVE  Proven(u)
  BY <1>2, AboutTo DEF GrowOld, Suspend, Proven, IInv, TypeOK, User
<1>3. IInv /\ [Next]_vars => [\A u \in Account : Proven(u)]_vars
  BY <1>1, <1>2 DEF Next
<1>4. [][\A u \in Account : Proven(u)]_vars => AddressesAreProven
  BY PTL DEF AddressesAreProven, Proven
<1>. QED  BY <1>3, <1>4, Inductive, PTL DEF Spec
=============================================================================

------------------------------ MODULE Accounts ------------------------------
(***************************************************************************)
(* Registration, confirmation, sign-in, password reset and the sensitive   *)
(* half of the profile: authService.js and profileService.js over the      *)
(* users, email_verification_tokens and password_reset_tokens tables.      *)
(*                                                                         *)
(* A request is a row of req that runs its handler one statement at a      *)
(* time; anything may happen between two statements, and a crash may end   *)
(* it there.  What a request mints is fresh (a random link, a random       *)
(* session epoch, the hash of the password it brought), so each is named   *)
(* after the request itself.                                               *)
(***************************************************************************)
EXTENDS Naturals, FiniteSets

CONSTANTS Account,    \* rows the users table may hold
          Email,      \* addresses, compared without case
          Request,    \* the HTTP requests of a run, each served once
          Operation,  \* which operations a run's requests perform
          None,       \* SQL NULL, or "not read yet"
          First       \* the password and epoch an account has at the start

ASSUME FreshNames == First \notin Request /\ None \notin Request \cup {First}
ASSUME NoneIsNothing ==
    /\ None \notin Account \cup Email
    /\ None \notin [purpose : {"verify", "reset"}, user : Account, email : Email]
    /\ None \notin [id : Request, user : Account, email : Email]

VARIABLES users,     \* the users table
          evt,       \* email_verification_tokens
          prt,       \* password_reset_tokens
          mail,      \* what the link a request minted was mailed for
          sessions,  \* session cookies ever issued, with the password they rest on
          req        \* the requests

vars == <<users, evt, prt, mail, sessions, req>>

Minted == Request \cup {First}
Status == {"ABSENT", "ACTIVE", "SUSPENDED", "DELETED"}
Age == {"fresh", "aged", "expired"}   \* within the cooldown, past it, past the TTL

User == [email : Email \cup {None}, pending : Email \cup {None}, verified : BOOLEAN,
         password : Minted \cup {None}, epoch : Minted \cup {None}, status : Status]
Token == [id : Request, user : Account, link : Request, email : Email,
          used : BOOLEAN, age : Age]
Letter == [purpose : {"verify", "reset"}, user : Account, email : Email]
Session == [user : Account, epoch : Minted, password : Minted]

Absent == [email |-> None, pending |-> None, verified |-> FALSE,
           password |-> None, epoch |-> None, status |-> "ABSENT"]
NewUser(e, by) == [Absent EXCEPT !.email = e, !.password = by, !.epoch = by, !.status = "ACTIVE"]

Idle == [op |-> None, at |-> "unsent", link |-> None, user |-> None, own |-> None,
         email |-> None, epoch |-> None, password |-> None, token |-> None, answer |-> None]

Step == {"unsent", "findUserByEmail", "insertUser", "reclaim", "issueVerification",
         "lastIssuedAt", "findToken", "alreadyConfirmed", "consumeToken", "findUserById",
         "markEmailVerified", "confirmEmailChange", "invalidateResetTokens", "sign",
         "issueReset", "consumeAndSet", "assertPassword", "findNewEmail", "setPendingEmail",
         "clearPendingEmail", "updatePasswordHash", "invalidateAndReissue", "softDelete", "done"}
Row == [op : {"register", "verify", "login", "forgot", "reset", "resend", "changeEmail",
              "cancelEmail", "changePassword", "close", None},
        at : Step, link : Request \cup {None}, user : Account \cup {None},
        own : Email \cup {None}, email : Email \cup {None}, epoch : Minted \cup {None},
        password : Minted \cup {None},
        token : [id : Request, user : Account, email : Email] \cup {None},
        answer : {"ok", "gone", "denied", None}]

(* uq_users_email_lower makes at most one row match an address. *)
HasEmail(e) == {u \in Account : users[u].email = e}
Taken(e) == HasEmail(e) # {}

At(r, op, step) == req[r].op = op /\ req[r].at = step
Go(r, step) == req' = [req EXCEPT ![r].at = step]
(* The response is sent; what the handler had read goes with it. *)
Answer(r, what) == req' = [req EXCEPT ![r] =
    [Idle EXCEPT !.op = req[r].op, !.at = "done", !.link = req[r].link, !.answer = what]]

(* Both token tables: INSERT .. ON CONFLICT (user_id) WHERE used_at IS NULL *)
(* DO UPDATE.  The live row keeps its id and takes the new link.            *)
Live(table, u) == {t \in table : t.user = u /\ ~t.used}
Issued(table, u, e, r) ==
    IF Live(table, u) = {}
    THEN table \cup {[id |-> r, user |-> u, link |-> r, email |-> e, used |-> FALSE, age |-> "fresh"]}
    ELSE (table \ Live(table, u)) \cup
         {[t EXCEPT !.link = r, !.email = e, !.age = "fresh"] : t \in Live(table, u)}
Spent(table, which) == {IF t \in which THEN [t EXCEPT !.used = TRUE] ELSE t : t \in table}

Init ==
    /\ users \in [Account -> {Absent} \cup {[NewUser(e, First) EXCEPT !.verified = v] :
                                            e \in Email, v \in BOOLEAN}]
    /\ \A u, w \in Account : users[u].email = users[w].email /\ u # w => users[u] = Absent
    /\ evt = {} /\ prt = {}
    /\ mail = [r \in Request |-> None]
    /\ sessions = {[user |-> u, epoch |-> First, password |-> First] :
                    u \in {w \in Account : users[w] # Absent}}
    /\ req = [r \in Request |-> Idle]

-----------------------------------------------------------------------------
(* requireAuth: the row is read on every request, and the cookie's epoch   *)
(* must be the row's.                                                      *)
Authenticated(s) == users[s.user].status = "ACTIVE" /\ users[s.user].epoch = s.epoch

SignedInOperation == {"resend", "changeEmail", "cancelEmail", "changePassword", "close"}
FirstStep(op) ==
    CASE op \in {"register", "forgot", "login"} -> "findUserByEmail"
      [] op \in {"verify", "reset"}             -> "findToken"
      [] op = "resend"                          -> "lastIssuedAt"
      [] op = "cancelEmail"                     -> "clearPendingEmail"
      [] OTHER                                  -> "assertPassword"

ArriveSignedOut(r) ==
    \E op \in Operation \cap {"register", "forgot", "login"}, e \in Email :
        \E p \in IF op = "login" THEN Minted ELSE {None} :
            req' = [req EXCEPT ![r] = [Idle EXCEPT !.op = op, !.at = FirstStep(op),
                                                   !.email = e, !.password = p]]
ArriveFromMail(r) ==
    \E op \in Operation \cap {"verify", "reset"}, l \in {k \in Request : mail[k] # None} :
        /\ mail[l].purpose = op
        /\ req' = [req EXCEPT ![r] = [Idle EXCEPT !.op = op, !.at = FirstStep(op), !.link = l]]
ArriveSignedIn(r) ==
    \E op \in Operation \cap SignedInOperation, s \in sessions :
        /\ Authenticated(s)
        /\ op = "resend" => ~users[s.user].verified
        /\ \E e \in IF op = "changeEmail" THEN Email \ {users[s.user].email} ELSE {None},
              p \in IF FirstStep(op) = "assertPassword" THEN Minted ELSE {None} :
            req' = [req EXCEPT ![r] = [Idle EXCEPT !.op = op, !.at = FirstStep(op),
                !.user = s.user, !.own = users[s.user].email, !.email = e, !.password = p]]
Arrive(r) ==
    /\ req[r].at = "unsent"
    /\ ArriveSignedOut(r) \/ ArriveFromMail(r) \/ ArriveSignedIn(r)
    /\ UNCHANGED <<users, evt, prt, mail, sessions>>

-----------------------------------------------------------------------------
(* register: hash, look up, then insert or reclaim, then mail a link. *)
FindForRegistration(r) ==
    /\ At(r, "register", "findUserByEmail")
    /\ \/ ~Taken(req[r].email) /\ Go(r, "insertUser")
       \/ \E u \in HasEmail(req[r].email) :
            IF users[u].status # "ACTIVE" \/ users[u].verified
            THEN Answer(r, "ok")
            ELSE req' = [req EXCEPT ![r].at = "reclaim", ![r].user = u]
    /\ UNCHANGED <<users, evt, prt, mail, sessions>>
InsertUser(r) ==
    /\ At(r, "register", "insertUser")
    /\ IF Taken(req[r].email)
       THEN Answer(r, "ok") /\ UNCHANGED users
       ELSE \E u \in Account :
              /\ users[u] = Absent
              /\ users' = [users EXCEPT ![u] = NewUser(req[r].email, r)]
              /\ req' = [req EXCEPT ![r].at = "issueVerification", ![r].user = u]
    /\ UNCHANGED <<evt, prt, mail, sessions>>

(* Mutant: a new password that leaves the session epoch alone. *)
NewPasswordOnly(row, r) == [row EXCEPT !.password = r, !.pending = None]
(* A new password, a new epoch and no pending address, in one statement. *)
NewCredentials(row, r) == [row EXCEPT !.password = r, !.epoch = r, !.pending = None]

(* Mutant: trusts the lookup and repeats neither condition in the update. *)
ReclaimWhateverIsThere(r) ==
    /\ At(r, "register", "reclaim")
    /\ LET u == req[r].user IN
       /\ users' = [users EXCEPT ![u] = NewCredentials(@, r)]
       /\ req' = [req EXCEPT ![r].at = "issueVerification", ![r].email = users[u].email]
    /\ UNCHANGED <<evt, prt, mail, sessions>>
ReclaimUnverifiedRegistration(r) ==
    /\ At(r, "register", "reclaim")
    /\ LET u == req[r].user IN
       IF ~users[u].verified /\ users[u].status = "ACTIVE"
       THEN /\ users' = [users EXCEPT ![u] = NewCredentials(@, r)]
            /\ req' = [req EXCEPT ![r].at = "issueVerification", ![r].email = users[u].email]
       ELSE Answer(r, "ok") /\ UNCHANGED users
    /\ UNCHANGED <<evt, prt, mail, sessions>>

(* issueVerificationToken and the mail after it, for register, resend and  *)
(* requestEmailChange alike.                                               *)
IssueVerification(r) ==
    /\ req[r].at = "issueVerification"
    /\ evt' = Issued(evt, req[r].user, req[r].email, r)
    /\ mail' = [mail EXCEPT ![r] = [purpose |-> "verify", user |-> req[r].user, email |-> req[r].email]]
    /\ Answer(r, "ok")
    /\ UNCHANGED <<users, prt, sessions>>

ResendVerification(r) ==
    /\ At(r, "resend", "lastIssuedAt")
    /\ IF \E t \in evt : t.user = req[r].user /\ t.age = "fresh"
       THEN Answer(r, "ok")
       ELSE req' = [req EXCEPT ![r].at = "issueVerification", ![r].email = req[r].own]
    /\ UNCHANGED <<users, evt, prt, mail, sessions>>

-----------------------------------------------------------------------------
(* verifyEmail: find the token by its link, claim it by its id, then see   *)
(* which of the account's two addresses it proves.                         *)
FindToken(r) ==
    /\ At(r, "verify", "findToken")
    /\ \/ (\A t \in evt : t.link # req[r].link) /\ Answer(r, "gone")
       \/ \E t \in evt :
            /\ t.link = req[r].link
            /\ IF t.age = "expired" THEN Answer(r, "gone")
               ELSE req' = [req EXCEPT ![r].token = [id |-> t.id, user |-> t.user, email |-> t.email],
                                       ![r].at = IF t.used THEN "alreadyConfirmed" ELSE "consumeToken"]
    /\ UNCHANGED <<users, evt, prt, mail, sessions>>
AddressAlreadyConfirmed(r) ==
    /\ At(r, "verify", "alreadyConfirmed")
    /\ LET t == req[r].token IN
       Answer(r, IF users[t.user].verified /\ users[t.user].email = t.email THEN "ok" ELSE "gone")
    /\ UNCHANGED <<users, evt, prt, mail, sessions>>
(* Mutant: takes the address from the claimed row instead of the link's. *)
ConsumeReturning(r) ==
    /\ At(r, "verify", "consumeToken")
    /\ LET mine == {t \in evt : t.id = req[r].token.id /\ ~t.used} IN
       /\ evt' = Spent(evt, mine)
       /\ \/ mine = {} /\ Go(r, "alreadyConfirmed")
          \/ \E t \in mine : req' = [req EXCEPT ![r].at = "findUserById", ![r].token.email = t.email]
    /\ UNCHANGED <<users, prt, mail, sessions>>
(* The claim matches the id alone: the row may hold another link by now. *)
ConsumeToken(r) ==
    /\ At(r, "verify", "consumeToken")
    /\ LET mine == {t \in evt : t.id = req[r].token.id /\ ~t.used} IN
       /\ evt' = Spent(evt, mine)
       /\ Go(r, IF mine = {} THEN "alreadyConfirmed" ELSE "findUserById")
    /\ UNCHANGED <<users, prt, mail, sessions>>
WhichAddress(r) ==
    /\ At(r, "verify", "findUserById")
    /\ LET t == req[r].token IN
       CASE users[t.user].email = t.email   -> Go(r, "markEmailVerified")
         [] users[t.user].email # t.email /\ users[t.user].pending = t.email
                                            -> Go(r, "confirmEmailChange")
         [] OTHER                           -> Answer(r, "gone")
    /\ UNCHANGED <<users, evt, prt, mail, sessions>>
MarkEmailVerified(r) ==
    /\ At(r, "verify", "markEmailVerified")
    /\ LET t == req[r].token IN
       IF users[t.user].email = t.email /\ ~users[t.user].verified
       THEN users' = [users EXCEPT ![t.user].verified = TRUE] /\ Answer(r, "ok")
       ELSE Answer(r, "gone") /\ UNCHANGED users
    /\ UNCHANGED <<evt, prt, mail, sessions>>
ConfirmEmailChange(r) ==
    /\ At(r, "verify", "confirmEmailChange")
    /\ LET t == req[r].token IN
       IF users[t.user].pending = t.email /\ users[t.user].status = "ACTIVE"
          /\ HasEmail(t.email) \subseteq {t.user}
       THEN /\ users' = [users EXCEPT ![t.user] =
                          [@ EXCEPT !.email = t.email, !.pending = None, !.verified = TRUE, !.epoch = r]]
            /\ req' = [req EXCEPT ![r].at = "invalidateResetTokens", ![r].user = t.user]
       ELSE Answer(r, "gone") /\ UNCHANGED users
    /\ UNCHANGED <<evt, prt, mail, sessions>>
(* The statement after a confirmed address, a new password or a closed     *)
(* account, in a statement of its own.                                     *)
InvalidateResetTokens(r) ==
    /\ req[r].at = "invalidateResetTokens"
    /\ prt' = Spent(prt, Live(prt, req[r].user))
    /\ Answer(r, "ok")
    /\ UNCHANGED <<users, evt, mail, sessions>>

-----------------------------------------------------------------------------
(* login: the row is read with its hash, then the comparison takes its     *)
(* time, then the token is signed with the epoch as it was read.           *)
FindWithHash(r) ==
    /\ At(r, "login", "findUserByEmail")
    /\ \/ ~Taken(req[r].email) /\ Answer(r, "denied")
       \/ \E u \in HasEmail(req[r].email) :
            IF users[u].password = req[r].password /\ users[u].status = "ACTIVE"
            THEN req' = [req EXCEPT ![r].at = "sign", ![r].user = u, ![r].epoch = users[u].epoch]
            ELSE Answer(r, "denied")
    /\ UNCHANGED <<users, evt, prt, mail, sessions>>
SignAuthToken(r) ==
    /\ At(r, "login", "sign")
    /\ sessions' = sessions \cup {[user |-> req[r].user, epoch |-> req[r].epoch,
                                   password |-> req[r].password]}
    /\ Answer(r, "ok")
    /\ UNCHANGED <<users, evt, prt, mail>>

-----------------------------------------------------------------------------
(* requestPasswordReset and resetPassword *)
FindForReset(r) ==
    /\ At(r, "forgot", "findUserByEmail")
    /\ \/ ~Taken(req[r].email) /\ Answer(r, "ok")
       \/ \E u \in HasEmail(req[r].email) :
            IF users[u].status = "ACTIVE"
            THEN req' = [req EXCEPT ![r].at = "issueReset", ![r].user = u]
            ELSE Answer(r, "ok")
    /\ UNCHANGED <<users, evt, prt, mail, sessions>>
IssuePasswordResetToken(r) ==
    /\ At(r, "forgot", "issueReset")
    /\ IF \E t \in Live(prt, req[r].user) : t.age = "fresh"
       THEN UNCHANGED <<prt, mail>>
       ELSE /\ prt' = Issued(prt, req[r].user, req[r].email, r)
            /\ mail' = [mail EXCEPT ![r] =
                          [purpose |-> "reset", user |-> req[r].user, email |-> req[r].email]]
    /\ Answer(r, "ok")
    /\ UNCHANGED <<users, evt, sessions>>
FindResetToken(r) ==
    /\ At(r, "reset", "findToken")
    /\ \/ (\A t \in prt : t.link # req[r].link) /\ Answer(r, "gone")
       \/ \E t \in prt :
            /\ t.link = req[r].link
            /\ IF t.used \/ t.age = "expired" THEN Answer(r, "gone")
               ELSE req' = [req EXCEPT ![r].at = "consumeAndSet",
                                ![r].token = [id |-> t.id, user |-> t.user, email |-> t.email]]
    /\ UNCHANGED <<users, evt, prt, mail, sessions>>
(* The CTE claims by id; the outer update matches on the claimed row.  The *)
(* claim stands whether or not the update finds a user.                    *)
ConsumeTokenAndSetPassword(r) ==
    /\ At(r, "reset", "consumeAndSet")
    /\ LET mine == {t \in prt : t.id = req[r].token.id /\ ~t.used}
           to == {u \in Account : /\ users[u].status = "ACTIVE"
                                  /\ \E t \in mine : t.user = u /\ t.email = users[u].email} IN
       /\ prt' = Spent(prt, mine)
       /\ users' = [u \in Account |-> IF u \in to THEN NewCredentials(users[u], r) ELSE users[u]]
       /\ Answer(r, IF to = {} THEN "gone" ELSE "ok")
    /\ UNCHANGED <<evt, mail, sessions>>

-----------------------------------------------------------------------------
(* The profile's sensitive operations re-ask for the password. *)
AfterPassword(op) ==
    CASE op = "changeEmail"    -> "findNewEmail"
      [] op = "changePassword" -> "updatePasswordHash"
      [] op = "close"          -> "softDelete"
AssertPassword(r) ==
    /\ req[r].at = "assertPassword"
    /\ IF \E u \in HasEmail(req[r].own) : users[u].password = req[r].password
       THEN Go(r, AfterPassword(req[r].op))
       ELSE Answer(r, "denied")
    /\ UNCHANGED <<users, evt, prt, mail, sessions>>

FindNewEmail(r) ==
    /\ At(r, "changeEmail", "findNewEmail")
    /\ IF Taken(req[r].email) THEN Answer(r, "ok") ELSE Go(r, "setPendingEmail")
    /\ UNCHANGED <<users, evt, prt, mail, sessions>>
SetPendingEmail(r) ==
    /\ At(r, "changeEmail", "setPendingEmail")
    /\ LET u == req[r].user IN
       IF users[u].status = "ACTIVE"
       THEN users' = [users EXCEPT ![u].pending = req[r].email] /\ Go(r, "issueVerification")
       ELSE Answer(r, "ok") /\ UNCHANGED users
    /\ UNCHANGED <<evt, prt, mail, sessions>>
ClearPendingEmail(r) ==
    /\ At(r, "cancelEmail", "clearPendingEmail")
    /\ LET u == req[r].user IN
       IF users[u].status = "ACTIVE"
       THEN users' = [users EXCEPT ![u].pending = None] /\ Answer(r, "ok")
       ELSE Answer(r, "denied") /\ UNCHANGED users
    /\ UNCHANGED <<evt, prt, mail, sessions>>
(* The caller's own cookie is reissued with the epoch just written: when   *)
(* the handler returns, after the links are invalidated.                   *)
UpdatePasswordHash(r) ==
    /\ At(r, "changePassword", "updatePasswordHash")
    /\ LET u == req[r].user IN
       IF users[u].status = "ACTIVE"
       THEN users' = [users EXCEPT ![u] = NewCredentials(@, r)] /\ Go(r, "invalidateAndReissue")
       ELSE Answer(r, "denied") /\ UNCHANGED users
    /\ UNCHANGED <<evt, prt, mail, sessions>>
InvalidateAndReissue(r) ==
    /\ At(r, "changePassword", "invalidateAndReissue")
    /\ prt' = Spent(prt, Live(prt, req[r].user))
    /\ sessions' = sessions \cup {[user |-> req[r].user, epoch |-> r, password |-> r]}
    /\ Answer(r, "ok")
    /\ UNCHANGED <<users, evt, mail>>
(* Whether bookings are still open is AccountClosure's subject. *)
SoftDeleteUser(r) ==
    /\ At(r, "close", "softDelete")
    /\ \/ Answer(r, "denied") /\ UNCHANGED users
       \/ LET u == req[r].user IN
          /\ users' = IF users[u].status = "DELETED" THEN users
                      ELSE [users EXCEPT ![u].status = "DELETED", ![u].pending = None]
          /\ Go(r, "invalidateResetTokens")
    /\ UNCHANGED <<evt, prt, mail, sessions>>

-----------------------------------------------------------------------------
(* The world: staff suspend an account by hand, links grow old, and a      *)
(* crash or a failed statement ends a request where it stands.             *)
Suspend(u) ==
    /\ "suspend" \in Operation
    /\ users[u].status = "ACTIVE"
    /\ users' = [users EXCEPT ![u].status = "SUSPENDED"]
    /\ UNCHANGED <<evt, prt, mail, sessions, req>>
Older(a) == IF a = "fresh" THEN "aged" ELSE "expired"
Grown(table, t) == (table \ {t}) \cup {[t EXCEPT !.age = Older(t.age)]}
GrowOld ==
    /\ \/ \E t \in evt : t.age # "expired" /\ evt' = Grown(evt, t) /\ UNCHANGED prt
       \/ \E t \in prt : t.age # "expired" /\ prt' = Grown(prt, t) /\ UNCHANGED evt
    /\ UNCHANGED <<users, mail, sessions, req>>
Abandon(r) ==
    /\ req[r].at \notin {"unsent", "done"}
    /\ Answer(r, None)
    /\ UNCHANGED <<users, evt, prt, mail, sessions>>

Serve(r) ==
    \/ FindForRegistration(r) \/ InsertUser(r) \/ ReclaimUnverifiedRegistration(r)
    \/ IssueVerification(r) \/ ResendVerification(r)
    \/ FindToken(r) \/ AddressAlreadyConfirmed(r) \/ ConsumeToken(r) \/ WhichAddress(r)
    \/ MarkEmailVerified(r) \/ ConfirmEmailChange(r) \/ InvalidateResetTokens(r)
    \/ FindWithHash(r) \/ SignAuthToken(r)
    \/ FindForReset(r) \/ IssuePasswordResetToken(r)
    \/ FindResetToken(r) \/ ConsumeTokenAndSetPassword(r)
    \/ AssertPassword(r) \/ FindNewEmail(r) \/ SetPendingEmail(r) \/ ClearPendingEmail(r)
    \/ UpdatePasswordHash(r) \/ InvalidateAndReissue(r) \/ SoftDeleteUser(r)

Next == \/ \E r \in Request : Arrive(r) \/ Serve(r) \/ Abandon(r)
        \/ \E u \in Account : Suspend(u)
        \/ GrowOld

Spec == Init /\ [][Next]_vars

-----------------------------------------------------------------------------
(* Every variable has the shape its table or handler gives it. *)
TypeOK ==
    /\ users \in [Account -> User]
    /\ evt \subseteq Token /\ prt \subseteq Token
    /\ mail \in [Request -> {None} \cup Letter]
    /\ sessions \subseteq Session
    /\ req \in [Request -> Row]

(* A cookie that still authenticates rests on the password the account has *)
(* now.  Sign-in reads the row and signs much later, four operations       *)
(* replace the password and one more the epoch alone, in any order.        *)
CurrentSessionsKnowThePassword ==
    \A s \in sessions :
        users[s.user].epoch = s.epoch => users[s.user].password = s.password

(* An address becomes the confirmed address of an account only after a     *)
(* click on a link mailed to that address for that account, although       *)
(* verifyEmail claims a row that may have been given to another address    *)
(* since it was read.                                                      *)
Clicked(u, e) == \E r \in Request : /\ req[r].op = "verify"
                                    /\ mail[req[r].link].user = u /\ mail[req[r].link].email = e
AddressesAreProven ==
    [][\A u \in Account :
        users'[u].verified /\ (~users[u].verified \/ users'[u].email # users[u].email)
            => Clicked(u, users'[u].email)]_vars

(* Nothing that was under way when an account was suspended or closed      *)
(* gives it another address, password or session epoch, or life.           *)
ClosedAccountsStayPut ==
    [][\A u \in Account : users[u].status \in {"SUSPENDED", "DELETED"} =>
        /\ users'[u].status \in {users[u].status, "DELETED"}
        /\ users'[u].email = users[u].email
        /\ users'[u].password = users[u].password
        /\ users'[u].epoch = users[u].epoch]_vars

(* authService.js says a click that lost the race for the token is told    *)
(* what the winner achieved, never an error.  Two clicks on one link that  *)
(* has not expired, whose address the account still has.                   *)
LosingClickIsNoError ==
    \A r, l \in Request :
        /\ req[r].op = "verify" /\ req[r].answer = "ok"
        /\ req[l].op = "verify" /\ req[l].link = req[r].link
        /\ users[mail[req[r].link].user].verified
        /\ users[mail[req[r].link].user].email = mail[req[r].link].email
        /\ \A t \in evt : t.age # "expired"
        => req[l].answer # "gone"

(* verificationTokenRepository.js says that on a resend the link in the    *)
(* older email stops working immediately: a link claims no row but its own.*)
OlderLinkStopsWorking ==
    [][\A r \in Request :
        At(r, "verify", "consumeToken") /\ req'[r].at = "findUserById"
            => \E t \in evt : t.id = req[r].token.id /\ t.link = req[r].link]_vars

(* 002_create_password_reset_tokens.sql says whoever controls the old      *)
(* address cannot set the password once the account has moved.             *)
ResetComesFromTheAddress ==
    [][\A r \in Request, u \in Account :
        At(r, "reset", "consumeAndSet") /\ users'[u].password = r
            => mail[req[r].link].email = users[u].email]_vars

(* authService.js says the statement claims the token and sets the         *)
(* password, or does neither.                                              *)
ClaimsAndSetsOrNeither ==
    [][\A r \in Request :
        At(r, "reset", "consumeAndSet") /\ req'[r].answer = "gone" => prt' = prt]_vars

(* passwordResetTokenRepository.js says a new password leaves no queued    *)
(* email change able to complete: none is queued on an older password.     *)
QueuedOnTheCurrentPassword ==
    [][\A r \in Request :
        At(r, "changeEmail", "setPendingEmail") /\ users' # users
            => users[req[r].user].password = req[r].password]_vars

=============================================================================

-------------------------- MODULE AccountsInvariant --------------------------
(***************************************************************************)
(* The inductive invariant behind the safety properties of Accounts: what  *)
(* a request in flight still knows, and which of the values it will mint   *)
(* are still unknown to everybody.                                         *)
(***************************************************************************)
EXTENDS Accounts

(* An active row of the users table has an address, a password and an epoch. *)
RowsAreComplete ==
    \A u \in Account : users[u].status = "ACTIVE" =>
        users[u].email \in Email /\ users[u].password \in Minted /\ users[u].epoch \in Minted

(* A handler has read what its next statement needs. *)
Needs ==
    [user |-> {"reclaim", "issueVerification", "lastIssuedAt", "invalidateResetTokens", "sign",
               "issueReset", "assertPassword", "findNewEmail", "setPendingEmail",
               "clearPendingEmail", "updatePasswordHash", "invalidateAndReissue", "softDelete"},
     token |-> {"alreadyConfirmed", "consumeToken", "findUserById", "markEmailVerified",
                "confirmEmailChange", "consumeAndSet"},
     email |-> {"insertUser", "issueVerification", "issueReset", "findNewEmail", "setPendingEmail"}]
HasRead(q) ==
    /\ q.at \in Needs.user => q.user \in Account
    /\ q.at \in Needs.token => q.token # None /\ q.link \in Request
    /\ q.at \in Needs.email => q.email \in Email
    /\ q.op \in {"register", "forgot"} /\ q.at = "findUserByEmail" => q.email \in Email
    /\ q.op = "changeEmail" /\ q.at \in {"assertPassword", "findNewEmail"} => q.email \in Email
    /\ q.at = "lastIssuedAt" => q.own \in Email
    /\ q.op = "login" /\ q.at \in {"findUserByEmail", "sign"} => q.password \in Minted
    /\ q.at = "sign" => q.op = "login" /\ q.epoch \in Minted
    /\ q.at = "findToken" => q.link \in Request
    /\ q.at = "assertPassword" => q.op \in {"changeEmail", "changePassword", "close"}
HandlersHaveRead == \A r \in Request : HasRead(req[r])

(* The epoch a request will mint is nobody's before its statement ran. *)
Rotated == {"issueVerification", "invalidateResetTokens", "invalidateAndReissue", "done"}
EpochsAreFresh ==
    \A r \in Request : req[r].at \notin Rotated =>
        /\ \A u \in Account : users[u].epoch # r
        /\ \A s \in sessions : s.epoch # r
        /\ \A l \in Request : req[l].epoch # r

(* A cookie about to be signed knows the password its epoch goes with. *)
PendingSessions ==
    \A r \in Request :
        /\ req[r].at = "sign" /\ users[req[r].user].epoch = req[r].epoch
              => users[req[r].user].password = req[r].password
        /\ req[r].at = "invalidateAndReissue" /\ users[req[r].user].epoch = r
              => users[req[r].user].password = r

(* A link is mailed once, and a row of the table is for the address its    *)
(* present link was mailed to; so is the row a click has read.             *)
LinksAreFresh ==
    /\ \A r \in Request : req[r].at # "done" => mail[r] = None
    /\ \A t \in evt : mail[t.link] = [purpose |-> "verify", user |-> t.user, email |-> t.email]
ClicksKnowTheAddress ==
    \A r \in Request :
        req[r].op = "verify" /\ req[r].at \in Needs.token =>
            mail[req[r].link] = [purpose |-> "verify", user |-> req[r].token.user,
                                 email |-> req[r].token.email]

(* The inductive invariant: the types, complete rows, and what requests in *)
(* the middle of their work know of rows, links and epochs is still true.  *)
IInv ==
    /\ TypeOK
    /\ RowsAreComplete
    /\ HandlersHaveRead
    /\ EpochsAreFresh
    /\ PendingSessions
    /\ CurrentSessionsKnowThePassword
    /\ LinksAreFresh
    /\ ClicksKnowTheAddress
=============================================================================

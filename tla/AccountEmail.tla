---------------------------- MODULE AccountEmail ----------------------------
(***************************************************************************)
(* The life of an account's email address: sign-up, email verification,    *)
(* the three flavours of change-email, and account deletion proved by mail.*)
(*                                                                         *)
(* A one-time token is a row of the verification table and the link in one *)
(* mail.  `mailedTo` is the inbox the link reached (None when the mailer   *)
(* failed): only its reader can follow it.  The caller of a handler that   *)
(* needs a session is the user of that session; what the handler read of   *)
(* the user row then is `seen`, and may be stale at its next store call.   *)
(***************************************************************************)
EXTENDS ProvedAddresses, Naturals, FiniteSets

CONSTANTS
    Emails, Requests, None,
    Configs     \* the deployments considered

Ops == {"sign-up", "send-verification", "verify", "change-email", "delete", "delete-token"}

Purposes == {"verify", "change", "confirm", "delete"}

\* A deployment: the operations its clients call, whether sign-up sends the
\* verification mail (Server.sendVerificationOnSignUp), and Config.User's options.
Config ==
    [endpoints: SUBSET Ops, sendOnSignUp: BOOLEAN,
     sendChangeEmailConfirmation: BOOLEAN, updateEmailWithoutVerification: BOOLEAN,
     sendDeleteAccountVerification: BOOLEAN]

ASSUME AccountEmailAssumption ==
    /\ None \notin Users \cup Emails \cup Tokens
    /\ Configs \subseteq Config

VARIABLE req     \* the requests in flight

vars == <<config, users, tokens, req, proved>>

NoUser == [state |-> "absent", email |-> None, verified |-> FALSE]

DeletedUser == [NoUser EXCEPT !.state = "deleted"]

\* An account that exists has an address.
UserRow == [state: {"present"}, email: Emails, verified: BOOLEAN]
           \cup {NoUser, DeletedUser}

TokenRow == [state: {"free", "valid", "gone"}, purpose: Purposes \cup {None},
             user: Users \cup {None}, newEmail: Emails \cup {None},
             mailedTo: Emails \cup {None}, consumed: BOOLEAN]

FreeToken == [state |-> "free", purpose |-> None, user |-> None, newEmail |-> None,
              mailedTo |-> None, consumed |-> FALSE]

Steps == {"idle", "resolve", "find", "create", "update", "mail", "consume",
          "verify-user", "delete"}

Request ==
    [step: Steps, op: Ops \cup {None}, user: Users \cup {None},
     email: Emails \cup {None},         \* the address in the request body
     token: Tokens \cup {None},
     seen: UserRow,                     \* the user row as read
     mail: Purposes \cup {None}]        \* the purpose of the mail to issue

Idle == [step |-> "idle", op |-> None, user |-> None, email |-> None,
         token |-> None, seen |-> NoUser, mail |-> None]

TypeOK ==
    /\ config \in Configs
    /\ users \in [Users -> UserRow]
    /\ tokens \in [Tokens -> TokenRow]
    /\ req \in [Requests -> Request]
    /\ proved \subseteq Users \X Emails

Init ==
    /\ config \in Configs
    /\ users = [u \in Users |-> NoUser]
    /\ tokens = [t \in Tokens |-> FreeToken]
    /\ req = [r \in Requests |-> Idle]
    /\ proved = {}

Present(u) == users[u].state = "present"

\* FindUserByEmail, and the unique index on user.email.
Owners(e) == {u \in Users : Present(u) /\ users[u].email = e}

Finish(r) == req' = [req EXCEPT ![r] = Idle]

Goto(r, step) == req' = [req EXCEPT ![r].step = step]

-----------------------------------------------------------------------------
(* Arrival                                                                 *)

Start(r, inputs) == req[r].step = "idle" /\ req' = [req EXCEPT ![r] = inputs]

Arrive(r) ==
    /\ \E op \in config.endpoints :
         \/ /\ op = "sign-up"
            /\ \E e \in Emails :
                 Start(r, [Idle EXCEPT !.op = op, !.step = "find", !.email = e])
         \/ /\ op = "send-verification"
            /\ \E e \in Emails :
                 Start(r, [Idle EXCEPT !.op = op, !.step = "find", !.email = e])
         \/ /\ op = "change-email"
            /\ \E u \in Users, e \in Emails :
                 Start(r, [Idle EXCEPT !.op = op, !.step = "resolve", !.user = u, !.email = e])
         \/ /\ op = "delete"
            /\ \E u \in Users :
                 Start(r, [Idle EXCEPT !.op = op, !.step = "resolve", !.user = u])
         \/ /\ op = "verify"
            /\ \E t \in Tokens :
                 /\ tokens[t].mailedTo # None
                 /\ Start(r, [Idle EXCEPT !.op = op, !.step = "consume", !.token = t])
         \/ /\ op = "delete-token"
            /\ \E u \in Users, t \in Tokens :
                 /\ tokens[t].mailedTo # None
                 /\ Start(r, [Idle EXCEPT !.op = op, !.step = "resolve", !.user = u,
                                          !.token = t])
    /\ UNCHANGED <<users, tokens, proved>>

\* sessionFromRequest returns the caller's user row.  change-email refuses the
\* address the user has; delete-user without SendDeleteAccountVerification goes
\* on to deleteUserAccount (the password, the fresh session and the absence of an
\* impersonation that it also asks for only refuse more).
Resolve(r) ==
    /\ req[r].step = "resolve"
    /\ LET u == req[r].user
           op == req[r].op
       IN  IF ~Present(u) \/ (op = "change-email" /\ users[u].email = req[r].email)
           THEN Finish(r)
           ELSE req' = [req EXCEPT ![r].seen = users[u],
                  ![r].mail = IF op = "delete" /\ config.sendDeleteAccountVerification
                              THEN "delete" ELSE None,
                  ![r].step = CASE op = "change-email" -> "find"
                                [] op = "delete-token" -> "consume"
                                [] op = "delete"       ->
                                     IF config.sendDeleteAccountVerification THEN "mail" ELSE "delete"]
    /\ UNCHANGED <<users, tokens, proved>>

-----------------------------------------------------------------------------
(* Sign-up                                                                 *)

\* handleSignUp's FindUserByEmail: an existing address ends the request (with an
\* error or with the synthetic response).
SignUpFind(r) ==
    /\ req[r].step = "find" /\ req[r].op = "sign-up"
    /\ IF Owners(req[r].email) # {} THEN Finish(r) ELSE Goto(r, "create")
    /\ UNCHANGED <<users, tokens, proved>>

\* CreateEmailUser: the user row, or ErrConflict when another request took the
\* address; then the verification mail.
CreateEmailUser(r) ==
    /\ req[r].step = "create"
    /\ \/ /\ Owners(req[r].email) # {}
          /\ Finish(r)
          /\ UNCHANGED users
       \/ /\ Owners(req[r].email) = {}
          /\ \E u \in Users :
               LET row == [state |-> "present", email |-> req[r].email, verified |-> FALSE] IN
               /\ users[u].state = "absent"
               /\ users' = [users EXCEPT ![u] = row]
               /\ IF config.sendOnSignUp
                  THEN req' = [req EXCEPT ![r].user = u, ![r].seen = row,
                                          ![r].step = "mail", ![r].mail = "verify"]
                  ELSE Finish(r)
    /\ UNCHANGED <<tokens, proved>>

\* handleSendVerification: the owner of the address, if not yet verified.
SendVerification(r) ==
    /\ req[r].step = "find" /\ req[r].op = "send-verification"
    /\ \/ /\ \A u \in Owners(req[r].email) : users[u].verified
          /\ Finish(r)
       \/ \E u \in Owners(req[r].email) :
            /\ ~users[u].verified
            /\ req' = [req EXCEPT ![r].user = u, ![r].seen = users[u],
                                  ![r].step = "mail", ![r].mail = "verify"]
    /\ UNCHANGED <<users, tokens, proved>>

-----------------------------------------------------------------------------
(* issueOneTimeMail and issueEmailChangeMail                               *)

\* Fault variant of PutOneTimeToken: the user's earlier tokens are not deleted.
PutBesideOthers(t, row) == [tokens EXCEPT ![t] = row]

\* PutOneTimeToken: a new change or confirmation token deletes the user's earlier
\* ones of the same purpose in the same transaction; others accumulate.
PutOneTimeToken(t, row) ==
    [x \in Tokens |->
        IF x = t THEN row
        ELSE IF /\ row.purpose \in {"change", "confirm"}
                /\ tokens[x].state = "valid"
                /\ tokens[x].purpose = row.purpose
                /\ tokens[x].user = row.user
             THEN [tokens[x] EXCEPT !.state = "gone"]
             ELSE tokens[x]]

\* Fault variant of Recipient: every mail goes to the user's present address.
RecipientOnFile(r) == req[r].seen.email

\* The inbox a mail goes to: the new address for a change, else the address of
\* the user row the handler holds.
Recipient(r) == IF req[r].mail = "change" THEN req[r].email ELSE req[r].seen.email

IssueMail(r) ==
    /\ req[r].step = "mail"
    /\ \E t \in Tokens, delivered \in BOOLEAN :
         /\ tokens[t].state = "free"
         /\ tokens' = PutOneTimeToken(t,
                [state |-> "valid", purpose |-> req[r].mail, user |-> req[r].user,
                 newEmail |-> IF req[r].mail \in {"change", "confirm"}
                              THEN req[r].email ELSE None,
                 mailedTo |-> IF delivered THEN Recipient(r) ELSE None,
                 consumed |-> FALSE])
    /\ Finish(r)
    /\ UNCHANGED <<users, proved>>

-----------------------------------------------------------------------------
(* Change email                                                            *)

\* handleChangeEmail after its FindUserByEmail: the three flavours, chosen by the
\* user row read when the request was resolved.
ChangeEmail(r) ==
    /\ req[r].step = "find" /\ req[r].op = "change-email"
    /\ LET verified == req[r].seen.verified IN
       \/ /\ Owners(req[r].email) \ {req[r].user} # {}
          /\ Finish(r)
       \/ /\ Owners(req[r].email) \ {req[r].user} = {}
          /\ \/ /\ ~verified /\ config.updateEmailWithoutVerification
                /\ Goto(r, "update")
             \/ /\ verified /\ config.sendChangeEmailConfirmation
                /\ req' = [req EXCEPT ![r].step = "mail", ![r].mail = "confirm"]
             \/ /\ ~(~verified /\ config.updateEmailWithoutVerification)
                /\ ~(verified /\ config.sendChangeEmailConfirmation)
                /\ req' = [req EXCEPT ![r].step = "mail", ![r].mail = "change"]
    /\ UNCHANGED <<users, tokens, proved>>

\* UpdateUser with the new address, unverified; ErrConflict or a deleted user end
\* the request.
UpdateEmail(r) ==
    /\ req[r].step = "update"
    /\ LET u == req[r].user
           row == [state |-> "present", email |-> req[r].email, verified |-> FALSE]
       IN  IF Present(u) /\ Owners(req[r].email) \ {u} = {}
           THEN /\ users' = [users EXCEPT ![u] = row]
                /\ req' = [req EXCEPT ![r].seen = row, ![r].step = "mail", ![r].mail = "verify"]
           ELSE Finish(r) /\ UNCHANGED users
    /\ UNCHANGED <<tokens, proved>>

-----------------------------------------------------------------------------
(* handleConfirmVerification: one link, three purposes                     *)

Presented(r) == tokens[req[r].token]

\* ConsumeOne: the row is deleted for whoever deletes it first.
Consume(t) == [tokens EXCEPT ![t].state = "gone", ![t].consumed = TRUE]

Redeemable(r, op, purpose) ==
    /\ req[r].step = "consume" /\ req[r].op = op
    /\ Presented(r).state = "valid" /\ Presented(r).purpose = purpose

\* ConsumeEmailVerification; the user row is updated by a later statement.
ConsumeEmailVerification(r) ==
    /\ Redeemable(r, "verify", "verify")
    /\ tokens' = Consume(req[r].token)
    /\ proved' = proved \cup {<<Presented(r).user, Presented(r).mailedTo>>}
    /\ IF Present(Presented(r).user)
       THEN req' = [req EXCEPT ![r].user = Presented(r).user, ![r].step = "verify-user"]
       ELSE Finish(r)
    /\ UNCHANGED users

\* VerifyUserEmail: whatever address the row holds by now is marked verified.
VerifyUserEmail(r) ==
    /\ req[r].step = "verify-user"
    /\ users' = IF Present(req[r].user)
                THEN [users EXCEPT ![req[r].user].verified = TRUE] ELSE users
    /\ Finish(r)
    /\ UNCHANGED <<tokens, proved>>

\* ConsumeEmailChange: token and user row in one transaction, rolled back when the
\* user is gone or the address has been taken.
ConsumeEmailChange(r) ==
    /\ Redeemable(r, "verify", "change")
    /\ LET u == Presented(r).user
           e == Presented(r).newEmail
       IN  \/ /\ Present(u) /\ Owners(e) \ {u} = {}
              /\ tokens' = Consume(req[r].token)
              /\ users' = [users EXCEPT ![u].email = e, ![u].verified = TRUE]
              /\ proved' = proved \cup {<<u, Presented(r).mailedTo>>}
           \/ /\ ~(Present(u) /\ Owners(e) \ {u} = {})
              /\ UNCHANGED <<tokens, users, proved>>
    /\ Finish(r)

\* ConsumeEmailChangeConfirmation, then sendConfirmedEmailChange.
ConsumeEmailChangeConfirmation(r) ==
    /\ Redeemable(r, "verify", "confirm")
    /\ LET u == Presented(r).user
           e == Presented(r).newEmail
       IN  /\ tokens' = Consume(req[r].token)
           /\ IF Present(u)
              THEN req' = [req EXCEPT ![r].user = u, ![r].email = e, ![r].seen = users[u],
                                      ![r].step = "mail", ![r].mail = "change"]
              ELSE Finish(r)
    /\ UNCHANGED <<users, proved>>

\* No token of a purpose the handler accepts: it is missing, expired or spent.
InvalidToken(r) ==
    /\ req[r].step = "consume"
    /\ ~ \E p \in IF req[r].op = "verify" THEN {"verify", "change", "confirm"} ELSE {"delete"} :
            Redeemable(r, req[r].op, p)
    /\ Finish(r)
    /\ UNCHANGED <<users, tokens, proved>>

-----------------------------------------------------------------------------
(* Account deletion                                                        *)

\* Fault variant of OwnsToken: any account's deletion token will do.
AnyonesToken(r) == Presented(r).user # None

\* The owner check of ConsumeUserDeletion.
OwnsToken(r) == Presented(r).user = req[r].user

\* ConsumeUserDeletion: the row is deleted first and its owner compared after, so
\* a token presented by another user is spent without effect.
ConsumeUserDeletion(r) ==
    /\ Redeemable(r, "delete-token", "delete")
    /\ tokens' = Consume(req[r].token)
    /\ IF OwnsToken(r)
       THEN /\ Goto(r, "delete")
            /\ proved' = proved \cup {<<req[r].user, Presented(r).mailedTo>>}
       ELSE Finish(r) /\ UNCHANGED proved
    /\ UNCHANGED users

\* deleteUserAccount: BeforeDelete may refuse (Abort); DeleteUser removes the user
\* and leaves the verification rows.
DeleteUser(r) ==
    /\ req[r].step = "delete"
    /\ users' = [users EXCEPT ![req[r].user] = DeletedUser]
    /\ Finish(r)
    /\ UNCHANGED <<tokens, proved>>

-----------------------------------------------------------------------------
\* A request is lost, or a hook fails, between two store calls.
Abort(r) ==
    /\ req[r].step # "idle"
    /\ Finish(r)
    /\ UNCHANGED <<users, tokens, proved>>

\* The token's expiresAt passes.
Expire(t) ==
    /\ tokens[t].state = "valid"
    /\ tokens' = [tokens EXCEPT ![t].state = "gone"]
    /\ UNCHANGED <<users, req, proved>>

Next ==
    /\ \/ \E r \in Requests :
            \/ Arrive(r) \/ Resolve(r)
            \/ SignUpFind(r) \/ CreateEmailUser(r) \/ SendVerification(r)
            \/ IssueMail(r) \/ ChangeEmail(r) \/ UpdateEmail(r)
            \/ ConsumeEmailVerification(r) \/ VerifyUserEmail(r)
            \/ ConsumeEmailChange(r) \/ ConsumeEmailChangeConfirmation(r) \/ InvalidToken(r)
            \/ ConsumeUserDeletion(r) \/ DeleteUser(r) \/ Abort(r)
       \/ \E t \in Tokens : Expire(t)
    /\ UNCHANGED config

Spec == Init /\ [][Next]_vars

=============================================================================

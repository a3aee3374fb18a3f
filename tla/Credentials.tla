---------------------------- MODULE Credentials -----------------------------
(***************************************************************************)
(* Password credentials: sign-in with rehashing, change-password, forgot   *)
(* and reset password, Server.SetPassword, and what each of them does to   *)
(* the user's sessions, while all of them run concurrently.                *)
(*                                                                         *)
(* A stored hash is a password, the scheme that hashed it and a salt.      *)
(* Every call of PasswordHasher.Hash draws a new salt, so two hashes of    *)
(* one password differ; the compare-and-set statements of the store        *)
(* compare whole hashes.  Resolving a cookie is one step here (module      *)
(* Sessions splits it); a token expires by a step of the environment.      *)
(***************************************************************************)
EXTENDS SessionTable, FiniteSets

CONSTANTS
    Requests,       \* concurrent HTTP requests and server API calls
    Passwords,
    InitialPassword,
    ResetTokens,    \* the password-reset tokens that may be drawn
    Workloads,      \* the sets of operations that clients may mix
    MaxSalt,        \* bound on the number of hashes computed
    RevokeSessionsOnPasswordReset,
    HasResetCallback    \* EmailPassword.OnPasswordReset is set (and may fail)

Ops == {"sign-in", "change", "forgot", "reset", "set", "refresh"}

ASSUME CredentialsAssumption ==
    /\ InitialPassword \in Passwords /\ None \notin Passwords
    /\ None \notin ResetTokens
    /\ Workloads \subseteq SUBSET Ops
    /\ MaxSalt \in Nat
    /\ RevokeSessionsOnPasswordReset \in BOOLEAN
    /\ HasResetCallback \in BOOLEAN

VARIABLES
    endpoints,    \* the operations that clients call in this behaviour
    users,        \* the users that exist
    credential,   \* the password column of each user's credential account
    tokens,       \* the password-reset rows of the verification table
    sessions,     \* the session table
    req,          \* the requests in flight
    salt,         \* the salts drawn so far
    intent,       \* history: the password last chosen for each user
    superseded,   \* history: how often a change-password replaced each salt of a user
    chain,        \* history: the session that began a row's rotation chain
    ended         \* history: chains that a password change set out to end

vars == <<endpoints, users, credential, tokens, sessions, req, salt,
          intent, superseded, chain, ended>>

Hash == [password: Passwords, legacy: BOOLEAN, salt: 0..MaxSalt]

NoHash == [password |-> None, legacy |-> FALSE, salt |-> 0]

\* PasswordHasher.Hash with the next salt.
Hashed(password) == [password |-> password, legacy |-> FALSE, salt |-> salt + 1]

TokenRow ==
    [state: {"free", "valid", "expired", "consumed"}, user: Users \cup {None}]

Steps == {"idle", "resolve", "credential", "rehash", "create", "token", "commit",
          "callback", "revoke"}

Request ==
    [step: Steps, op: Ops \cup {None}, user: Users \cup {None},
     cookie: SessionIds \cup {None},
     password: Passwords \cup {None},      \* the password presented
     new: Passwords \cup {None},           \* the password chosen
     token: ResetTokens \cup {None},
     revokeOthers: BOOLEAN,                \* changePasswordRequest.RevokeOtherSessions
     seen: Hash \cup {NoHash},             \* credential.PasswordHash as read
     victims: SUBSET SessionIds]           \* history: chains alive when a reset committed

Idle == [step |-> "idle", op |-> None, user |-> None, cookie |-> None,
         password |-> None, new |-> None, token |-> None, revokeOthers |-> FALSE,
         seen |-> NoHash, victims |-> {}]

TypeOK ==
    /\ endpoints \in Workloads
    /\ users \subseteq Users
    /\ credential \in [Users -> Hash \cup {NoHash}]
    /\ tokens \in [ResetTokens -> TokenRow]
    /\ sessions \in SessionTables
    /\ req \in [Requests -> Request]
    /\ salt \in 0..MaxSalt
    /\ intent \in [Users -> Passwords \cup {None}]
    /\ superseded \in [Users -> [0..MaxSalt -> Nat]]
    /\ chain \in [SessionIds -> SessionIds \cup {None}]
    /\ ended \in [SessionIds -> {"no", "committed", "answered"}]

\* Every user signed up with the initial password; the hash may come from a
\* legacy scheme (README "Migrating password hashes") or from the current one.
Init ==
    /\ endpoints \in Workloads
    /\ users = Users
    /\ \E legacy \in BOOLEAN :
         credential = [u \in Users |-> [password |-> InitialPassword,
                                        legacy |-> legacy, salt |-> 0]]
    /\ tokens = [t \in ResetTokens |-> [state |-> "free", user |-> None]]
    /\ sessions = EmptyTable
    /\ req = [r \in Requests |-> Idle]
    /\ salt = 0
    /\ intent = [u \in Users |-> InitialPassword]
    /\ superseded = [u \in Users |-> [n \in 0..MaxSalt |-> 0]]
    /\ chain = [i \in SessionIds |-> None]
    /\ ended = [i \in SessionIds |-> "no"]

history == <<intent, superseded, chain, ended>>

\* The rotation chains that user u is signed in with.
LiveChains(u) == {chain[i] : i \in LiveRows(sessions, u)}

MarkEnded(chains, how) ==
    [i \in SessionIds |-> IF i \in chains THEN how ELSE ended[i]]

Finish(r) == req' = [req EXCEPT ![r] = Idle]

Goto(r, step) == req' = [req EXCEPT ![r].step = step]

-----------------------------------------------------------------------------
(* Requests arrive with the inputs their handler decodes                   *)

Start(r, inputs) == req[r].step = "idle" /\ req' = [req EXCEPT ![r] = inputs]

Issued == {i \in SessionIds : sessions[i].state # "free"}

Arrive(r) ==
    /\ \/ /\ "sign-in" \in endpoints
          /\ \E u \in Users, p \in Passwords, c \in Issued \cup {None} :
               Start(r, [Idle EXCEPT !.op = "sign-in", !.step = "credential",
                                     !.user = u, !.password = p, !.cookie = c])
       \/ /\ "change" \in endpoints
          /\ \E c \in Issued, p \in Passwords, n \in Passwords, others \in BOOLEAN :
               Start(r, [Idle EXCEPT !.op = "change", !.step = "resolve", !.cookie = c,
                                     !.password = p, !.new = n, !.revokeOthers = others])
       \/ /\ "refresh" \in endpoints
          /\ \E c \in Issued :
               Start(r, [Idle EXCEPT !.op = "refresh", !.step = "resolve", !.cookie = c])
       \/ /\ "forgot" \in endpoints
          /\ \E u \in users :
               Start(r, [Idle EXCEPT !.op = "forgot", !.step = "token", !.user = u])
       \/ /\ "reset" \in endpoints
          /\ \E t \in ResetTokens, n \in Passwords :
               /\ tokens[t].state # "free"
               /\ Start(r, [Idle EXCEPT !.op = "reset", !.step = "commit",
                                        !.token = t, !.new = n])
       \/ /\ "set" \in endpoints
          /\ \E u \in users, n \in Passwords :
               Start(r, [Idle EXCEPT !.op = "set", !.step = "commit", !.user = u, !.new = n])
    /\ UNCHANGED <<users, credential, tokens, sessions, salt, history>>

\* sessionFromRequest.  A sign-in goes on without a session, the others fail.
Resolves(c) == c # None /\ sessions[c].state = "live" /\ sessions[c].user \in users

ResolveSession(r) ==
    /\ req[r].step = "resolve"
    /\ LET c == req[r].cookie IN
       IF Resolves(c)
       THEN req' = [req EXCEPT ![r].user = IF req[r].op = "sign-in" THEN @ ELSE sessions[c].user,
                               ![r].step = CASE req[r].op = "sign-in" -> "create"
                                             [] req[r].op = "change"  -> "credential"
                                             [] req[r].op = "refresh" -> "commit"]
       ELSE IF req[r].op = "sign-in"
            THEN req' = [req EXCEPT ![r].step = "create", ![r].cookie = None]
            ELSE Finish(r)
    /\ UNCHANGED <<users, credential, tokens, sessions, salt, history>>

\* FindUserByEmail or the resolved user, PasswordCredential, PasswordHasher.Verify.
ReadCredential(r) ==
    /\ req[r].step = "credential"
    /\ LET hash == credential[req[r].user] IN
       IF req[r].user \notin users \/ hash.password # req[r].password
       THEN Finish(r)
       ELSE req' = [req EXCEPT ![r].seen = hash,
                        ![r].step = IF req[r].op = "change" THEN "commit"
                                    ELSE IF hash.legacy THEN "rehash" ELSE "resolve"]
    /\ UNCHANGED <<users, credential, tokens, sessions, salt, history>>

-----------------------------------------------------------------------------
(* Sign-in                                                                 *)

\* Fault variant of HashUnchanged: the update matches any stored hash.
HashPresent(r) == credential[req[r].user] # NoHash

\* ReplacePasswordHash's WHERE clause: the hash is still the one verified.
HashUnchanged(r) == credential[req[r].user] = req[r].seen

\* ReplacePasswordHash: the hash just verified is replaced by one of the current
\* scheme if it is still stored; a lost race is ignored.
ReplacePasswordHash(r) ==
    /\ req[r].step = "rehash" /\ salt < MaxSalt
    /\ salt' = salt + 1
    /\ credential' = [credential EXCEPT ![req[r].user] =
                         IF HashUnchanged(r) THEN Hashed(req[r].password) ELSE @]
    /\ Goto(r, "resolve")
    /\ UNCHANGED <<users, tokens, sessions, history>>

\* rotateOrCreateBrowserSession.  RotateSession fails with ErrReplay.
CreateOrRotateSession(r) ==
    /\ req[r].step = "create"
    /\ LET c == req[r].cookie
           row == NewSession(req[r].user, 0, 1)
       IN  \/ /\ c = None
              /\ \E new \in Unused(sessions) :
                   /\ sessions' = CreateSession(sessions, new, row)
                   /\ chain' = [chain EXCEPT ![new] = new]
           \/ /\ c # None /\ CanRotate(sessions, c)
              /\ \E new \in Unused(sessions) :
                   /\ sessions' = RotateSession(sessions, c, new, row)
                   /\ chain' = [chain EXCEPT ![new] =
                                   IF sessions[c].user = req[r].user THEN chain[c] ELSE new]
           \/ /\ c # None /\ ~CanRotate(sessions, c)
              /\ UNCHANGED <<sessions, chain>>
    /\ Finish(r)
    /\ UNCHANGED <<users, credential, tokens, salt, intent, superseded, ended>>

\* What handleChangePassword and handleRefreshSession put in the place of the
\* presented session: the impersonation columns, which no statement changes, are
\* copied from it.  (Impersonation itself is the subject of module Sessions.)
Replacement(r) ==
    Impersonation(req[r].user, 0, 1, sessions[req[r].cookie].impersonatedBy,
                  sessions[req[r].cookie].impersonationId)

-----------------------------------------------------------------------------
(* Change password                                                         *)

\* Fault variant of CanChange: the hash is not compared with the one verified.
CanChangeAnyHash(r) ==
    ~req[r].revokeOthers => req[r].cookie \in LiveRows(sessions, req[r].user)

\* The guards of ChangePasswordAndRotate: the credential still holds the hash
\* that was verified and, unless every session is to be revoked, the presented
\* session is still live.
CanChange(r) ==
    /\ HashUnchanged(r)
    /\ ~req[r].revokeOthers => req[r].cookie \in LiveRows(sessions, req[r].user)

\* handleChangePassword's transaction: ChangePasswordAndRotate, or ErrReplay.
ChangePasswordAndRotate(r) ==
    /\ req[r].step = "commit" /\ req[r].op = "change" /\ salt < MaxSalt
    /\ salt' = salt + 1
    /\ LET u == req[r].user
           c == req[r].cookie
           revoked == IF req[r].revokeOthers THEN RevokeUserSessions(sessions, u)
                      ELSE RevokeSession(sessions, c)
       IN  \/ /\ CanChange(r)
              /\ credential' = [credential EXCEPT ![u] = Hashed(req[r].new)]
              /\ intent' = [intent EXCEPT ![u] = req[r].new]
              /\ superseded' = [superseded EXCEPT ![u][req[r].seen.salt] = @ + 1]
              /\ \E new \in Unused(sessions) :
                   /\ sessions' = CreateSession(revoked, new, Replacement(r))
                   /\ chain' = [chain EXCEPT ![new] =
                                   IF req[r].revokeOthers THEN new ELSE chain[c]]
              /\ ended' = IF req[r].revokeOthers
                          THEN MarkEnded(LiveChains(u), "answered") ELSE ended
           \/ /\ ~CanChange(r)
              /\ UNCHANGED <<credential, sessions, intent, superseded, chain, ended>>
    /\ Finish(r)
    /\ UNCHANGED <<users, tokens>>

-----------------------------------------------------------------------------
(* Forgot and reset password                                               *)

\* handleForgotPassword, issueOneTimeMail, PutOneTimeToken.  Earlier reset
\* tokens of the user stay valid.
IssueResetToken(r) ==
    /\ req[r].step = "token"
    /\ \E t \in ResetTokens :
         /\ tokens[t].state = "free"
         /\ tokens' = [tokens EXCEPT ![t] = [state |-> "valid", user |-> req[r].user]]
    /\ Finish(r)
    /\ UNCHANGED <<users, credential, sessions, salt, history>>

\* ConsumePasswordReset's guards: ConsumeOne finds the token, FindOne its user.
CanReset(t) == tokens[t].state = "valid" /\ tokens[t].user \in users

\* What the transaction leaves of the token.
ConsumeToken(t) == [tokens EXCEPT ![t].state = "consumed"]

\* ConsumePasswordReset: the token is consumed and the password replaced, or the
\* credential account created, in one transaction; without the token, or when the
\* user is gone, nothing changes.
ConsumePasswordReset(r) ==
    /\ req[r].step = "commit" /\ req[r].op = "reset" /\ salt < MaxSalt
    /\ salt' = salt + 1
    /\ LET t == req[r].token
           u == tokens[t].user
       IN  \/ /\ CanReset(t)
              /\ tokens' = ConsumeToken(t)
              /\ credential' = [credential EXCEPT ![u] = Hashed(req[r].new)]
              /\ intent' = [intent EXCEPT ![u] = req[r].new]
              /\ ended' = IF RevokeSessionsOnPasswordReset
                          THEN MarkEnded(LiveChains(u), "committed") ELSE ended
              /\ req' = [req EXCEPT ![r].user = u, ![r].victims = LiveChains(u),
                                    ![r].step = "callback"]
           \/ /\ ~CanReset(t)
              /\ Finish(r)
              /\ UNCHANGED <<tokens, credential, intent, ended>>
    /\ UNCHANGED <<users, sessions, superseded, chain>>

\* EmailPassword.OnPasswordReset: its error ends the request with a 500.
PasswordResetCallback(r) ==
    /\ req[r].step = "callback"
    /\ \/ Goto(r, "revoke")
       \/ HasResetCallback /\ Finish(r)
    /\ UNCHANGED <<users, credential, tokens, sessions, salt, history>>

\* RevokeUserSessions when configured, then the success response.
RevokeAfterReset(r) ==
    /\ req[r].step = "revoke"
    /\ IF RevokeSessionsOnPasswordReset
       THEN /\ sessions' = RevokeUserSessions(sessions, req[r].user)
            /\ ended' = MarkEnded(req[r].victims, "answered")
       ELSE UNCHANGED <<sessions, ended>>
    /\ Finish(r)
    /\ UNCHANGED <<users, credential, tokens, salt, intent, superseded, chain>>

-----------------------------------------------------------------------------
(* Server.SetPassword, refresh, and the environment                        *)

\* SetPasswordHash updates the credential account or creates it.  It does not
\* look at the user again: the user may be gone by now.
SetPasswordHash(r) ==
    /\ req[r].step = "commit" /\ req[r].op = "set" /\ salt < MaxSalt
    /\ salt' = salt + 1
    /\ credential' = [credential EXCEPT ![req[r].user] = Hashed(req[r].new)]
    /\ intent' = [intent EXCEPT ![req[r].user] = req[r].new]
    /\ Finish(r)
    /\ UNCHANGED <<users, tokens, sessions, superseded, chain, ended>>

RefreshSession(r) ==
    /\ req[r].step = "commit" /\ req[r].op = "refresh"
    /\ LET c == req[r].cookie IN
       \/ /\ CanRotate(sessions, c)
          /\ \E new \in Unused(sessions) :
               /\ sessions' = RotateSession(sessions, c, new, Replacement(r))
               /\ chain' = [chain EXCEPT ![new] = chain[c]]
       \/ /\ ~CanRotate(sessions, c)
          /\ UNCHANGED <<sessions, chain>>
    /\ Finish(r)
    /\ UNCHANGED <<users, credential, tokens, salt, intent, superseded, ended>>

\* DeleteUser: sessions, accounts and user in one transaction; reset tokens stay.
DeleteUser(u) ==
    /\ u \in users
    /\ users' = users \ {u}
    /\ credential' = [credential EXCEPT ![u] = NoHash]
    /\ intent' = [intent EXCEPT ![u] = None]
    /\ sessions' = DeleteUserSessions(sessions, u)
    /\ UNCHANGED <<tokens, req, salt, superseded, chain, ended>>

\* The token's expiresAt passes.
ExpireToken(t) ==
    /\ tokens[t].state = "valid"
    /\ tokens' = [tokens EXCEPT ![t].state = "expired"]
    /\ UNCHANGED <<users, credential, sessions, req, salt, history>>

\* A request is lost between two store calls.
Abort(r) ==
    /\ req[r].step # "idle"
    /\ Finish(r)
    /\ UNCHANGED <<users, credential, tokens, sessions, salt, history>>

Next ==
    /\ \/ \E r \in Requests :
            \/ Arrive(r) \/ ResolveSession(r) \/ ReadCredential(r)
            \/ ReplacePasswordHash(r) \/ CreateOrRotateSession(r)
            \/ ChangePasswordAndRotate(r) \/ IssueResetToken(r)
            \/ ConsumePasswordReset(r) \/ PasswordResetCallback(r) \/ RevokeAfterReset(r)
            \/ SetPasswordHash(r) \/ RefreshSession(r) \/ Abort(r)
       \/ \E u \in Users : DeleteUser(u)
       \/ \E t \in ResetTokens : ExpireToken(t)
    /\ UNCHANGED endpoints

Spec == Init /\ [][Next]_vars

-----------------------------------------------------------------------------
(* Safety                                                                  *)

\* The stored hash always verifies the password that was last chosen for the
\* user: a sign-in that verified a legacy hash before a change, a reset or a
\* SetPassword committed does not write the old password back.
LastChoiceWins ==
    \A u \in users : credential[u].password = intent[u]

\* Two change-password requests that verified the same hash do not both succeed:
\* the second would overwrite a password it never verified.
NoLostPasswordChange ==
    \A u \in Users, n \in 0..MaxSalt : superseded[u][n] <= 1

\* After change-password with revokeOtherSessions, or a reset that answered with
\* success under RevokeSessionsOnPasswordReset, no session of a device that was
\* signed in when the password changed is alive, nor one that a refresh or a
\* sign-in in flight derived from it.
RevokedDevicesStayOut ==
    \A i \in SessionIds : sessions[i].state = "live" => ended[chain[i]] # "answered"

=============================================================================

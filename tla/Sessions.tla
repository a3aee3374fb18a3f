------------------------------ MODULE Sessions ------------------------------
(***************************************************************************)
(* The session lifecycle: how the HTTP handlers create, resolve, rotate,   *)
(* revoke and impersonate sessions while other requests run.               *)
(*                                                                         *)
(* A request is a process.  Between two calls of the store other requests  *)
(* may run, so every value read by one call may be stale in the next.      *)
(* Every handler that acts on the cookie first resolves it with two reads  *)
(* (the session row, then its user) and then runs one store transaction.   *)
(* A request may also vanish between two calls: its client disconnects,    *)
(* the database fails or the process stops.                                *)
(***************************************************************************)
EXTENDS SessionTable, FiniteSets

CONSTANTS
    Requests,               \* concurrent HTTP requests
    Endpoints,              \* the operations that clients call
    ScimUsers,              \* users provisioned through a SCIM connection
    AdminSelectionConfigured,   \* Config.Admin names administrators at all
    Admins,                 \* users that Config.Admin selects, by id or by role
    Authorizer,             \* pairs that ImpersonationAuthorizer accepts
    AllowImpersonatingAdmins,
    SessionDuration, ImpersonationDuration,
    ShortDuration,          \* the 24 hours of a sign-in without rememberMe
    SessionFreshAge,        \* how long a session may change the password
    MaxTime                 \* bound on the clock

Ops == {"sign-in", "attach", "get-session", "refresh", "sign-out", "revoke-one",
        "revoke-others", "revoke-all", "impersonate", "stop", "change-password",
        "delete", "delete-callback"}

ASSUME SessionsAssumption ==
    /\ Endpoints \subseteq Ops /\ None \notin Ops
    /\ ScimUsers \subseteq Users
    /\ Authorizer \subseteq Users \X Users
    /\ Admins \subseteq Users
    /\ AdminSelectionConfigured \in BOOLEAN /\ (~AdminSelectionConfigured => Admins = {})
    /\ AllowImpersonatingAdmins \in BOOLEAN
    /\ {SessionDuration, ImpersonationDuration, ShortDuration, SessionFreshAge, MaxTime}
         \subseteq Nat

VARIABLES
    now,        \* Config.Clock
    sessions,   \* the session table
    users,      \* what the user table says of each registered user
    audit,      \* the auditEvent table
    req,        \* the requests in flight
    chain       \* history: the session that began the rotation chain of a row

vars == <<now, sessions, users, audit, req, chain>>

Steps == {"idle", "authenticate", "create", "session", "user", "subject", "commit"}

AuditEvent ==
    [action: {"start", "stop"}, actor: Users, subject: Users,
     sessionId: SessionIds, impersonationId: SessionIds, occurredAt: Nat]

Request ==
    [step: Steps, op: Ops \cup {None}, cookie: SessionIds \cup {None},
     who: Users \cup {None},            \* the user a sign-in, target or subject names
     pick: SessionIds \cup {None},      \* the session id a revoke-session names
     seen: SessionRow,                  \* the row read by SessionByTokenHash
     authed: BOOLEAN]                   \* resolveSession returned no error

Idle == [step |-> "idle", op |-> None, cookie |-> None, who |-> None,
         pick |-> None, seen |-> FreeRow, authed |-> FALSE]

TypeOK ==
    /\ now \in Nat
    /\ sessions \in SessionTables
    /\ users \in [Users -> {"active", "disabled", "deleted"}]
    /\ audit \in SUBSET AuditEvent
    /\ req \in [Requests -> Request]
    /\ chain \in [SessionIds -> SessionIds \cup {None}]

Init ==
    /\ now = 0
    /\ sessions = EmptyTable
    /\ users = [u \in Users |-> "active"]
    /\ audit = {}
    /\ req = [r \in Requests |-> Idle]
    /\ chain = [i \in SessionIds |-> None]

Finish(r) == req' = [req EXCEPT ![r] = Idle]

Goto(r, step) == req' = [req EXCEPT ![r].step = step]

-----------------------------------------------------------------------------
(* Arrival of a request.  A cookie is any token that was ever issued: a    *)
(* browser may keep one that has since been rotated, revoked or deleted.   *)

Issued == {i \in SessionIds : sessions[i].state # "free"}

FirstStep(op) ==
    IF op = "sign-in" THEN "authenticate"
    ELSE IF op = "attach" THEN "create" ELSE "session"

Arriving(op, cookie, who, pick) ==
    [step |-> FirstStep(op), op |-> op, cookie |-> cookie, who |-> who,
     pick |-> pick, seen |-> FreeRow, authed |-> FALSE]

Arrive(r) ==
    /\ req[r].step = "idle"
    /\ \E op \in Endpoints, cookie \in Issued \cup {None},
          who \in Users \cup {None}, pick \in Issued \cup {None} :
        /\ (op \in {"sign-in", "attach", "impersonate"}) <=> (who # None)
        /\ op # "revoke-one" => pick = None
        /\ req' = [req EXCEPT ![r] = Arriving(op, cookie, who, pick)]
    /\ UNCHANGED <<now, sessions, users, audit, chain>>

\* handleSignIn up to the verified password, and issuePluginSessionUsing up to
\* its user check: an unknown, deleted or disabled user is refused.
Authenticate(r) ==
    /\ req[r].step = "authenticate"
    /\ IF users[req[r].who] = "active" THEN Goto(r, "session") ELSE Finish(r)
    /\ UNCHANGED <<now, sessions, users, audit, chain>>

\* handleSignUp and handleSocialCallback: CreateEmailUser or UpsertOAuthUser
\* inserts the session in the transaction that inserts or finds the user.
\* UpsertOAuthUser accepts a disabled user.
CreateAttached(r) ==
    /\ req[r].step = "create"
    /\ IF users[req[r].who] = "deleted"
       THEN Finish(r) /\ UNCHANGED <<sessions, chain>>
       ELSE \E new \in Unused(sessions), duration \in {SessionDuration, ShortDuration} :
              /\ sessions' = CreateSession(sessions, new, NewSession(req[r].who, now, duration))
              /\ chain' = [chain EXCEPT ![new] = new]
              /\ Goto(r, "session")
    /\ UNCHANGED <<now, users, audit>>

-----------------------------------------------------------------------------
(* Server.resolveSession: two reads, then the checks on what they returned *)

\* Handlers that still act when the cookie resolves to no session.
ActsWithoutSession == {"sign-in"}

Unauthenticated(r) ==
    IF req[r].op \in ActsWithoutSession
    THEN req' = [req EXCEPT ![r].step = "commit", ![r].authed = FALSE]
    ELSE Finish(r)

\* SessionByTokenHash, first read: the row of the cookie's hash.
ReadSession(r) ==
    /\ req[r].step = "session"
    /\ IF req[r].cookie = None \/ sessions[req[r].cookie].state = "deleted"
       THEN Unauthenticated(r)
       ELSE req' = [req EXCEPT ![r].step = "user", ![r].seen = sessions[req[r].cookie]]
    /\ UNCHANGED <<now, sessions, users, audit, chain>>

\* resolveSession's acceptance test on the row read and the user read.
Resolves(row) ==
    /\ row.state = "live"
    /\ row.expiresAt > now
    /\ users[row.user] = "active"

\* handleDeleteUser refuses an impersonated session, handleDeleteUserCallback
\* does not ask.
ImpersonatedDelete(r) == req[r].op = "delete" /\ req[r].seen.impersonatedBy # None

\* requireFreshSession on the row that was read.
Stale(r) == req[r].op = "change-password" /\ now > req[r].seen.createdAt + SessionFreshAge

\* SessionByTokenHash, second read (FindUserByID), and the checks.
ReadUser(r) ==
    /\ req[r].step = "user"
    /\ IF ~Resolves(req[r].seen) THEN Unauthenticated(r)
       ELSE IF req[r].op = "get-session" \/ ImpersonatedDelete(r) \/ Stale(r) THEN Finish(r)
       ELSE req' = [req EXCEPT ![r].authed = TRUE,
                        ![r].step = IF req[r].op \in {"impersonate", "stop"}
                                    THEN "subject" ELSE "commit"]
    /\ UNCHANGED <<now, sessions, users, audit, chain>>

-----------------------------------------------------------------------------
(* Impersonation                                                           *)

\* handleImpersonate: the configured administrators, the injected authorizer and
\* the ban on impersonating other administrators.
CanImpersonate(actor, subject) ==
    /\ actor # subject
    /\ AdminSelectionConfigured => actor \in Admins
    /\ <<actor, subject>> \in Authorizer
    /\ subject \in Admins => AllowImpersonatingAdmins

\* Fault variant of ReadSubject: the authorizer's refusal is ignored.
ReadSubjectUnauthorized(r) ==
    /\ req[r].step = "subject"
    /\ LET row == req[r].seen
           ok  == IF req[r].op = "impersonate" THEN users[req[r].who] = "active"
                  ELSE row.impersonatedBy # None /\ users[row.impersonatedBy] = "active"
       IN  IF ok THEN Goto(r, "commit") ELSE Finish(r)
    /\ UNCHANGED <<now, sessions, users, audit, chain>>

\* handleImpersonate reads the subject, handleStopImpersonating the actor that
\* the presented session names.
ReadSubject(r) ==
    /\ req[r].step = "subject"
    /\ LET row == req[r].seen
           ok  == IF req[r].op = "impersonate"
                  THEN users[req[r].who] = "active" /\ CanImpersonate(row.user, req[r].who)
                  ELSE row.impersonatedBy # None /\ users[row.impersonatedBy] = "active"
       IN  IF ok THEN Goto(r, "commit") ELSE Finish(r)
    /\ UNCHANGED <<now, sessions, users, audit, chain>>

\* RotateSession and RotateSessionWithAudit inside a request: the presented
\* session is replaced by `row`, or ErrReplay ends the request unchanged.
Rotate(r, new, row) ==
    /\ sessions' = RotateSession(sessions, req[r].cookie, new, row)
    /\ chain' = [chain EXCEPT ![new] = chain[req[r].cookie]]

Replay(r) ==
    /\ req[r].authed /\ ~CanRotate(sessions, req[r].cookie)
    /\ Finish(r)
    /\ UNCHANGED <<now, sessions, users, audit, chain>>

\* handleImpersonate's RotateSessionWithAudit.
StartImpersonation(r) ==
    /\ req[r].step = "commit" /\ req[r].op = "impersonate"
    /\ \/ Replay(r)
       \/ /\ CanRotate(sessions, req[r].cookie)
          /\ \E new \in Unused(sessions) :
               /\ Rotate(r, new, Impersonation(req[r].who, now, ImpersonationDuration,
                                               req[r].seen.user, new))
               /\ audit' = audit \cup
                    {[action |-> "start", actor |-> req[r].seen.user,
                      subject |-> req[r].who, sessionId |-> new,
                      impersonationId |-> new, occurredAt |-> now]}
          /\ Finish(r)
          /\ UNCHANGED <<now, users>>

\* handleStopImpersonating's RotateSessionWithAudit.
StopImpersonation(r) ==
    /\ req[r].step = "commit" /\ req[r].op = "stop"
    /\ \/ Replay(r)
       \/ /\ CanRotate(sessions, req[r].cookie)
          /\ \E new \in Unused(sessions) :
               /\ Rotate(r, new, NewSession(req[r].seen.impersonatedBy, now, SessionDuration))
               /\ audit' = audit \cup
                    {[action |-> "stop", actor |-> req[r].seen.impersonatedBy,
                      subject |-> req[r].seen.user, sessionId |-> new,
                      impersonationId |-> req[r].seen.impersonationId, occurredAt |-> now]}
          /\ Finish(r)
          /\ UNCHANGED <<now, users>>

-----------------------------------------------------------------------------
(* The other handlers that write the session table                         *)

\* rotateOrCreateBrowserSession at the end of handleSignIn, and the same choice
\* in issuePluginSessionUsing.
SignIn(r) ==
    /\ req[r].step = "commit" /\ req[r].op = "sign-in"
    /\ \/ Replay(r)
       \/ /\ req[r].authed => CanRotate(sessions, req[r].cookie)
          /\ \E new \in Unused(sessions), duration \in {SessionDuration, ShortDuration} :
               LET row == NewSession(req[r].who, now, duration) IN
               IF req[r].authed THEN Rotate(r, new, row)
               ELSE /\ sessions' = CreateSession(sessions, new, row)
                    /\ chain' = [chain EXCEPT ![new] = new]
          /\ Finish(r)
          /\ UNCHANGED <<now, users, audit>>

\* What handleRefreshSession and handleChangePassword put in the place of the row
\* they read: the impersonation fields stay, the duration is the normal one.
Replacement(r) ==
    Impersonation(req[r].seen.user, now, SessionDuration,
                  req[r].seen.impersonatedBy, req[r].seen.impersonationId)

\* handleRefreshSession
RefreshSession(r) ==
    /\ req[r].step = "commit" /\ req[r].op = "refresh"
    /\ \/ Replay(r)
       \/ /\ CanRotate(sessions, req[r].cookie)
          /\ \E new \in Unused(sessions) : Rotate(r, new, Replacement(r))
          /\ Finish(r)
          /\ UNCHANGED <<now, users, audit>>

\* The session part of ChangePasswordAndRotate.  With revokeOtherSessions every
\* live session of the user goes, and nothing asks whether the presented one was
\* among them.
ChangeRotation(r, new, revokeOthers) ==
    IF revokeOthers
    THEN sessions' = CreateSession(RevokeUserSessions(sessions, req[r].seen.user),
                                   new, Replacement(r))
    ELSE /\ CanRotate(sessions, req[r].cookie)
         /\ sessions' = RotateSession(sessions, req[r].cookie, new, Replacement(r))

\* handleChangePassword's transaction once its guard on the password hash has
\* passed (module Credentials has that guard, and the credential of a deleted user
\* fails it).  The replacement of a session that is still live joins its rotation
\* chain; the replacement of one that has ended begins a chain of its own.
ChangePassword(r) ==
    /\ req[r].step = "commit" /\ req[r].op = "change-password"
    /\ \/ Replay(r)
       \/ /\ users[req[r].seen.user] # "deleted"
          /\ \E new \in Unused(sessions) :
               /\ \E revokeOthers \in BOOLEAN : ChangeRotation(r, new, revokeOthers)
               /\ chain' = [chain EXCEPT ![new] = IF CanRotate(sessions, req[r].cookie)
                                                  THEN chain[req[r].cookie] ELSE new]
          /\ Finish(r)
          /\ UNCHANGED <<now, users, audit>>

\* What handleRevokeSession revokes: the named session of the caller, or the
\* presented one when the body names none.
RevokeOne(r) ==
    RevokeSessionByID(sessions, req[r].seen.user,
                      IF req[r].pick = None THEN req[r].cookie ELSE req[r].pick)

\* handleSignOut, revokePreviousBrowserSession, handleRevokeSession,
\* handleRevokeOtherSessions and handleRevokeSessions.
RevokeSessions(r) ==
    /\ req[r].step = "commit"
    /\ \/ /\ req[r].op \in {"sign-out", "attach"}
          /\ sessions' = RevokeSession(sessions, req[r].cookie)
       \/ /\ req[r].op = "revoke-one"
          /\ sessions' = RevokeOne(r)
       \/ /\ req[r].op = "revoke-others"
          /\ sessions' = RevokeOtherSessions(sessions, req[r].seen.user, req[r].cookie)
       \/ /\ req[r].op = "revoke-all"
          /\ sessions' = RevokeUserSessions(sessions, req[r].seen.user)
    /\ Finish(r)
    /\ UNCHANGED <<now, users, audit, chain>>

\* deleteUserAccount: the sessions and the user go in one transaction.  The
\* proofs of intent that precede it are the subject of module AccountEmail.
DeleteUser(r) ==
    /\ req[r].step = "commit" /\ req[r].op \in {"delete", "delete-callback"}
    /\ sessions' = DeleteUserSessions(sessions, req[r].seen.user)
    /\ users' = [users EXCEPT ![req[r].seen.user] = "deleted"]
    /\ Finish(r)
    /\ UNCHANGED <<now, audit, chain>>

-----------------------------------------------------------------------------
(* The environment                                                         *)

\* A request is lost between two store calls.
Abort(r) ==
    /\ req[r].step # "idle"
    /\ Finish(r)
    /\ UNCHANGED <<now, sessions, users, audit, chain>>

\* The SCIM plugin's user update with active = false: the user is disabled and
\* its sessions revoked in one transaction.  Whether to revoke was decided on the
\* user row read before it: an update that saw a disabled user revokes nothing,
\* although the user may have been reactivated since.
ScimDeactivate(u) ==
    /\ users[u] # "deleted"
    /\ users' = [users EXCEPT ![u] = "disabled"]
    /\ sessions' \in {sessions, RevokeUserSessions(sessions, u)}
    /\ UNCHANGED <<now, audit, req, chain>>

ScimReactivate(u) ==
    /\ users[u] = "disabled"
    /\ users' = [users EXCEPT ![u] = "active"]
    /\ UNCHANGED <<now, sessions, audit, req, chain>>

Tick ==
    /\ now < MaxTime
    /\ now' = now + 1
    /\ UNCHANGED <<sessions, users, audit, req, chain>>

Next ==
    \/ \E r \in Requests :
         \/ Arrive(r) \/ Authenticate(r) \/ CreateAttached(r)
         \/ ReadSession(r) \/ ReadUser(r) \/ ReadSubject(r)
         \/ StartImpersonation(r) \/ StopImpersonation(r)
         \/ SignIn(r) \/ RefreshSession(r) \/ ChangePassword(r)
         \/ RevokeSessions(r) \/ DeleteUser(r) \/ Abort(r)
    \/ \E u \in ScimUsers : ScimDeactivate(u) \/ ScimReactivate(u)
    \/ Tick

Spec == Init /\ [][Next]_vars

-----------------------------------------------------------------------------
(* Safety                                                                  *)

Live(i) == sessions[i].state = "live"

\* RotateSession is a single-use exchange: whatever requests present the same
\* cookie at once, the rows of one rotation chain never hold two live sessions.
OneLivePerChain ==
    \A i, j \in SessionIds :
        (Live(i) /\ Live(j) /\ chain[i] = chain[j]) => i = j

ChainHasLive(c) == \E i \in SessionIds : chain[i] = c /\ Live(i)

\* Once the last live session of a rotation chain is revoked or deleted (sign
\* out, revoke-sessions, SCIM deactivation, account deletion) no request that
\* resolved it earlier can bring the chain back to life with a refresh, a
\* sign-in rotation, an impersonation or a change-password.  A change-password
\* with revokeOtherSessions may still give the caller a session of another chain.
DeadChainStaysDead ==
    [][\A c \in SessionIds :
          ((\E i \in SessionIds : chain[i] = c) /\ ~ChainHasLive(c)) => ~ChainHasLive(c)']_vars

\* The start events that cover the impersonation of row i.
StartedBy(i) ==
    {e \in audit : /\ e.action = "start"
                   /\ e.impersonationId = sessions[i].impersonationId
                   /\ e.actor = sessions[i].impersonatedBy
                   /\ e.subject = sessions[i].user}

\* Every row that carries an impersonation, the rows that refreshes copied it to
\* included, is covered by a committed start event of the same actor and subject,
\* and the pair was allowed to impersonate (handleImpersonate's checks are made
\* on reads that precede the transaction).
ImpersonationAudited ==
    \A i \in SessionIds : sessions[i].impersonationId # None =>
        /\ StartedBy(i) # {}
        /\ CanImpersonate(sessions[i].impersonatedBy, sessions[i].user)

\* A change-password with revokeOtherSessions carried this impersonation on from a
\* session that had ended: a chain begins with a session that is impersonated.
CarriedOn(impersonation) ==
    \E c \in SessionIds : chain[c] = c /\ sessions[c].impersonationId = impersonation

\* What stop event e ends its impersonation for: the rotation chain of the session
\* that was stopped, and every chain unless the impersonation was carried on.
EndedFor(e, c) == c = chain[e.sessionId] \/ ~CarriedOn(e.impersonationId)

\* A stop is final and recorded once, also when stop-impersonating races itself, a
\* refresh or a change-password of the same cookie: no live session of the chains
\* it ends carries the impersonation any more, and no second stop event is written
\* for them.  The exemption is real: a change-password with revokeOtherSessions
\* that resolved the session before the stop gives the stopped impersonation a new
\* session in a chain of its own, which must be stopped again.
StopIsFinal ==
    \A e, f \in audit : e.action = "stop" =>
        /\ \A i \in SessionIds :
              (sessions[i].impersonationId = e.impersonationId /\ EndedFor(e, chain[i])) =>
                  ~Live(i)
        /\ (/\ f.action = "stop" /\ f.impersonationId = e.impersonationId
            /\ EndedFor(e, chain[f.sessionId])) => e = f

=============================================================================

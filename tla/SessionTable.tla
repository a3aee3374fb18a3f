---------------------------- MODULE SessionTable ----------------------------
(***************************************************************************)
(* The persisted "session" table of better-auth-go and the statements that *)
(* databaseStore (store.go) runs against it.                               *)
(*                                                                         *)
(* A session row's id, its raw cookie token and the stored token hash are  *)
(* drawn together from the random source and correspond one to one, so one *)
(* identifier stands for all three.  The identifier of an impersonation is *)
(* drawn in the same request as the session that starts it, and is named   *)
(* after that session.                                                     *)
(*                                                                         *)
(* The operators below are functions from tables to tables.  Each is one   *)
(* adapter statement, or one adapter transaction, and so one atomic step   *)
(* of the handlers that use it.                                            *)
(***************************************************************************)
EXTENDS Naturals

CONSTANTS
    Users,        \* user ids
    SessionIds,   \* the session ids (= cookie tokens) that may be drawn
    None          \* the empty string or NULL column

ASSUME NoneAssumption == None \notin Users /\ None \notin SessionIds

SessionRow ==
    [state          : {"free", "live", "revoked", "deleted"},
     user           : Users \cup {None},
     createdAt      : Nat,
     expiresAt      : Nat,
     impersonatedBy : Users \cup {None},
     impersonationId: SessionIds \cup {None}]

SessionTables == [SessionIds -> SessionRow]

\* An id that has not been drawn yet: no row carries it.
FreeRow ==
    [state |-> "free", user |-> None, createdAt |-> 0, expiresAt |-> 0,
     impersonatedBy |-> None, impersonationId |-> None]

EmptyTable == [i \in SessionIds |-> FreeRow]

\* server.go newSession: a row that is valid from `at` for `duration`; a handler
\* then sets the impersonation columns, if any.
Impersonation(u, at, duration, actor, id) ==
    [state |-> "live", user |-> u, createdAt |-> at, expiresAt |-> at + duration,
     impersonatedBy |-> actor, impersonationId |-> id]

NewSession(u, at, duration) == Impersonation(u, at, duration, None, None)

Unused(tab) == {i \in SessionIds : tab[i].state = "free"}

LiveRows(tab, u) == {i \in SessionIds : tab[i].state = "live" /\ tab[i].user = u}

\* Rows that match the statement's WHERE clause get revokedAt set.
Revoke(tab, matching) ==
    [i \in SessionIds |->
        IF i \in matching /\ tab[i].state = "live"
        THEN [tab[i] EXCEPT !.state = "revoked"]
        ELSE tab[i]]

CreateSession(tab, new, row) == [tab EXCEPT ![new] = row]

\* Fault variant of CanRotate: the update lacks the revokedAt IS NULL clause.
CanRotateRevoked(tab, old) == tab[old].state \in {"live", "revoked"}

\* The guarded update tokenHash = old AND revokedAt IS NULL of RotateSession
\* and RotateSessionWithAudit finds a row; without one they return ErrReplay.
CanRotate(tab, old) == tab[old].state = "live"

\* Fault variant of RotateSession: the presented session is not revoked.
RotateKeepingOld(tab, old, new, row) == CreateSession(tab, new, row)

RotateSession(tab, old, new, row) == CreateSession(Revoke(tab, {old}), new, row)

RevokeSession(tab, i) == Revoke(tab, {i})

RevokeSessionByID(tab, u, i) == Revoke(tab, {i} \cap LiveRows(tab, u))

RevokeOtherSessions(tab, u, current) == Revoke(tab, LiveRows(tab, u) \ {current})

RevokeUserSessions(tab, u) == Revoke(tab, LiveRows(tab, u))

DeleteUserSessions(tab, u) ==
    [i \in SessionIds |->
        IF tab[i].user = u THEN [tab[i] EXCEPT !.state = "deleted"] ELSE tab[i]]

=============================================================================

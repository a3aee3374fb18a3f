------------------------- MODULE CredentialsProofs --------------------------
(***************************************************************************)
(* Proofs of the safety properties of Credentials for any number of users, *)
(* passwords, sessions, reset tokens and concurrent requests, with and     *)
(* without RevokeSessionsOnPasswordReset and a reset callback.             *)
(***************************************************************************)
EXTENDS Credentials, TLAPS

-----------------------------------------------------------------------------
(* The inductive invariant                                                 *)

\* Every write of a hash draws a salt above all stored ones, so a hash that a
\* change-password replaced does not come back.
SaltsOK ==
    \A u \in Users :
        /\ credential[u].salt <= salt
        /\ credential[u] # NoHash => superseded[u][credential[u].salt] = 0
        /\ \A n \in 0..MaxSalt : n > salt => superseded[u][n] = 0

\* A chain has a first row, which is of the same user as the rows derived from it;
\* only chains that exist are ended.
ChainsOK ==
    \A i \in SessionIds :
        /\ sessions[i].state = "free" => sessions[i].user \notin Users
        /\ sessions[i].state # "free" =>
             /\ chain[i] \in SessionIds
             /\ sessions[chain[i]].state # "free"
             /\ sessions[chain[i]].user = sessions[i].user
        /\ ended[i] # "no" => sessions[i].state # "free"

\* i was drawn, for user u.
RowOf(i, u) == i \in SessionIds /\ sessions[i].state # "free" /\ sessions[i].user = u

\* What a request in flight knows of the user, the session and the hash it read.
RequestOK(r) ==
    LET q == req[r] IN
    /\ q.step \in {"credential", "rehash", "create", "token"} => q.user \in Users
    /\ q.step = "resolve" =>
         \/ q.op = "sign-in" /\ q.user \in Users
         \/ q.op \in {"change", "refresh"} /\ q.cookie \in SessionIds
    /\ q.step = "credential" => q.op \in {"sign-in", "change"} /\ q.password \in Passwords
    /\ q.step \in {"credential", "resolve"} /\ q.op = "change" =>
         q.password \in Passwords /\ q.new \in Passwords
    /\ q.step = "rehash" => q.op = "sign-in" /\ q.seen \in Hash /\ q.seen.password = q.password
    /\ q.step \in {"credential", "commit"} /\ q.op \in {"change", "refresh"} =>
         q.user \in Users /\ RowOf(q.cookie, q.user)
    /\ q.step = "commit" /\ q.op = "change" => q.seen \in Hash /\ q.new \in Passwords
    /\ q.step = "commit" /\ q.op = "reset" => q.token \in ResetTokens /\ q.new \in Passwords
    /\ q.step = "commit" /\ q.op = "set" => q.user \in Users /\ q.new \in Passwords
    /\ q.step \in {"callback", "revoke"} => \A v \in q.victims : RowOf(v, q.user)

Inv ==
    /\ TypeOK
    /\ SaltsOK
    /\ ChainsOK
    /\ \A r \in Requests : RequestOK(r)
    /\ LastChoiceWins
    /\ NoLostPasswordChange
    /\ RevokedDevicesStayOut

-----------------------------------------------------------------------------
(* The values and tables of the model                                      *)

LEMMA IdleType == Idle \in Request /\ Idle.step = "idle"
BY DEF Idle, Request, Steps

LEMMA HashedType ==
    ASSUME salt \in 0..MaxSalt, salt < MaxSalt, NEW p \in Passwords
    PROVE  /\ Hashed(p) \in Hash /\ Hashed(p) # NoHash
           /\ Hashed(p).password = p /\ Hashed(p).salt = salt + 1
BY CredentialsAssumption DEF Hashed, Hash, NoHash

LEMMA NoHashDiffers == NoHash \notin Hash
BY CredentialsAssumption DEF Hash, NoHash

LEMMA NewSessionType ==
    ASSUME NEW u \in Users
    PROVE  /\ NewSession(u, 0, 1) \in SessionRow
           /\ NewSession(u, 0, 1).state = "live" /\ NewSession(u, 0, 1).user = u
BY DEF NewSession, Impersonation, SessionRow

\* What a refresh or a change of the password creates is a live row of the user.
LEMMA ReplacementType ==
    ASSUME TypeOK, NEW r \in Requests, req[r].user \in Users, req[r].cookie \in SessionIds
    PROVE  /\ Replacement(r) \in SessionRow
           /\ Replacement(r).state = "live" /\ Replacement(r).user = req[r].user
BY DEF Replacement, Impersonation, SessionRow, TypeOK, SessionTables

\* tab is what a statement that sets revokedAt, on some rows, leaves of old.
Revoked(old, tab) ==
    /\ tab \in SessionTables
    /\ \A i \in SessionIds :
         /\ tab[i].user = old[i].user
         /\ tab[i].state = "free" <=> old[i].state = "free"
         /\ tab[i].state = "live" => old[i].state = "live"

LEMMA RevokeRevokes ==
    ASSUME NEW tab \in SessionTables, NEW matching
    PROVE  /\ Revoked(tab, Revoke(tab, matching))
           /\ \A i \in SessionIds : Revoke(tab, matching)[i].state = "live" => i \notin matching
BY DEF Revoked, Revoke, SessionTables, SessionRow

LEMMA DeleteType ==
    ASSUME NEW tab \in SessionTables, NEW u
    PROVE  /\ DeleteUserSessions(tab, u) \in SessionTables
           /\ \A i \in SessionIds :
                /\ DeleteUserSessions(tab, u)[i].user = tab[i].user
                /\ tab[i].state # "free" => DeleteUserSessions(tab, u)[i].state # "free"
                /\ tab[i].user # u => DeleteUserSessions(tab, u)[i] = tab[i]
                /\ DeleteUserSessions(tab, u)[i].state = "live" => tab[i].state = "live"
BY DEF DeleteUserSessions, SessionTables, SessionRow

-----------------------------------------------------------------------------
(* Frames                                                                  *)

\* Rows that were drawn stay, with their user.
RowsPersist ==
    \A i \in SessionIds : sessions[i].state # "free" =>
        sessions'[i].state # "free" /\ sessions'[i].user = sessions[i].user

LEMMA IdleOK ==
    ASSUME NEW r \in Requests, req'[r] = Idle
    PROVE  RequestOK(r)'
BY IdleType DEF RequestOK

\* A step of request r leaves the others what they know.
LEMMA OthersKeep ==
    ASSUME Inv, NEW r \in Requests, NEW new \in Request, req' = [req EXCEPT ![r] = new],
           RowsPersist, RequestOK(r)'
    PROVE  req' \in [Requests -> Request] /\ \A s \in Requests : RequestOK(s)'
<1>1. req' \in [Requests -> Request] /\ \A s \in Requests \ {r} : req'[s] = req[s]
  BY DEF Inv, TypeOK
<1>2. ASSUME NEW s \in Requests, s # r PROVE RequestOK(s)'
  BY <1>1, <1>2 DEF Inv, RequestOK, RowOf, RowsPersist
<1> QED
  BY <1>1, <1>2

LEMMA FinishKeeps ==
    ASSUME Inv, NEW r \in Requests, Finish(r), RowsPersist
    PROVE  req' \in [Requests -> Request] /\ \A s \in Requests : RequestOK(s)'
<1>1. req'[r] = Idle
  BY DEF Finish, Inv, TypeOK
<1> QED
  BY <1>1, IdleType, IdleOK, OthersKeep DEF Finish

\* Steps that change the request and nothing else.
LEMMA OnlyRequest ==
    ASSUME Inv, NEW r \in Requests, NEW new \in Request, req' = [req EXCEPT ![r] = new],
           RequestOK(r)',
           UNCHANGED <<endpoints, users, credential, tokens, sessions, salt, history>>
    PROVE  Inv'
<1>1. RowsPersist
  BY DEF RowsPersist
<1>2. req' \in [Requests -> Request] /\ \A s \in Requests : RequestOK(s)'
  BY <1>1, OthersKeep
<1>3. TypeOK'
  BY <1>2 DEF Inv, TypeOK, history
<1> QED
  BY <1>2, <1>3 DEF Inv, SaltsOK, ChainsOK, LastChoiceWins, NoLostPasswordChange,
                    RevokedDevicesStayOut, history

LEMMA OnlyFinish ==
    ASSUME Inv, NEW r \in Requests, Finish(r),
           UNCHANGED <<endpoints, users, credential, tokens, sessions, salt, history>>
    PROVE  Inv'
<1>1. req'[r] = Idle
  BY DEF Finish, Inv, TypeOK
<1> QED
  BY <1>1, IdleType, IdleOK, OnlyRequest DEF Finish

\* A new row of a user starts a chain or continues one of the same user.
AddsRow(tab, new, row, u, root) ==
    /\ Revoked(sessions, tab) /\ new \in Unused(sessions)
    /\ row \in SessionRow /\ row.state = "live" /\ row.user = u /\ u \in Users
    /\ sessions' = CreateSession(tab, new, row)
    /\ root = new \/ RowOf(root, u)
    /\ chain' = [chain EXCEPT ![new] = root]

EndsDrawn ==
    \A i \in SessionIds : ended'[i] # "no" => ended[i] # "no" \/ sessions[i].state # "free"

LEMMA NewRowKeeps ==
    ASSUME Inv, EndsDrawn, NEW tab, NEW new, NEW row, NEW u, NEW root,
           AddsRow(tab, new, row, u, root)
    PROVE  /\ sessions' \in SessionTables /\ chain' \in [SessionIds -> SessionIds \cup {None}]
           /\ RowsPersist /\ ChainsOK'
           /\ sessions'[new].state = "live" /\ chain'[new] = root
           /\ \A i \in SessionIds \ {new} : sessions'[i] = tab[i] /\ chain'[i] = chain[i]
<1> USE DEF AddsRow
<1>1. new \in SessionIds /\ sessions[new].state = "free"
  BY DEF Unused
<1>2. row \in SessionRow /\ row.state = "live" /\ row.user = u
  OBVIOUS
<1>3. sessions' = [tab EXCEPT ![new] = row]
  BY DEF CreateSession
<1>4. /\ sessions'[new] = row /\ chain'[new] = root
      /\ \A i \in SessionIds \ {new} : sessions'[i] = tab[i] /\ chain'[i] = chain[i]
      /\ sessions' \in SessionTables
  BY <1>1, <1>2, <1>3 DEF Revoked, SessionTables, Inv, TypeOK
<1>5. root \in SessionIds /\ chain' \in [SessionIds -> SessionIds \cup {None}]
  BY <1>1 DEF RowOf, Inv, TypeOK
<1>6. RowsPersist
  BY <1>1, <1>4 DEF RowsPersist, Revoked
<1>7. sessions'[root].state # "free" /\ sessions'[root].user = u
  BY <1>1, <1>2, <1>4, <1>6 DEF RowOf, RowsPersist
<1>8. ASSUME NEW i \in SessionIds
      PROVE  /\ sessions'[i].state = "free" => sessions'[i].user \notin Users
             /\ sessions'[i].state # "free" =>
                  /\ chain'[i] \in SessionIds
                  /\ sessions'[chain'[i]].state # "free"
                  /\ sessions'[chain'[i]].user = sessions'[i].user
  <2>1. CASE i = new
    BY <1>2, <1>4, <1>5, <1>7, <2>1
  <2>2. CASE i # new
    BY <1>4, <1>6, <2>2 DEF Revoked, RowsPersist, Inv, ChainsOK
  <2> QED
    BY <2>1, <2>2
<1>9. ASSUME NEW i \in SessionIds, ended'[i] # "no" PROVE sessions'[i].state # "free"
  BY <1>6, <1>9 DEF RowsPersist, EndsDrawn, Inv, ChainsOK
<1>10. ChainsOK'
  BY <1>8, <1>9 DEF ChainsOK
<1> QED
  BY <1>2, <1>4, <1>5, <1>6, <1>10

-----------------------------------------------------------------------------
(* Writing a hash                                                          *)

\* The salt that is drawn is new, for the user whose hash is written as for all.
LEMMA WriteKeeps ==
    ASSUME Inv, NEW u \in Users, NEW h \in Hash, h.salt = salt + 1, salt < MaxSalt,
           salt' = salt + 1, credential' = [credential EXCEPT ![u] = h], UNCHANGED superseded
    PROVE  /\ credential' \in [Users -> Hash \cup {NoHash}] /\ salt' \in 0..MaxSalt
           /\ SaltsOK' /\ NoLostPasswordChange'
<1>1. salt \in 0..MaxSalt /\ MaxSalt \in Nat
  BY CredentialsAssumption DEF Inv, TypeOK
<1>2. credential' \in [Users -> Hash \cup {NoHash}] /\ salt' \in 0..MaxSalt
  BY <1>1 DEF Inv, TypeOK
<1>3. credential'[u] = h /\ \A v \in Users \ {u} : credential'[v] = credential[v]
  BY DEF Inv, TypeOK
<1>4. superseded[u][salt + 1] = 0
  BY <1>1 DEF Inv, SaltsOK
<1>5. \A v \in Users : credential[v].salt \in Nat
  BY <1>1 DEF Inv, TypeOK, Hash, NoHash
<1>6. SaltsOK'
  BY <1>1, <1>3, <1>4, <1>5 DEF Inv, SaltsOK
<1> QED
  BY <1>2, <1>6 DEF Inv, NoLostPasswordChange

\* ReplacePasswordHash writes the password that the stored hash verifies already.
LEMMA ReplaceKeeps ==
    ASSUME Inv, NEW r \in Requests, ReplacePasswordHash(r), UNCHANGED endpoints
    PROVE  Inv'
<1> DEFINE u == req[r].user
<1>1. /\ req[r].step = "rehash" /\ u \in Users /\ req[r].seen \in Hash
      /\ req[r].seen.password = req[r].password
  BY DEF ReplacePasswordHash, Inv, RequestOK
<1>2. salt \in 0..MaxSalt /\ MaxSalt \in Nat /\ salt < MaxSalt /\ salt' = salt + 1
  BY CredentialsAssumption DEF ReplacePasswordHash, Inv, TypeOK
<1>3. UNCHANGED <<users, tokens, sessions, intent, superseded, chain, ended>>
  BY DEF ReplacePasswordHash, history
<1>4. req[r].password \in Passwords
  BY <1>1 DEF Hash
<1>5. /\ credential' \in [Users -> Hash \cup {NoHash}] /\ salt' \in 0..MaxSalt
      /\ SaltsOK' /\ NoLostPasswordChange' /\ LastChoiceWins'
  <2>1. CASE HashUnchanged(r)
    <3>1. credential[u].password = req[r].password
      BY <1>1, <2>1 DEF HashUnchanged
    <3> DEFINE h == Hashed(req[r].password)
    <3>2. h \in Hash /\ h.salt = salt + 1 /\ h.password = req[r].password
      BY <1>2, <1>4, HashedType
    <3>3. credential' = [credential EXCEPT ![u] = h]
      BY <2>1 DEF ReplacePasswordHash
    <3> HIDE DEF h
    <3>4. LastChoiceWins'
      BY <1>1, <1>3, <3>1, <3>2, <3>3 DEF Inv, TypeOK, LastChoiceWins
    <3> QED
      BY <1>1, <1>2, <1>3, <3>2, <3>3, <3>4, WriteKeeps
  <2>2. CASE ~HashUnchanged(r)
    <3>1. credential' = credential
      BY <2>2 DEF ReplacePasswordHash, Inv, TypeOK
    <3>2. \A v \in Users : credential[v].salt \in Nat
      BY <1>2 DEF Inv, TypeOK, Hash, NoHash
    <3> QED
      BY <1>2, <1>3, <3>1, <3>2 DEF Inv, TypeOK, SaltsOK, NoLostPasswordChange, LastChoiceWins
  <2> QED
    BY <2>1, <2>2
<1> DEFINE new == [req[r] EXCEPT !.step = "resolve"]
<1>6. new \in Request /\ new.step = "resolve" /\ new.user = u /\ new.op = req[r].op
  <2>1. req[r] \in Request /\ "resolve" \in Steps
    BY DEF Inv, TypeOK, Steps
  <2> QED
    BY <2>1 DEF Request
<1>7. req' = [req EXCEPT ![r] = new] /\ req'[r] = new
  BY DEF ReplacePasswordHash, Goto, Inv, TypeOK
<1> HIDE DEF new
<1>8. RowsPersist
  BY <1>3 DEF RowsPersist
<1>9. req[r].op = "sign-in"
  BY <1>1 DEF Inv, RequestOK
<1>10. RequestOK(r)'
  BY <1>1, <1>6, <1>7, <1>9 DEF RequestOK
<1>11. req' \in [Requests -> Request] /\ \A s \in Requests : RequestOK(s)'
  BY <1>6, <1>7, <1>8, <1>10, OthersKeep
<1>12. TypeOK'
  BY <1>3, <1>5, <1>11 DEF Inv, TypeOK
<1> QED
  BY <1>3, <1>5, <1>11, <1>12 DEF Inv, ChainsOK, RevokedDevicesStayOut

LEMMA SetKeeps ==
    ASSUME Inv, NEW r \in Requests, SetPasswordHash(r), UNCHANGED endpoints
    PROVE  Inv'
<1> DEFINE u == req[r].user
           h == Hashed(req[r].new)
<1>1. u \in Users /\ req[r].new \in Passwords
  BY DEF SetPasswordHash, Inv, RequestOK
<1>2. salt \in 0..MaxSalt /\ MaxSalt \in Nat /\ salt < MaxSalt /\ salt' = salt + 1
  BY CredentialsAssumption DEF SetPasswordHash, Inv, TypeOK
<1>3. UNCHANGED <<users, tokens, sessions, superseded, chain, ended>>
  BY DEF SetPasswordHash
<1>4. h \in Hash /\ h.salt = salt + 1 /\ h.password = req[r].new
  BY <1>1, <1>2, HashedType
<1>5. credential' = [credential EXCEPT ![u] = h] /\ intent' = [intent EXCEPT ![u] = req[r].new]
  BY DEF SetPasswordHash
<1> HIDE DEF h
<1>6. /\ credential' \in [Users -> Hash \cup {NoHash}] /\ salt' \in 0..MaxSalt
      /\ SaltsOK' /\ NoLostPasswordChange'
  BY <1>1, <1>2, <1>3, <1>4, <1>5, WriteKeeps
<1>7. LastChoiceWins'
  BY <1>1, <1>3, <1>4, <1>5 DEF Inv, TypeOK, LastChoiceWins
<1>8. RowsPersist
  BY <1>3 DEF RowsPersist
<1>9. req' \in [Requests -> Request] /\ \A s \in Requests : RequestOK(s)'
  BY <1>8, FinishKeeps DEF SetPasswordHash
<1>10. intent' \in [Users -> Passwords \cup {None}]
  BY <1>1, <1>5 DEF Inv, TypeOK
<1>11. TypeOK'
  BY <1>3, <1>6, <1>9, <1>10 DEF Inv, TypeOK
<1> QED
  BY <1>3, <1>6, <1>7, <1>9, <1>11 DEF Inv, ChainsOK, RevokedDevicesStayOut

-----------------------------------------------------------------------------
(* A request arrives, resolves its cookie and reads the credential         *)

LEMMA StartKeeps ==
    ASSUME Inv, NEW r \in Requests, NEW new \in Request, Start(r, new),
           req'[r] = new => RequestOK(r)',
           UNCHANGED <<endpoints, users, credential, tokens, sessions, salt, history>>
    PROVE  Inv'
<1>1. req' = [req EXCEPT ![r] = new] /\ req'[r] = new
  BY DEF Start, Inv, TypeOK
<1> QED
  BY <1>1, OnlyRequest

LEMMA ArriveKeeps ==
    ASSUME Inv, NEW r \in Requests, Arrive(r), UNCHANGED endpoints
    PROVE  Inv'
<1> USE DEF Steps, Ops
<1>0. UNCHANGED <<endpoints, users, credential, tokens, sessions, salt, history>>
  BY DEF Arrive
<1>1. ASSUME NEW u \in Users, NEW p \in Passwords, NEW c \in Issued \cup {None},
             Start(r, [Idle EXCEPT !.op = "sign-in", !.step = "credential",
                                   !.user = u, !.password = p, !.cookie = c])
      PROVE  Inv'
  <2> DEFINE new == [Idle EXCEPT !.op = "sign-in", !.step = "credential",
                                 !.user = u, !.password = p, !.cookie = c]
  <2>1. /\ new \in Request /\ new.step = "credential" /\ new.op = "sign-in"
        /\ new.user = u /\ new.password = p
    BY IdleType DEF Request, Issued
  <2>2. Start(r, new)
    BY <1>1
  <2> HIDE DEF new
  <2>3. req'[r] = new => RequestOK(r)'
    BY <2>1 DEF RequestOK
  <2> QED
    BY <1>0, <2>1, <2>2, <2>3, StartKeeps
<1>2. ASSUME NEW c \in Issued, NEW p \in Passwords, NEW n \in Passwords, NEW others \in BOOLEAN,
             Start(r, [Idle EXCEPT !.op = "change", !.step = "resolve", !.cookie = c,
                                   !.password = p, !.new = n, !.revokeOthers = others])
      PROVE  Inv'
  <2> DEFINE new == [Idle EXCEPT !.op = "change", !.step = "resolve", !.cookie = c,
                                 !.password = p, !.new = n, !.revokeOthers = others]
  <2>1. /\ new \in Request /\ new.step = "resolve" /\ new.op = "change"
        /\ new.cookie \in SessionIds /\ new.password = p /\ new.new = n
    BY IdleType DEF Request, Issued
  <2>2. Start(r, new)
    BY <1>2
  <2> HIDE DEF new
  <2>3. req'[r] = new => RequestOK(r)'
    BY <2>1 DEF RequestOK
  <2> QED
    BY <1>0, <2>1, <2>2, <2>3, StartKeeps
<1>3. ASSUME NEW c \in Issued,
             Start(r, [Idle EXCEPT !.op = "refresh", !.step = "resolve", !.cookie = c])
      PROVE  Inv'
  <2> DEFINE new == [Idle EXCEPT !.op = "refresh", !.step = "resolve", !.cookie = c]
  <2>1. new \in Request /\ new.step = "resolve" /\ new.op = "refresh" /\ new.cookie \in SessionIds
    BY IdleType DEF Request, Issued
  <2>2. Start(r, new)
    BY <1>3
  <2> HIDE DEF new
  <2>3. req'[r] = new => RequestOK(r)'
    BY <2>1 DEF RequestOK
  <2> QED
    BY <1>0, <2>1, <2>2, <2>3, StartKeeps
<1>4. ASSUME NEW u \in users,
             Start(r, [Idle EXCEPT !.op = "forgot", !.step = "token", !.user = u])
      PROVE  Inv'
  <2> DEFINE new == [Idle EXCEPT !.op = "forgot", !.step = "token", !.user = u]
  <2>1. new \in Request /\ new.step = "token" /\ new.user \in Users
    BY IdleType DEF Request, Inv, TypeOK
  <2>2. Start(r, new)
    BY <1>4
  <2> HIDE DEF new
  <2>3. req'[r] = new => RequestOK(r)'
    BY <2>1 DEF RequestOK
  <2> QED
    BY <1>0, <2>1, <2>2, <2>3, StartKeeps
<1>5. ASSUME NEW t \in ResetTokens, NEW n \in Passwords,
             Start(r, [Idle EXCEPT !.op = "reset", !.step = "commit", !.token = t, !.new = n])
      PROVE  Inv'
  <2> DEFINE new == [Idle EXCEPT !.op = "reset", !.step = "commit", !.token = t, !.new = n]
  <2>1. /\ new \in Request /\ new.step = "commit" /\ new.op = "reset"
        /\ new.token = t /\ new.new = n
    BY IdleType DEF Request
  <2>2. Start(r, new)
    BY <1>5
  <2> HIDE DEF new
  <2>3. req'[r] = new => RequestOK(r)'
    BY <2>1 DEF RequestOK
  <2> QED
    BY <1>0, <2>1, <2>2, <2>3, StartKeeps
<1>6. ASSUME NEW u \in users, NEW n \in Passwords,
             Start(r, [Idle EXCEPT !.op = "set", !.step = "commit", !.user = u, !.new = n])
      PROVE  Inv'
  <2> DEFINE new == [Idle EXCEPT !.op = "set", !.step = "commit", !.user = u, !.new = n]
  <2>1. /\ new \in Request /\ new.step = "commit" /\ new.op = "set"
        /\ new.user \in Users /\ new.new = n
    BY IdleType DEF Request, Inv, TypeOK
  <2>2. Start(r, new)
    BY <1>6
  <2> HIDE DEF new
  <2>3. req'[r] = new => RequestOK(r)'
    BY <2>1 DEF RequestOK
  <2> QED
    BY <1>0, <2>1, <2>2, <2>3, StartKeeps
<1> QED
  BY <1>1, <1>2, <1>3, <1>4, <1>5, <1>6 DEF Arrive

\* The session that resolves is a drawn row of the user the request goes on with.
LEMMA ResolveKeeps ==
    ASSUME Inv, NEW r \in Requests, ResolveSession(r), UNCHANGED endpoints
    PROVE  Inv'
<1> DEFINE c == req[r].cookie
<1>0. UNCHANGED <<endpoints, users, credential, tokens, sessions, salt, history>>
  BY DEF ResolveSession
<1>1. /\ req[r].step = "resolve" /\ req[r] \in Request
      /\ \/ req[r].op = "sign-in" /\ req[r].user \in Users
         \/ req[r].op \in {"change", "refresh"} /\ c \in SessionIds
      /\ req[r].op = "change" => req[r].new \in Passwords /\ req[r].password \in Passwords
  BY DEF ResolveSession, Inv, RequestOK, TypeOK
<1>2. CASE req[r].op = "sign-in"
  <2>1. PICK k \in SessionIds \cup {None} :
          req' = [req EXCEPT ![r] = [req[r] EXCEPT !.step = "create", !.cookie = k]]
    <3>1. CASE Resolves(c)
      <4>1. req' = [req EXCEPT ![r] = [req[r] EXCEPT !.step = "create", !.cookie = c]]
        BY <1>1, <1>2, <3>1 DEF ResolveSession, Inv, TypeOK, Request
      <4>2. c \in SessionIds \cup {None}
        BY <1>1 DEF Request
      <4> QED
        BY <4>1, <4>2
    <3>2. CASE ~Resolves(c)
      <4>1. req' = [req EXCEPT ![r] = [req[r] EXCEPT !.step = "create", !.cookie = None]]
        BY <1>1, <1>2, <3>2 DEF ResolveSession, Inv, TypeOK, Request
      <4> QED
        BY <4>1
    <3> QED
      BY <3>1, <3>2
  <2> DEFINE new == [req[r] EXCEPT !.step = "create", !.cookie = k]
  <2>2. /\ new \in Request /\ new.step = "create" /\ new.user = req[r].user
        /\ new.op = "sign-in"
    BY <1>1, <1>2 DEF Request, Steps
  <2>3. req' = [req EXCEPT ![r] = new] /\ req'[r] = new
    BY <2>1 DEF Inv, TypeOK
  <2> HIDE DEF new
  <2>4. RequestOK(r)'
    BY <1>1, <1>2, <2>2, <2>3 DEF RequestOK
  <2> QED
    BY <1>0, <2>2, <2>3, <2>4, OnlyRequest
<1>3. CASE req[r].op # "sign-in" /\ Resolves(c)
  <2> DEFINE next == IF req[r].op = "change" THEN "credential" ELSE "commit"
             new == [req[r] EXCEPT !.user = sessions[c].user, !.step = next]
  <2>1. req[r].op \in {"change", "refresh"} /\ c \in SessionIds
    BY <1>1, <1>3
  <2>2. sessions[c].user \in Users /\ sessions[c].state # "free"
    BY <1>3, <2>1 DEF Resolves, Inv, TypeOK
  <2>3. /\ next \in {"credential", "commit"}
        /\ req[r].op = "change" <=> next = "credential"
    OBVIOUS
  <2>4. req' = [req EXCEPT ![r] = new] /\ req'[r] = new
    BY <1>1, <1>3, <2>1 DEF ResolveSession, Inv, TypeOK, Request
  <2> HIDE DEF next
  <2>5. /\ new \in Request /\ new.step = next /\ new.user = sessions[c].user
        /\ new.cookie = c /\ new.op = req[r].op /\ new.new = req[r].new
        /\ new.password = req[r].password
    BY <1>1, <2>2, <2>3 DEF Request, Steps
  <2> HIDE DEF new
  <2>6. RequestOK(r)'
    BY <1>0, <1>1, <2>1, <2>2, <2>3, <2>4, <2>5 DEF RequestOK, RowOf
  <2> QED
    BY <1>0, <2>4, <2>5, <2>6, OnlyRequest
<1>4. CASE req[r].op # "sign-in" /\ ~Resolves(c)
  BY <1>0, <1>4, OnlyFinish DEF ResolveSession
<1> QED
  BY <1>2, <1>3, <1>4

\* The hash that verifies is remembered.
LEMMA ReadKeeps ==
    ASSUME Inv, NEW r \in Requests, ReadCredential(r), UNCHANGED endpoints
    PROVE  Inv'
<1> DEFINE u == req[r].user
           hash == credential[u]
<1>0. UNCHANGED <<endpoints, users, credential, tokens, sessions, salt, history>>
  BY DEF ReadCredential
<1>1. /\ req[r].step = "credential" /\ req[r] \in Request /\ u \in Users
      /\ req[r].op \in {"sign-in", "change"} /\ req[r].password \in Passwords
      /\ req[r].op = "change" => req[r].new \in Passwords /\ RowOf(req[r].cookie, u)
  BY DEF ReadCredential, Inv, RequestOK, TypeOK
<1>2. CASE u \notin users \/ hash.password # req[r].password
  BY <1>0, <1>2, OnlyFinish DEF ReadCredential
<1>3. CASE ~(u \notin users \/ hash.password # req[r].password)
  <2>1. hash \in Hash /\ hash.password = req[r].password
    BY <1>1, <1>3, CredentialsAssumption DEF Inv, TypeOK, NoHash
  <2> DEFINE next == IF req[r].op = "change" THEN "commit"
                     ELSE IF hash.legacy THEN "rehash" ELSE "resolve"
             new == [req[r] EXCEPT !.seen = hash, !.step = next]
  <2>2. /\ next \in {"commit", "rehash", "resolve"}
        /\ req[r].op = "change" <=> next = "commit"
    <3>1. CASE req[r].op = "change"
      BY <3>1
    <3>2. CASE req[r].op # "change" /\ hash.legacy
      BY <3>2
    <3>3. CASE req[r].op # "change" /\ ~hash.legacy
      BY <3>3
    <3> QED
      BY <3>1, <3>2, <3>3
  <2>3. req' = [req EXCEPT ![r] = new] /\ req'[r] = new
    BY <1>3 DEF ReadCredential, Inv, TypeOK
  <2> HIDE DEF next
  <2>4. /\ new \in Request /\ new.step = next /\ new.user = u /\ new.seen = hash
        /\ new.cookie = req[r].cookie /\ new.op = req[r].op /\ new.new = req[r].new
        /\ new.password = req[r].password
    BY <1>1, <2>1, <2>2 DEF Request, Steps
  <2> HIDE DEF new, hash
  <2>5. RequestOK(r)'
    BY <1>0, <1>1, <2>1, <2>2, <2>3, <2>4 DEF RequestOK, RowOf
  <2> QED
    BY <1>0, <2>3, <2>4, <2>5, OnlyRequest
<1> QED
  BY <1>2, <1>3

-----------------------------------------------------------------------------
(* Sign-in and refresh give out sessions                                   *)

\* The new row starts a chain, or continues that of a live row: not an ended one.
LEMMA RotationKeeps ==
    ASSUME Inv, NEW r \in Requests, Finish(r),
           NEW tab, Revoked(sessions, tab), NEW new \in Unused(sessions), NEW u \in Users,
           NEW row \in SessionRow, row.state = "live", row.user = u,
           sessions' = CreateSession(tab, new, row),
           NEW root, chain' = [chain EXCEPT ![new] = root],
           root = new \/ (RowOf(root, u) /\ ended[root] # "answered"),
           UNCHANGED <<endpoints, users, credential, tokens, salt, intent, superseded, ended>>
    PROVE  Inv'
<1>1. new \in SessionIds /\ sessions[new].state = "free"
  BY DEF Unused
<1>2. /\ sessions' \in SessionTables /\ chain' \in [SessionIds -> SessionIds \cup {None}]
      /\ RowsPersist /\ ChainsOK' /\ chain'[new] = root
      /\ \A i \in SessionIds \ {new} : sessions'[i] = tab[i] /\ chain'[i] = chain[i]
  <2>1. AddsRow(tab, new, row, u, root)
    BY DEF AddsRow
  <2>2. EndsDrawn
    BY DEF EndsDrawn
  <2> QED
    BY <2>1, <2>2, NewRowKeeps
<1>3. req' \in [Requests -> Request] /\ \A s \in Requests : RequestOK(s)'
  BY <1>2, FinishKeeps
<1>4. TypeOK'
  BY <1>2, <1>3 DEF Inv, TypeOK
<1>5. ended[root] # "answered"
  BY <1>1 DEF Inv, ChainsOK
<1>6. RevokedDevicesStayOut'
  BY <1>2, <1>5 DEF RevokedDevicesStayOut, Inv, Revoked
<1> QED
  BY <1>2, <1>3, <1>4, <1>6 DEF Inv, SaltsOK, LastChoiceWins, NoLostPasswordChange

\* The chain of a live row is one of its user and has not been ended.
LEMMA LiveChain ==
    ASSUME Inv, NEW c \in SessionIds, sessions[c].state = "live"
    PROVE  RowOf(chain[c], sessions[c].user) /\ ended[chain[c]] # "answered"
BY DEF Inv, ChainsOK, RevokedDevicesStayOut, RowOf

LEMMA SameTable ==
    ASSUME Inv
    PROVE  Revoked(sessions, sessions)
BY DEF Inv, TypeOK, Revoked

LEMMA CreateKeeps ==
    ASSUME Inv, NEW r \in Requests, CreateOrRotateSession(r), UNCHANGED endpoints
    PROVE  Inv'
<1> DEFINE c == req[r].cookie
           u == req[r].user
           row == NewSession(u, 0, 1)
<1>0. UNCHANGED <<endpoints, users, credential, tokens, salt, intent, superseded, ended>>
  BY DEF CreateOrRotateSession
<1>1. Finish(r) /\ u \in Users /\ c \in SessionIds \cup {None}
  BY DEF CreateOrRotateSession, Inv, RequestOK, TypeOK, Request
<1>2. ASSUME NEW new \in Unused(sessions), sessions' = CreateSession(sessions, new, row),
             chain' = [chain EXCEPT ![new] = new]
      PROVE  Inv'
  <2>1. row \in SessionRow /\ row.state = "live" /\ row.user = u
    BY <1>1, NewSessionType
  <2> HIDE DEF row
  <2> QED
    BY <1>0, <1>1, <1>2, <2>1, SameTable, RotationKeeps
<1>3. ASSUME c # None, CanRotate(sessions, c), NEW new \in Unused(sessions),
             sessions' = RotateSession(sessions, c, new, row),
             chain' = [chain EXCEPT ![new] = IF sessions[c].user = u THEN chain[c] ELSE new]
      PROVE  Inv'
  <2> DEFINE root == IF sessions[c].user = u THEN chain[c] ELSE new
             tab == Revoke(sessions, {c})
  <2>1. root = new \/ (RowOf(root, u) /\ ended[root] # "answered")
    BY <1>1, <1>3, LiveChain DEF CanRotate, RowOf
  <2>2. sessions' = CreateSession(tab, new, row)
    BY <1>3 DEF RotateSession
  <2>3. Revoked(sessions, tab)
    BY RevokeRevokes DEF Inv, TypeOK
  <2>4. row \in SessionRow /\ row.state = "live" /\ row.user = u
    BY <1>1, NewSessionType
  <2> HIDE DEF root, tab, row
  <2> QED
    BY <1>0, <1>1, <1>3, <2>1, <2>2, <2>3, <2>4, RotationKeeps DEF root
<1>4. ASSUME UNCHANGED <<sessions, chain>> PROVE Inv'
  BY <1>0, <1>1, <1>4, OnlyFinish DEF history
<1> QED
  BY <1>2, <1>3, <1>4 DEF CreateOrRotateSession

LEMMA RefreshKeeps ==
    ASSUME Inv, NEW r \in Requests, RefreshSession(r), UNCHANGED endpoints
    PROVE  Inv'
<1> DEFINE c == req[r].cookie
           u == req[r].user
           row == Replacement(r)
           tab == Revoke(sessions, {c})
<1>0. UNCHANGED <<endpoints, users, credential, tokens, salt, intent, superseded, ended>>
  BY DEF RefreshSession
<1>1. Finish(r) /\ u \in Users /\ RowOf(c, u)
  BY DEF RefreshSession, Inv, RequestOK
<1>2. ASSUME CanRotate(sessions, c), NEW new \in Unused(sessions),
             sessions' = RotateSession(sessions, c, new, row),
             chain' = [chain EXCEPT ![new] = chain[c]]
      PROVE  Inv'
  <2>1. RowOf(chain[c], u) /\ ended[chain[c]] # "answered"
    BY <1>1, <1>2, LiveChain DEF CanRotate, RowOf
  <2>2. sessions' = CreateSession(tab, new, row)
    BY <1>2 DEF RotateSession
  <2>3. Revoked(sessions, tab)
    BY RevokeRevokes DEF Inv, TypeOK
  <2>4. row \in SessionRow /\ row.state = "live" /\ row.user = u
    BY <1>1, ReplacementType DEF RowOf, Inv
  <2> HIDE DEF tab, row
  <2> QED
    BY <1>0, <1>1, <1>2, <2>1, <2>2, <2>3, <2>4, RotationKeeps
<1>3. ASSUME UNCHANGED <<sessions, chain>> PROVE Inv'
  BY <1>0, <1>1, <1>3, OnlyFinish DEF history
<1> QED
  BY <1>2, <1>3 DEF RefreshSession

-----------------------------------------------------------------------------
(* Ending sessions                                                         *)

LEMMA LiveChainsOf ==
    ASSUME Inv, NEW u
    PROVE  \A v \in LiveChains(u) : RowOf(v, u)
BY LiveChain DEF LiveChains, LiveRows

LEMMA MarkEndedType ==
    ASSUME Inv, NEW chains, NEW how \in {"committed", "answered"}, NEW u,
           \A v \in chains : RowOf(v, u), ended' = MarkEnded(chains, how)
    PROVE  /\ ended' \in [SessionIds -> {"no", "committed", "answered"}]
           /\ \A i \in SessionIds : ended'[i] # "no" =>
                ended[i] # "no" \/ sessions[i].state # "free"
           /\ \A i \in SessionIds : ended'[i] = "answered" =>
                ended[i] = "answered" \/ (how = "answered" /\ i \in chains)
BY DEF MarkEnded, RowOf, Inv, TypeOK

\* RevokeUserSessions leaves no live row of the user, so none of a chain of it.
LEMMA UserRevoked ==
    ASSUME Inv, NEW u
    PROVE  /\ Revoked(sessions, RevokeUserSessions(sessions, u))
           /\ \A i \in SessionIds : RevokeUserSessions(sessions, u)[i].state = "live" =>
                sessions[i].user # u
<1> DEFINE tab == Revoke(sessions, LiveRows(sessions, u))
<1>1. /\ Revoked(sessions, tab)
      /\ \A i \in SessionIds : tab[i].state = "live" => i \notin LiveRows(sessions, u)
  BY RevokeRevokes DEF Inv, TypeOK
<1>2. ASSUME NEW i \in SessionIds, tab[i].state = "live" PROVE sessions[i].user # u
  BY <1>1, <1>2 DEF LiveRows, Revoked
<1> QED
  BY <1>1, <1>2 DEF RevokeUserSessions

-----------------------------------------------------------------------------
(* Change password, reset password                                         *)

LEMMA CountOne ==
    ASSUME NEW f \in [0..MaxSalt -> Nat], NEW n \in 0..MaxSalt, f[n] = 0
    PROVE  /\ [f EXCEPT ![n] = f[n] + 1] \in [0..MaxSalt -> Nat]
           /\ [f EXCEPT ![n] = f[n] + 1][n] = 1
           /\ \A k \in 0..MaxSalt : k # n => [f EXCEPT ![n] = f[n] + 1][k] = f[k]
OBVIOUS

\* The hash replaced is the stored one, which no change-password has replaced yet.
LEMMA ChangeHashKeeps ==
    ASSUME Inv, NEW u \in Users, NEW h \in Hash, h.salt = salt + 1, salt < MaxSalt,
           credential[u] \in Hash, salt' = salt + 1,
           credential' = [credential EXCEPT ![u] = h],
           superseded' = [superseded EXCEPT ![u][credential[u].salt] = @ + 1]
    PROVE  /\ credential' \in [Users -> Hash \cup {NoHash}] /\ salt' \in 0..MaxSalt
           /\ superseded' \in [Users -> [0..MaxSalt -> Nat]]
           /\ SaltsOK' /\ NoLostPasswordChange'
<1> DEFINE n == credential[u].salt
<1>1. salt \in 0..MaxSalt /\ MaxSalt \in Nat
  BY CredentialsAssumption DEF Inv, TypeOK
<1>2. credential' \in [Users -> Hash \cup {NoHash}] /\ salt' \in 0..MaxSalt
  BY <1>1 DEF Inv, TypeOK
<1>3. credential'[u] = h /\ \A v \in Users \ {u} : credential'[v] = credential[v]
  BY DEF Inv, TypeOK
<1>4. n \in 0..MaxSalt /\ n <= salt /\ superseded[u][n] = 0
  BY NoHashDiffers DEF Inv, SaltsOK, Hash
<1> DEFINE row == [superseded[u] EXCEPT ![n] = superseded[u][n] + 1]
<1>5. /\ row \in [0..MaxSalt -> Nat] /\ row[n] = 1
      /\ \A k \in 0..MaxSalt : k # n => row[k] = superseded[u][k]
  <2>1. superseded[u] \in [0..MaxSalt -> Nat]
    BY DEF Inv, TypeOK
  <2> HIDE DEF n
  <2> QED
    BY <1>4, <2>1, CountOne
<1> HIDE DEF row, n
<1>6. /\ superseded' \in [Users -> [0..MaxSalt -> Nat]]
      /\ superseded'[u] = row /\ \A v \in Users \ {u} : superseded'[v] = superseded[v]
  <2>1. superseded' = [superseded EXCEPT ![u] = row]
    BY DEF row, n
  <2> QED
    BY <1>5, <2>1 DEF Inv, TypeOK
<1>7. \A v \in Users : credential[v].salt \in Nat
  <2>1. \A v \in Users : credential[v] \in Hash \cup {NoHash}
    BY DEF Inv, TypeOK
  <2>2. \A x \in Hash \cup {NoHash} : x.salt \in Nat
    BY <1>1 DEF Hash, NoHash
  <2> QED
    BY <2>1, <2>2
<1>8. ASSUME NEW v \in Users
      PROVE  /\ credential'[v].salt <= salt'
             /\ credential'[v] # NoHash => superseded'[v][credential'[v].salt] = 0
             /\ \A k \in 0..MaxSalt : k > salt' => superseded'[v][k] = 0
  <2>1. CASE v = u
    BY SMTT(40), <1>1, <1>3, <1>4, <1>5, <1>6, <2>1 DEF Inv, SaltsOK
  <2>2. CASE v # u
    BY <1>1, <1>3, <1>6, <1>7, <2>2 DEF Inv, SaltsOK
  <2> QED
    BY <2>1, <2>2
<1>9. SaltsOK'
  BY <1>8 DEF SaltsOK
<1>10. NoLostPasswordChange'
  <2>1. \A k \in 0..MaxSalt : superseded[u][k] <= 1
    BY DEF NoLostPasswordChange, Inv
  <2>2. \A k \in 0..MaxSalt : row[k] <= 1
    BY <1>4, <1>5, <2>1
  <2> QED
    BY <1>6, <2>2 DEF NoLostPasswordChange, Inv
<1> QED
  BY <1>2, <1>6, <1>9, <1>10

\* ChangePasswordAndRotate compares the hash, and the session it continues is live;
\* with revokeOtherSessions it starts a new chain after ending all of the user's.
LEMMA ChangeKeeps ==
    ASSUME Inv, NEW r \in Requests, ChangePasswordAndRotate(r), UNCHANGED endpoints
    PROVE  Inv'
<1> DEFINE u == req[r].user
           c == req[r].cookie
           h == Hashed(req[r].new)
           revoked == IF req[r].revokeOthers THEN RevokeUserSessions(sessions, u)
                      ELSE RevokeSession(sessions, c)
<1>0. UNCHANGED <<endpoints, users, tokens>> /\ Finish(r)
  BY DEF ChangePasswordAndRotate
<1>1. /\ u \in Users /\ RowOf(c, u) /\ req[r].seen \in Hash /\ req[r].new \in Passwords
      /\ req[r].revokeOthers \in BOOLEAN
  BY DEF ChangePasswordAndRotate, Inv, RequestOK, TypeOK, Request
<1>2. salt \in 0..MaxSalt /\ MaxSalt \in Nat /\ salt < MaxSalt /\ salt' = salt + 1
  BY CredentialsAssumption DEF ChangePasswordAndRotate, Inv, TypeOK
<1>3. CASE CanChange(r)
  <2>1. credential[u] \in Hash /\ req[r].seen = credential[u]
    BY <1>1, <1>3 DEF CanChange, HashUnchanged
  <2>2. h \in Hash /\ h.salt = salt + 1 /\ h.password = req[r].new
    BY <1>1, <1>2, HashedType
  <2>3. PICK new \in Unused(sessions) :
          /\ sessions' = CreateSession(revoked, new, Replacement(r))
          /\ chain' = [chain EXCEPT ![new] = IF req[r].revokeOthers THEN new ELSE chain[c]]
    BY <1>3 DEF ChangePasswordAndRotate
  <2>4. /\ credential' = [credential EXCEPT ![u] = h]
        /\ intent' = [intent EXCEPT ![u] = req[r].new]
        /\ superseded' = [superseded EXCEPT ![u][credential[u].salt] = @ + 1]
        /\ ended' = IF req[r].revokeOthers THEN MarkEnded(LiveChains(u), "answered") ELSE ended
    BY <1>3, <2>1 DEF ChangePasswordAndRotate
  <2>5. new \in SessionIds /\ sessions[new].state = "free"
    BY DEF Unused
  <2> DEFINE root == IF req[r].revokeOthers THEN new ELSE chain[c]
  <2>6. ~req[r].revokeOthers =>
          sessions[c].state = "live" /\ RowOf(root, u) /\ ended[root] # "answered"
    BY <1>1, <1>3, LiveChain DEF CanChange, LiveRows, RowOf
  <2>7. root = new \/ RowOf(root, u)
    BY <2>6
  <2>8. Revoked(sessions, revoked)
    BY UserRevoked, RevokeRevokes DEF RevokeSession, Inv, TypeOK
  <2>9. /\ ended' \in [SessionIds -> {"no", "committed", "answered"}]
        /\ \A i \in SessionIds : ended'[i] # "no" => ended[i] # "no" \/ sessions[i].state # "free"
        /\ \A i \in SessionIds : ended'[i] = "answered" =>
             ended[i] = "answered" \/ (req[r].revokeOthers /\ i \in LiveChains(u))
    <3>1. CASE req[r].revokeOthers
      <4>1. ended' = MarkEnded(LiveChains(u), "answered")
        BY <2>4, <3>1
      <4> QED
        BY <3>1, <4>1, LiveChainsOf, MarkEndedType
    <3>2. CASE ~req[r].revokeOthers
      BY <2>4, <3>2 DEF Inv, TypeOK
    <3> QED
      BY <3>1, <3>2
  <2>10. req[r].revokeOthers =>
           \A i \in SessionIds : revoked[i].state = "live" => sessions[i].user # u
    BY UserRevoked
  <2>11. /\ credential' \in [Users -> Hash \cup {NoHash}] /\ salt' \in 0..MaxSalt
         /\ superseded' \in [Users -> [0..MaxSalt -> Nat]]
         /\ SaltsOK' /\ NoLostPasswordChange'
    <3> HIDE DEF h, u
    <3> QED
      BY <1>1, <1>2, <2>1, <2>2, <2>4, ChangeHashKeeps
  <2>12. LastChoiceWins' /\ intent' \in [Users -> Passwords \cup {None}]
    <3> HIDE DEF h
    <3> QED
      BY <1>0, <1>1, <2>2, <2>4 DEF Inv, TypeOK, LastChoiceWins
  <2> HIDE DEF revoked, root, h
  <2>13. /\ sessions' \in SessionTables /\ chain' \in [SessionIds -> SessionIds \cup {None}]
         /\ RowsPersist /\ ChainsOK' /\ chain'[new] = root
         /\ \A i \in SessionIds \ {new} : sessions'[i] = revoked[i] /\ chain'[i] = chain[i]
    <3>1. chain' = [chain EXCEPT ![new] = root]
      BY <2>3 DEF root
    <3>2. AddsRow(revoked, new, Replacement(r), u, root)
      BY <1>1, <2>3, <2>7, <2>8, <3>1, ReplacementType DEF AddsRow, RowOf, Inv
    <3>3. EndsDrawn
      BY <2>9 DEF EndsDrawn
    <3> HIDE DEF u
    <3> QED
      BY <3>2, <3>3, NewRowKeeps
  <2>14. req' \in [Requests -> Request] /\ \A s \in Requests : RequestOK(s)'
    BY <1>0, <2>13, FinishKeeps
  <2>15. TypeOK'
    BY <1>0, <2>9, <2>11, <2>12, <2>13, <2>14 DEF Inv, TypeOK
  <2>16. ASSUME NEW i \in SessionIds, sessions'[i].state = "live"
         PROVE  ended'[chain'[i]] # "answered"
    <3>1. CASE i = new /\ req[r].revokeOthers
      <4>1. chain'[i] = new /\ ended[new] = "no" /\ \A v \in LiveChains(u) : v # new
        BY <2>5, <2>13, <3>1, LiveChainsOf DEF root, Inv, ChainsOK, RowOf
      <4> QED
        BY <2>5, <2>9, <4>1
    <3>2. CASE i = new /\ ~req[r].revokeOthers
      BY <2>6, <2>9, <2>13, <3>2 DEF RowOf
    <3>3. CASE i # new
      <4>1. revoked[i].state = "live" /\ chain'[i] = chain[i] /\ sessions[i].state = "live"
        BY <2>8, <2>13, <2>16, <3>3 DEF Revoked
      <4>2. RowOf(chain[i], sessions[i].user) /\ ended[chain[i]] # "answered"
        BY <4>1, LiveChain
      <4>3. req[r].revokeOthers => chain[i] \notin LiveChains(u)
        BY <2>10, <4>1, <4>2, LiveChainsOf DEF RowOf
      <4> QED
        BY <2>9, <4>1, <4>2, <4>3 DEF RowOf
    <3> QED
      BY <3>1, <3>2, <3>3
  <2> QED
    BY <2>11, <2>12, <2>13, <2>14, <2>15, <2>16 DEF Inv, RevokedDevicesStayOut
<1>4. CASE ~CanChange(r)
  <2>1. UNCHANGED <<credential, sessions, intent, superseded, chain, ended>>
    BY <1>4 DEF ChangePasswordAndRotate
  <2>2. RowsPersist
    BY <2>1 DEF RowsPersist
  <2>3. req' \in [Requests -> Request] /\ \A s \in Requests : RequestOK(s)'
    BY <1>0, <2>2, FinishKeeps
  <2>4. \A v \in Users : credential[v].salt \in Nat
    BY <1>2 DEF Inv, TypeOK, Hash, NoHash
  <2>5. TypeOK' /\ SaltsOK'
    BY <1>0, <1>2, <2>1, <2>3, <2>4 DEF Inv, TypeOK, SaltsOK
  <2> QED
    BY <1>0, <2>1, <2>3, <2>5 DEF Inv, ChainsOK, LastChoiceWins, NoLostPasswordChange,
                                  RevokedDevicesStayOut
<1> QED
  BY <1>3, <1>4

LEMMA TokensKeep ==
    ASSUME Inv, tokens' \in [ResetTokens -> TokenRow],
           req' \in [Requests -> Request], \A s \in Requests : RequestOK(s)',
           UNCHANGED <<endpoints, users, credential, sessions, salt, history>>
    PROVE  Inv'
<1>1. TypeOK'
  BY DEF Inv, TypeOK, history
<1> QED
  BY <1>1 DEF Inv, SaltsOK, ChainsOK, LastChoiceWins, NoLostPasswordChange,
              RevokedDevicesStayOut, history

LEMMA IssueKeeps ==
    ASSUME Inv, NEW r \in Requests, IssueResetToken(r), UNCHANGED endpoints
    PROVE  Inv'
<1>1. req[r].user \in Users /\ Finish(r)
  BY DEF IssueResetToken, Inv, RequestOK
<1>2. tokens' \in [ResetTokens -> TokenRow]
  BY <1>1 DEF IssueResetToken, Inv, TypeOK, TokenRow
<1>3. RowsPersist
  BY DEF IssueResetToken, RowsPersist
<1>4. req' \in [Requests -> Request] /\ \A s \in Requests : RequestOK(s)'
  BY <1>1, <1>3, FinishKeeps
<1> QED
  BY <1>2, <1>4, TokensKeep DEF IssueResetToken

LEMMA ExpireKeeps ==
    ASSUME Inv, NEW t \in ResetTokens, ExpireToken(t), UNCHANGED endpoints
    PROVE  Inv'
<1>1. tokens' \in [ResetTokens -> TokenRow]
  BY DEF ExpireToken, Inv, TypeOK, TokenRow
<1>2. req' \in [Requests -> Request] /\ \A s \in Requests : RequestOK(s)'
  BY DEF ExpireToken, Inv, TypeOK, RequestOK, RowOf
<1> QED
  BY <1>1, <1>2, TokensKeep DEF ExpireToken

\* ConsumePasswordReset sets out to end the chains its user is signed in with.
LEMMA ConsumeKeeps ==
    ASSUME Inv, NEW r \in Requests, ConsumePasswordReset(r), UNCHANGED endpoints
    PROVE  Inv'
<1> DEFINE t == req[r].token
           u == tokens[t].user
           h == Hashed(req[r].new)
<1>0. UNCHANGED <<endpoints, users, sessions, superseded, chain>>
  BY DEF ConsumePasswordReset
<1>1. req[r] \in Request /\ t \in ResetTokens /\ req[r].new \in Passwords
  BY DEF ConsumePasswordReset, Inv, RequestOK, TypeOK
<1>2. salt \in 0..MaxSalt /\ MaxSalt \in Nat /\ salt < MaxSalt /\ salt' = salt + 1
  BY CredentialsAssumption DEF ConsumePasswordReset, Inv, TypeOK
<1>3. RowsPersist
  BY <1>0 DEF RowsPersist
<1>4. CASE CanReset(t)
  <2>1. u \in Users
    BY <1>4 DEF CanReset, Inv, TypeOK
  <2>2. h \in Hash /\ h.salt = salt + 1 /\ h.password = req[r].new
    BY <1>1, <1>2, HashedType
  <2>3. /\ tokens' = ConsumeToken(t)
        /\ credential' = [credential EXCEPT ![u] = h]
        /\ intent' = [intent EXCEPT ![u] = req[r].new]
        /\ ended' = IF RevokeSessionsOnPasswordReset
                    THEN MarkEnded(LiveChains(u), "committed") ELSE ended
    BY <1>4 DEF ConsumePasswordReset
  <2>4. req' = [req EXCEPT ![r].user = u, ![r].victims = LiveChains(u), ![r].step = "callback"]
    BY <1>4 DEF ConsumePasswordReset
  <2>5. tokens' \in [ResetTokens -> TokenRow]
    BY <1>1, <2>3 DEF ConsumeToken, Inv, TypeOK, TokenRow
  <2> HIDE DEF h
  <2>6. \A v \in LiveChains(u) : RowOf(v, u)
    BY LiveChainsOf
  <2> DEFINE victims == LiveChains(u)
  <2> HIDE DEF victims
  <2>7. victims \subseteq SessionIds
    BY <2>6 DEF RowOf, victims
  <2>8. /\ ended' \in [SessionIds -> {"no", "committed", "answered"}]
        /\ \A i \in SessionIds : ended'[i] # "no" => ended[i] # "no" \/ sessions[i].state # "free"
        /\ \A i \in SessionIds : ended'[i] = "answered" => ended[i] = "answered"
    <3>1. CASE RevokeSessionsOnPasswordReset
      <4>1. ended' = MarkEnded(LiveChains(u), "committed")
        BY <2>3, <3>1
      <4> QED
        BY <2>6, <4>1, MarkEndedType
    <3>2. CASE ~RevokeSessionsOnPasswordReset
      BY <2>3, <3>2 DEF Inv, TypeOK
    <3> QED
      BY <3>1, <3>2
  <2>9. /\ credential' \in [Users -> Hash \cup {NoHash}] /\ salt' \in 0..MaxSalt
        /\ SaltsOK' /\ NoLostPasswordChange'
    BY <1>0, <1>2, <2>1, <2>2, <2>3, WriteKeeps
  <2>10. LastChoiceWins' /\ intent' \in [Users -> Passwords \cup {None}]
    BY <1>0, <1>1, <2>1, <2>2, <2>3 DEF Inv, TypeOK, LastChoiceWins
  <2> DEFINE new == [req[r] EXCEPT !.user = u, !.victims = victims, !.step = "callback"]
  <2>11. new \in Request /\ new.step = "callback" /\ new.user = u /\ new.victims = victims
    BY <1>1, <2>1, <2>7 DEF Request, Steps
  <2>12. req' = [req EXCEPT ![r] = new] /\ req'[r] = new
    BY <2>4 DEF Inv, TypeOK, victims
  <2> HIDE DEF new
  <2>13. \A v \in victims : sessions'[v].state # "free" /\ sessions'[v].user = u /\ v \in SessionIds
    BY <1>0, <2>6 DEF RowOf, victims
  <2>14. RequestOK(r)'
    BY <2>11, <2>12, <2>13 DEF RequestOK, RowOf
  <2>15. req' \in [Requests -> Request] /\ \A s \in Requests : RequestOK(s)'
    BY <1>3, <2>11, <2>12, <2>14, OthersKeep
  <2>16. TypeOK'
    BY <1>0, <2>5, <2>8, <2>9, <2>10, <2>15 DEF Inv, TypeOK
  <2>17. ChainsOK'
    BY <1>0, <2>8 DEF Inv, ChainsOK
  <2>18. RevokedDevicesStayOut'
    BY <1>0, <2>8 DEF Inv, ChainsOK, RevokedDevicesStayOut
  <2> QED
    BY <2>9, <2>10, <2>15, <2>16, <2>17, <2>18 DEF Inv
<1>5. CASE ~CanReset(t)
  <2>1. UNCHANGED <<tokens, credential, intent, ended>> /\ Finish(r)
    BY <1>5 DEF ConsumePasswordReset
  <2>2. req' \in [Requests -> Request] /\ \A s \in Requests : RequestOK(s)'
    BY <1>3, <2>1, FinishKeeps
  <2>3. \A v \in Users : credential[v].salt \in Nat
    BY <1>2 DEF Inv, TypeOK, Hash, NoHash
  <2>4. TypeOK' /\ SaltsOK'
    BY <1>0, <1>2, <2>1, <2>2, <2>3 DEF Inv, TypeOK, SaltsOK
  <2> QED
    BY <1>0, <2>1, <2>2, <2>4 DEF Inv, ChainsOK, LastChoiceWins, NoLostPasswordChange,
                                  RevokedDevicesStayOut
<1> QED
  BY <1>4, <1>5

LEMMA CallbackKeeps ==
    ASSUME Inv, NEW r \in Requests, PasswordResetCallback(r), UNCHANGED endpoints
    PROVE  Inv'
<1>0. UNCHANGED <<endpoints, users, credential, tokens, sessions, salt, history>>
  BY DEF PasswordResetCallback
<1>1. CASE Goto(r, "revoke")
  <2> DEFINE new == [req[r] EXCEPT !.step = "revoke"]
  <2>1. /\ new \in Request /\ new.step = "revoke"
        /\ new.user = req[r].user /\ new.victims = req[r].victims
    <3>1. req[r] \in Request
      BY DEF Inv, TypeOK
    <3> QED
      BY <3>1 DEF Request, Steps
  <2>2. req' = [req EXCEPT ![r] = new] /\ req'[r] = new
    BY <1>1 DEF Goto, Inv, TypeOK
  <2> HIDE DEF new
  <2>3. \A v \in req[r].victims : RowOf(v, req[r].user)
    BY DEF PasswordResetCallback, Inv, RequestOK
  <2>4. RequestOK(r)'
    BY <1>0, <2>1, <2>2, <2>3 DEF RequestOK, RowOf
  <2> QED
    BY <1>0, <2>1, <2>2, <2>4, OnlyRequest
<1>2. CASE Finish(r)
  BY <1>0, <1>2, OnlyFinish
<1> QED
  BY <1>1, <1>2 DEF PasswordResetCallback

\* RevokeUserSessions revokes whatever the chains have become since the reset.
LEMMA RevokeAfterKeeps ==
    ASSUME Inv, NEW r \in Requests, RevokeAfterReset(r), UNCHANGED endpoints
    PROVE  Inv'
<1> DEFINE u == req[r].user
           victims == req[r].victims
<1>0. UNCHANGED <<endpoints, users, credential, tokens, salt, intent, superseded, chain>> /\ Finish(r)
  BY DEF RevokeAfterReset
<1>1. \A v \in victims : RowOf(v, u)
  BY DEF RevokeAfterReset, Inv, RequestOK
<1>2. CASE RevokeSessionsOnPasswordReset
  <2>1. /\ sessions' = RevokeUserSessions(sessions, u)
        /\ ended' = MarkEnded(victims, "answered")
    BY <1>2 DEF RevokeAfterReset
  <2>2. /\ Revoked(sessions, sessions')
        /\ \A i \in SessionIds : sessions'[i].state = "live" => sessions[i].user # u
    BY <2>1, UserRevoked
  <2>3. /\ ended' \in [SessionIds -> {"no", "committed", "answered"}]
        /\ \A i \in SessionIds : ended'[i] # "no" => ended[i] # "no" \/ sessions[i].state # "free"
        /\ \A i \in SessionIds : ended'[i] = "answered" => ended[i] = "answered" \/ i \in victims
    BY <1>1, <2>1, MarkEndedType
  <2>4. RowsPersist
    BY <2>2 DEF RowsPersist, Revoked
  <2>5. req' \in [Requests -> Request] /\ \A s \in Requests : RequestOK(s)'
    BY <1>0, <2>4, FinishKeeps
  <2>6. TypeOK'
    BY <1>0, <2>2, <2>3, <2>5 DEF Inv, TypeOK, Revoked
  <2>7. ChainsOK'
    BY <1>0, <2>2, <2>3 DEF Inv, ChainsOK, Revoked
  <2>8. ASSUME NEW i \in SessionIds, sessions'[i].state = "live"
        PROVE  ended'[chain'[i]] # "answered"
    <3>1. sessions[i].state = "live" /\ sessions[i].user # u
      BY <2>2, <2>8 DEF Revoked
    <3>2. RowOf(chain[i], sessions[i].user) /\ ended[chain[i]] # "answered"
      BY <3>1, LiveChain
    <3>3. chain[i] \notin victims
      BY <1>1, <3>1, <3>2 DEF RowOf
    <3> QED
      BY <1>0, <2>3, <3>2, <3>3 DEF RowOf
  <2> QED
    BY <1>0, <2>5, <2>6, <2>7, <2>8 DEF Inv, SaltsOK, LastChoiceWins, NoLostPasswordChange,
                                        RevokedDevicesStayOut
<1>3. CASE ~RevokeSessionsOnPasswordReset
  <2>1. UNCHANGED <<sessions, ended>>
    BY <1>3 DEF RevokeAfterReset
  <2> QED
    BY <1>0, <2>1, OnlyFinish DEF history
<1> QED
  BY <1>2, <1>3

\* DeleteUser forgets the hash and never lets it come back.
LEMMA DeleteKeeps ==
    ASSUME Inv, NEW u \in Users, DeleteUser(u), UNCHANGED endpoints
    PROVE  Inv'
<1>0. /\ UNCHANGED <<endpoints, tokens, req, salt, superseded, chain, ended>>
      /\ users' = users \ {u} /\ credential' = [credential EXCEPT ![u] = NoHash]
      /\ intent' = [intent EXCEPT ![u] = None] /\ sessions' = DeleteUserSessions(sessions, u)
  BY DEF DeleteUser
<1>1. /\ sessions' \in SessionTables
      /\ \A i \in SessionIds :
           /\ sessions'[i].user = sessions[i].user
           /\ sessions[i].state # "free" => sessions'[i].state # "free"
           /\ sessions[i].user # u => sessions'[i] = sessions[i]
           /\ sessions'[i].state = "live" => sessions[i].state = "live"
  BY <1>0, DeleteType DEF Inv, TypeOK, ChainsOK
<1>2. RowsPersist
  BY <1>1 DEF RowsPersist
<1>3. \A s \in Requests : RequestOK(s)'
  BY <1>0, <1>2 DEF Inv, RequestOK, RowOf, RowsPersist
<1>4. TypeOK'
  BY <1>0, <1>1, <1>3 DEF Inv, TypeOK
<1>5. credential'[u] = NoHash /\ \A v \in Users \ {u} : credential'[v] = credential[v]
  BY <1>0 DEF Inv, TypeOK
<1>6. SaltsOK'
  <2>1. NoHash.salt = 0 /\ salt \in Nat
    BY CredentialsAssumption DEF NoHash, Inv, TypeOK
  <2> QED
    BY <1>0, <1>5, <2>1 DEF Inv, SaltsOK
<1>7. ChainsOK'
  BY <1>0, <1>1 DEF Inv, ChainsOK
<1>8. LastChoiceWins'
  BY <1>0, <1>5 DEF Inv, TypeOK, LastChoiceWins
<1>9. NoLostPasswordChange' /\ RevokedDevicesStayOut'
  BY <1>0, <1>1 DEF Inv, NoLostPasswordChange, RevokedDevicesStayOut
<1> QED
  BY <1>3, <1>4, <1>6, <1>7, <1>8, <1>9 DEF Inv

LEMMA AbortKeeps ==
    ASSUME Inv, NEW r \in Requests, Abort(r), UNCHANGED endpoints
    PROVE  Inv'
BY OnlyFinish DEF Abort

-----------------------------------------------------------------------------
(* The theorems                                                            *)

LEMMA InitInv == Init => Inv
<1> SUFFICES ASSUME Init PROVE Inv
  OBVIOUS
<1>1. FreeRow \in SessionRow /\ FreeRow.state = "free" /\ FreeRow.user = None
  BY DEF FreeRow, SessionRow
<1>2. sessions \in SessionTables /\ \A i \in SessionIds : sessions[i] = FreeRow
  BY <1>1 DEF Init, EmptyTable, SessionTables
<1>3. PICK legacy \in BOOLEAN :
        credential = [u \in Users |-> [password |-> InitialPassword, legacy |-> legacy, salt |-> 0]]
  BY DEF Init
<1>4. credential \in [Users -> Hash \cup {NoHash}]
  BY <1>3, CredentialsAssumption DEF Hash
<1>5. req \in [Requests -> Request] /\ \A r \in Requests : RequestOK(r)
  BY IdleType DEF Init, RequestOK
<1>6. superseded \in [Users -> [0..MaxSalt -> Nat]]
  BY DEF Init
<1>7. TypeOK
  BY <1>2, <1>4, <1>5, <1>6, CredentialsAssumption DEF Init, TypeOK, TokenRow
<1>8. SaltsOK /\ LastChoiceWins /\ NoLostPasswordChange
  BY <1>3, CredentialsAssumption DEF Init, SaltsOK, LastChoiceWins, NoLostPasswordChange
<1>9. ChainsOK /\ RevokedDevicesStayOut
  BY <1>1, <1>2, NoneAssumption DEF Init, ChainsOK, RevokedDevicesStayOut
<1> QED
  BY <1>5, <1>7, <1>8, <1>9 DEF Inv

LEMMA NextKeeps == Inv /\ [Next]_vars => Inv'
<1> SUFFICES ASSUME Inv, [Next]_vars PROVE Inv'
  OBVIOUS
<1>1. CASE UNCHANGED vars
  BY <1>1 DEF vars, Inv, TypeOK, SaltsOK, ChainsOK, RequestOK, RowOf, LastChoiceWins,
              NoLostPasswordChange, RevokedDevicesStayOut
<1>2. CASE Next
  <2>0. UNCHANGED endpoints
    BY <1>2 DEF Next
  <2>1. ASSUME NEW r \in Requests, Arrive(r) PROVE Inv'
    BY <2>0, <2>1, ArriveKeeps
  <2>2. ASSUME NEW r \in Requests, ResolveSession(r) PROVE Inv'
    BY <2>0, <2>2, ResolveKeeps
  <2>3. ASSUME NEW r \in Requests, ReadCredential(r) PROVE Inv'
    BY <2>0, <2>3, ReadKeeps
  <2>4. ASSUME NEW r \in Requests, ReplacePasswordHash(r) PROVE Inv'
    BY <2>0, <2>4, ReplaceKeeps
  <2>5. ASSUME NEW r \in Requests, CreateOrRotateSession(r) PROVE Inv'
    BY <2>0, <2>5, CreateKeeps
  <2>6. ASSUME NEW r \in Requests, ChangePasswordAndRotate(r) PROVE Inv'
    BY <2>0, <2>6, ChangeKeeps
  <2>7. ASSUME NEW r \in Requests, IssueResetToken(r) PROVE Inv'
    BY <2>0, <2>7, IssueKeeps
  <2>8. ASSUME NEW r \in Requests, ConsumePasswordReset(r) PROVE Inv'
    BY <2>0, <2>8, ConsumeKeeps
  <2>9. ASSUME NEW r \in Requests, PasswordResetCallback(r) PROVE Inv'
    BY <2>0, <2>9, CallbackKeeps
  <2>10. ASSUME NEW r \in Requests, RevokeAfterReset(r) PROVE Inv'
    BY <2>0, <2>10, RevokeAfterKeeps
  <2>11. ASSUME NEW r \in Requests, SetPasswordHash(r) PROVE Inv'
    BY <2>0, <2>11, SetKeeps
  <2>12. ASSUME NEW r \in Requests, RefreshSession(r) PROVE Inv'
    BY <2>0, <2>12, RefreshKeeps
  <2>13. ASSUME NEW r \in Requests, Abort(r) PROVE Inv'
    BY <2>0, <2>13, AbortKeeps
  <2>14. ASSUME NEW u \in Users, DeleteUser(u) PROVE Inv'
    BY <2>0, <2>14, DeleteKeeps
  <2>15. ASSUME NEW t \in ResetTokens, ExpireToken(t) PROVE Inv'
    BY <2>0, <2>15, ExpireKeeps
  <2> QED
    BY <1>2, <2>1, <2>2, <2>3, <2>4, <2>5, <2>6, <2>7, <2>8, <2>9, <2>10, <2>11, <2>12,
       <2>13, <2>14, <2>15 DEF Next
<1> QED
  BY <1>1, <1>2

LEMMA InvHolds == Spec => []Inv
BY InitInv, NextKeeps, PTL DEF Spec

\* The stored hash verifies the password last chosen for the user, whichever
\* sign-ins rehash, resets commit and changes race (ReplacePasswordHash,
\* ChangePasswordAndRotate, ConsumePasswordReset, SetPasswordHash).
THEOREM StoredHashIsLastChoice == Spec => []LastChoiceWins
<1>1. Inv => LastChoiceWins
  BY DEF Inv
<1> QED
  BY <1>1, InvHolds, PTL

\* No two change-password requests replace the same hash of a user: the loser of
\* the race gets ErrReplay (ChangePasswordAndRotate).
THEOREM PasswordChangeExclusive == Spec => []NoLostPasswordChange
<1>1. Inv => NoLostPasswordChange
  BY DEF Inv
<1> QED
  BY <1>1, InvHolds, PTL

\* No session that descends from a device signed out by a password change or an
\* answered reset is alive, whatever was in flight (ChangePasswordAndRotate,
\* handleResetPassword, RotateSession).
THEOREM PasswordChangeEndsDevices == Spec => []RevokedDevicesStayOut
<1>1. Inv => RevokedDevicesStayOut
  BY DEF Inv
<1> QED
  BY <1>1, InvHolds, PTL

=============================================================================

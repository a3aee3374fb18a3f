--------------------------- MODULE SessionsProofs ---------------------------
(***************************************************************************)
(* Proofs of the safety properties of Sessions for any number of users,    *)
(* sessions and concurrent requests.                                       *)
(***************************************************************************)
EXTENDS Sessions, TLAPS

-----------------------------------------------------------------------------
(* The inductive invariant                                                 *)

\* The columns that no statement ever changes.
SameColumns(x, y) ==
    /\ x.user = y.user
    /\ x.impersonatedBy = y.impersonatedBy
    /\ x.impersonationId = y.impersonationId

\* A drawn id has a user, a chain whose root was drawn before, and, if it carries
\* an impersonation that was not carried on, belongs to the chain of the session
\* that started it.
RowOK(i) ==
    /\ sessions[i].state = "free" => sessions[i] = FreeRow /\ chain[i] = None
    /\ sessions[i].state # "free" =>
         /\ sessions[i].user \in Users
         /\ chain[i] \in SessionIds
         /\ sessions[chain[i]].state # "free"
    /\ sessions[i].impersonatedBy = None <=> sessions[i].impersonationId = None
    /\ sessions[i].impersonationId # None =>
         /\ sessions[sessions[i].impersonationId].state # "free"
         /\ \/ chain[i] = chain[sessions[i].impersonationId]
            \/ CarriedOn(sessions[i].impersonationId)

\* What a request has read is still true of the columns that never change, and
\* each step knows that the checks before it succeeded.
RequestOK(r) ==
    /\ req[r].cookie # None => sessions[req[r].cookie].state # "free"
    /\ req[r].op \in {"sign-in", "attach", "impersonate"} => req[r].who \in Users
    /\ req[r].step = "authenticate" => req[r].op = "sign-in"
    /\ req[r].step = "create" => req[r].op = "attach"
    /\ (req[r].step \in {"user", "subject"} \/ req[r].authed) =>
         req[r].cookie # None /\ SameColumns(req[r].seen, sessions[req[r].cookie])
    /\ (req[r].step = "commit" /\ req[r].op # "sign-in") => req[r].authed
    /\ (req[r].step = "subject") => req[r].authed /\ req[r].op \in {"impersonate", "stop"}
    /\ (req[r].step = "commit" /\ req[r].op = "impersonate") =>
         CanImpersonate(req[r].seen.user, req[r].who)
    /\ (req[r].step = "commit" /\ req[r].op = "stop") => req[r].seen.impersonatedBy # None

\* An impersonation that was stopped had been drawn, and so was the session that
\* followed it, in the chain of the stopped one.
AuditOK ==
    \A e \in audit : e.action = "stop" =>
        /\ sessions[e.impersonationId].state # "free"
        /\ sessions[e.sessionId].state # "free"
        /\ chain[e.sessionId] = chain[e.impersonationId] \/ CarriedOn(e.impersonationId)

\* StopIsFinal for one chain: no live session of the chain that a stop ended
\* carries the impersonation, and that chain has one stop event of it.
StopEndsChain ==
    \A e, f \in audit : e.action = "stop" =>
        /\ \A i \in SessionIds :
              (sessions[i].impersonationId = e.impersonationId /\ chain[i] = chain[e.sessionId]) =>
                  ~Live(i)
        /\ (/\ f.action = "stop" /\ f.impersonationId = e.impersonationId
            /\ chain[f.sessionId] = chain[e.sessionId]) => e = f

Inv ==
    /\ TypeOK
    /\ \A i \in SessionIds : RowOK(i)
    /\ \A r \in Requests : RequestOK(r)
    /\ AuditOK
    /\ OneLivePerChain
    /\ ImpersonationAudited
    /\ StopEndsChain

-----------------------------------------------------------------------------
(* The two ways in which a step changes the session table                  *)

\* Row i keeps its columns; it may be revoked or deleted but not revived.
Kept(i) ==
    /\ SameColumns(sessions'[i], sessions[i])
    /\ sessions'[i].state = "free" <=> sessions[i].state = "free"
    /\ sessions'[i].state = "free" => sessions'[i] = sessions[i]
    /\ sessions'[i].state = "live" => sessions[i].state = "live"

Shrink ==
    /\ sessions' \in SessionTables
    /\ \A i \in SessionIds : Kept(i)
    /\ chain' = chain

\* The id `new` is drawn for a live row that joins chain c.
Grow(new, row, c) ==
    /\ new \in SessionIds /\ sessions[new].state = "free"
    /\ sessions' \in SessionTables
    /\ \A i \in SessionIds \ {new} : Kept(i)
    /\ sessions'[new] = row /\ row.state = "live" /\ row.user \in Users
    /\ chain' = [chain EXCEPT ![new] = c]

\* No statement takes a drawn id back, changes its columns or its chain.
Stable ==
    \A i \in SessionIds : sessions[i].state # "free" =>
        /\ sessions'[i].state # "free" /\ SameColumns(sessions'[i], sessions[i])
        /\ chain'[i] = chain[i]

\* Every statement that revokes keeps the rows (Revoke, store.go).
LEMMA RevokeShrinks ==
    ASSUME TypeOK, NEW M, sessions' = Revoke(sessions, M), UNCHANGED chain
    PROVE  Shrink
BY DEF TypeOK, Revoke, Shrink, Kept, SameColumns, SessionTables, SessionRow

\* Account deletion keeps the rows it does not remove, and the columns of those
\* it does.
LEMMA DeleteShrinks ==
    ASSUME TypeOK, \A i \in SessionIds : RowOK(i), NEW u \in Users,
           sessions' = DeleteUserSessions(sessions, u), UNCHANGED chain
    PROVE  Shrink
<1>1. \A i \in SessionIds : sessions[i].state = "free" => sessions[i].user # u
  BY NoneAssumption DEF RowOK, FreeRow
<1>2. sessions' \in SessionTables
  BY DEF TypeOK, DeleteUserSessions, SessionTables, SessionRow
<1>3. ASSUME NEW i \in SessionIds PROVE Kept(i)
  <2>1. sessions[i] \in SessionRow
    BY DEF TypeOK, SessionTables
  <2>2. sessions'[i] = IF sessions[i].user = u THEN [sessions[i] EXCEPT !.state = "deleted"]
                       ELSE sessions[i]
    BY DEF DeleteUserSessions
  <2> QED
    BY <1>1, <2>1, <2>2 DEF Kept, SameColumns, SessionRow
<1> QED
  BY <1>2, <1>3 DEF Shrink

\* A new session grows the table by one row of its own chain (CreateSession).
LEMMA CreateGrows ==
    ASSUME TypeOK, NEW new \in Unused(sessions), NEW row \in SessionRow, NEW c,
           row.state = "live", row.user \in Users,
           sessions' = CreateSession(sessions, new, row),
           chain' = [chain EXCEPT ![new] = c]
    PROVE  Grow(new, row, c)
BY DEF TypeOK, Unused, CreateSession, Grow, Kept, SameColumns, SessionTables

\* A rotation grows the chain of the presented session, which dies with it
\* (RotateSession, RotateSessionWithAudit).
LEMMA RotateGrows ==
    ASSUME TypeOK, NEW old \in SessionIds, NEW new \in Unused(sessions),
           NEW row \in SessionRow, NEW c,
           row.state = "live", row.user \in Users, CanRotate(sessions, old),
           sessions' = RotateSession(sessions, old, new, row),
           chain' = [chain EXCEPT ![new] = c]
    PROVE  Grow(new, row, c) /\ sessions'[old].state = "revoked" /\ old # new
<1>1. old # new
  BY DEF Unused, CanRotate
<1>2. Revoke(sessions, {old}) \in SessionTables
  BY DEF TypeOK, Revoke, SessionTables, SessionRow
<1>3. sessions' = [Revoke(sessions, {old}) EXCEPT ![new] = row]
  BY DEF RotateSession, CreateSession
<1>4. sessions' \in SessionTables /\ sessions'[new] = row
  BY <1>2, <1>3 DEF SessionTables, Unused
<1>5. \A i \in SessionIds \ {new} : sessions'[i] = Revoke(sessions, {old})[i]
  BY <1>2, <1>3 DEF SessionTables
<1>6. \A i \in SessionIds \ {new} : Kept(i)
  BY <1>5 DEF Revoke, Kept, SameColumns, TypeOK, SessionTables, SessionRow
<1>7. sessions'[old].state = "revoked"
  BY <1>1, <1>5 DEF Revoke, CanRotate, TypeOK, SessionTables, SessionRow
<1> QED
  BY <1>1, <1>4, <1>6, <1>7 DEF Grow, Unused

\* server.go newSession makes a live row of the user it is given.
LEMMA NewSessionType ==
    ASSUME NEW u \in Users, NEW at \in Nat, NEW duration \in Nat
    PROVE  /\ NewSession(u, at, duration) \in SessionRow
           /\ NewSession(u, at, duration).state = "live"
           /\ NewSession(u, at, duration).user = u
           /\ NewSession(u, at, duration).impersonatedBy = None
           /\ NewSession(u, at, duration).impersonationId = None
BY DEF NewSession, Impersonation, SessionRow

-----------------------------------------------------------------------------
(* What the two kinds of step preserve                                     *)

\* Both kinds of step leave the drawn rows stable.
LEMMA ShrinkStable ==
    ASSUME Shrink PROVE Stable
BY DEF Shrink, Stable, Kept, SameColumns

\* Adding a session row leaves every drawn row in place.
LEMMA GrowStable ==
    ASSUME TypeOK, NEW new, NEW row, NEW c, Grow(new, row, c) PROVE Stable
BY DEF Grow, Stable, Kept, SameColumns, TypeOK

\* An impersonation that was carried on stays carried on.
LEMMA CarriedOnStable ==
    ASSUME Stable, \A i \in SessionIds : RowOK(i), NEW k, CarriedOn(k)
    PROVE  CarriedOn(k)'
<1>1. PICK c \in SessionIds : chain[c] = c /\ sessions[c].impersonationId = k
  BY DEF CarriedOn
<1>2. sessions[c].state # "free"
  BY <1>1, NoneAssumption DEF RowOK
<1> QED
  BY <1>1, <1>2 DEF CarriedOn, Stable, SameColumns

\* A request that does not move keeps what it knows.
LEMMA RequestStable ==
    ASSUME TypeOK, Stable, NEW r \in Requests, RequestOK(r), req'[r] = req[r]
    PROVE  RequestOK(r)'
<1>1. req[r].cookie \in SessionIds \cup {None}
  BY DEF TypeOK, Request
<1>2. ASSUME req[r].cookie # None
      PROVE  /\ sessions'[req[r].cookie].state # "free"
             /\ SameColumns(sessions'[req[r].cookie], sessions[req[r].cookie])
  BY <1>1, <1>2 DEF Stable, RequestOK
<1>3. CanImpersonate(req[r].seen.user, req[r].who)' <=> CanImpersonate(req[r].seen.user, req[r].who)
  BY DEF CanImpersonate
<1> QED
  BY <1>2, <1>3 DEF RequestOK, SameColumns

\* The audit table stays consistent with rows that only keep their columns.
LEMMA AuditStable ==
    ASSUME TypeOK, Stable, \A i \in SessionIds : RowOK(i), AuditOK, UNCHANGED audit
    PROVE  AuditOK'
BY CarriedOnStable DEF AuditOK, Stable, TypeOK, AuditEvent

\* Revoking or deleting sessions preserves what is said of the rows.
LEMMA ShrinkRows ==
    ASSUME TypeOK, \A i \in SessionIds : RowOK(i), Shrink
    PROVE  \A i \in SessionIds : RowOK(i)'
<1> SUFFICES ASSUME NEW i \in SessionIds PROVE RowOK(i)'
  OBVIOUS
<1>1. Kept(i) /\ RowOK(i) /\ chain'[i] = chain[i]
  BY DEF Shrink
<1>2. sessions[i].impersonationId \in SessionIds \cup {None}
  BY DEF TypeOK, SessionTables, SessionRow
<1>3. \A j \in SessionIds : sessions[j].state # "free" => sessions'[j].state # "free"
  BY DEF Shrink, Kept
<1>4. chain' = chain
  BY DEF Shrink
<1>5. CarriedOn(sessions[i].impersonationId) => CarriedOn(sessions[i].impersonationId)'
  BY <1>1, ShrinkStable, CarriedOnStable DEF Kept, SameColumns
<1> QED
  BY <1>1, <1>2, <1>3, <1>4, <1>5 DEF RowOK, Kept, SameColumns

\* Revoking or deleting sessions makes no second live session in a chain.
LEMMA ShrinkChains ==
    ASSUME OneLivePerChain, Shrink PROVE OneLivePerChain'
BY DEF OneLivePerChain, Live, Shrink, Kept

\* Revoking or deleting sessions revives no stopped impersonation.
LEMMA ShrinkStops ==
    ASSUME StopEndsChain, Shrink, UNCHANGED audit PROVE StopEndsChain'
<1>1. \A i \in SessionIds : /\ sessions'[i].impersonationId = sessions[i].impersonationId
                            /\ Live(i)' => Live(i)
  BY DEF Shrink, Kept, SameColumns, Live
<1>2. UNCHANGED <<chain, audit>>
  BY DEF Shrink
<1> QED
  BY <1>1, <1>2 DEF StopEndsChain

\* Row i stays covered by its start event while its columns stay.
LEMMA AuditedStable ==
    ASSUME NEW i \in SessionIds, SameColumns(sessions'[i], sessions[i]), audit \subseteq audit',
           sessions[i].impersonationId # None =>
               StartedBy(i) # {} /\ CanImpersonate(sessions[i].impersonatedBy, sessions[i].user)
    PROVE  (sessions[i].impersonationId # None =>
               StartedBy(i) # {} /\ CanImpersonate(sessions[i].impersonatedBy, sessions[i].user))'
<1>1. StartedBy(i) \subseteq StartedBy(i)'
  BY DEF StartedBy, SameColumns
<1>2. CanImpersonate(sessions[i].impersonatedBy, sessions[i].user)' <=>
      CanImpersonate(sessions[i].impersonatedBy, sessions[i].user)
  BY DEF CanImpersonate, SameColumns
<1> QED
  BY <1>1, <1>2 DEF SameColumns

\* Revoking or deleting sessions keeps every impersonation covered.
LEMMA ShrinkAudited ==
    ASSUME ImpersonationAudited, Shrink, UNCHANGED audit PROVE ImpersonationAudited'
BY AuditedStable DEF ImpersonationAudited, Shrink, Kept

\* A new row preserves what is said of the rows when its impersonation, if any, is
\* its own or that of a drawn session, whose chain it joins or leaves for its own.
LEMMA GrowRows ==
    ASSUME TypeOK, \A i \in SessionIds : RowOK(i),
           NEW new, NEW row \in SessionRow, NEW c \in SessionIds, Grow(new, row, c),
           c = new \/ sessions[c].state # "free",
           row.impersonatedBy = None <=> row.impersonationId = None,
           row.impersonationId \in {None, new} \/
              (/\ sessions[row.impersonationId].state # "free"
               /\ c \in {new, chain[row.impersonationId]} \/ CarriedOn(row.impersonationId))
    PROVE  \A i \in SessionIds : RowOK(i)'
<1> SUFFICES ASSUME NEW i \in SessionIds PROVE RowOK(i)'
  OBVIOUS
<1>1. /\ new \in SessionIds /\ sessions[new].state = "free"
      /\ sessions'[new] = row /\ row.state = "live" /\ row.user \in Users
      /\ \A j \in SessionIds \ {new} : Kept(j)
      /\ chain' = [chain EXCEPT ![new] = c]
  BY DEF Grow
<1>2. chain'[new] = c /\ \A j \in SessionIds \ {new} : chain'[j] = chain[j]
  BY <1>1 DEF TypeOK
<1>3. \A j \in SessionIds : sessions[j].state # "free" =>
         j # new /\ sessions'[j].state # "free"
  BY <1>1 DEF Kept
<1>4. /\ row.impersonationId \in SessionIds \cup {None}
      /\ sessions[i].impersonationId \in SessionIds \cup {None}
  BY DEF TypeOK, SessionTables, SessionRow
<1>5. CASE i = new
  <2>1. c = new => CarriedOn(row.impersonationId)'
    BY <1>1, <1>2 DEF CarriedOn
  <2>2. CarriedOn(row.impersonationId) => CarriedOn(row.impersonationId)'
    <3>1. ASSUME CarriedOn(row.impersonationId) PROVE CarriedOn(row.impersonationId)'
      <4> DEFINE k == row.impersonationId
      <4>1. CarriedOn(k)
        BY <3>1
      <4> HIDE DEF k
      <4>2. CarriedOn(k)'
        BY <4>1, GrowStable, CarriedOnStable
      <4> QED
        BY <4>2 DEF k
    <3> QED
      BY <3>1
  <2> QED
    BY <1>1, <1>2, <1>3, <1>4, <1>5, <2>1, <2>2 DEF RowOK
<1>6. CASE i # new
  <2>1. Kept(i) /\ RowOK(i) /\ chain'[i] = chain[i]
    BY <1>1, <1>2, <1>6
  <2>2. CarriedOn(sessions[i].impersonationId) => CarriedOn(sessions[i].impersonationId)'
    BY <2>1, GrowStable, CarriedOnStable DEF Kept, SameColumns
  <2> QED
    BY <2>1, <2>2, <1>2, <1>3, <1>4 DEF RowOK, Kept, SameColumns
<1> QED
  BY <1>5, <1>6

\* A session that begins a chain is alone in it.
LEMMA CreateChains ==
    ASSUME TypeOK, \A i \in SessionIds : RowOK(i), OneLivePerChain,
           NEW new, NEW row, Grow(new, row, new)
    PROVE  OneLivePerChain'
<1>1. \A i \in SessionIds \ {new} :
         /\ Live(i)' => Live(i)
         /\ chain'[i] = chain[i]
         /\ Live(i) => chain[i] # new
  BY DEF Grow, Kept, Live, RowOK, TypeOK
<1>2. chain'[new] = new
  BY DEF Grow, TypeOK
<1> QED
  BY <1>1, <1>2 DEF OneLivePerChain, Live, Grow

\* A rotation replaces the only live session of its chain.
LEMMA RotateChains ==
    ASSUME TypeOK, OneLivePerChain,
           NEW old \in SessionIds, NEW new, NEW row, Grow(new, row, chain[old]),
           Live(old), sessions'[old].state = "revoked", old # new
    PROVE  OneLivePerChain'
<1>1. \A i \in SessionIds \ {new} : (Live(i)' => Live(i)) /\ chain'[i] = chain[i]
  BY DEF Grow, Kept, Live, TypeOK
<1>2. chain'[new] = chain[old]
  BY DEF Grow, TypeOK
<1>3. \A i \in SessionIds : Live(i)' /\ i # new => chain[i] # chain[old]
  BY <1>1 DEF OneLivePerChain, Live
<1> QED
  BY <1>1, <1>2, <1>3 DEF OneLivePerChain, Live

\* A new row does not disturb the chains that stops ended as long as it does not
\* carry their impersonation on in them.
LEMMA GrowStops ==
    ASSUME TypeOK, AuditOK, StopEndsChain,
           NEW new, NEW row, NEW c, Grow(new, row, c), UNCHANGED audit,
           \A e \in audit : (e.action = "stop" /\ e.impersonationId = row.impersonationId) =>
                              chain[e.sessionId] # c
    PROVE  StopEndsChain'
<1>1. \A i \in SessionIds \ {new} :
         /\ sessions'[i].impersonationId = sessions[i].impersonationId
         /\ Live(i)' => Live(i)
         /\ chain'[i] = chain[i]
  BY DEF Grow, Kept, SameColumns, Live, TypeOK
<1>2. sessions'[new] = row /\ chain'[new] = c
  BY DEF Grow, TypeOK
<1>3. \A e \in audit : e.action = "stop" => chain'[e.sessionId] = chain[e.sessionId]
  BY <1>1 DEF AuditOK, Grow, TypeOK, AuditEvent
<1> QED
  BY <1>1, <1>2, <1>3 DEF StopEndsChain

\* A live session's impersonation has not been stopped in its chain.
LEMMA LiveNotStopped ==
    ASSUME StopEndsChain, NEW i \in SessionIds, Live(i)
    PROVE  \A e \in audit :
             (e.action = "stop" /\ e.impersonationId = sessions[i].impersonationId) =>
                 chain[e.sessionId] # chain[i]
BY DEF StopEndsChain

\* Where an impersonation was not carried on, all its sessions are of one chain, and
\* so what a stop ends in its chain it ends for good.
LEMMA StopEndsAll ==
    ASSUME TypeOK, \A i \in SessionIds : RowOK(i), AuditOK, StopEndsChain
    PROVE  StopIsFinal
<1> SUFFICES ASSUME NEW e \in audit, NEW f \in audit, e.action = "stop"
             PROVE  /\ \A i \in SessionIds :
                          (/\ sessions[i].impersonationId = e.impersonationId
                           /\ EndedFor(e, chain[i])) => ~Live(i)
                    /\ (/\ f.action = "stop" /\ f.impersonationId = e.impersonationId
                        /\ EndedFor(e, chain[f.sessionId])) => e = f
  BY DEF StopIsFinal
<1>1. e.impersonationId # None
  BY NoneAssumption DEF TypeOK, AuditEvent
<1>2. \A i \in SessionIds :
        (sessions[i].impersonationId = e.impersonationId /\ EndedFor(e, chain[i])) =>
            chain[i] = chain[e.sessionId]
  BY <1>1 DEF EndedFor, RowOK, AuditOK
<1>3. (/\ f.action = "stop" /\ f.impersonationId = e.impersonationId
       /\ EndedFor(e, chain[f.sessionId])) => chain[f.sessionId] = chain[e.sessionId]
  BY DEF EndedFor, AuditOK
<1> QED
  BY <1>2, <1>3 DEF StopEndsChain

\* The new row apart, a new row and new events leave covered rows covered.
LEMMA GrowAudited ==
    ASSUME ImpersonationAudited, NEW new, NEW row, NEW c, Grow(new, row, c),
           audit \subseteq audit',
           row.impersonationId # None =>
               /\ CanImpersonate(row.impersonatedBy, row.user)
               /\ \E e \in audit' : /\ e.action = "start"
                                     /\ e.impersonationId = row.impersonationId
                                     /\ e.actor = row.impersonatedBy
                                     /\ e.subject = row.user
    PROVE  ImpersonationAudited'
<1> SUFFICES ASSUME NEW i \in SessionIds
             PROVE (sessions[i].impersonationId # None =>
                      /\ StartedBy(i) # {}
                      /\ CanImpersonate(sessions[i].impersonatedBy, sessions[i].user))'
  BY DEF ImpersonationAudited
<1>1. CASE i = new
  <2>1. sessions'[i] = row
    BY <1>1 DEF Grow
  <2>2. CanImpersonate(sessions[i].impersonatedBy, sessions[i].user)' <=>
        CanImpersonate(row.impersonatedBy, row.user)
    BY <2>1 DEF CanImpersonate
  <2> QED
    BY <2>1, <2>2 DEF StartedBy
<1>2. CASE i # new
  BY <1>2, AuditedStable DEF ImpersonationAudited, Grow, Kept
<1> QED
  BY <1>1, <1>2

-----------------------------------------------------------------------------
(* The requests                                                            *)

Requested == \A r \in Requests : RequestOK(r)

Rows == \A i \in SessionIds : RowOK(i)

\* A request that ends, or never began, knows nothing.
LEMMA FinishOK ==
    ASSUME TypeOK, Stable, Requested, NEW r \in Requests, Finish(r)
    PROVE  req' \in [Requests -> Request] /\ Requested'
<1>1. Idle \in Request
  BY DEF Idle, Request, Steps, FreeRow, SessionRow
<1>2. req' \in [Requests -> Request] /\ req'[r] = Idle
      /\ \A q \in Requests \ {r} : req'[q] = req[q]
  BY <1>1 DEF Finish, TypeOK
<1>3. RequestOK(r)'
  BY <1>2, SessionsAssumption DEF RequestOK, Idle, Ops
<1>4. \A q \in Requests \ {r} : RequestOK(q)'
  BY <1>2, RequestStable DEF Requested
<1> QED
  BY <1>2, <1>3, <1>4 DEF Requested

\* A request moves to `q`, the others stay.
LEMMA MoveOK ==
    ASSUME TypeOK, Stable, Requested, NEW r \in Requests, NEW q \in Request,
           req' = [req EXCEPT ![r] = q], RequestOK(r)'
    PROVE  req' \in [Requests -> Request] /\ Requested'
<1>1. req' \in [Requests -> Request] /\ \A p \in Requests \ {r} : req'[p] = req[p]
  BY DEF TypeOK
<1> QED
  BY <1>1, RequestStable DEF Requested

\* Steps that change requests, users or the clock only.
LEMMA QuietStep ==
    ASSUME Inv, UNCHANGED <<sessions, audit, chain>>, now' \in Nat,
           users' \in [Users -> {"active", "disabled", "deleted"}],
           req' \in [Requests -> Request], Requested'
    PROVE  Inv'
<1>1. Shrink /\ Stable
  BY DEF Inv, TypeOK, Shrink, Stable, Kept, SameColumns
<1>2. TypeOK'
  BY DEF Inv, TypeOK
<1>3. Rows' /\ AuditOK' /\ OneLivePerChain' /\ ImpersonationAudited' /\ StopEndsChain'
  BY <1>1, ShrinkRows, AuditStable, ShrinkChains, ShrinkAudited, ShrinkStops DEF Inv, Rows
<1> QED
  BY <1>2, <1>3 DEF Inv, Rows, Requested

\* Steps that revoke or delete sessions.
LEMMA ShrinkStep ==
    ASSUME Inv, Shrink, UNCHANGED <<now, audit>>,
           users' \in [Users -> {"active", "disabled", "deleted"}],
           req' \in [Requests -> Request], Requested'
    PROVE  Inv'
<1>1. Stable
  BY ShrinkStable
<1>2. TypeOK'
  BY DEF Inv, TypeOK, Shrink
<1>3. Rows' /\ AuditOK' /\ OneLivePerChain' /\ ImpersonationAudited' /\ StopEndsChain'
  BY <1>1, ShrinkRows, AuditStable, ShrinkChains, ShrinkAudited, ShrinkStops DEF Inv, Rows
<1> QED
  BY <1>2, <1>3 DEF Inv, Rows, Requested

\* Nothing happens to the table when a step leaves it alone.
LEMMA UnchangedStable ==
    ASSUME UNCHANGED <<sessions, chain>> PROVE Stable
BY DEF Stable, SameColumns

\* A request arrives with any issued cookie: the invariant is kept.
LEMMA ArriveInv ==
    ASSUME Inv, NEW r \in Requests, Arrive(r) PROVE Inv'
<1>1. PICK op \in Endpoints, cookie \in Issued \cup {None},
           who \in Users \cup {None}, pick \in Issued \cup {None} :
        /\ (op \in {"sign-in", "attach", "impersonate"}) <=> (who # None)
        /\ req' = [req EXCEPT ![r] = Arriving(op, cookie, who, pick)]
  BY DEF Arrive
<1> DEFINE q == Arriving(op, cookie, who, pick)
<1>2. q \in Request
  <2>1. op \in Ops
    BY SessionsAssumption
  <2>2. FreeRow \in SessionRow
    BY DEF FreeRow, SessionRow
  <2>3. FirstStep(op) \in Steps
    BY DEF FirstStep, Steps
  <2> QED
    BY <2>1, <2>2, <2>3 DEF Arriving, Request, Issued
<1>3. UNCHANGED <<now, sessions, users, audit, chain>>
  BY DEF Arrive
<1>4. RequestOK(r)'
  <2>1. req'[r] = q
    BY <1>1 DEF Inv, TypeOK
  <2>2. cookie # None => sessions'[cookie].state # "free"
    BY <1>3 DEF Issued
  <2> QED
    BY <2>1, <2>2, <1>1 DEF RequestOK, Arriving, FirstStep
<1>5. Stable
  BY <1>3, UnchangedStable
<1> HIDE DEF q
<1>6. req' \in [Requests -> Request] /\ Requested'
  BY <1>1, <1>2, <1>4, <1>5, MoveOK DEF Inv, Requested, q
<1> QED
  BY <1>3, <1>6, QuietStep DEF Inv, TypeOK

\* A step that only ends a request.
LEMMA QuietFinish ==
    ASSUME Inv, NEW r \in Requests, Finish(r),
           UNCHANGED <<now, sessions, users, audit, chain>>
    PROVE  Inv'
<1>1. req' \in [Requests -> Request] /\ Requested'
  BY FinishOK, UnchangedStable DEF Inv, Requested
<1> QED
  BY <1>1, QuietStep DEF Inv, TypeOK

\* A step that only moves one request on.
LEMMA QuietMove ==
    ASSUME Inv, NEW r \in Requests, NEW q \in Request,
           req' = [req EXCEPT ![r] = q], RequestOK(r)',
           UNCHANGED <<now, sessions, users, audit, chain>>
    PROVE  Inv'
<1>1. req' \in [Requests -> Request] /\ Requested'
  BY MoveOK, UnchangedStable DEF Inv, Requested
<1> QED
  BY <1>1, QuietStep DEF Inv, TypeOK

\* handleSignIn up to the verified password keeps the invariant.
LEMMA AuthenticateInv ==
    ASSUME Inv, NEW r \in Requests, Authenticate(r) PROVE Inv'
<1>1. UNCHANGED <<now, sessions, users, audit, chain>>
  BY DEF Authenticate
<1>2. CASE Finish(r)
  BY <1>1, <1>2, QuietFinish
<1>3. CASE Goto(r, "session")
  <2> DEFINE q == [req[r] EXCEPT !.step = "session"]
  <2>1. req[r] \in Request /\ RequestOK(r)
    BY DEF Inv, TypeOK
  <2>2. q \in Request
    BY <2>1 DEF Request, Steps
  <2>3. req' = [req EXCEPT ![r] = q] /\ req'[r] = q
    BY <1>3 DEF Goto, Inv, TypeOK
  <2>4. RequestOK(r)'
    BY <2>1, <2>3, <1>1 DEF RequestOK, Request, SameColumns, CanImpersonate
  <2> QED
    BY <1>1, <2>2, <2>3, <2>4, QuietMove
<1> QED
  BY <1>2, <1>3 DEF Authenticate

\* A sign-in goes on without a session, every other request ends.
LEMMA UnauthenticatedInv ==
    ASSUME Inv, NEW r \in Requests, Unauthenticated(r),
           UNCHANGED <<now, sessions, users, audit, chain>>
    PROVE  Inv'
<1>1. CASE Finish(r)
  BY <1>1, QuietFinish
<1>2. CASE /\ req[r].op = "sign-in"
           /\ req' = [req EXCEPT ![r].step = "commit", ![r].authed = FALSE]
  <2> DEFINE q == [req[r] EXCEPT !.step = "commit", !.authed = FALSE]
  <2>1. req[r] \in Request /\ RequestOK(r)
    BY DEF Inv, TypeOK
  <2>2. q \in Request
    BY <2>1 DEF Request, Steps
  <2>3. req' = [req EXCEPT ![r] = q] /\ req'[r] = q
    BY <1>2 DEF Inv, TypeOK
  <2>4. RequestOK(r)'
    BY <2>1, <2>3, <1>2 DEF RequestOK, Request
  <2> QED
    BY <2>2, <2>3, <2>4, QuietMove
<1> QED
  BY <1>1, <1>2 DEF Unauthenticated, ActsWithoutSession

\* SessionByTokenHash's first read keeps the invariant: what it read is
\* a row that exists.
LEMMA ReadSessionInv ==
    ASSUME Inv, NEW r \in Requests, ReadSession(r) PROVE Inv'
<1>1. UNCHANGED <<now, sessions, users, audit, chain>>
  BY DEF ReadSession
<1>2. CASE Unauthenticated(r)
  BY <1>1, <1>2, UnauthenticatedInv
<1>3. CASE /\ req[r].cookie # None
           /\ req' = [req EXCEPT ![r].step = "user", ![r].seen = sessions[req[r].cookie]]
  <2> DEFINE q == [req[r] EXCEPT !.step = "user", !.seen = sessions[req[r].cookie]]
  <2>1. req[r] \in Request /\ RequestOK(r) /\ req[r].step = "session"
    BY DEF Inv, TypeOK, ReadSession
  <2>2. q \in Request
    BY <2>1, <1>3 DEF Request, Steps, Inv, TypeOK, SessionTables
  <2>3. req' = [req EXCEPT ![r] = q] /\ req'[r] = q
    BY <1>3 DEF Inv, TypeOK
  <2>4. RequestOK(r)'
    BY <2>1, <2>3, <1>1, <1>3 DEF RequestOK, Request, SameColumns
  <2> QED
    BY <1>1, <2>2, <2>3, <2>4, QuietMove
<1> QED
  BY <1>2, <1>3 DEF ReadSession

\* resolveSession's second read and its checks keep the invariant.
LEMMA ReadUserInv ==
    ASSUME Inv, NEW r \in Requests, ReadUser(r) PROVE Inv'
<1>1. UNCHANGED <<now, sessions, users, audit, chain>>
  BY DEF ReadUser
<1>2. CASE Unauthenticated(r)
  BY <1>1, <1>2, UnauthenticatedInv
<1>3. CASE Finish(r)
  BY <1>1, <1>3, QuietFinish
<1>4. CASE req' = [req EXCEPT ![r].authed = TRUE,
                       ![r].step = IF req[r].op \in {"impersonate", "stop"}
                                   THEN "subject" ELSE "commit"]
  <2> DEFINE q == [req[r] EXCEPT !.authed = TRUE,
                       !.step = IF req[r].op \in {"impersonate", "stop"}
                                THEN "subject" ELSE "commit"]
  <2>1. req[r] \in Request /\ RequestOK(r) /\ req[r].step = "user"
    BY DEF Inv, TypeOK, ReadUser
  <2>2. q \in Request
    BY <2>1 DEF Request, Steps
  <2>3. req' = [req EXCEPT ![r] = q] /\ req'[r] = q
    BY <1>4 DEF Inv, TypeOK
  <2>4. RequestOK(r)'
    BY <2>1, <2>3, <1>1 DEF RequestOK, Request, SameColumns
  <2> QED
    BY <1>1, <2>2, <2>3, <2>4, QuietMove
<1> QED
  BY <1>2, <1>3, <1>4 DEF ReadUser

\* The checks of handleImpersonate and handleStopImpersonating keep the
\* invariant, and establish what their transactions rely on.
LEMMA ReadSubjectInv ==
    ASSUME Inv, NEW r \in Requests, ReadSubject(r) PROVE Inv'
<1>1. UNCHANGED <<now, sessions, users, audit, chain>>
  BY DEF ReadSubject
<1>2. CASE Finish(r)
  BY <1>1, <1>2, QuietFinish
<1>3. CASE /\ Goto(r, "commit")
           /\ req[r].op = "impersonate" => CanImpersonate(req[r].seen.user, req[r].who)
           /\ req[r].op # "impersonate" => req[r].seen.impersonatedBy # None
  <2> DEFINE q == [req[r] EXCEPT !.step = "commit"]
  <2>1. req[r] \in Request /\ RequestOK(r) /\ req[r].step = "subject"
    BY DEF Inv, TypeOK, ReadSubject
  <2>2. q \in Request
    BY <2>1 DEF Request, Steps
  <2>3. req' = [req EXCEPT ![r] = q] /\ req'[r] = q
    BY <1>3 DEF Goto, Inv, TypeOK
  <2>4. RequestOK(r)'
    BY <2>1, <2>3, <1>1, <1>3 DEF RequestOK, Request, SameColumns, CanImpersonate
  <2> QED
    BY <1>1, <2>2, <2>3, <2>4, QuietMove
<1> QED
  BY <1>2, <1>3 DEF ReadSubject

-----------------------------------------------------------------------------
(* Steps that draw a session                                               *)

\* What a step that draws a session owes: the chain and the impersonation of the
\* new row, and the events it writes.
LEMMA GrowStep ==
    ASSUME Inv, NEW new, NEW row \in SessionRow, NEW c \in SessionIds, Grow(new, row, c),
           UNCHANGED <<now, users>>,
           req' \in [Requests -> Request], Requested',
           audit' \in SUBSET AuditEvent,
           c = new \/ sessions[c].state # "free",
           row.impersonatedBy = None <=> row.impersonationId = None,
           row.impersonationId \in {None, new} \/
              (/\ sessions[row.impersonationId].state # "free"
               /\ c \in {new, chain[row.impersonationId]} \/ CarriedOn(row.impersonationId)),
           AuditOK', OneLivePerChain', ImpersonationAudited', StopEndsChain'
    PROVE  Inv'
<1>1. Rows'
  BY GrowRows DEF Inv, Rows
<1>2. TypeOK'
  BY DEF Inv, TypeOK, Grow
<1> QED
  BY <1>1, <1>2 DEF Inv, Rows, Requested

\* A new session that is not an impersonation and begins a chain of its own.
LEMMA CreateStep ==
    ASSUME Inv, NEW u \in Users, NEW duration \in Nat, NEW new \in Unused(sessions),
           sessions' = CreateSession(sessions, new, NewSession(u, now, duration)),
           chain' = [chain EXCEPT ![new] = new],
           UNCHANGED <<now, users, audit>>,
           req' \in [Requests -> Request], Requested'
    PROVE  Inv'
<1> DEFINE row == NewSession(u, now, duration)
<1>1. /\ row \in SessionRow /\ row.state = "live" /\ row.user \in Users
      /\ row.impersonatedBy = None /\ row.impersonationId = None
  BY SMTT(40), NewSessionType, SessionsAssumption DEF Inv, TypeOK
<1> HIDE DEF row
<1>2. Grow(new, row, new)
  BY <1>1, CreateGrows DEF Inv, row
<1>3. new \in SessionIds
  BY DEF Unused
<1>4. AuditOK'
  BY <1>2, GrowStable, AuditStable DEF Inv
<1>5. OneLivePerChain'
  BY <1>2, CreateChains DEF Inv
<1>6. ImpersonationAudited'
  BY <1>1, <1>2, GrowAudited DEF Inv
<1>7. StopEndsChain'
  <2>1. \A e \in audit : e.impersonationId # None
    BY NoneAssumption DEF Inv, TypeOK, AuditEvent
  <2> QED
    BY <1>1, <1>2, <2>1, GrowStops DEF Inv
<1> QED
  BY <1>1, <1>2, <1>3, <1>4, <1>5, <1>6, <1>7, GrowStep DEF Inv, TypeOK

\* handleSignUp and the OAuth callback insert a session that begins a chain.
LEMMA CreateAttachedInv ==
    ASSUME Inv, NEW r \in Requests, CreateAttached(r) PROVE Inv'
<1>1. req[r] \in Request /\ RequestOK(r) /\ req[r].step = "create" /\ req[r].who \in Users
  BY DEF Inv, TypeOK, CreateAttached, RequestOK
<1>2. CASE Finish(r) /\ UNCHANGED <<sessions, chain>>
  BY <1>2, QuietFinish DEF CreateAttached
<1>3. ASSUME NEW new \in Unused(sessions), NEW duration \in {SessionDuration, ShortDuration},
             sessions' = CreateSession(sessions, new, NewSession(req[r].who, now, duration)),
             chain' = [chain EXCEPT ![new] = new], Goto(r, "session")
      PROVE  Inv'
  <2> DEFINE q == [req[r] EXCEPT !.step = "session"]
  <2>1. q \in Request
    BY <1>1 DEF Request, Steps
  <2>2. req' = [req EXCEPT ![r] = q] /\ req'[r] = q
    BY <1>3 DEF Goto, Inv, TypeOK
  <2>3. Stable
    <3>1. req[r].who \in Users /\ now \in Nat /\ duration \in Nat
      BY <1>1, <1>3, SessionsAssumption DEF Inv, TypeOK
    <3> DEFINE row == NewSession(req[r].who, now, duration)
    <3>2. row \in SessionRow /\ row.state = "live" /\ row.user \in Users
      BY <3>1, NewSessionType
    <3>3. sessions' = CreateSession(sessions, new, row)
      BY <1>3
    <3> HIDE DEF row
    <3>4. Grow(new, row, new)
      BY <3>2, <3>3, <1>3, CreateGrows DEF Inv
    <3> QED
      BY <3>4, GrowStable DEF Inv
  <2>4. RequestOK(r)'
    <3>1. req[r].cookie # None => /\ sessions'[req[r].cookie].state # "free"
                                  /\ SameColumns(sessions'[req[r].cookie], sessions[req[r].cookie])
      BY <1>1, <2>3 DEF RequestOK, Request, Stable
    <3> QED
      BY <1>1, <2>2, <3>1 DEF RequestOK, Request, SameColumns
  <2>5. req' \in [Requests -> Request] /\ Requested'
    BY <2>1, <2>2, <2>3, <2>4, MoveOK DEF Inv, Requested
  <2>6. UNCHANGED <<now, users, audit>> /\ duration \in Nat
    BY <1>3, SessionsAssumption DEF CreateAttached
  <2> QED
    BY <1>1, <1>3, <2>5, <2>6, CreateStep
<1> QED
  BY <1>2, <1>3 DEF CreateAttached

\* A rotation that finds its session revoked (ErrReplay) keeps the invariant.
LEMMA ReplayInv ==
    ASSUME Inv, NEW r \in Requests, Replay(r) PROVE Inv'
BY QuietFinish DEF Replay

\* A request that resolved its cookie knows the columns of a drawn session.
LEMMA Presented ==
    ASSUME Inv, NEW r \in Requests, req[r].authed
    PROVE  /\ req[r].cookie \in SessionIds
           /\ SameColumns(req[r].seen, sessions[req[r].cookie])
           /\ req[r].seen.user \in Users
           /\ req[r].seen.impersonatedBy \in Users \cup {None}
           /\ req[r].seen.impersonationId \in SessionIds \cup {None}
           /\ req[r].seen.impersonatedBy = None <=> req[r].seen.impersonationId = None
           /\ RowOK(req[r].cookie)
           /\ chain[req[r].cookie] \in SessionIds
           /\ sessions[chain[req[r].cookie]].state # "free"
<1>1. req[r] \in Request /\ RequestOK(r)
  BY DEF Inv, TypeOK
<1>2. /\ req[r].cookie \in SessionIds
      /\ SameColumns(req[r].seen, sessions[req[r].cookie])
      /\ sessions[req[r].cookie].state # "free"
  BY <1>1 DEF RequestOK, Request
<1>3. RowOK(req[r].cookie) /\ sessions[req[r].cookie] \in SessionRow
  BY <1>2 DEF Inv, TypeOK, SessionTables
<1> QED
  BY <1>2, <1>3 DEF RowOK, SameColumns, SessionRow

\* A rotation grows the chain of the presented session and keeps one live.
LEMMA RotateStep ==
    ASSUME Inv, NEW r \in Requests, req[r].authed, CanRotate(sessions, req[r].cookie),
           NEW new \in Unused(sessions), NEW row \in SessionRow,
           row.state = "live", row.user \in Users, Rotate(r, new, row)
    PROVE  /\ Grow(new, row, chain[req[r].cookie]) /\ Stable
           /\ sessions'[req[r].cookie].state = "revoked" /\ req[r].cookie # new
           /\ OneLivePerChain'
<1>1. req[r].cookie \in SessionIds
  BY Presented
<1>2. /\ Grow(new, row, chain[req[r].cookie])
      /\ sessions'[req[r].cookie].state = "revoked" /\ req[r].cookie # new
  BY <1>1, RotateGrows DEF Inv, Rotate
<1>3. Stable
  BY <1>2, GrowStable DEF Inv
<1>4. OneLivePerChain'
  BY <1>1, <1>2, RotateChains DEF Inv, Live, CanRotate
<1> QED
  BY <1>2, <1>3, <1>4

\* A new row that comes with no event, carries no impersonation or hands on that of
\* the presented session, and joins the chain of that session while it is live or
\* begins a chain.
LEMMA PlainGrowth ==
    ASSUME Inv, NEW r \in Requests, req[r].authed,
           NEW new, NEW row \in SessionRow, NEW c \in SessionIds, Grow(new, row, c),
           row.impersonatedBy = None <=> row.impersonationId = None,
           row.impersonationId = None \/ SameColumns(row, req[r].seen),
           c = new \/ (c = chain[req[r].cookie] /\ Live(req[r].cookie)),
           OneLivePerChain', Finish(r), UNCHANGED <<now, users, audit>>
    PROVE  Inv'
<1> DEFINE old == req[r].cookie
<1>1. /\ old \in SessionIds /\ RowOK(old)
      /\ SameColumns(req[r].seen, sessions[old])
      /\ chain[old] \in SessionIds /\ sessions[chain[old]].state # "free"
  BY Presented
<1>2. row.impersonationId = None \/ SameColumns(row, sessions[old])
  BY <1>1 DEF SameColumns
<1>3. row.impersonationId # None =>
        /\ sessions[row.impersonationId].state # "free"
        /\ c \in {new, chain[row.impersonationId]} \/ CarriedOn(row.impersonationId)
  BY <1>1, <1>2 DEF RowOK, SameColumns
<1>4. Stable
  BY GrowStable DEF Inv
<1>5. req' \in [Requests -> Request] /\ Requested'
  BY <1>4, FinishOK DEF Inv, Requested
<1>6. AuditOK'
  BY <1>4, AuditStable DEF Inv
<1>7. StopEndsChain'
  <2>1. \A e \in audit : (e.action = "stop" /\ e.impersonationId = row.impersonationId) =>
                            chain[e.sessionId] # c
    <3> SUFFICES ASSUME NEW e \in audit, e.action = "stop",
                        e.impersonationId = row.impersonationId
                 PROVE  chain[e.sessionId] # c
      OBVIOUS
    <3>1. e.impersonationId # None /\ e.sessionId \in SessionIds
      BY NoneAssumption DEF Inv, TypeOK, AuditEvent
    <3>2. CASE c = new
      <4>1. sessions[e.sessionId].state # "free" /\ RowOK(e.sessionId)
        BY <3>1 DEF Inv, AuditOK
      <4>2. sessions[chain[e.sessionId]].state # "free"
        BY <4>1 DEF RowOK
      <4> QED
        BY <3>2, <4>2 DEF Grow
    <3>3. CASE c = chain[old] /\ Live(old)
      <4>1. e.impersonationId = sessions[old].impersonationId
        BY <1>2, <3>1 DEF SameColumns
      <4> QED
        BY <1>1, <3>3, <4>1, LiveNotStopped DEF Inv
    <3> QED
      BY <3>2, <3>3
  <2> QED
    BY <2>1, GrowStops DEF Inv
<1>8. ImpersonationAudited'
  <2>1. ASSUME row.impersonationId # None
        PROVE  /\ CanImpersonate(row.impersonatedBy, row.user)
               /\ \E e \in audit' : /\ e.action = "start"
                                     /\ e.impersonationId = row.impersonationId
                                     /\ e.actor = row.impersonatedBy
                                     /\ e.subject = row.user
    <3>1. SameColumns(row, sessions[old])
      BY <1>2, <2>1
    <3>2. StartedBy(old) # {} /\ CanImpersonate(sessions[old].impersonatedBy, sessions[old].user)
      BY <1>1, <2>1, <3>1 DEF Inv, ImpersonationAudited, SameColumns
    <3> QED
      BY <3>1, <3>2 DEF StartedBy, SameColumns
  <2> QED
    BY <2>1, GrowAudited DEF Inv
<1>9. c = new \/ sessions[c].state # "free"
  BY <1>1
<1> QED
  BY <1>3, <1>5, <1>6, <1>7, <1>8, <1>9, GrowStep DEF Inv, TypeOK

\* A rotation that writes no event and either carries no impersonation or hands on
\* that of the presented session.
LEMMA PlainRotation ==
    ASSUME Inv, NEW r \in Requests, req[r].authed, CanRotate(sessions, req[r].cookie),
           NEW new \in Unused(sessions), NEW row \in SessionRow,
           row.state = "live", row.user \in Users, Rotate(r, new, row),
           row.impersonatedBy = None <=> row.impersonationId = None,
           row.impersonationId = None \/ SameColumns(row, req[r].seen),
           Finish(r), UNCHANGED <<now, users, audit>>
    PROVE  Inv'
<1>1. Grow(new, row, chain[req[r].cookie]) /\ OneLivePerChain'
  BY RotateStep
<1>2. chain[req[r].cookie] \in SessionIds
  BY Presented
<1>3. Live(req[r].cookie)
  BY DEF CanRotate, Live
<1> QED
  BY <1>1, <1>2, <1>3, PlainGrowth

\* A sign-in replaces the presented session, or begins a chain.
LEMMA SignInInv ==
    ASSUME Inv, NEW r \in Requests, SignIn(r) PROVE Inv'
<1>1. req[r] \in Request /\ req[r].who \in Users /\ now \in Nat
  BY DEF Inv, TypeOK, SignIn, RequestOK
<1>2. CASE Replay(r)
  BY <1>2, ReplayInv
<1>3. ASSUME NEW new \in Unused(sessions), NEW duration \in {SessionDuration, ShortDuration},
             req[r].authed => CanRotate(sessions, req[r].cookie),
             IF req[r].authed THEN Rotate(r, new, NewSession(req[r].who, now, duration))
             ELSE /\ sessions' = CreateSession(sessions, new,
                                      NewSession(req[r].who, now, duration))
                  /\ chain' = [chain EXCEPT ![new] = new],
             Finish(r), UNCHANGED <<now, users, audit>>
      PROVE  Inv'
  <2> DEFINE row == NewSession(req[r].who, now, duration)
  <2>1. duration \in Nat
    BY <1>3, SessionsAssumption
  <2>2. /\ row \in SessionRow /\ row.state = "live" /\ row.user \in Users
        /\ row.impersonatedBy = None /\ row.impersonationId = None
    BY <1>1, <2>1, NewSessionType
  <2>3. CASE ~req[r].authed
    <3>1. Grow(new, row, new)
      BY <1>3, <2>2, <2>3, CreateGrows DEF Inv
    <3>2. Stable
      BY <3>1, GrowStable DEF Inv
    <3>3. req' \in [Requests -> Request] /\ Requested'
      BY <1>3, <3>2, FinishOK DEF Inv, Requested
    <3> QED
      BY <1>1, <1>3, <2>1, <2>3, <3>3, CreateStep
  <2>4. CASE req[r].authed
    <3>1. Rotate(r, new, row)
      BY <1>3, <2>4
    <3> HIDE DEF row
    <3> QED
      BY <1>3, <2>2, <2>4, <3>1, PlainRotation
  <2> QED
    BY <2>3, <2>4
<1> QED
  BY <1>2, <1>3 DEF SignIn

\* What a refresh and a change of the password put in the place of the session they
\* read is a live row with the same columns.
LEMMA ReplacementType ==
    ASSUME Inv, NEW r \in Requests, req[r].authed
    PROVE  /\ Replacement(r) \in SessionRow /\ Replacement(r).state = "live"
           /\ Replacement(r).user \in Users
           /\ SameColumns(Replacement(r), req[r].seen)
           /\ Replacement(r).impersonatedBy = None <=> Replacement(r).impersonationId = None
<1>1. now \in Nat /\ SessionDuration \in Nat
  BY SessionsAssumption DEF Inv, TypeOK
<1>2. /\ req[r].seen.user \in Users
      /\ req[r].seen.impersonatedBy \in Users \cup {None}
      /\ req[r].seen.impersonationId \in SessionIds \cup {None}
      /\ req[r].seen.impersonatedBy = None <=> req[r].seen.impersonationId = None
  BY Presented
<1> QED
  BY <1>1, <1>2 DEF Replacement, Impersonation, SessionRow, SameColumns

\* A refresh hands the impersonation of the presented session on.
LEMMA RefreshSessionInv ==
    ASSUME Inv, NEW r \in Requests, RefreshSession(r) PROVE Inv'
<1>1. req[r].authed
  BY DEF Inv, RefreshSession, RequestOK
<1>2. CASE Replay(r)
  BY <1>2, ReplayInv
<1>3. ASSUME NEW new \in Unused(sessions), Rotate(r, new, Replacement(r)),
             CanRotate(sessions, req[r].cookie),
             Finish(r), UNCHANGED <<now, users, audit>>
      PROVE  Inv'
  BY <1>1, <1>3, ReplacementType, PlainRotation
<1> QED
  BY <1>2, <1>3 DEF RefreshSession

\* The session part of ChangePasswordAndRotate grows the chain that the change names
\* and leaves no live session beside the new one in it.
LEMMA ChangeRotationGrows ==
    ASSUME Inv, NEW r \in Requests, req[r].authed, NEW new \in Unused(sessions),
           NEW revokeOthers \in BOOLEAN, ChangeRotation(r, new, revokeOthers),
           NEW c \in SessionIds,
           c = IF CanRotate(sessions, req[r].cookie) THEN chain[req[r].cookie] ELSE new,
           chain' = [chain EXCEPT ![new] = c]
    PROVE  Grow(new, Replacement(r), c) /\ OneLivePerChain'
<1> DEFINE old == req[r].cookie
           row == Replacement(r)
<1>1. row \in SessionRow /\ row.state = "live" /\ row.user \in Users
  BY ReplacementType
<1>2. /\ old \in SessionIds /\ sessions[old].user = req[r].seen.user
  BY Presented DEF SameColumns
<1>3. CASE ~revokeOthers
  <2>1. CanRotate(sessions, old) /\ sessions' = RotateSession(sessions, old, new, row)
    BY <1>3 DEF ChangeRotation
  <2> HIDE DEF row
  <2>2. Grow(new, row, c) /\ sessions'[old].state = "revoked" /\ old # new
    BY <1>1, <1>2, <2>1, RotateGrows DEF Inv
  <2>3. OneLivePerChain'
    BY <1>2, <2>1, <2>2, RotateChains DEF Inv, Live, CanRotate
  <2> QED
    BY <2>2, <2>3 DEF row
<1>4. CASE revokeOthers
  <2> DEFINE gone == LiveRows(sessions, req[r].seen.user)
             left == Revoke(sessions, gone)
  <2>1. sessions' = [left EXCEPT ![new] = row]
    BY <1>4 DEF ChangeRotation, RevokeUserSessions, CreateSession
  <2>2. left \in SessionTables /\ new \in SessionIds /\ sessions[new].state = "free"
    BY DEF Revoke, Inv, TypeOK, SessionTables, SessionRow, Unused
  <2>3. sessions' \in SessionTables /\ sessions'[new] = row
        /\ \A i \in SessionIds \ {new} : sessions'[i] = left[i]
    BY <1>1, <2>1, <2>2 DEF SessionTables
  <2>4. \A i \in SessionIds \ {new} : Kept(i)
    BY <2>3 DEF Revoke, Kept, SameColumns, Inv, TypeOK, SessionTables, SessionRow
  <2>5. Grow(new, row, c)
    BY <1>1, <2>2, <2>3, <2>4 DEF Grow
  <2>6. CASE CanRotate(sessions, old)
    <3>1. old # new /\ old \in gone
      BY <1>2, <2>2, <2>6 DEF CanRotate, LiveRows
    <3>2. sessions'[old].state = "revoked"
      BY <1>2, <2>3, <2>6, <3>1 DEF Revoke, CanRotate, Inv, TypeOK, SessionTables, SessionRow
    <3> HIDE DEF row
    <3> QED
      BY <1>2, <2>5, <2>6, <3>1, <3>2, RotateChains DEF Inv, Live, CanRotate, row
  <2>7. CASE ~CanRotate(sessions, old)
    BY <2>5, <2>7, CreateChains DEF Inv
  <2> QED
    BY <2>5, <2>6, <2>7
<1> QED
  BY <1>3, <1>4

\* A change of the password hands the impersonation of the session it read on, in the
\* chain of that session or in one of its own.
LEMMA ChangePasswordInv ==
    ASSUME Inv, NEW r \in Requests, ChangePassword(r) PROVE Inv'
<1>1. req[r].authed
  BY DEF Inv, ChangePassword, RequestOK
<1>2. CASE Replay(r)
  BY <1>2, ReplayInv
<1>3. ASSUME NEW new \in Unused(sessions), NEW revokeOthers \in BOOLEAN,
             ChangeRotation(r, new, revokeOthers),
             chain' = [chain EXCEPT ![new] = IF CanRotate(sessions, req[r].cookie)
                                             THEN chain[req[r].cookie] ELSE new],
             Finish(r), UNCHANGED <<now, users, audit>>
      PROVE  Inv'
  <2> DEFINE c == IF CanRotate(sessions, req[r].cookie) THEN chain[req[r].cookie] ELSE new
  <2>1. c \in SessionIds
    BY <1>1, Presented DEF Unused
  <2>2. c = new \/ (c = chain[req[r].cookie] /\ Live(req[r].cookie))
    BY DEF CanRotate, Live
  <2>3. Grow(new, Replacement(r), c) /\ OneLivePerChain'
    BY <1>1, <1>3, <2>1, ChangeRotationGrows
  <2> HIDE DEF c
  <2> QED
    BY <1>1, <1>3, <2>1, <2>2, <2>3, ReplacementType, PlainGrowth
<1> QED
  BY <1>2, <1>3 DEF ChangePassword

\* A start draws a fresh impersonation and records it with its actor and subject.
LEMMA StartImpersonationInv ==
    ASSUME Inv, NEW r \in Requests, StartImpersonation(r) PROVE Inv'
<1> DEFINE old == req[r].cookie
<1>1. /\ req[r] \in Request /\ req[r].authed /\ req[r].who \in Users
      /\ CanImpersonate(req[r].seen.user, req[r].who)
      /\ now \in Nat /\ ImpersonationDuration \in Nat
  BY SessionsAssumption DEF Inv, TypeOK, StartImpersonation, RequestOK
<1>2. /\ req[r].seen.user \in Users /\ old \in SessionIds /\ chain[old] \in SessionIds
      /\ sessions[chain[old]].state # "free"
  BY <1>1, Presented
<1>3. CASE Replay(r)
  BY <1>3, ReplayInv
<1>4. ASSUME NEW new \in Unused(sessions),
             CanRotate(sessions, old),
             Rotate(r, new, Impersonation(req[r].who, now, ImpersonationDuration,
                                             req[r].seen.user, new)),
             audit' = audit \cup
                    {[action |-> "start", actor |-> req[r].seen.user,
                      subject |-> req[r].who, sessionId |-> new,
                      impersonationId |-> new, occurredAt |-> now]},
             Finish(r), UNCHANGED <<now, users>>
      PROVE  Inv'
  <2> DEFINE row == Impersonation(req[r].who, now, ImpersonationDuration,
                                  req[r].seen.user, new)
             start == [action |-> "start", actor |-> req[r].seen.user,
                       subject |-> req[r].who, sessionId |-> new,
                       impersonationId |-> new, occurredAt |-> now]
  <2>1. /\ row \in SessionRow /\ row.state = "live" /\ row.user = req[r].who
        /\ row.impersonatedBy = req[r].seen.user /\ row.impersonationId = new
        /\ new \in SessionIds
    BY <1>1, <1>2 DEF Impersonation, SessionRow, Unused
  <2>2. /\ start \in AuditEvent /\ start.action = "start" /\ start.actor = req[r].seen.user
        /\ start.subject = req[r].who /\ start.impersonationId = new
    BY <1>1, <1>2, <2>1 DEF AuditEvent
  <2>3. Rotate(r, new, row) /\ audit' = audit \cup {start}
    BY <1>4
  <2> HIDE DEF row, start
  <2>4. Grow(new, row, chain[old]) /\ Stable /\ OneLivePerChain'
    BY <1>1, <1>4, <2>1, <2>3, RotateStep
  <2>5. req' \in [Requests -> Request] /\ Requested'
    BY <1>4, <2>4, FinishOK DEF Inv, Requested
  <2>6. audit' \in SUBSET AuditEvent
    BY <2>2, <2>3 DEF Inv, TypeOK
  <2>7. \A e \in audit' : e.action = "stop" => e \in audit
    BY <2>2, <2>3
  <2>8. AuditOK'
    BY <2>4, <2>7, CarriedOnStable DEF Inv, AuditOK, Stable, TypeOK, AuditEvent
  <2>9. ImpersonationAudited'
    <3>1. CanImpersonate(row.impersonatedBy, row.user)
      BY <1>1, <2>1
    <3>2. start \in audit' /\ audit \subseteq audit'
      BY <2>3
    <3> QED
      BY <2>1, <2>2, <2>4, <3>1, <3>2, GrowAudited DEF Inv
  <2>10. StopEndsChain'
    <3>1. \A i \in SessionIds \ {new} :
             /\ sessions'[i].impersonationId = sessions[i].impersonationId
             /\ Live(i)' => Live(i)
             /\ chain'[i] = chain[i]
      BY <2>4 DEF Grow, Kept, SameColumns, Live, Inv, TypeOK
    <3>2. \A e \in audit : e.action = "stop" =>
             /\ e.impersonationId # new
             /\ e.sessionId \in SessionIds \ {new}
      BY DEF Inv, AuditOK, Unused, TypeOK, AuditEvent
    <3>3. sessions'[new].impersonationId = new
      BY <2>1, <2>4 DEF Grow
    <3> QED
      BY <2>7, <3>1, <3>2, <3>3 DEF Inv, StopEndsChain
  <2>11. /\ row.user \in Users
         /\ row.impersonatedBy = None <=> row.impersonationId = None
    BY <1>1, <1>2, <2>1, NoneAssumption
  <2> QED
    BY <1>2, <1>4, <2>1, <2>4, <2>5, <2>6, <2>8, <2>9, <2>10, <2>11, GrowStep
<1> QED
  BY <1>3, <1>4 DEF StartImpersonation

\* A stop revokes the only live session of its chain, which carries the impersonation,
\* records it and returns the actor to a session that carries none.
LEMMA StopImpersonationInv ==
    ASSUME Inv, NEW r \in Requests, StopImpersonation(r) PROVE Inv'
<1> DEFINE old == req[r].cookie
           k == req[r].seen.impersonationId
<1>1. /\ req[r] \in Request /\ req[r].authed
      /\ req[r].seen.impersonatedBy # None
      /\ now \in Nat /\ SessionDuration \in Nat
  BY SessionsAssumption DEF Inv, TypeOK, StopImpersonation, RequestOK
<1>2. /\ req[r].seen.user \in Users /\ old \in SessionIds /\ chain[old] \in SessionIds
      /\ sessions[chain[old]].state # "free"
      /\ req[r].seen.impersonatedBy \in Users
      /\ k \in SessionIds /\ sessions[old].impersonationId = k
      /\ RowOK(old)
  BY <1>1, Presented DEF SameColumns
<1>3. sessions[k].state # "free" /\ (chain[old] = chain[k] \/ CarriedOn(k))
  BY <1>2, NoneAssumption DEF RowOK
<1>4. CASE Replay(r)
  BY <1>4, ReplayInv
<1>5. ASSUME NEW new \in Unused(sessions),
             CanRotate(sessions, old),
             Rotate(r, new, NewSession(req[r].seen.impersonatedBy, now, SessionDuration)),
             audit' = audit \cup
                    {[action |-> "stop", actor |-> req[r].seen.impersonatedBy,
                      subject |-> req[r].seen.user, sessionId |-> new,
                      impersonationId |-> req[r].seen.impersonationId, occurredAt |-> now]},
             Finish(r), UNCHANGED <<now, users>>
      PROVE  Inv'
  <2> DEFINE row == NewSession(req[r].seen.impersonatedBy, now, SessionDuration)
             stop == [action |-> "stop", actor |-> req[r].seen.impersonatedBy,
                      subject |-> req[r].seen.user, sessionId |-> new,
                      impersonationId |-> req[r].seen.impersonationId, occurredAt |-> now]
  <2>1. /\ row \in SessionRow /\ row.state = "live" /\ row.user \in Users
        /\ row.impersonatedBy = None /\ row.impersonationId = None
    BY <1>1, <1>2, NewSessionType
  <2>2. /\ stop \in AuditEvent /\ stop.action = "stop" /\ stop.impersonationId = k
        /\ stop.sessionId = new /\ new \in SessionIds
    BY <1>1, <1>2 DEF AuditEvent, Unused
  <2>3. Rotate(r, new, row) /\ audit' = audit \cup {stop}
    BY <1>5
  <2> HIDE DEF row, stop, k
  <2>4. /\ Grow(new, row, chain[old]) /\ Stable /\ OneLivePerChain'
        /\ sessions'[old].state = "revoked" /\ old # new
    BY <1>1, <1>5, <2>1, <2>3, RotateStep
  <2>5. req' \in [Requests -> Request] /\ Requested'
    BY <1>5, <2>4, FinishOK DEF Inv, Requested
  <2>6. audit' \in SUBSET AuditEvent
    BY <2>2, <2>3 DEF Inv, TypeOK
  <2>7. chain'[new] = chain[old] /\ \A i \in SessionIds \ {new} : chain'[i] = chain[i]
    BY <2>2, <2>4 DEF Grow, Inv, TypeOK
  <2>8. AuditOK'
    <3> SUFFICES ASSUME NEW e \in audit', e.action = "stop"
                 PROVE  /\ sessions'[e.impersonationId].state # "free"
                        /\ sessions'[e.sessionId].state # "free"
                        /\ \/ chain'[e.sessionId] = chain'[e.impersonationId]
                           \/ CarriedOn(e.impersonationId)'
      BY DEF AuditOK
    <3>1. CASE e \in audit
      <4>1. e.impersonationId \in SessionIds /\ e.sessionId \in SessionIds
        BY <3>1 DEF Inv, TypeOK, AuditEvent
      <4>2. /\ sessions[e.impersonationId].state # "free"
            /\ sessions[e.sessionId].state # "free"
            /\ chain[e.sessionId] = chain[e.impersonationId] \/ CarriedOn(e.impersonationId)
        BY <3>1 DEF Inv, AuditOK
      <4>3. CarriedOn(e.impersonationId) => CarriedOn(e.impersonationId)'
        BY <2>4, CarriedOnStable DEF Inv
      <4> QED
        BY <2>4, <4>1, <4>2, <4>3 DEF Stable
    <3>2. CASE e = stop
      <4>1. sessions'[new].state # "free"
        BY <2>1, <2>4 DEF Grow
      <4>2. CarriedOn(e.impersonationId) => CarriedOn(e.impersonationId)'
        BY <2>4, CarriedOnStable DEF Inv
      <4>3. e.impersonationId = k /\ e.sessionId = new /\ e.impersonationId \in SessionIds
        BY <1>2, <2>2, <3>2
      <4>4. /\ sessions'[e.impersonationId].state # "free"
            /\ chain'[e.impersonationId] = chain[e.impersonationId]
        BY <1>3, <2>4, <4>3 DEF Stable
      <4>5. \/ chain'[e.sessionId] = chain'[e.impersonationId]
            \/ CarriedOn(e.impersonationId)'
        BY <1>3, <2>7, <4>2, <4>3, <4>4
      <4> QED
        BY <4>1, <4>3, <4>4, <4>5
    <3> QED
      BY <2>3, <3>1, <3>2
  <2>9. ImpersonationAudited'
    <3>1. audit \subseteq audit'
      BY <2>3
    <3> QED
      BY <2>1, <2>4, <3>1, GrowAudited DEF Inv
  <2>10. StopEndsChain'
    <3>1. \A i \in SessionIds \ {new} :
             /\ sessions'[i].impersonationId = sessions[i].impersonationId
             /\ Live(i)' => Live(i)
      BY <2>4 DEF Grow, Kept, SameColumns, Live
    <3>2. sessions'[new].impersonationId = None
      BY <2>1, <2>4 DEF Grow
    <3>3. Live(old)
      BY <1>5 DEF CanRotate, Live
    <3>4. \A e \in audit : (e.action = "stop" /\ e.impersonationId = k) =>
                              chain[e.sessionId] # chain[old]
      BY <1>2, <3>3, LiveNotStopped DEF Inv
    <3>5. \A i \in SessionIds :
             (chain'[i] = chain[old] /\ sessions'[i].impersonationId = k) => ~Live(i)'
      <4> SUFFICES ASSUME NEW i \in SessionIds, sessions'[i].impersonationId = k, Live(i)',
                          chain'[i] = chain[old]
                   PROVE FALSE
        OBVIOUS
      <4>1. i # new /\ i # old
        BY <1>2, <2>4, <3>2, NoneAssumption DEF Live
      <4>2. Live(i) /\ chain[i] = chain[old]
        BY <2>7, <3>1, <4>1
      <4> QED
        BY <1>2, <3>3, <4>1, <4>2 DEF Inv, OneLivePerChain
    <3>6. \A e \in audit : e.impersonationId # None
      BY NoneAssumption DEF Inv, TypeOK, AuditEvent
    <3>7. \A e \in audit' : e \in audit \/ e = stop
      BY <2>3
    <3>8. \A e \in audit : e.action = "stop" =>
             e.sessionId \in SessionIds /\ chain'[e.sessionId] = chain[e.sessionId]
      BY <2>7 DEF Inv, AuditOK, TypeOK, AuditEvent, Unused
    <3>9. \A e \in audit : e.action = "stop" =>
            \A i \in SessionIds :
               (sessions'[i].impersonationId = e.impersonationId
                  /\ chain'[i] = chain'[e.sessionId]) => ~Live(i)'
      BY <2>7, <3>1, <3>2, <3>6, <3>8 DEF Inv, StopEndsChain
    <3>10. \A e, f \in audit :
             (/\ e.action = "stop" /\ f.action = "stop"
              /\ f.impersonationId = e.impersonationId
              /\ chain'[f.sessionId] = chain'[e.sessionId]) => e = f
      BY <3>8 DEF Inv, StopEndsChain
    <3> QED
      BY <2>2, <2>7, <3>4, <3>5, <3>7, <3>8, <3>9, <3>10 DEF StopEndsChain
  <2> QED
    BY <1>2, <1>5, <2>1, <2>4, <2>5, <2>6, <2>8, <2>9, <2>10, GrowStep
<1> QED
  BY <1>4, <1>5 DEF StopImpersonation

-----------------------------------------------------------------------------
(* Steps that end sessions, and the environment                            *)

\* A step that revokes or deletes sessions and ends its request.
LEMMA ShrinkFinish ==
    ASSUME Inv, NEW r \in Requests, Shrink, Finish(r), UNCHANGED <<now, audit>>,
           users' \in [Users -> {"active", "disabled", "deleted"}]
    PROVE  Inv'
<1>1. req' \in [Requests -> Request] /\ Requested'
  BY FinishOK, ShrinkStable DEF Inv, Requested
<1> QED
  BY <1>1, ShrinkStep

\* Sign-out and the revoke endpoints only revoke.
LEMMA RevokeSessionsShrink ==
    ASSUME Inv, NEW r \in Requests, RevokeSessions(r) PROVE Shrink
<1>1. \E M : sessions' = Revoke(sessions, M)
  BY DEF RevokeSessions, RevokeSession, RevokeOne, RevokeSessionByID, RevokeOtherSessions,
         RevokeUserSessions
<1>2. UNCHANGED chain
  BY DEF RevokeSessions
<1> QED
  BY <1>1, <1>2, RevokeShrinks DEF Inv

\* Sign-out and the revoke endpoints preserve the invariant.
LEMMA RevokeSessionsInv ==
    ASSUME Inv, NEW r \in Requests, RevokeSessions(r) PROVE Inv'
<1>1. Finish(r) /\ UNCHANGED <<now, users, audit>>
  BY DEF RevokeSessions
<1> QED
  BY <1>1, RevokeSessionsShrink, ShrinkFinish DEF Inv, TypeOK

\* Account deletion only removes sessions of the user it deletes.
LEMMA DeleteUserShrink ==
    ASSUME Inv, NEW r \in Requests, DeleteUser(r) PROVE Shrink /\ req[r].seen.user \in Users
<1>1. req[r].authed
  BY DEF Inv, DeleteUser, RequestOK
<1>2. req[r].seen.user \in Users
  BY <1>1, Presented
<1> QED
  BY <1>2, DeleteShrinks DEF DeleteUser, Inv

\* Account deletion preserves the invariant.
LEMMA DeleteUserInv ==
    ASSUME Inv, NEW r \in Requests, DeleteUser(r) PROVE Inv'
<1>1. users' \in [Users -> {"active", "disabled", "deleted"}]
  BY DEF DeleteUser, Inv, TypeOK
<1>2. Finish(r) /\ UNCHANGED <<now, audit>>
  BY DEF DeleteUser
<1> QED
  BY <1>1, <1>2, DeleteUserShrink, ShrinkFinish

\* A lost request changes nothing but itself.
LEMMA AbortInv ==
    ASSUME Inv, NEW r \in Requests, Abort(r) PROVE Inv'
BY QuietFinish DEF Abort

\* The requests in flight do not notice a step of the environment.
LEMMA EnvironmentOK ==
    ASSUME Inv, Stable, UNCHANGED req
    PROVE  req' \in [Requests -> Request] /\ Requested'
BY RequestStable DEF Inv, TypeOK, Requested

\* SCIM deactivation revokes, or leaves the table alone.
LEMMA ScimDeactivateShrink ==
    ASSUME Inv, NEW u \in ScimUsers, ScimDeactivate(u) PROVE Shrink
<1>1. CASE UNCHANGED sessions
  BY <1>1 DEF Inv, TypeOK, ScimDeactivate, Shrink, Kept, SameColumns
<1>2. CASE sessions' = RevokeUserSessions(sessions, u)
  BY <1>2, RevokeShrinks DEF Inv, ScimDeactivate, RevokeUserSessions
<1> QED
  BY <1>1, <1>2 DEF ScimDeactivate

\* SCIM deactivation preserves the invariant.
LEMMA ScimDeactivateInv ==
    ASSUME Inv, NEW u \in ScimUsers, ScimDeactivate(u) PROVE Inv'
<1>1. users' \in [Users -> {"active", "disabled", "deleted"}]
  BY DEF ScimDeactivate, Inv, TypeOK
<1>2. UNCHANGED <<now, audit, req>>
  BY DEF ScimDeactivate
<1>3. Shrink
  BY ScimDeactivateShrink
<1>4. req' \in [Requests -> Request] /\ Requested'
  BY <1>2, <1>3, ShrinkStable, EnvironmentOK
<1> QED
  BY <1>1, <1>2, <1>3, <1>4, ShrinkStep

\* SCIM reactivation and the clock preserve the invariant.
LEMMA ScimReactivateInv ==
    ASSUME Inv, NEW u \in ScimUsers, ScimReactivate(u) PROVE Inv'
<1>1. users' \in [Users -> {"active", "disabled", "deleted"}]
  BY DEF ScimReactivate, Inv, TypeOK
<1>2. UNCHANGED <<now, sessions, audit, req, chain>>
  BY DEF ScimReactivate
<1>3. req' \in [Requests -> Request] /\ Requested'
  BY <1>2, UnchangedStable, EnvironmentOK
<1> QED
  BY <1>1, <1>2, <1>3, QuietStep DEF Inv, TypeOK

\* The clock preserves the invariant.
LEMMA TickInv ==
    ASSUME Inv, Tick PROVE Inv'
<1>1. now' \in Nat /\ UNCHANGED <<sessions, users, audit, req, chain>>
  BY DEF Tick, Inv, TypeOK
<1>2. req' \in [Requests -> Request] /\ Requested'
  BY <1>1, UnchangedStable, EnvironmentOK
<1> QED
  BY <1>1, <1>2, QuietStep DEF Inv, TypeOK

-----------------------------------------------------------------------------
(* The theorems                                                            *)

\* The invariant holds when the server starts on empty tables.
LEMMA InitInv ==
    ASSUME Init PROVE Inv
<1>1. FreeRow \in SessionRow
  BY DEF FreeRow, SessionRow
<1>2. Idle \in Request
  BY <1>1 DEF Idle, Request, Steps
<1>3. TypeOK
  BY <1>1, <1>2 DEF Init, TypeOK, EmptyTable, SessionTables
<1>4. \A i \in SessionIds : sessions[i] = FreeRow /\ chain[i] = None
  BY DEF Init, EmptyTable
<1>5. \A i \in SessionIds : RowOK(i)
  BY <1>4 DEF RowOK, FreeRow
<1>6. \A r \in Requests : RequestOK(r)
  BY SessionsAssumption DEF Init, RequestOK, Idle, Ops
<1>7. AuditOK /\ OneLivePerChain /\ ImpersonationAudited /\ StopEndsChain
  BY <1>4 DEF Init, AuditOK, OneLivePerChain, ImpersonationAudited, StopEndsChain, Live, FreeRow
<1> QED
  BY <1>3, <1>5, <1>6, <1>7 DEF Inv

\* Every step of every request and of the environment preserves the invariant.
LEMMA NextInv ==
    ASSUME Inv, [Next]_vars PROVE Inv'
<1>1. ASSUME NEW r \in Requests,
             \/ Arrive(r) \/ Authenticate(r) \/ CreateAttached(r)
             \/ ReadSession(r) \/ ReadUser(r) \/ ReadSubject(r)
             \/ StartImpersonation(r) \/ StopImpersonation(r)
             \/ SignIn(r) \/ RefreshSession(r) \/ ChangePassword(r)
             \/ RevokeSessions(r) \/ DeleteUser(r) \/ Abort(r)
      PROVE  Inv'
  BY <1>1, ArriveInv, AuthenticateInv, CreateAttachedInv, ReadSessionInv, ReadUserInv,
     ReadSubjectInv, StartImpersonationInv, StopImpersonationInv, SignInInv,
     RefreshSessionInv, ChangePasswordInv, RevokeSessionsInv, DeleteUserInv, AbortInv
<1>2. ASSUME NEW u \in ScimUsers, ScimDeactivate(u) \/ ScimReactivate(u) PROVE Inv'
  BY <1>2, ScimDeactivateInv, ScimReactivateInv
<1>3. CASE Tick
  BY <1>3, TickInv
<1>4. CASE UNCHANGED vars
  <2>1. UNCHANGED <<now, sessions, users, audit, req, chain>>
    BY <1>4 DEF vars
  <2>2. req' \in [Requests -> Request] /\ Requested'
    BY <2>1, UnchangedStable, EnvironmentOK
  <2> QED
    BY <2>1, <2>2, QuietStep DEF Inv, TypeOK
<1> QED
  BY <1>1, <1>2, <1>3, <1>4 DEF Next

\* The inductive invariant holds in every reachable state.
THEOREM InvHolds == Spec => []Inv
<1>1. Init => Inv
  BY InitInv
<1>2. Inv /\ [Next]_vars => Inv'
  BY NextInv
<1> QED
  BY <1>1, <1>2, PTL DEF Spec

\* Every variable keeps its type; in particular a stopped impersonation always
\* returns to an actor that exists and a commit always has the row it read.
THEOREM TypeCorrect == Spec => []TypeOK
<1>1. Inv => TypeOK
  BY DEF Inv
<1> QED
  BY <1>1, InvHolds, PTL

\* However many requests race with the same cookie, a rotation chain never holds
\* two live sessions (RotateSession, RotateSessionWithAudit).
THEOREM SingleUseRotation == Spec => []OneLivePerChain
<1>1. Inv => OneLivePerChain
  BY DEF Inv
<1> QED
  BY <1>1, InvHolds, PTL

\* Every session that carries an impersonation is covered by the committed start
\* event of an actor that was allowed to impersonate its user.
THEOREM EveryImpersonationAudited == Spec => []ImpersonationAudited
<1>1. Inv => ImpersonationAudited
  BY DEF Inv
<1> QED
  BY <1>1, InvHolds, PTL

\* After the stop event of an impersonation no live session carries it and no second
\* stop event is written: in the rotation chain that was stopped always, in every
\* chain unless a change-password with revokeOtherSessions carried the impersonation
\* on from a session that had ended.
THEOREM StopFinal == Spec => []StopIsFinal
<1>1. Inv => StopIsFinal
  BY StopEndsAll DEF Inv
<1> QED
  BY <1>1, InvHolds, PTL

-----------------------------------------------------------------------------
(* A dead chain stays dead                                                 *)

Begun(c) == \E i \in SessionIds : chain[i] = c

\* What a step does to the rotation chains: it revives none of them.
NoRevival ==
    \A c \in SessionIds : (Begun(c) /\ ~ChainHasLive(c)) => ~ChainHasLive(c)'

\* A step that only revokes or deletes revives nothing.
LEMMA ShrinkNoRevival ==
    ASSUME Shrink PROVE NoRevival
<1>1. \A i \in SessionIds : (Live(i)' => Live(i)) /\ chain'[i] = chain[i]
  BY DEF Shrink, Kept, Live
<1> QED
  BY <1>1 DEF NoRevival, ChainHasLive

\* A new session joins the chain of a live session, or one that nobody has begun.
LEMMA GrowNoRevival ==
    ASSUME TypeOK, NEW new, NEW row, NEW c \in SessionIds, Grow(new, row, c),
           ChainHasLive(c) \/ ~Begun(c)
    PROVE  NoRevival
<1>1. \A i \in SessionIds \ {new} : (Live(i)' => Live(i)) /\ chain'[i] = chain[i]
  BY DEF Grow, Kept, Live, TypeOK
<1>2. chain'[new] = c
  BY DEF Grow, TypeOK
<1> QED
  BY <1>1, <1>2 DEF NoRevival, ChainHasLive

\* The chain of an id that has not been drawn has not begun.
LEMMA FreshChain ==
    ASSUME Inv, NEW new \in Unused(sessions) PROVE ~Begun(new)
<1>1. new \in SessionIds /\ sessions[new].state = "free"
  BY DEF Unused
<1>2. \A i \in SessionIds : chain[i] = None \/ sessions[chain[i]].state # "free"
  BY DEF Inv, RowOK
<1> QED
  BY <1>1, <1>2, NoneAssumption DEF Begun

\* A session of its own chain revives nothing.
LEMMA CreateNoRevival ==
    ASSUME Inv, NEW u \in Users, NEW duration \in Nat, NEW new \in Unused(sessions),
           sessions' = CreateSession(sessions, new, NewSession(u, now, duration)),
           chain' = [chain EXCEPT ![new] = new]
    PROVE  NoRevival
<1>1. now \in Nat /\ new \in SessionIds
  BY DEF Inv, TypeOK, Unused
<1> DEFINE row == NewSession(u, now, duration)
<1>2. row \in SessionRow /\ row.state = "live" /\ row.user \in Users
  BY <1>1, NewSessionType
<1> HIDE DEF row
<1>3. Grow(new, row, new)
  BY <1>2, CreateGrows DEF Inv, row
<1> QED
  BY <1>1, <1>3, FreshChain, GrowNoRevival DEF Inv

\* A rotation joins the chain of the live session it replaces.
LEMMA RotateNoRevival ==
    ASSUME Inv, NEW r \in Requests, req[r].authed, CanRotate(sessions, req[r].cookie),
           NEW new \in Unused(sessions), NEW row \in SessionRow,
           row.state = "live", row.user \in Users, Rotate(r, new, row)
    PROVE  NoRevival
<1>1. Grow(new, row, chain[req[r].cookie])
  BY RotateStep
<1>2. chain[req[r].cookie] \in SessionIds /\ ChainHasLive(chain[req[r].cookie])
  BY Presented DEF ChainHasLive, Live, CanRotate
<1> QED
  BY <1>1, <1>2, GrowNoRevival DEF Inv

\* A step that leaves the table alone revives nothing.
LEMMA QuietNoRevival ==
    ASSUME UNCHANGED <<sessions, chain>> PROVE NoRevival
BY DEF NoRevival, ChainHasLive, Live

\* No step of the handlers that rotate revives a chain.
LEMMA HandlersNoRevival ==
    ASSUME Inv, NEW r \in Requests,
           \/ SignIn(r) \/ RefreshSession(r) \/ ChangePassword(r)
           \/ StartImpersonation(r) \/ StopImpersonation(r)
    PROVE  NoRevival
<1>1. /\ req[r] \in Request /\ RequestOK(r) /\ now \in Nat
      /\ SessionDuration \in Nat /\ ImpersonationDuration \in Nat
  BY SessionsAssumption DEF Inv, TypeOK
<1>2. CASE Replay(r)
  BY <1>2, QuietNoRevival DEF Replay
<1>3. CASE SignIn(r) /\ ~Replay(r)
  <2>1. PICK new \in Unused(sessions), duration \in {SessionDuration, ShortDuration} :
           LET row == NewSession(req[r].who, now, duration) IN
           IF req[r].authed THEN Rotate(r, new, row)
           ELSE /\ sessions' = CreateSession(sessions, new, row)
                /\ chain' = [chain EXCEPT ![new] = new]
    BY <1>3 DEF SignIn
  <2>2. /\ req[r].who \in Users /\ duration \in Nat
        /\ req[r].authed => CanRotate(sessions, req[r].cookie)
    BY <1>1, <1>3, <2>1, SessionsAssumption DEF SignIn, RequestOK
  <2> DEFINE row == NewSession(req[r].who, now, duration)
  <2>3. row \in SessionRow /\ row.state = "live" /\ row.user \in Users
    BY <1>1, <2>2, NewSessionType
  <2>4. CASE req[r].authed
    <3>1. Rotate(r, new, row)
      BY <2>1, <2>4
    <3> HIDE DEF row
    <3> QED
      BY <2>2, <2>3, <2>4, <3>1, RotateNoRevival
  <2>5. CASE ~req[r].authed
    BY <2>1, <2>2, <2>5, CreateNoRevival
  <2> QED
    BY <2>4, <2>5
<1>4. CASE RefreshSession(r) /\ ~Replay(r)
  <2>1. req[r].authed /\ CanRotate(sessions, req[r].cookie)
    BY <1>1, <1>4 DEF RefreshSession, RequestOK
  <2>2. PICK new \in Unused(sessions) : Rotate(r, new, Replacement(r))
    BY <1>4 DEF RefreshSession
  <2> QED
    BY <2>1, <2>2, ReplacementType, RotateNoRevival
<1>5. CASE ChangePassword(r) /\ ~Replay(r)
  <2> DEFINE old == req[r].cookie
             c(new) == IF CanRotate(sessions, old) THEN chain[old] ELSE new
  <2>1. req[r].authed
    BY <1>1, <1>5 DEF ChangePassword, RequestOK
  <2>2. PICK new \in Unused(sessions), revokeOthers \in BOOLEAN :
          /\ ChangeRotation(r, new, revokeOthers)
          /\ chain' = [chain EXCEPT ![new] = c(new)]
    BY <1>5 DEF ChangePassword
  <2>3. c(new) \in SessionIds
    BY <2>1, Presented DEF Unused
  <2>4. Grow(new, Replacement(r), c(new))
    BY <2>1, <2>2, <2>3, ChangeRotationGrows
  <2>5. ChainHasLive(c(new)) \/ ~Begun(c(new))
    BY <2>1, FreshChain, Presented DEF ChainHasLive, Live, CanRotate
  <2> HIDE DEF c
  <2> QED
    BY <2>3, <2>4, <2>5, GrowNoRevival DEF Inv
<1>6. CASE StartImpersonation(r) /\ ~Replay(r)
  <2>1. req[r].authed /\ CanRotate(sessions, req[r].cookie) /\ req[r].who \in Users
    BY <1>1, <1>6 DEF StartImpersonation, RequestOK
  <2>2. PICK new \in Unused(sessions) :
          Rotate(r, new, Impersonation(req[r].who, now, ImpersonationDuration,
                                       req[r].seen.user, new))
    BY <1>6 DEF StartImpersonation
  <2> DEFINE row == Impersonation(req[r].who, now, ImpersonationDuration,
                                  req[r].seen.user, new)
  <2>3. row \in SessionRow /\ row.state = "live" /\ row.user \in Users
    BY <1>1, <2>1, Presented DEF Impersonation, SessionRow, Unused
  <2>4. Rotate(r, new, row)
    BY <2>2
  <2> HIDE DEF row
  <2> QED
    BY <2>1, <2>3, <2>4, RotateNoRevival
<1>7. CASE StopImpersonation(r) /\ ~Replay(r)
  <2>1. /\ req[r].authed /\ CanRotate(sessions, req[r].cookie)
        /\ req[r].seen.impersonatedBy # None
    BY <1>1, <1>7 DEF StopImpersonation, RequestOK
  <2>2. req[r].seen.impersonatedBy \in Users
    BY <2>1, Presented
  <2> DEFINE row == NewSession(req[r].seen.impersonatedBy, now, SessionDuration)
  <2>3. row \in SessionRow /\ row.state = "live" /\ row.user \in Users
    BY <1>1, <2>2, NewSessionType
  <2>4. PICK new \in Unused(sessions) : Rotate(r, new, row)
    BY <1>7 DEF StopImpersonation
  <2> HIDE DEF row
  <2> QED
    BY <2>1, <2>3, <2>4, RotateNoRevival
<1> QED
  BY <1>2, <1>3, <1>4, <1>5, <1>6, <1>7

\* No step at all revives a chain.
LEMMA NextNoRevival ==
    ASSUME Inv, [Next]_vars PROVE NoRevival
<1>1. ASSUME NEW r \in Requests,
             \/ Arrive(r) \/ Authenticate(r) \/ ReadSession(r) \/ ReadUser(r)
             \/ ReadSubject(r) \/ Abort(r)
      PROVE  NoRevival
  BY <1>1, QuietNoRevival DEF Arrive, Authenticate, ReadSession, ReadUser, ReadSubject, Abort
<1>2. ASSUME NEW r \in Requests, CreateAttached(r) PROVE NoRevival
  <2>1. req[r].who \in Users /\ SessionDuration \in Nat /\ ShortDuration \in Nat
    BY <1>2, SessionsAssumption DEF Inv, CreateAttached, RequestOK
  <2> QED
    BY <1>2, <2>1, QuietNoRevival, CreateNoRevival DEF CreateAttached
<1>3. ASSUME NEW r \in Requests, RevokeSessions(r) \/ DeleteUser(r) PROVE NoRevival
  BY <1>3, RevokeSessionsShrink, DeleteUserShrink, ShrinkNoRevival
<1>4. ASSUME NEW u \in ScimUsers, ScimDeactivate(u) \/ ScimReactivate(u) PROVE NoRevival
  BY <1>4, ScimDeactivateShrink, ShrinkNoRevival, QuietNoRevival DEF ScimReactivate
<1>5. CASE Tick \/ UNCHANGED vars
  BY <1>5, QuietNoRevival DEF Tick, vars
<1> QED
  BY <1>1, <1>2, <1>3, <1>4, <1>5, HandlersNoRevival DEF Next

\* A request that resolved a session before it was revoked or deleted cannot bring
\* its rotation chain back to life.
THEOREM RevocationIsFinal == Spec => DeadChainStaysDead
<1>1. Inv /\ [Next]_vars =>
        [\A c \in SessionIds :
          ((\E i \in SessionIds : chain[i] = c) /\ ~ChainHasLive(c)) => ~ChainHasLive(c)']_vars
  BY NextNoRevival DEF NoRevival, Begun
<1> QED
  BY <1>1, InvHolds, PTL DEF Spec, DeadChainStaysDead

=============================================================================

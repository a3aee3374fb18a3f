----------------------------- MODULE SsoProofs ------------------------------
(***************************************************************************)
(* Proofs of the safety properties of Sso for any number of users,         *)
(* providers, states, assertions and concurrent requests; and, in a second *)
(* part, of that of Scim.                                                  *)
(***************************************************************************)
EXTENDS Sso, Deprovisioning, TLAPS

-----------------------------------------------------------------------------
(* The inductive invariant: provider rows                                  *)

\* Stages at which an endpoint acts on the provider row it has read ...
Acting == {"update", "delete", "pending", "lookup", "consume", "confirm"}

\* ... and those at which it names a provider.
Naming == Acting \cup {"create", "clear", "put"}

\* A row that was read had an id; whatever row has that id now is the same
\* owner's, because ids are drawn once.
RowRead(r) ==
    /\ req[r].stage \in Naming => req[r].provider \in ProviderIds
    /\ req[r].stage \in Acting \cup {"create"} => req[r].row.idp # None
    /\ req[r].stage \in Acting =>
         /\ req[r].user \in Users
         /\ req[r].row.id # 0 /\ req[r].row.id <= rows
         /\ providers[req[r].provider].id = req[r].row.id =>
              providers[req[r].provider].owner = req[r].user

OwnerInv ==
    /\ \A p \in ProviderIds : /\ providers[p].id <= rows
                              /\ providers[p].id # 0 => providers[p].idp # None
    /\ \A r \in Requests : RowRead(r)
    /\ OwnerWrites

-----------------------------------------------------------------------------
(* The inductive invariant: sign-in                                        *)

\* Stages after the state of a sign-in was consumed ...
Held == {"exchange", "record", "exists", "authenticate"}

\* ... and those after the answer was accepted.
Accepted == {"exists", "authenticate"}

\* The answer a belongs to the sign-in that began with state s, if any.
Completes(a, s) ==
    s # None =>
        /\ states[s].provider = a.provider
        /\ states[s].kind = IF a.idp \in SamlIdps THEN "saml" ELSE "oidc"
        /\ Uncorrelated(a) \/ a.asked = s

\* An answer id is drawn once, and a state it answers is that of its provider.
AnswersOK ==
    /\ \A a, b \in answers : a.id = b.id => a = b
    /\ \A a \in answers : a.asked # None =>
         states[a.asked].status # "free" /\ states[a.asked].provider = a.provider

\* What a sign-in in flight knows.
SignInOK(r) ==
    /\ req[r].stage \in Held \cup {"relay"} => req[r].answer \in answers
    /\ req[r].stage = "relay" => IsSaml(req[r].row)
    /\ req[r].stage = "exchange" =>
         /\ req[r].state # None /\ states[req[r].state].kind = "oidc"
         /\ states[req[r].state].provider = req[r].provider
    /\ req[r].stage = "record" => req[r].answer.idp \in SamlIdps
    /\ req[r].stage \in Held \ {"exchange"} => Completes(req[r].answer, req[r].state)
    /\ req[r].stage \in Held /\ req[r].state # None =>
         states[req[r].state].status = "gone" /\ used[req[r].state] = 0
    /\ req[r].stage \in Accepted /\ req[r].answer.idp \in SamlIdps =>
         req[r].answer.id \in recorded /\ used[req[r].answer.id] = 0

\* A consumed state, and a recorded assertion, is in one request's hands.
HeldOnce ==
    \A r, q \in Requests : r # q =>
        /\ req[r].stage \in Held /\ req[q].stage \in Held /\ req[r].state # None =>
             req[q].state # req[r].state
        /\ req[r].stage \in Accepted /\ req[q].stage \in Accepted
           /\ req[r].answer.idp \in SamlIdps =>
             req[q].answer.id # req[r].answer.id

\* What was used is gone.
UsedOnce ==
    /\ \A s \in States : used[s] # 0 => used[s] = 1 /\ states[s].status = "gone"
    /\ \A a \in answers : a.idp \in SamlIdps /\ used[a.id] # 0 =>
         used[a.id] = 1 /\ a.id \in recorded
    /\ \A x \in AssertionIds : used[x] # 0 => \E a \in answers : a.id = x

SignedIn ==
    \A i \in signIns :
        /\ i.state # None => states[i.state].status # "free"
        /\ Completes(i.answer, i.state)

LoginInv ==
    /\ AnswersOK
    /\ \A r \in Requests : SignInOK(r)
    /\ HeldOnce
    /\ UsedOnce
    /\ SignedIn

Inv == TypeOK /\ OwnerInv /\ LoginInv

-----------------------------------------------------------------------------
(* Frames                                                                  *)

LEMMA IdleType == Idle \in Request /\ Idle.stage = "idle" /\ NoRow \in ProviderRow
BY SsoAssumption DEF Idle, Request, NoRow, ProviderRow

LEMMA DrawUnused ==
    ASSUME NEW S, NEW x \in Draw(S)
    PROVE  x \in S
BY DEF Draw

\* A step of request r leaves the others alone.
LEMMA StepType ==
    ASSUME TypeOK, NEW r \in Requests, NEW new \in Request, Step(r, new)
    PROVE  /\ req' \in [Requests -> Request] /\ req'[r] = new
           /\ \A q \in Requests \ {r} : req'[q] = req[q]
BY DEF TypeOK, Step

\* Provider rows and what was written stay; requests go on with the row they read.
OwnerFrame ==
    /\ UNCHANGED table
    /\ \A q \in Requests :
         \/ req'[q] = req[q]
         \/ req'[q].stage \notin Naming
         \/ /\ req[q].stage \in Naming /\ req'[q].stage \notin Acting \cup {"create"}
            /\ req'[q].provider = req[q].provider
         \/ /\ req[q].stage \in Acting
            /\ req'[q].user = req[q].user /\ req'[q].provider = req[q].provider
            /\ req'[q].row = req[q].row

LEMMA OwnerFrameKeeps ==
    ASSUME OwnerInv, OwnerFrame
    PROVE  OwnerInv'
<1>1. \A q \in Requests : RowRead(q)'
  BY DEF OwnerInv, OwnerFrame, RowRead, Naming, Acting, table
<1> QED
  BY <1>1 DEF OwnerInv, OwnerFrame, OwnerWrites, table

\* States are stored and taken; no sign-in goes on.
LoginFrame ==
    /\ \A s \in States : states[s].status # "free" =>
         /\ states'[s].status # "free" /\ (states[s].status = "gone" => states'[s].status = "gone")
         /\ states'[s].kind = states[s].kind /\ states'[s].provider = states[s].provider
    /\ UNCHANGED <<scenario, recorded, answers, signIns, used>>
    /\ \A q \in Requests : req'[q] = req[q] \/ req'[q].stage \notin Held \cup {"relay"}

LEMMA LoginFrameKeeps ==
    ASSUME TypeOK, LoginInv, LoginFrame
    PROVE  LoginInv'
<1>1. \A q \in Requests : req[q].state # None => req[q].state \in States
  BY DEF TypeOK, Request
<1>2. ASSUME NEW a, NEW s \in States \cup {None}, Completes(a, s),
             s # None => states[s].status # "free"
      PROVE  Completes(a, s)'
  BY <1>2 DEF Completes, Uncorrelated, LoginFrame
<1>3. AnswersOK'
  BY DEF LoginInv, AnswersOK, LoginFrame, TypeOK, Answer
<1>4. \A q \in Requests : SignInOK(q)'
  <2> SUFFICES ASSUME NEW q \in Requests PROVE SignInOK(q)'
    OBVIOUS
  <2>1. CASE req'[q].stage \notin Held \cup {"relay"}
    BY <2>1 DEF SignInOK, Held, Accepted
  <2>2. CASE req'[q] = req[q]
    <3>1. req'[q].stage \in Held \ {"exchange"} => Completes(req[q].answer, req[q].state)'
      <4>1. PICK a, s : a = req[q].answer /\ s = req[q].state
        OBVIOUS
      <4>2. req[q].stage \in Held \ {"exchange"} => Completes(a, s)'
        BY <1>1, <1>2, <4>1 DEF LoginInv, SignInOK
      <4> QED
        BY <2>2, <4>1, <4>2 DEF Completes, Uncorrelated
    <3>2. req[q].stage \in Held /\ req[q].state # None =>
            /\ states'[req[q].state].status = "gone"
            /\ states'[req[q].state].kind = states[req[q].state].kind
            /\ states'[req[q].state].provider = states[req[q].state].provider
      BY <1>1 DEF LoginInv, SignInOK, LoginFrame
    <3>3. UNCHANGED <<recorded, answers, used>>
      BY DEF LoginFrame
    <3> QED
      BY <2>2, <3>1, <3>2, <3>3 DEF LoginInv, SignInOK, IsSaml, Held
  <2> QED
    BY <2>1, <2>2 DEF LoginFrame
<1>5. HeldOnce'
  BY DEF LoginInv, HeldOnce, LoginFrame, Held, Accepted
<1>6. UsedOnce'
  BY DEF LoginInv, UsedOnce, LoginFrame
<1>7. SignedIn'
  <2>1. \A i \in signIns : i.state \in States \cup {None}
    BY DEF TypeOK
  <2>2. \A i \in signIns : /\ i.state # None => states'[i.state].status # "free"
                           /\ Completes(i.answer, i.state)'
    BY <1>2, <2>1 DEF LoginInv, SignedIn, LoginFrame
  <2>3. signIns' = signIns
    BY DEF LoginFrame
  <2> QED
    BY <2>2, <2>3 DEF SignedIn
<1> QED
  BY <1>3, <1>4, <1>5, <1>6, <1>7 DEF LoginInv

\* A step of provider management leaves the sign-ins alone ...
LEMMA ManageKeepsLogin ==
    ASSUME Inv, NEW r \in Requests, NEW new \in Request, Step(r, new),
           new.stage \notin Held \cup {"relay"}, UNCHANGED <<scenario, login>>
    PROVE  LoginInv'
<1>1. LoginFrame
  BY StepType DEF Inv, LoginFrame, login
<1> QED
  BY <1>1, LoginFrameKeeps DEF Inv

\* ... and a step of a sign-in the provider rows.
LEMMA SignInKeepsOwner ==
    ASSUME Inv, NEW r \in Requests, NEW new \in Request, Step(r, new),
           new.stage \notin Naming, UNCHANGED table
    PROVE  OwnerInv'
<1>1. OwnerFrame
  BY StepType DEF Inv, OwnerFrame
<1> QED
  BY <1>1, OwnerFrameKeeps DEF Inv

-----------------------------------------------------------------------------
(* Provider management                                                     *)

LEMMA BeginRegisterKeeps ==
    ASSUME Inv, NEW r \in Requests, NEW u \in Users, NEW p \in ProviderIds,
           NEW o \in scenario.offers, BeginRegister(r, u, p, o.idp, o.domains)
    PROVE  Inv'
<1> DEFINE row == [NoRow EXCEPT !.owner = u, !.idp = o.idp, !.domains = o.domains,
                                !.verified = ~scenario.domainVerification]
           new == [Idle EXCEPT !.stage = "create", !.user = u, !.provider = p, !.row = row]
<1>1. o.idp \in Idps /\ o.domains \subseteq Domains
  BY ScenarioAssumption DEF Inv, TypeOK
<1>2. (~scenario.domainVerification) \in BOOLEAN
  OBVIOUS
<1>3. row \in ProviderRow /\ row.idp # None
  BY <1>1, <1>2, IdleType, SsoAssumption DEF ProviderRow
<1>4. Step(r, new) /\ UNCHANGED <<scenario, table, domain, login>>
  BY DEF BeginRegister
<1> HIDE DEF row
<1>5. new \in Request /\ new.stage = "create" /\ new.provider = p /\ new.row = row
  BY <1>3, IdleType DEF Request
<1> HIDE DEF new
<1>6. LoginInv'
  BY <1>4, <1>5, ManageKeepsLogin DEF Held
<1>7. req' \in [Requests -> Request] /\ req'[r] = new /\ \A q \in Requests \ {r} : req'[q] = req[q]
  BY <1>4, <1>5, StepType DEF Inv
<1>8. OwnerInv'
  <2>1. UNCHANGED <<providers, rows, writes>>
    BY <1>4 DEF table
  <2> QED
    BY <1>3, <1>5, <1>7, <2>1 DEF Inv, OwnerInv, RowRead, OwnerWrites, Naming, Acting
<1>9. TypeOK'
  BY <1>4, <1>7 DEF Inv, TypeOK, table, domain, login
<1> QED
  BY <1>6, <1>8, <1>9 DEF Inv

\* A row that an endpoint has just read is its owner's (findProvider,
\* authorizeProvider).
LEMMA ReadRowKeeps ==
    ASSUME Inv, NEW r \in Requests, NEW u \in Users, NEW p \in ProviderIds,
           Present(p), providers[p].owner = u,
           NEW new \in Request, Step(r, new), new.stage \notin Held \cup {"relay"},
           new.user = u, new.provider = p, new.row.id = providers[p].id, new.row.idp # None,
           UNCHANGED <<scenario, table, domain, login>>
    PROVE  Inv'
<1>1. LoginInv'
  BY ManageKeepsLogin
<1>2. req' \in [Requests -> Request] /\ req'[r] = new /\ \A q \in Requests \ {r} : req'[q] = req[q]
  BY StepType DEF Inv
<1>3. OwnerInv'
  <2>1. UNCHANGED <<providers, rows, writes>>
    BY DEF table
  <2>2. RowRead(r)'
    BY <1>2, <2>1 DEF Inv, OwnerInv, RowRead, Present
  <2>3. \A q \in Requests : RowRead(q)'
    BY <1>2, <2>1, <2>2 DEF Inv, OwnerInv, RowRead
  <2> QED
    BY <2>1, <2>3 DEF Inv, OwnerInv, OwnerWrites
<1>4. TypeOK'
  BY <1>2 DEF Inv, TypeOK, table, domain, login
<1> QED
  BY <1>1, <1>3, <1>4 DEF Inv

LEMMA ReadProviderKeeps ==
    ASSUME Inv, NEW r \in Requests, NEW u \in Users, NEW p \in ProviderIds,
           NEW stage \in {"delete", "pending", "clear"}, ReadProvider(r, u, p, stage)
    PROVE  Inv'
<1> DEFINE new == [Idle EXCEPT !.stage = stage, !.user = u, !.provider = p, !.row = providers[p]]
<1>1. /\ Step(r, new) /\ Present(p) /\ providers[p].owner = u
      /\ UNCHANGED <<scenario, table, domain, login>>
  BY DEF ReadProvider
<1>2. /\ new \in Request /\ new.stage = stage /\ new.user = u /\ new.provider = p
      /\ new.row = providers[p]
  BY IdleType DEF Inv, TypeOK, Request
<1>3. providers[p].idp # None
  BY <1>1 DEF Inv, OwnerInv, Present
<1> HIDE DEF new
<1> QED
  BY <1>1, <1>2, <1>3, ReadRowKeeps DEF Held

LEMMA BeginUpdateKeeps ==
    ASSUME Inv, NEW r \in Requests, NEW u \in Users, NEW p \in ProviderIds,
           NEW o \in scenario.offers, NEW configured \in BOOLEAN,
           BeginUpdate(r, u, p, o.idp, o.domains, configured)
    PROVE  Inv'
<1> DEFINE row == [providers[p] EXCEPT !.idp = o.idp, !.domains = o.domains]
           reset == /\ scenario.domainVerification
                    /\ configured \/ o.domains # providers[p].domains
           new == [Idle EXCEPT !.stage = "update", !.user = u, !.provider = p, !.row = row,
                               !.reset = reset]
<1>1. o.idp \in Idps /\ o.domains \subseteq Domains
  BY ScenarioAssumption DEF Inv, TypeOK
<1>2. row \in ProviderRow /\ row.id = providers[p].id /\ row.idp # None
  <2>1. providers[p] \in ProviderRow /\ o.idp # None
    BY <1>1, SsoAssumption DEF Inv, TypeOK
  <2> QED
    BY <1>1, <2>1 DEF ProviderRow
<1>3. /\ Step(r, new) /\ Present(p) /\ providers[p].owner = u
      /\ UNCHANGED <<scenario, table, domain, login>>
  BY DEF BeginUpdate
<1>4. reset \in BOOLEAN
  OBVIOUS
<1> HIDE DEF row, reset
<1>5. new \in Request /\ new.stage = "update" /\ new.user = u /\ new.provider = p /\ new.row = row
  BY <1>2, <1>4, IdleType DEF Request
<1> HIDE DEF new
<1> QED
  BY <1>2, <1>3, <1>5, ReadRowKeeps DEF Held

\* Nobody has read the id of a row that is created now.
LEMMA CreateProviderKeeps ==
    ASSUME Inv, NEW r \in Requests, CreateProvider(r)
    PROVE  Inv'
<1> DEFINE p == req[r].provider
<1>1. req[r].stage = "create" /\ p \in ProviderIds /\ req[r] \in Request
  BY DEF CreateProvider, Inv, OwnerInv, RowRead, Naming, TypeOK
<1>2. UNCHANGED <<scenario, writes, domain, login>>
  BY DEF CreateProvider
<1>3. PICK new \in Request :
        Step(r, new) /\ new.stage \in {"idle", "clear"} /\ new.provider \in ProviderIds \cup {None}
        /\ (new.stage = "clear" => new.provider = p)
  <2>1. /\ [req[r] EXCEPT !.stage = "clear"] \in Request
        /\ [req[r] EXCEPT !.stage = "clear"].stage = "clear"
        /\ [req[r] EXCEPT !.stage = "clear"].provider = p
    BY <1>1 DEF Request
  <2>2. Idle.provider = None
    BY DEF Idle
  <2> QED
    BY <1>1, <2>1, <2>2, IdleType DEF CreateProvider, Finish
<1>4. req' \in [Requests -> Request] /\ req'[r] = new /\ \A q \in Requests \ {r} : req'[q] = req[q]
  BY <1>3, StepType DEF Inv
<1>5. LoginInv'
  BY <1>2, <1>3, ManageKeepsLogin DEF Held
<1>6. CASE ~Present(p) /\ rows < MaxRows /\ rows' = rows + 1
           /\ providers' = [providers EXCEPT ![p] = [req[r].row EXCEPT !.id = rows + 1]]
  <2> DEFINE row == [req[r].row EXCEPT !.id = rows + 1]
  <2>1. row \in ProviderRow /\ row.id = rows + 1 /\ row.idp # None
        /\ rows' \in 0..MaxRows /\ rows \in Nat
    <3>1. rows \in Nat /\ rows + 1 \in 0..MaxRows /\ rows' = rows + 1
      BY <1>6, SsoAssumption DEF Inv, TypeOK
    <3>2. req[r].row \in ProviderRow /\ req[r].row.idp # None
      BY <1>1 DEF Request, Inv, OwnerInv, RowRead
    <3>3. row \in ProviderRow /\ row.id = rows + 1 /\ row.idp = req[r].row.idp
      BY <3>1, <3>2 DEF ProviderRow
    <3> QED
      BY <3>1, <3>2, <3>3
  <2>0. providers' = [providers EXCEPT ![p] = row]
    BY <1>6
  <2> HIDE DEF row
  <2>2. providers' \in [ProviderIds -> ProviderRow] /\ providers'[p] = row
        /\ \A q \in ProviderIds \ {p} : providers'[q] = providers[q]
    BY <1>1, <2>0, <2>1 DEF Inv, TypeOK
  <2>3. TypeOK'
    BY <1>2, <1>4, <1>6, <2>1, <2>2 DEF Inv, TypeOK, domain, login
  <2>4. \A q \in ProviderIds : /\ providers'[q].id <= rows'
                               /\ providers'[q].id # 0 => providers'[q].idp # None
    BY <1>6, <2>1, <2>2 DEF Inv, OwnerInv, TypeOK, ProviderRow
  <2>5. \A q \in Requests : RowRead(q)'
    <3> SUFFICES ASSUME NEW q \in Requests PROVE RowRead(q)'
      OBVIOUS
    <3>1. CASE q = r
      BY <1>1, <1>3, <1>4, <3>1 DEF RowRead, Naming, Acting
    <3>2. CASE q # r
      <4>1. req'[q] = req[q] /\ RowRead(q) /\ req[q].row.id \in Nat
        BY <1>4, <3>2 DEF Inv, OwnerInv, TypeOK, Request, ProviderRow
      <4> QED
        BY <1>6, <2>1, <2>2, <4>1 DEF RowRead, Naming
    <3> QED
      BY <3>1, <3>2
  <2> QED
    BY <1>2, <1>5, <2>3, <2>4, <2>5 DEF Inv, OwnerInv, OwnerWrites
<1>7. CASE UNCHANGED <<providers, rows>>
  <2>1. \A q \in Requests : RowRead(q)'
    BY <1>3, <1>4, <1>7, <1>1 DEF Inv, OwnerInv, RowRead, Naming, Acting
  <2> QED
    BY <1>2, <1>4, <1>5, <1>7, <2>1 DEF Inv, TypeOK, OwnerInv, OwnerWrites, domain, login
<1> QED
  BY <1>6, <1>7 DEF CreateProvider

\* A write that finds its row finds the owner's (the id clause of the WHERE).
LEMMA WriteRowKeeps ==
    ASSUME Inv, NEW r \in Requests, req[r].stage \in Acting, Finish(r),
           \/ /\ SameRow(r) /\ Wrote(r)
              /\ \E row \in ProviderRow :
                   /\ providers' = [providers EXCEPT ![req[r].provider] = row]
                   /\ row.id = 0 \/ /\ row.id = providers[req[r].provider].id /\ row.idp # None
                                    /\ row.owner = providers[req[r].provider].owner
           \/ UNCHANGED <<providers, writes>>,
           UNCHANGED <<scenario, rows, domain, login>>
    PROVE  Inv'
<1> DEFINE p == req[r].provider
<1>1. p \in ProviderIds /\ RowRead(r)
  BY DEF Inv, OwnerInv, RowRead, Naming
<1>2. Step(r, Idle)
  BY DEF Finish
<1>3. req' \in [Requests -> Request] /\ req'[r] = Idle /\ \A q \in Requests \ {r} : req'[q] = req[q]
  BY <1>2, StepType, IdleType DEF Inv
<1>4. LoginInv'
  BY <1>2, IdleType, ManageKeepsLogin DEF Held
<1>5. CASE UNCHANGED <<providers, writes>>
  <2>1. OwnerInv'
    BY <1>3, <1>5, IdleType DEF Inv, OwnerInv, RowRead, OwnerWrites, Naming, Acting
  <2> QED
    BY <1>3, <1>4, <1>5, <2>1 DEF Inv, TypeOK, domain, login
<1>6. ASSUME NEW row \in ProviderRow, SameRow(r), Wrote(r),
             providers' = [providers EXCEPT ![p] = row],
             row.id = 0 \/ /\ row.id = providers[p].id /\ row.idp # None
                           /\ row.owner = providers[p].owner
      PROVE  Inv'
  <2>1. providers' \in [ProviderIds -> ProviderRow] /\ providers'[p] = row
        /\ \A q \in ProviderIds \ {p} : providers'[q] = providers[q]
    BY <1>1, <1>6 DEF Inv, TypeOK
  <2>2. providers[p].owner = req[r].user /\ req[r].user \in Users
    BY <1>1, <1>6 DEF SameRow, RowRead
  <2>3. OwnerWrites' /\ writes' \subseteq (Users \cup {None}) \X Users
    BY <1>6, <2>2 DEF Wrote, OwnerWrites, Inv, OwnerInv, TypeOK
  <2>4. \A q \in ProviderIds : /\ providers'[q].id <= rows'
                               /\ providers'[q].id # 0 => providers'[q].idp # None
    BY <1>6, <2>1 DEF Inv, OwnerInv, TypeOK
  <2>5. \A q \in Requests : RowRead(q)'
    <3> SUFFICES ASSUME NEW q \in Requests PROVE RowRead(q)'
      OBVIOUS
    <3>1. CASE q = r
      BY <1>3, <3>1, IdleType DEF RowRead, Naming, Acting
    <3>2. CASE q # r
      <4>1. req'[q] = req[q] /\ RowRead(q)
        BY <1>3, <3>2 DEF Inv, OwnerInv
      <4> QED
        BY <1>6, <2>1, <4>1 DEF RowRead, Naming
    <3> QED
      BY <3>1, <3>2
  <2>6. TypeOK'
    BY <1>3, <2>1, <2>3 DEF Inv, TypeOK, domain, login
  <2> QED
    BY <1>4, <2>3, <2>4, <2>5, <2>6 DEF Inv, OwnerInv
<1> QED
  BY <1>5, <1>6

LEMMA UpdateProviderKeeps ==
    ASSUME Inv, NEW r \in Requests, UpdateProvider(r)
    PROVE  Inv'
<1> DEFINE p == req[r].provider
           verified == providers[p].verified /\ ~req[r].reset
           row == [providers[p] EXCEPT !.idp = req[r].row.idp, !.domains = req[r].row.domains,
                                       !.verified = verified]
<1>1. req[r].stage = "update" /\ Finish(r) /\ UNCHANGED <<scenario, rows, domain, login>>
  BY DEF UpdateProvider
<1>2. p \in ProviderIds /\ req[r].row \in ProviderRow /\ req[r].row.idp # None
  BY <1>1 DEF Inv, OwnerInv, RowRead, Naming, Acting, TypeOK, Request
<1>3. verified \in BOOLEAN
  OBVIOUS
<1>4. SameRow(r) => providers' = [providers EXCEPT ![p] = row] /\ Wrote(r)
  BY <1>2 DEF UpdateProvider, Inv, TypeOK
<1> HIDE DEF verified
<1>5. row \in ProviderRow /\ row.id = providers[p].id /\ row.owner = providers[p].owner
      /\ row.idp # None
  BY <1>2, <1>3 DEF Inv, TypeOK, ProviderRow
<1> HIDE DEF row
<1>6. ~SameRow(r) => UNCHANGED <<providers, writes>>
  BY DEF UpdateProvider
<1> QED
  BY <1>1, <1>4, <1>5, <1>6, WriteRowKeeps DEF Acting

LEMMA DeleteProviderKeeps ==
    ASSUME Inv, NEW r \in Requests, DeleteProvider(r)
    PROVE  Inv'
<1>1. NoRow \in ProviderRow /\ NoRow.id = 0
  BY IdleType DEF NoRow
<1> QED
  BY <1>1, WriteRowKeeps DEF DeleteProvider, Acting

LEMMA ConfirmDomainKeeps ==
    ASSUME Inv, NEW r \in Requests, ConfirmDomain(r)
    PROVE  Inv'
<1> DEFINE p == req[r].provider
           row == [providers[p] EXCEPT !.verified = TRUE]
<1>1. req[r].stage = "confirm" /\ Finish(r) /\ UNCHANGED <<scenario, rows, domain, login>>
  BY DEF ConfirmDomain
<1>2. p \in ProviderIds
  BY <1>1 DEF Inv, OwnerInv, RowRead, Naming, Acting
<1>3. row \in ProviderRow /\ row.id = providers[p].id /\ row.owner = providers[p].owner
      /\ row.idp = providers[p].idp
  BY <1>2 DEF Inv, TypeOK, ProviderRow
<1>6. SameRow(r) => providers[p].idp # None
  BY <1>2 DEF SameRow, Present, Inv, OwnerInv
<1>4. SameRow(r) => providers' = [providers EXCEPT ![p] = row] /\ Wrote(r)
  BY DEF ConfirmDomain
<1>5. ~SameRow(r) => UNCHANGED <<providers, writes>>
  BY DEF ConfirmDomain
<1> HIDE DEF row
<1> QED
  BY <1>1, <1>3, <1>4, <1>5, <1>6, WriteRowKeeps DEF Acting

-----------------------------------------------------------------------------
(* Domain verification                                                     *)

\* A request that goes on with the row it read, while tokens come and go.
LEMMA TokenStepKeeps ==
    ASSUME Inv, NEW r \in Requests, NEW new \in Request, Step(r, new),
           \/ new.stage = "idle"
           \/ req[r].stage = "clear" /\ new.stage = "put" /\ new.provider = req[r].provider
           \/ /\ req[r].stage \in Acting /\ new.stage \in Acting /\ new.user = req[r].user
              /\ new.provider = req[r].provider /\ new.row = req[r].row,
           tokens' \subseteq Tokens \X ProviderIds, UNCHANGED <<scenario, table, records, login>>
    PROVE  Inv'
<1>1. req' \in [Requests -> Request] /\ req'[r] = new /\ \A q \in Requests \ {r} : req'[q] = req[q]
  BY StepType DEF Inv
<1>2. LoginInv'
  BY ManageKeepsLogin DEF Held, Acting
<1>3. OwnerFrame
  BY <1>1 DEF OwnerFrame, Naming, Acting
<1>4. OwnerInv'
  BY <1>3, OwnerFrameKeeps DEF Inv
<1>5. TypeOK'
  BY <1>1 DEF Inv, TypeOK, table, login
<1> QED
  BY <1>2, <1>4, <1>5 DEF Inv

LEMMA DomainKeeps ==
    ASSUME Inv, NEW r \in Requests,
           ClearTokens(r) \/ PutToken(r) \/ FindPending(r) \/ LookupTXT(r) \/ ConsumeToken(r)
    PROVE  Inv'
<1>1. req[r] \in Request /\ tokens \subseteq Tokens \X ProviderIds
  BY DEF Inv, TypeOK
<1>2. ASSUME NEW stage \in {"put", "consume", "confirm"}
      PROVE  LET new == [req[r] EXCEPT !.stage = stage] IN
             /\ new \in Request /\ new.stage = stage /\ new.user = req[r].user
             /\ new.provider = req[r].provider /\ new.row = req[r].row
  BY <1>1 DEF Request
<1>3. CASE ClearTokens(r)
  BY <1>1, <1>2, <1>3, TokenStepKeeps DEF ClearTokens
<1>4. CASE PutToken(r)
  <2>1. req[r].provider \in ProviderIds
    BY <1>4 DEF PutToken, Inv, OwnerInv, RowRead, Naming
  <2>2. tokens' \subseteq Tokens \X ProviderIds
    BY <1>1, <1>4, <2>1, DrawUnused DEF PutToken
  <2> QED
    BY <1>4, <2>2, IdleType, TokenStepKeeps DEF PutToken, Finish
<1>5. CASE FindPending(r)
  <2>1. tokens' = tokens /\ UNCHANGED <<scenario, table, records, login>>
    BY <1>5 DEF FindPending, domain
  <2>2. CASE Finish(r)
    BY <1>1, <2>1, <2>2, IdleType, TokenStepKeeps DEF Finish
  <2>3. ASSUME NEW t \in tokens, Step(r, [req[r] EXCEPT !.stage = "lookup", !.token = t[1]])
        PROVE  Inv'
    <3> DEFINE new == [req[r] EXCEPT !.stage = "lookup", !.token = t[1]]
    <3>1. t[1] \in Tokens
      BY <1>1
    <3>2. /\ new \in Request /\ new.stage = "lookup" /\ new.user = req[r].user
          /\ new.provider = req[r].provider /\ new.row = req[r].row
      BY <1>1, <3>1 DEF Request
    <3>3. req[r].stage = "pending" /\ Step(r, new)
      BY <1>5, <2>3 DEF FindPending
    <3> HIDE DEF new
    <3> QED
      BY <1>1, <2>1, <3>2, <3>3, TokenStepKeeps DEF Acting
  <2> QED
    BY <1>5, <2>2, <2>3 DEF FindPending
<1>6. CASE LookupTXT(r)
  BY <1>1, <1>2, <1>6, IdleType, TokenStepKeeps DEF LookupTXT, Finish, domain, Acting
<1>7. CASE ConsumeToken(r)
  BY <1>1, <1>2, <1>7, TokenStepKeeps DEF ConsumeToken, Acting
<1> QED
  BY <1>3, <1>4, <1>5, <1>6, <1>7

LEMMA PublishKeeps ==
    ASSUME Inv, NEW d \in Domains, NEW t \in tokens, Publish(d, t)
    PROVE  Inv'
<1>1. records' \subseteq Domains \X Tokens
  BY DEF Publish, Inv, TypeOK
<1>2. TypeOK'
  BY <1>1 DEF Publish, Inv, TypeOK, table, login
<1>3. LoginFrame
  BY DEF Publish, LoginFrame, login
<1>4. OwnerFrame
  BY DEF Publish, OwnerFrame
<1> QED
  BY <1>2, <1>3, <1>4, LoginFrameKeeps, OwnerFrameKeeps DEF Inv

-----------------------------------------------------------------------------
(* Sign-in                                                                 *)

\* Steps that store or take a state outside a sign-in.
LEMMA StatesKeep ==
    ASSUME Inv, states' \in [States -> StateRow], LoginFrame, OwnerFrame,
           req' \in [Requests -> Request], live' \subseteq Subjects, UNCHANGED <<domain, known>>
    PROVE  Inv'
<1>1. TypeOK'
  BY DEF Inv, TypeOK, LoginFrame, OwnerFrame, table, domain
<1> QED
  BY <1>1, LoginFrameKeeps, OwnerFrameKeeps DEF Inv

LEMMA CreateStateType ==
    ASSUME TypeOK, NEW s \in FreeStates, NEW kind \in {"oidc", "saml", "slo"},
           NEW p \in ProviderIds, NEW signUp \in BOOLEAN, CreateState(s, kind, p, signUp)
    PROVE  /\ states' \in [States -> StateRow] /\ s \in States /\ states[s].status = "free"
           /\ \A x \in States : states[x].status # "free" => states'[x] = states[x]
<1>1. s \in States /\ states[s].status = "free"
  BY DrawUnused DEF FreeStates
<1>2. [status |-> "stored", kind |-> kind, provider |-> p, signUp |-> signUp] \in StateRow
  BY DEF StateRow
<1> QED
  BY <1>1, <1>2 DEF CreateState, TypeOK

LEMMA ConsumeStateType ==
    ASSUME TypeOK, NEW s \in States, NEW kind, ConsumeState(s, kind)
    PROVE  /\ states' \in [States -> StateRow]
           /\ states[s].status = "stored" /\ states[s].kind = kind
           /\ states'[s].status = "gone"
           /\ \A x \in States : /\ states'[x].kind = states[x].kind
                                /\ states'[x].provider = states[x].provider
                                /\ x # s => states'[x] = states[x]
BY DEF TypeOK, ConsumeState, Stored, StateRow

LEMMA SignInKeeps ==
    ASSUME Inv, NEW p \in ProviderIds, NEW signUp \in BOOLEAN, SignIn(p, signUp)
    PROVE  Inv'
<1> PICK s \in FreeStates, kind \in {"oidc", "saml"} : CreateState(s, kind, p, signUp)
  BY DEF SignIn, StartSAML
<1>1. /\ states' \in [States -> StateRow]
      /\ \A x \in States : states[x].status # "free" => states'[x] = states[x]
  BY CreateStateType DEF Inv
<1>2. UNCHANGED <<scenario, table, domain, recorded, answers, known, live, req, signIns, used>>
  BY DEF SignIn
<1>3. LoginFrame /\ OwnerFrame
  BY <1>1, <1>2 DEF LoginFrame, OwnerFrame
<1>4. req' \in [Requests -> Request] /\ live' \subseteq Subjects
  BY <1>2 DEF Inv, TypeOK
<1> QED
  BY <1>1, <1>2, <1>3, <1>4, StatesKeep

LEMMA TakeStateKeeps ==
    ASSUME Inv, NEW s \in States, ExpireState(s) \/ SamlLogoutCallback(s)
    PROVE  Inv'
<1>1. /\ states' = [states EXCEPT ![s].status = "gone"]
      /\ UNCHANGED <<scenario, table, domain, recorded, answers, known, live, req, signIns, used>>
  BY DEF ExpireState, SamlLogoutCallback, ConsumeState
<1>2. states' \in [States -> StateRow]
  BY <1>1 DEF Inv, TypeOK, StateRow
<1>3. \A x \in States : states'[x].kind = states[x].kind /\ states'[x].provider = states[x].provider
                        /\ (states'[x] = states[x] \/ states'[x].status = "gone")
  BY <1>1 DEF Inv, TypeOK, StateRow
<1>4. LoginFrame /\ OwnerFrame
  BY <1>1, <1>3 DEF LoginFrame, OwnerFrame
<1>5. req' \in [Requests -> Request] /\ live' \subseteq Subjects
  BY <1>1 DEF Inv, TypeOK
<1> QED
  BY <1>1, <1>2, <1>4, <1>5, StatesKeep

LEMMA LogoutKeeps ==
    ASSUME Inv, NEW r \in Requests, NEW p \in ProviderIds, NEW x \in Subjects,
           InitiateSAMLLogout(r, p, x)
    PROVE  Inv'
<1> PICK s \in FreeStates :
      /\ CreateState(s, "slo", p, FALSE)
      /\ Step(r, [Idle EXCEPT !.stage = "revoke", !.provider = p, !.state = s])
  BY DEF InitiateSAMLLogout
<1> DEFINE new == [Idle EXCEPT !.stage = "revoke", !.provider = p, !.state = s]
<1>1. /\ states' \in [States -> StateRow] /\ s \in States
      /\ \A y \in States : states[y].status # "free" => states'[y] = states[y]
  BY CreateStateType DEF Inv
<1>2. UNCHANGED <<scenario, table, domain, recorded, answers, known, live, signIns, used>>
  BY DEF InitiateSAMLLogout
<1>3. new \in Request /\ new.stage = "revoke"
  BY <1>1, IdleType DEF Request
<1> HIDE DEF new
<1>4. req' \in [Requests -> Request] /\ req'[r] = new /\ \A q \in Requests \ {r} : req'[q] = req[q]
  BY <1>3, StepType DEF Inv, new
<1>5. LoginFrame /\ OwnerFrame
  BY <1>1, <1>2, <1>3, <1>4 DEF LoginFrame, OwnerFrame, Naming, Acting, Held
<1>6. live' \subseteq Subjects
  BY <1>2 DEF Inv, TypeOK
<1> QED
  BY <1>1, <1>2, <1>4, <1>5, <1>6, StatesKeep

LEMMA RevokeKeeps ==
    ASSUME Inv, NEW r \in Requests, RevokeAtLogout(r)
    PROVE  Inv'
<1>1. Step(r, Idle) /\ UNCHANGED <<scenario, table, domain, states, recorded, answers, known, signIns, used>>
  BY DEF RevokeAtLogout, Finish
<1>2. req' \in [Requests -> Request] /\ req'[r] = Idle /\ \A q \in Requests \ {r} : req'[q] = req[q]
  BY <1>1, IdleType, StepType DEF Inv
<1>3. LoginFrame /\ OwnerFrame
  BY <1>1, <1>2, IdleType DEF LoginFrame, OwnerFrame, Naming, Acting, Held
<1>4. states' \in [States -> StateRow] /\ live' \subseteq Subjects
  BY <1>1 DEF RevokeAtLogout, Inv, TypeOK
<1> QED
  BY <1>1, <1>2, <1>3, <1>4, StatesKeep

\* A signed answer has an id of its own.
LEMMA SignAnswerKeeps ==
    ASSUME Inv, NEW p \in ProviderIds, NEW s \in States \cup {None}, NEW x \in Subjects,
           SignAnswer(p, s, x)
    PROVE  Inv'
<1> PICK id \in AssertionIds \ {a.id : a \in answers} :
      answers' = answers \cup {[id |-> id, idp |-> providers[p].idp, provider |-> p,
                                asked |-> s, subject |-> x]}
  BY DrawUnused DEF SignAnswer
<1> DEFINE new == [id |-> id, idp |-> providers[p].idp, provider |-> p, asked |-> s, subject |-> x]
<1>1. UNCHANGED <<scenario, table, domain, states, recorded, known, live, req, signIns, used>>
  BY DEF SignAnswer
<1>2. new \in Answer /\ answers' = answers \cup {new}
  <2>1. providers[p].idp \in Idps
    BY DEF SignAnswer, Inv, OwnerInv, TypeOK, ProviderRow, Present
  <2> QED
    BY <2>1 DEF Answer
<1>3. new.id = id /\ new.asked = s /\ new.provider = p
  OBVIOUS
<1>4. s # None => states[s].status # "free" /\ states[s].provider = p
  BY DEF SignAnswer
<1> HIDE DEF new
<1>5. AnswersOK'
  BY <1>1, <1>2, <1>3, <1>4 DEF Inv, LoginInv, AnswersOK
<1>6. used[id] = 0
  BY DEF Inv, LoginInv, UsedOnce
<1>7. UsedOnce'
  <2>1. UNCHANGED <<states, recorded, used>>
    BY <1>1
  <2> QED
    BY <1>2, <1>3, <1>6, <2>1 DEF Inv, LoginInv, UsedOnce
<1>8. \A q \in Requests : SignInOK(q)'
  <2>1. UNCHANGED <<scenario, states, recorded, used, req>>
    BY <1>1
  <2> QED
    BY <1>2, <2>1 DEF Inv, LoginInv, SignInOK, Completes, Uncorrelated, IsSaml
<1>9. HeldOnce' /\ SignedIn'
  BY <1>1 DEF Inv, LoginInv, HeldOnce, SignedIn, Completes, Uncorrelated
<1>10. TypeOK'
  BY <1>1, <1>2 DEF Inv, TypeOK, table, domain
<1>11. OwnerFrame
  BY <1>1 DEF OwnerFrame
<1> QED
  BY <1>5, <1>7, <1>8, <1>9, <1>10, <1>11, OwnerFrameKeeps DEF Inv, LoginInv

\* States are only taken, and assertion ids only recorded.
Taken ==
    /\ states' \in [States -> StateRow]
    /\ \A s \in States : /\ states'[s].kind = states[s].kind
                         /\ states'[s].provider = states[s].provider
                         /\ states[s].status = "gone" => states'[s].status = "gone"
                         /\ states[s].status # "free" => states'[s].status # "free"
    /\ recorded \subseteq recorded' /\ recorded' \subseteq AssertionIds
    /\ UNCHANGED <<scenario, table, domain, answers, known, live, signIns, used>>

\* No other request holds what request r holds from now on.
OnlyHolder(r, new) ==
    \A q \in Requests \ {r} :
        /\ new.stage \in Held /\ req[q].stage \in Held /\ new.state # None =>
             req[q].state # new.state
        /\ new.stage \in Accepted /\ req[q].stage \in Accepted
           /\ (new.answer.idp \in SamlIdps \/ req[q].answer.idp \in SamlIdps) =>
             req[q].answer.id # new.answer.id

LEMMA SignInStepKeeps ==
    ASSUME Inv, NEW r \in Requests, NEW new \in Request, Step(r, new), new.stage \notin Naming,
           Taken, OnlyHolder(r, new), SignInOK(r)'
    PROVE  Inv'
<1>1. req' \in [Requests -> Request] /\ req'[r] = new /\ \A q \in Requests \ {r} : req'[q] = req[q]
  BY StepType DEF Inv
<1>2. OwnerInv'
  BY SignInKeepsOwner DEF Taken
<1>3. TypeOK'
  BY <1>1 DEF Inv, TypeOK, Taken, table, domain
<1>4. ASSUME NEW a, NEW s \in States \cup {None}, Completes(a, s) PROVE Completes(a, s)'
  BY <1>4 DEF Completes, Uncorrelated, Taken
<1>5. AnswersOK'
  BY DEF Inv, LoginInv, AnswersOK, Taken, TypeOK, Answer
<1>6. \A q \in Requests : SignInOK(q)'
  <2> SUFFICES ASSUME NEW q \in Requests, q # r PROVE SignInOK(q)'
    OBVIOUS
  <2>1. req'[q] = req[q] /\ SignInOK(q)
    BY <1>1 DEF Inv, LoginInv
  <2>2. req[q].state # None => req[q].state \in States
    BY DEF Inv, TypeOK, Request
  <2>3. req[q].stage \in Held \ {"exchange"} => Completes(req[q].answer, req[q].state)'
    <3>1. PICK a, s : a = req[q].answer /\ s = req[q].state
      OBVIOUS
    <3>2. req[q].stage \in Held \ {"exchange"} => Completes(a, s)'
      BY <1>4, <2>1, <2>2, <3>1 DEF SignInOK
    <3> QED
      BY <2>1, <3>1, <3>2 DEF Completes, Uncorrelated
  <2>4. UNCHANGED <<answers, used>> /\ recorded \subseteq recorded'
    BY DEF Taken
  <2>5. req[q].state # None =>
          /\ states'[req[q].state].kind = states[req[q].state].kind
          /\ states'[req[q].state].provider = states[req[q].state].provider
          /\ states[req[q].state].status = "gone" => states'[req[q].state].status = "gone"
    BY <2>2 DEF Taken
  <2> QED
    BY <2>1, <2>3, <2>4, <2>5 DEF SignInOK, IsSaml, Held
<1>7. HeldOnce'
  BY <1>1 DEF Inv, LoginInv, HeldOnce, OnlyHolder
<1>8. UsedOnce'
  BY DEF Inv, LoginInv, UsedOnce, Taken
<1>9. SignedIn'
  <2>1. \A i \in signIns : i.state \in States \cup {None}
    BY DEF Inv, TypeOK
  <2>2. \A i \in signIns : /\ i.state # None => states'[i.state].status # "free"
                           /\ Completes(i.answer, i.state)'
    BY <1>4, <2>1 DEF Inv, LoginInv, SignedIn, Taken
  <2>3. signIns' = signIns
    BY DEF Taken
  <2> QED
    BY <2>2, <2>3 DEF SignedIn
<1> QED
  BY <1>2, <1>3, <1>5, <1>6, <1>7, <1>8, <1>9 DEF Inv, LoginInv

\* A sign-in that ends leaves nothing behind.
LEMMA FinishKeeps ==
    ASSUME Inv, NEW r \in Requests, Finish(r), Taken
    PROVE  Inv'
<1>1. Step(r, Idle)
  BY DEF Finish
<1>2. req'[r] = Idle
  BY <1>1, IdleType, StepType DEF Inv
<1>3. SignInOK(r)' /\ OnlyHolder(r, Idle) /\ Idle.stage \notin Naming
  BY <1>2, IdleType DEF SignInOK, OnlyHolder, Held, Accepted, Naming, Acting
<1> QED
  BY <1>1, <1>3, IdleType, SignInStepKeeps

LEMMA SameTaken ==
    ASSUME Inv, UNCHANGED <<scenario, table, domain, states, recorded, answers, known, live,
                            signIns, used>>
    PROVE  Taken
BY DEF Inv, TypeOK, Taken

LEMMA ConsumedTaken ==
    ASSUME Inv, NEW s \in States, NEW kind, ConsumeState(s, kind),
           UNCHANGED <<scenario, table, domain, recorded, answers, known, live, signIns, used>>
    PROVE  Taken
<1>1. recorded' \subseteq AssertionIds
  BY DEF Inv, TypeOK
<1> QED
  BY <1>1, ConsumeStateType DEF Inv, Taken

\* A state that was still stored is in nobody's hands and was never used.
LEMMA StoredIsFree ==
    ASSUME Inv, NEW s \in States, states[s].status = "stored"
    PROVE  /\ used[s] = 0
           /\ \A q \in Requests : req[q].stage \in Held => req[q].state # s
BY SsoAssumption DEF Inv, LoginInv, UsedOnce, SignInOK

LEMMA OidcCallbackKeeps ==
    ASSUME Inv, NEW r \in Requests, NEW a \in answers, NEW s \in States, OidcCallback(r, s, a)
    PROVE  Inv'
<1>1. ConsumeState(s, "oidc") /\ Taken
  BY ConsumedTaken DEF OidcCallback
<1>2. CASE Finish(r)
  BY <1>1, <1>2, FinishKeeps
<1>3. CASE ~Finish(r)
  <2> DEFINE new == [Idle EXCEPT !.stage = "exchange", !.provider = states[s].provider,
                                 !.state = s, !.answer = a]
  <2>1. Step(r, new)
    BY <1>3 DEF OidcCallback
  <2>2. states[s].provider \in ProviderIds \cup {None} /\ a \in Answer
    BY DEF Inv, TypeOK, StateRow
  <2>3. /\ new \in Request /\ new.stage = "exchange" /\ new.provider = states[s].provider
        /\ new.state = s /\ new.answer = a
    BY <2>2, IdleType DEF Request
  <2> HIDE DEF new
  <2>4. req'[r] = new
    BY <2>1, <2>3, StepType DEF Inv
  <2>5. /\ states[s].status = "stored" /\ states[s].kind = "oidc" /\ states'[s].status = "gone"
        /\ states'[s].kind = states[s].kind /\ states'[s].provider = states[s].provider
    BY <1>1, ConsumeStateType DEF Inv
  <2>6. used[s] = 0 /\ OnlyHolder(r, new)
    BY <2>3, <2>5, StoredIsFree DEF OnlyHolder, Accepted
  <2>7. answers' = answers /\ used' = used
    BY <1>1 DEF Taken
  <2>8. SignInOK(r)'
    BY <2>3, <2>4, <2>5, <2>6, <2>7, SsoAssumption DEF SignInOK, Held, Accepted
  <2> QED
    BY <1>1, <2>1, <2>3, <2>6, <2>8, SignInStepKeeps DEF Naming, Acting
<1> QED
  BY <1>2, <1>3

\* A sign-in that goes on with its state and its answer is still their only holder.
LEMMA GoesOnAlone ==
    ASSUME Inv, NEW r \in Requests, NEW new \in Request, new.stage \in Held,
           req[r].stage \in Held, new.state = req[r].state, new.answer = req[r].answer,
           new.stage \in Accepted /\ req[r].stage \notin Accepted =>
             \/ req[r].answer.idp \notin SamlIdps
             \/ req[r].answer.id \notin recorded
    PROVE  OnlyHolder(r, new)
<1> SUFFICES ASSUME NEW q \in Requests \ {r}
             PROVE  /\ req[q].stage \in Held /\ new.state # None => req[q].state # new.state
                    /\ new.stage \in Accepted /\ req[q].stage \in Accepted
                       /\ (new.answer.idp \in SamlIdps \/ req[q].answer.idp \in SamlIdps) =>
                         req[q].answer.id # new.answer.id
  BY DEF OnlyHolder
<1>1. req[q].stage \in Held /\ new.state # None => req[q].state # new.state
  BY DEF Inv, LoginInv, HeldOnce
<1>2. ASSUME new.stage \in Accepted, req[q].stage \in Accepted,
             new.answer.idp \in SamlIdps \/ req[q].answer.idp \in SamlIdps,
             req[q].answer.id = new.answer.id
      PROVE  FALSE
  <2>1. req[q].answer \in answers /\ req[r].answer \in answers
    BY <1>2 DEF Inv, LoginInv, SignInOK, Held, Accepted
  <2>2. req[q].answer = req[r].answer /\ req[r].answer.idp \in SamlIdps
    BY <1>2, <2>1 DEF Inv, LoginInv, AnswersOK
  <2>3. req[q].answer.id \in recorded
    BY <1>2, <2>2 DEF Inv, LoginInv, SignInOK
  <2>4. req[r].stage \in Accepted
    BY <1>2, <2>2, <2>3
  <2> QED
    BY <1>2, <2>2, <2>4 DEF Inv, LoginInv, HeldOnce
<1> QED
  BY <1>1, <1>2

LEMMA ExchangeKeeps ==
    ASSUME Inv, NEW r \in Requests, Exchange(r)
    PROVE  Inv'
<1> DEFINE p == req[r].provider
           a == req[r].answer
           s == req[r].state
<1>1. UNCHANGED <<scenario, table, domain, states, recorded, answers, known, live, signIns, used>>
  BY DEF Exchange, login
<1>2. Taken
  BY <1>1, SameTaken
<1>3. CASE Finish(r)
  BY <1>2, <1>3, FinishKeeps
<1>4. CASE ~Finish(r)
  <2> DEFINE new == [req[r] EXCEPT !.stage = "exists", !.row = providers[p]]
  <2>1. /\ Step(r, new) /\ ~IsSaml(providers[p]) /\ a.idp = providers[p].idp /\ a.asked = s
        /\ req[r].stage = "exchange"
    BY <1>4 DEF Exchange, NonceMatches
  <2>2. /\ a \in answers /\ s # None /\ states[s].kind = "oidc" /\ states[s].provider = p
        /\ states[s].status = "gone" /\ used[s] = 0
    BY <2>1 DEF Inv, LoginInv, SignInOK, Held
  <2>3. p \in ProviderIds /\ a.provider = p
    BY <2>1, <2>2 DEF Inv, LoginInv, AnswersOK, TypeOK, Answer
  <2>4. new \in Request /\ new.stage = "exists" /\ new.state = s /\ new.answer = a
    <3>1. req[r] \in Request /\ providers[p] \in ProviderRow
      BY <2>3 DEF Inv, TypeOK
    <3> QED
      BY <3>1 DEF Request
  <2> HIDE DEF new
  <2>5. req'[r] = new
    BY <2>1, <2>4, StepType DEF Inv
  <2>6. a.idp \notin SamlIdps
    BY <2>1 DEF IsSaml
  <2>7. OnlyHolder(r, new)
    BY <2>1, <2>4, <2>6, GoesOnAlone DEF Held
  <2>8. Completes(a, s)
    BY <2>1, <2>2, <2>3, <2>6 DEF Completes, Uncorrelated
  <2>9. SignInOK(r)'
    BY <1>1, <2>2, <2>4, <2>5, <2>6, <2>8 DEF SignInOK, Completes, Uncorrelated, Held, Accepted
  <2> QED
    BY <1>2, <2>1, <2>4, <2>7, <2>9, SignInStepKeeps DEF Naming, Acting
<1> QED
  BY <1>3, <1>4

LEMMA SamlCallbackKeeps ==
    ASSUME Inv, NEW r \in Requests, NEW a \in answers, NEW s \in States \cup {None},
           SamlCallback(r, a.provider, s, a)
    PROVE  Inv'
<1> DEFINE p == a.provider
           new == [Idle EXCEPT !.stage = "relay", !.provider = p, !.row = providers[p],
                               !.state = s, !.answer = a]
<1>1. Step(r, new) /\ IsSaml(providers[p])
  BY DEF SamlCallback
<1>2. UNCHANGED <<scenario, table, domain, states, recorded, answers, known, live, signIns, used>>
  BY DEF SamlCallback, login
<1>3. a \in Answer /\ p \in ProviderIds /\ providers[p] \in ProviderRow
  BY DEF Inv, TypeOK, Answer
<1>4. new \in Request /\ new.stage = "relay" /\ new.answer = a /\ new.row = providers[p]
  BY <1>3, IdleType DEF Request
<1> HIDE DEF new
<1>5. req'[r] = new
  BY <1>1, <1>4, StepType DEF Inv
<1>6. SignInOK(r)' /\ OnlyHolder(r, new)
  BY <1>1, <1>2, <1>4, <1>5 DEF SignInOK, OnlyHolder, IsSaml, Held, Accepted
<1> QED
  BY <1>1, <1>2, <1>4, <1>6, SameTaken, SignInStepKeeps DEF Naming, Acting

\* The relay state is consumed before the response is believed.
LEMMA RelayStateKeeps ==
    ASSUME Inv, NEW r \in Requests, RelayState(r)
    PROVE  Inv'
<1> DEFINE s == req[r].state
           a == req[r].answer
           new == [req[r] EXCEPT !.stage = "record"]
<1>1. req[r].stage = "relay" /\ a \in answers /\ IsSaml(req[r].row) /\ s \in States \cup {None}
  BY DEF RelayState, Inv, LoginInv, SignInOK, TypeOK, Request
<1>2. UNCHANGED <<scenario, table, domain, recorded, answers, known, live, signIns, used>>
  BY DEF RelayState
<1>3. /\ new \in Request /\ new.stage = "record" /\ new.state = s /\ new.answer = a
  BY DEF Inv, TypeOK, Request
<1>4. Taken
  <2>1. CASE UNCHANGED states
    BY <1>2, <2>1, SameTaken
  <2>2. CASE s # None /\ ConsumeState(s, "saml")
    BY <1>1, <1>2, <2>2, ConsumedTaken
  <2> QED
    BY <2>1, <2>2 DEF RelayState
<1>5. CASE Finish(r)
  BY <1>4, <1>5, FinishKeeps
<1>6. ASSUME Step(r, new), ParseResponse(r), s = None
      PROVE  Inv'
  <2>1. req'[r] = new
    BY <1>3, <1>6, StepType DEF Inv
  <2>2. a.idp \in SamlIdps
    BY <1>1, <1>6 DEF ParseResponse, IsSaml
  <2> HIDE DEF new
  <2>3. SignInOK(r)' /\ OnlyHolder(r, new)
    BY <1>1, <1>2, <1>3, <1>6, <2>1, <2>2
       DEF SignInOK, OnlyHolder, Completes, Uncorrelated, Held, Accepted
  <2> QED
    BY <1>3, <1>4, <1>6, <2>3, SignInStepKeeps DEF Naming, Acting
<1>7. ASSUME Step(r, new), ParseResponse(r), s # None, ConsumeState(s, "saml"),
             states[s].provider = req[r].provider
      PROVE  Inv'
  <2>1. req'[r] = new
    BY <1>3, <1>7, StepType DEF Inv
  <2>2. a.idp \in SamlIdps /\ a.provider = states[s].provider
        /\ (scenario.allowIDPInitiated \/ a.asked = s)
    BY <1>1, <1>7 DEF ParseResponse, IsSaml
  <2>3. /\ states[s].status = "stored" /\ states[s].kind = "saml" /\ states'[s].status = "gone"
        /\ states'[s].kind = states[s].kind /\ states'[s].provider = states[s].provider
    BY <1>1, <1>7, ConsumeStateType DEF Inv
  <2> HIDE DEF new
  <2>4. used[s] = 0 /\ OnlyHolder(r, new)
    BY <1>1, <1>3, <1>7, <2>3, StoredIsFree DEF OnlyHolder, Accepted
  <2>5. SignInOK(r)'
    BY <1>1, <1>2, <1>3, <1>7, <2>1, <2>2, <2>3, <2>4
       DEF SignInOK, Completes, Uncorrelated, Held, Accepted
  <2> QED
    BY <1>3, <1>4, <1>7, <2>4, <2>5, SignInStepKeeps DEF Naming, Acting
<1> QED
  BY <1>5, <1>6, <1>7 DEF RelayState

\* The unique value lets one of the requests that carry an assertion go on.
LEMMA RecordKeeps ==
    ASSUME Inv, NEW r \in Requests, RecordSAMLAssertion(r)
    PROVE  Inv'
<1> DEFINE a == req[r].answer
           s == req[r].state
           new == [req[r] EXCEPT !.stage = "exists"]
<1>1. /\ req[r].stage = "record" /\ a \in answers /\ a.idp \in SamlIdps /\ Completes(a, s)
      /\ s # None => states[s].status = "gone" /\ used[s] = 0
  BY DEF RecordSAMLAssertion, Inv, LoginInv, SignInOK, Held
<1>2. UNCHANGED <<scenario, table, domain, states, answers, known, live, signIns, used>>
  BY DEF RecordSAMLAssertion
<1>3. a.id \in AssertionIds
  BY <1>1 DEF Inv, TypeOK, Answer
<1>4. Taken
  BY <1>2, <1>3 DEF RecordSAMLAssertion, Taken, Inv, TypeOK
<1>5. CASE Finish(r)
  BY <1>4, <1>5, FinishKeeps
<1>6. CASE ~Finish(r)
  <2>1. Step(r, new) /\ a.id \notin recorded /\ recorded' = recorded \cup {a.id}
    BY <1>6 DEF RecordSAMLAssertion, NewAssertion
  <2>2. new \in Request /\ new.stage = "exists" /\ new.state = s /\ new.answer = a
    BY DEF Inv, TypeOK, Request
  <2> HIDE DEF new
  <2>3. req'[r] = new
    BY <2>1, <2>2, StepType DEF Inv
  <2>4. used[a.id] = 0
    BY <1>1, <2>1 DEF Inv, LoginInv, UsedOnce
  <2>5. OnlyHolder(r, new)
    BY <1>1, <2>1, <2>2, GoesOnAlone DEF Held
  <2>6. SignInOK(r)'
    BY <1>1, <1>2, <2>1, <2>2, <2>3, <2>4 DEF SignInOK, Completes, Uncorrelated, Held, Accepted
  <2> QED
    BY <1>4, <2>1, <2>2, <2>5, <2>6, SignInStepKeeps DEF Naming, Acting
<1> QED
  BY <1>5, <1>6

LEMMA CheckSignUpKeeps ==
    ASSUME Inv, NEW r \in Requests, CheckSignUp(r)
    PROVE  Inv'
<1> DEFINE a == req[r].answer
           s == req[r].state
           new == [req[r] EXCEPT !.stage = "authenticate"]
<1>1. UNCHANGED <<scenario, table, domain, states, recorded, answers, known, live, signIns, used>>
  BY DEF CheckSignUp, login
<1>2. Taken
  BY <1>1, SameTaken
<1>3. CASE Finish(r)
  BY <1>2, <1>3, FinishKeeps
<1>4. CASE ~Finish(r)
  <2>1. Step(r, new) /\ req[r].stage = "exists"
    BY <1>4 DEF CheckSignUp
  <2>2. new \in Request /\ new.stage = "authenticate" /\ new.state = s /\ new.answer = a
    BY DEF Inv, TypeOK, Request
  <2> HIDE DEF new
  <2>3. req'[r] = new /\ SignInOK(r)
    BY <2>1, <2>2, StepType DEF Inv, LoginInv
  <2>4. OnlyHolder(r, new)
    BY <2>1, <2>2, GoesOnAlone DEF Held, Accepted
  <2>5. SignInOK(r)'
    BY <1>1, <2>1, <2>2, <2>3 DEF SignInOK, Completes, Uncorrelated, Held, Accepted
  <2> QED
    BY <1>2, <2>1, <2>2, <2>4, <2>5, SignInStepKeeps DEF Naming, Acting
<1> QED
  BY <1>3, <1>4

\* The only holder of a state and of an assertion completes its sign-in.
LEMMA AuthenticateKeeps ==
    ASSUME Inv, NEW r \in Requests, Authenticate(r)
    PROVE  Inv'
<1> DEFINE a == req[r].answer
           s == req[r].state
<1>1. req[r].stage = "authenticate" /\ SignInOK(r) /\ a \in answers /\ s \in States \cup {None}
  BY DEF Authenticate, Inv, LoginInv, SignInOK, Held, TypeOK, Request
<1>2. UNCHANGED <<scenario, table, domain, states, recorded, answers>> /\ Step(r, Idle)
  BY DEF Authenticate, Finish
<1>3. CASE UNCHANGED <<known, live, signIns, used>>
  BY <1>2, <1>3, SameTaken, FinishKeeps DEF Finish
<1>4. CASE /\ known' = known \cup {a.subject}
           /\ live' = live \cup {a.subject}
           /\ signIns' = signIns \cup {[answer |-> a, state |-> s]}
           /\ used' = [x \in DOMAIN used |-> IF x \in {s, a.id} THEN used[x] + 1 ELSE used[x]]
  <2>1. a \in Answer /\ a.id \in AssertionIds /\ a.subject \in Subjects
    BY <1>1 DEF Inv, TypeOK, Answer
  <2>2. /\ req' \in [Requests -> Request] /\ req'[r] = Idle
        /\ \A q \in Requests \ {r} : req'[q] = req[q]
    BY <1>2, IdleType, StepType DEF Inv
  <2>3. OwnerInv'
    BY <1>2, IdleType, SignInKeepsOwner DEF Naming, Acting
  <2>4. /\ used' \in [States \cup AssertionIds -> Nat]
        /\ \A x \in States \cup AssertionIds : /\ x \notin {s, a.id} => used'[x] = used[x]
                                               /\ x \in {s, a.id} => used'[x] = used[x] + 1
    BY <1>4 DEF Inv, TypeOK
  <2>5. TypeOK'
    BY <1>2, <1>4, <1>1, <2>1, <2>2, <2>4 DEF Inv, TypeOK, table, domain
  <2>6. Completes(a, s) /\ (s # None => states[s].status = "gone" /\ used[s] = 0)
    BY <1>1 DEF SignInOK, Held
  <2>7. a.idp \in SamlIdps => a.id \in recorded /\ used[a.id] = 0
    BY <1>1 DEF SignInOK, Accepted
  <2>8. AnswersOK'
    BY <1>2 DEF Inv, LoginInv, AnswersOK
  <2>9. HeldOnce'
    BY <2>2, IdleType DEF Inv, LoginInv, HeldOnce, Held, Accepted
  <2>10. \A q \in Requests : SignInOK(q)'
    <3> SUFFICES ASSUME NEW q \in Requests PROVE SignInOK(q)'
      OBVIOUS
    <3>1. CASE q = r
      BY <2>2, <3>1, IdleType DEF SignInOK, Held, Accepted
    <3>2. CASE q # r
      <4>1. req'[q] = req[q] /\ SignInOK(q)
        BY <2>2, <3>2 DEF Inv, LoginInv
      <4>2. req[q].stage \in Held /\ req[q].state # None => used'[req[q].state] = 0
        <5> SUFFICES ASSUME req[q].stage \in Held, req[q].state # None
                     PROVE  used'[req[q].state] = 0
          OBVIOUS
        <5>1. req[q].state \in States /\ used[req[q].state] = 0
          BY <4>1 DEF SignInOK, Inv, TypeOK, Request
        <5>2. req[q].state # s /\ req[q].state # a.id
          BY <1>1, <2>1, <3>2, <5>1, SsoAssumption DEF Inv, LoginInv, HeldOnce, Held
        <5> QED
          BY <2>4, <5>1, <5>2
      <4>3. req[q].stage \in Accepted /\ req[q].answer.idp \in SamlIdps =>
              used'[req[q].answer.id] = 0
        <5> SUFFICES ASSUME req[q].stage \in Accepted, req[q].answer.idp \in SamlIdps
                     PROVE  used'[req[q].answer.id] = 0
          OBVIOUS
        <5>1. /\ req[q].answer \in answers /\ used[req[q].answer.id] = 0
              /\ req[q].answer.id \in AssertionIds
          BY <4>1 DEF SignInOK, Held, Accepted, Inv, TypeOK, Answer
        <5>2. req[q].answer.id # a.id
          BY <1>1, <3>2 DEF Inv, LoginInv, HeldOnce, Accepted
        <5>3. req[q].answer.id # s
          BY <1>1, <5>1, SsoAssumption
        <5> QED
          BY <2>4, <5>1, <5>2, <5>3
      <4> QED
        BY <1>2, <4>1, <4>2, <4>3 DEF SignInOK, Completes, Uncorrelated, IsSaml
    <3> QED
      BY <3>1, <3>2
  <2>11. UsedOnce'
    <3>1. \A x \in States : used'[x] # 0 => used'[x] = 1 /\ states'[x].status = "gone"
      BY <1>2, <2>1, <2>4, <2>6, SsoAssumption DEF Inv, LoginInv, UsedOnce
    <3>2. \A b \in answers : b.idp \in SamlIdps /\ used'[b.id] # 0 =>
            used'[b.id] = 1 /\ b.id \in recorded
      <4> SUFFICES ASSUME NEW b \in answers, b.idp \in SamlIdps, used'[b.id] # 0
                   PROVE  used'[b.id] = 1 /\ b.id \in recorded
        OBVIOUS
      <4>1. b.id \in AssertionIds /\ b.id # s
        BY <1>1, SsoAssumption DEF Inv, TypeOK, Answer
      <4>2. CASE b.id = a.id
        <5>1. b = a
          BY <1>1, <4>2 DEF Inv, LoginInv, AnswersOK
        <5> QED
          BY <2>4, <2>7, <4>1, <5>1
      <4>3. CASE b.id # a.id
        BY <2>4, <4>1, <4>3 DEF Inv, LoginInv, UsedOnce
      <4> QED
        BY <4>2, <4>3
    <3>3. \A x \in AssertionIds : used'[x] # 0 => \E b \in answers : b.id = x
      BY <1>1, <2>4, SsoAssumption DEF Inv, LoginInv, UsedOnce
    <3> QED
      BY <1>2, <3>1, <3>2, <3>3 DEF UsedOnce
  <2>12. SignedIn'
    <3>1. \A i \in signIns' :
            /\ i.state # None => states[i.state].status # "free"
            /\ Completes(i.answer, i.state)
      BY <1>4, <2>6 DEF Inv, LoginInv, SignedIn
    <3> QED
      BY <1>2, <3>1 DEF SignedIn, Completes, Uncorrelated
  <2> QED
    BY <2>3, <2>5, <2>8, <2>9, <2>10, <2>11, <2>12 DEF Inv, LoginInv
<1> QED
  BY <1>3, <1>4 DEF Authenticate

-----------------------------------------------------------------------------
(* Theorems                                                                *)

LEMMA InitInv == Init => Inv
<1> SUFFICES ASSUME Init PROVE Inv
  OBVIOUS
<1>1. /\ providers \in [ProviderIds -> ProviderRow] /\ rows \in 0..MaxRows
      /\ \A p \in ProviderIds : /\ providers[p].id <= rows
                                /\ providers[p].id # 0 => providers[p].idp # None
  BY ScenarioAssumption DEF Init
<1>2. TypeOK
  <2>1. NoState \in StateRow
    BY DEF NoState, StateRow
  <2>2. states \in [States -> StateRow] /\ req \in [Requests -> Request]
        /\ used \in [States \cup AssertionIds -> Nat]
    BY <2>1, IdleType DEF Init
  <2> QED
    BY <1>1, <2>2 DEF Init, TypeOK
<1>3. \A r \in Requests : req[r] = Idle
  BY DEF Init
<1>4. OwnerInv
  BY <1>1, <1>3, IdleType DEF Init, OwnerInv, RowRead, OwnerWrites, Naming, Acting
<1>5. \A r \in Requests : SignInOK(r)
  BY <1>3, IdleType DEF SignInOK, Held, Accepted
<1>6. LoginInv
  BY <1>3, <1>5, IdleType
     DEF Init, LoginInv, AnswersOK, HeldOnce, UsedOnce, SignedIn, Held, Accepted
<1> QED
  BY <1>2, <1>4, <1>6 DEF Inv

LEMMA NextKeeps == Inv /\ [Next]_vars => Inv'
<1> SUFFICES ASSUME Inv, [Next]_vars PROVE Inv'
  OBVIOUS
<1>1. CASE UNCHANGED vars
  <2>1. LoginFrame /\ OwnerFrame /\ TypeOK'
    BY <1>1 DEF vars, table, domain, login, LoginFrame, OwnerFrame, Inv, TypeOK
  <2> QED
    BY <2>1, LoginFrameKeeps, OwnerFrameKeeps DEF Inv
<1>2. ASSUME NEW r \in Requests, NEW u \in Users, NEW p \in ProviderIds,
             NEW o \in scenario.offers,
             \/ BeginRegister(r, u, p, o.idp, o.domains)
             \/ \E configured \in BOOLEAN : BeginUpdate(r, u, p, o.idp, o.domains, configured)
      PROVE  Inv'
  BY <1>2, BeginRegisterKeeps, BeginUpdateKeeps
<1>3. ASSUME NEW r \in Requests, NEW u \in Users, NEW p \in ProviderIds,
             \/ ReadProvider(r, u, p, "delete") \/ ReadProvider(r, u, p, "pending")
             \/ RequestDomainVerification(r, u, p)
      PROVE  Inv'
  BY <1>3, ReadProviderKeeps DEF RequestDomainVerification
<1>4. ASSUME NEW r \in Requests,
             \/ CreateProvider(r) \/ UpdateProvider(r) \/ DeleteProvider(r)
             \/ ClearTokens(r) \/ PutToken(r) \/ FindPending(r) \/ LookupTXT(r)
             \/ ConsumeToken(r) \/ ConfirmDomain(r)
      PROVE  Inv'
  BY <1>4, CreateProviderKeeps, UpdateProviderKeeps, DeleteProviderKeeps, DomainKeeps,
     ConfirmDomainKeeps
<1>5. ASSUME NEW r \in Requests,
             \/ Exchange(r) \/ RelayState(r) \/ RecordSAMLAssertion(r)
             \/ CheckSignUp(r) \/ Authenticate(r) \/ RevokeAtLogout(r)
      PROVE  Inv'
  BY <1>5, ExchangeKeeps, RelayStateKeeps, RecordKeeps, CheckSignUpKeeps, AuthenticateKeeps,
     RevokeKeeps
<1>6. CASE \E d \in Domains, t \in tokens : Publish(d, t)
  BY <1>6, PublishKeeps
<1>7. CASE \E p \in ProviderIds, signUp \in BOOLEAN : SignIn(p, signUp)
  BY <1>7, SignInKeeps
<1>8. CASE \E p \in ProviderIds, s \in States \cup {None}, x \in Subjects : SignAnswer(p, s, x)
  BY <1>8, SignAnswerKeeps
<1>9. ASSUME NEW r \in Requests, NEW a \in answers,
             \/ \E s \in States : OidcCallback(r, s, a)
             \/ \E s \in States \cup {None} : SamlCallback(r, a.provider, s, a)
      PROVE  Inv'
  BY <1>9, OidcCallbackKeeps, SamlCallbackKeeps
<1>10. CASE \E r \in Requests, p \in ProviderIds, x \in Subjects : InitiateSAMLLogout(r, p, x)
  BY <1>10, LogoutKeeps
<1>11. CASE \E s \in States : SamlLogoutCallback(s) \/ ExpireState(s)
  BY <1>11, TakeStateKeeps
<1> QED
  BY <1>1, <1>2, <1>3, <1>4, <1>5, <1>6, <1>7, <1>8, <1>9, <1>10, <1>11 DEF Next

LEMMA InvHolds == Spec => []Inv
BY InitInv, NextKeeps, PTL DEF Spec

\* A state completes at most one sign-in, with any number of callbacks that carry
\* it, and although the code or assertion is exchanged after the state was consumed
\* (consumeState).
THEOREM StateSingleUse == Spec => []OneSignInPerState
<1>1. Inv => OneSignInPerState
  BY DEF Inv, TypeOK, LoginInv, UsedOnce, OneSignInPerState
<1> QED
  BY <1>1, InvHolds, PTL

\* A SAML assertion completes at most one sign-in, asked for or not, also when
\* it is delivered with different relay states at once (recordSAMLAssertion).
THEOREM AssertionSingleUse == Spec => []AssertionOnce
<1>1. Inv => AssertionOnce
  BY DEF Inv, TypeOK, Answer, LoginInv, UsedOnce, AssertionOnce
<1> QED
  BY <1>1, InvHolds, PTL

\* A sign-in that began here ends at its provider and protocol, and with the answer to
\* that very request unless it is a SAML one and AllowIDPInitiated is on
\* (oidcCallback, samlCallback).
THEOREM CeremonyBound == Spec => []AnswerOfThisCeremony
<1>1. Inv => AnswerOfThisCeremony
  BY DEF Inv, LoginInv, SignedIn, Completes, Uncorrelated, AnswerOfThisCeremony
<1> QED
  BY <1>1, InvHolds, PTL

\* A provider row is written only for its owner, whoever deletes and registers
\* the providerId between the check and the write (the id clause of update, delete
\* and verify).
THEOREM OnlyOwnersWrite == Spec => []OwnerWrites
<1>1. Inv => OwnerWrites
  BY DEF Inv, OwnerInv
<1> QED
  BY <1>1, InvHolds, PTL

-----------------------------------------------------------------------------
(* SCIM provisioning                                                       *)
(*                                                                         *)
(* The plugin has a server, tables and requests of its own.  What follows  *)
(* is about runs of Scim!Spec alone: users, scenarios, rows and requests   *)
(* are the instance's, and nothing of Sso is used.                         *)

CONSTANTS Emails, Externals, Connections, BindingIds, ProviderLimit
VARIABLES connections, users, bindings, members, accounts, sessions

Scim == INSTANCE Scim

\* The assumptions of Scim.
ScimSetting ==
    /\ None \notin Users \cup Emails \cup Externals \cup Connections \cup BindingIds \cup BOOLEAN
    /\ OrgConnections \subseteq Connections
    /\ MaxRows \in Nat
    /\ \A sc \in Scenarios : Scim!ScenarioOK(sc)

\* A user who exists has an address.
UsersOK == \A u \in Users : users[u].state = "present" => users[u].email \in Emails

\* A binding, stored or removed, names a user who was there when it was made, and
\* one that owns its user was made by the connection that created the user.
BindingsOK ==
    \A b \in BindingIds : bindings[b].state # "free" =>
        /\ bindings[b].user \in Users /\ users[bindings[b].user].state # "absent"
        /\ bindings[b].connection \in Connections /\ bindings[b].external \in Externals
        /\ bindings[b].owns => creator[bindings[b].user] = bindings[b].connection

\* The user of a deletion had been created.
DeletionsOK == \A d \in deletions : users[d.user].state # "absent"

\* What a provisioning request in flight knows; a binding that it has read keeps
\* its user and its connection, whatever becomes of the row.
ProvisioningOK(q) ==
    /\ q.stage # "idle" => q.connection \in Connections
    /\ q.stage \in {"create", "find", "update"} => q.input \in Scim!Input
    /\ q.stage = "create" /\ q.user # None => users[q.user].state # "absent"
    /\ q.stage \in {"find", "update", "deprovision"} => q.user \in Users
    /\ q.stage \in {"update", "deprovision"} => q.binding \in BindingIds
    /\ q.stage = "deprovision" =>
         /\ bindings[q.binding].state # "free"
         /\ bindings[q.binding].connection = q.connection
         /\ bindings[q.binding].user = q.user

ScimInv ==
    /\ Scim!TypeOK
    /\ UsersOK
    /\ BindingsOK
    /\ DeletionsOK
    /\ \A r \in Requests : ProvisioningOK(req[r])
    /\ AccountHoldersKept

LEMMA ScimIdle ==
    ASSUME ScimSetting
    PROVE  /\ Scim!Idle \in Scim!Request /\ ProvisioningOK(Scim!Idle)
           /\ Scim!NoBinding \in Scim!BindingRow /\ Scim!NoBinding.state = "free"
<1>1. Scim!NoUser \in Scim!UserRow
  BY DEF Scim!NoUser, Scim!UserRow
<1> QED
  BY <1>1 DEF ScimSetting, Scim!Idle, Scim!Request, ProvisioningOK, Scim!NoBinding,
              Scim!BindingRow

\* Users do not become absent, and who created them, and what a binding ties
\* together, does not change.
ScimFrame ==
    /\ \A u \in Users : users[u].state # "absent" =>
         users'[u].state # "absent" /\ creator'[u] = creator[u]
    /\ \A b \in BindingIds : bindings[b].state # "free" =>
         /\ bindings'[b].state # "free" /\ bindings'[b].owns = bindings[b].owns
         /\ bindings'[b].connection = bindings[b].connection
         /\ bindings'[b].user = bindings[b].user

\* Requests that took no step still know what they knew; the one that did must know
\* what its new stage needs.
LEMMA ProvisioningKeeps ==
    ASSUME ScimInv, ScimFrame, NEW r \in Requests, NEW new \in Scim!Request,
           Scim!Step(r, new), ProvisioningOK(new)
    PROVE  req' \in [Requests -> Scim!Request] /\ \A q \in Requests : ProvisioningOK(req[q])'
<1>1. req' \in [Requests -> Scim!Request] /\ req'[r] = new
      /\ \A q \in Requests \ {r} : req'[q] = req[q]
  BY DEF ScimInv, Scim!TypeOK, Scim!Step
<1>2. ASSUME NEW q \in Scim!Request, ProvisioningOK(q)
      PROVE  /\ q.stage = "create" /\ q.user # None => users'[q.user].state # "absent"
             /\ q.stage = "deprovision" =>
                  /\ bindings'[q.binding].state # "free"
                  /\ bindings'[q.binding].connection = q.connection
                  /\ bindings'[q.binding].user = q.user
  BY <1>2 DEF ProvisioningOK, ScimFrame, Scim!Request
<1>3. ASSUME NEW p \in Requests, NEW q \in Scim!Request, ProvisioningOK(q), req'[p] = q
      PROVE  ProvisioningOK(req[p])'
  BY <1>2, <1>3 DEF ProvisioningOK
<1>4. \A q \in Requests : req[q] \in Scim!Request /\ ProvisioningOK(req[q])
  BY DEF ScimInv, Scim!TypeOK
<1>5. \A p \in Requests : ProvisioningOK(req[p])'
  BY <1>1, <1>3, <1>4
<1> QED
  BY <1>1, <1>5

\* A step that only reads, or that writes the connections.
LEMMA ReadingKeeps ==
    ASSUME ScimInv, NEW r \in Requests, NEW new \in Scim!Request, Scim!Step(r, new),
           ProvisioningOK(new), connections' \in [Connections -> 0..MaxRows],
           rows' \in 0..MaxRows, UNCHANGED <<scenario, Scim!tables, Scim!history>>
    PROVE  ScimInv'
<1>1. UNCHANGED <<scenario, users, bindings, members, accounts, sessions, creator, deletions>>
  BY DEF Scim!tables, Scim!history
<1>2. ScimFrame
  BY <1>1 DEF ScimFrame
<1>3. req' \in [Requests -> Scim!Request] /\ \A q \in Requests : ProvisioningOK(req[q])'
  BY <1>2, ProvisioningKeeps
<1>4. Scim!TypeOK'
  BY <1>1, <1>3 DEF ScimInv, Scim!TypeOK
<1>5. UsersOK' /\ BindingsOK' /\ DeletionsOK' /\ AccountHoldersKept'
  BY <1>1 DEF ScimInv, UsersOK, BindingsOK, DeletionsOK, AccountHoldersKept
<1> QED
  BY <1>3, <1>4, <1>5 DEF ScimInv

\* A step of the rest of the server that leaves users and bindings alone.
LEMMA OthersKeep ==
    ASSUME ScimInv, members' \subseteq Users, accounts' \subseteq Users, sessions' \subseteq Users,
           UNCHANGED <<scenario, connections, rows, users, bindings, req, creator, deletions>>
    PROVE  ScimInv'
<1>1. Scim!TypeOK'
  BY DEF ScimInv, Scim!TypeOK
<1>2. UsersOK' /\ BindingsOK' /\ DeletionsOK' /\ AccountHoldersKept'
  BY DEF ScimInv, UsersOK, BindingsOK, DeletionsOK, AccountHoldersKept
<1>3. \A q \in Requests : ProvisioningOK(req[q])'
  BY DEF ScimInv, ProvisioningOK
<1> QED
  BY <1>1, <1>2, <1>3 DEF ScimInv

-----------------------------------------------------------------------------
(* SCIM: requests that read                                                *)

LEMMA TokenKeeps ==
    ASSUME ScimSetting, ScimInv, NEW r \in Requests, NEW c \in Connections,
           Scim!BeginGenerateToken(r, c) \/ Scim!BeginDeleteConnection(r, c)
    PROVE  ScimInv'
<1>1. PICK stage \in {"token", "drop"} :
        Scim!Step(r, [Scim!Idle EXCEPT !.stage = stage, !.connection = c, !.id = connections[c]])
  BY DEF Scim!BeginGenerateToken, Scim!BeginDeleteConnection
<1> DEFINE new == [Scim!Idle EXCEPT !.stage = stage, !.connection = c, !.id = connections[c]]
<1>2. new \in Scim!Request /\ new.stage = stage /\ new.connection = c
  BY ScimIdle DEF Scim!Request, ScimInv, Scim!TypeOK
<1>3. Scim!Step(r, new)
  BY <1>1
<1> HIDE DEF new
<1>4. ProvisioningOK(new)
  BY <1>2 DEF ProvisioningOK
<1>5. UNCHANGED <<scenario, connections, rows, Scim!tables, Scim!history>>
  BY DEF Scim!BeginGenerateToken, Scim!BeginDeleteConnection, Scim!directory
<1> QED
  BY <1>2, <1>3, <1>4, <1>5, ReadingKeeps DEF ScimInv, Scim!TypeOK

LEMMA ConnectionKeeps ==
    ASSUME ScimSetting, ScimInv, NEW r \in Requests,
           Scim!GenerateToken(r) \/ Scim!DeleteConnection(r)
    PROVE  ScimInv'
<1>1. Scim!Step(r, Scim!Idle) /\ UNCHANGED <<scenario, Scim!tables, Scim!history>>
  BY DEF Scim!GenerateToken, Scim!DeleteConnection, Scim!Finish
<1>2. connections \in [Connections -> 0..MaxRows] /\ rows \in 0..MaxRows /\ MaxRows \in Nat
  BY DEF ScimSetting, ScimInv, Scim!TypeOK
<1>3. connections' \in [Connections -> 0..MaxRows] /\ rows' \in 0..MaxRows
  <2>1. CASE Scim!GenerateToken(r)
    <3>1. CASE rows < MaxRows /\ rows' = rows + 1
               /\ connections' = [connections EXCEPT ![req[r].connection] = rows + 1]
      <4>1. rows + 1 \in 0..MaxRows
        BY <1>2, <3>1
      <4> QED
        BY <1>2, <3>1, <4>1
    <3>2. CASE UNCHANGED Scim!directory
      BY <1>2, <3>2 DEF Scim!directory
    <3> QED
      BY <2>1, <3>1, <3>2 DEF Scim!GenerateToken
  <2>2. CASE Scim!DeleteConnection(r)
    <3>1. rows' = rows /\ 0 \in 0..MaxRows
      BY <1>2, <2>2 DEF Scim!DeleteConnection
    <3>2. \/ connections' = [connections EXCEPT ![req[r].connection] = 0]
          \/ connections' = connections
      BY <2>2 DEF Scim!DeleteConnection
    <3> QED
      BY <1>2, <3>1, <3>2
  <2> QED
    BY <2>1, <2>2
<1> QED
  BY <1>1, <1>3, ScimIdle, ReadingKeeps

LEMMA BeginCreateKeeps ==
    ASSUME ScimSetting, ScimInv, NEW r \in Requests, NEW c \in Connections,
           NEW input \in Scim!Input, Scim!BeginCreateUser(r, c, input)
    PROVE  ScimInv'
<1>1. PICK u \in Users \cup {None} :
        /\ u # None => users[u].state # "absent"
        /\ Scim!Step(r, [Scim!Idle EXCEPT !.stage = "create", !.connection = c, !.user = u,
                                          !.input = input])
  BY DEF Scim!BeginCreateUser, Scim!Present
<1> DEFINE new == [Scim!Idle EXCEPT !.stage = "create", !.connection = c, !.user = u,
                                    !.input = input]
<1>2. new \in Scim!Request /\ new.stage = "create" /\ new.connection = c /\ new.user = u
      /\ new.input = input
  BY ScimIdle DEF Scim!Request
<1>3. Scim!Step(r, new)
  BY <1>1
<1> HIDE DEF new
<1>4. ProvisioningOK(new)
  BY <1>1, <1>2 DEF ProvisioningOK
<1>5. UNCHANGED <<scenario, connections, rows, Scim!tables, Scim!history>>
  BY DEF Scim!BeginCreateUser, Scim!directory
<1> QED
  BY <1>2, <1>3, <1>4, <1>5, ReadingKeeps DEF ScimInv, Scim!TypeOK

\* A request that goes on to updateUser with the resource input.
LEMMA FindKeeps ==
    ASSUME ScimSetting, ScimInv, NEW r \in Requests, NEW c \in Connections, NEW u \in Users,
           NEW input \in Scim!Input,
           Scim!Step(r, [Scim!Idle EXCEPT !.stage = "find", !.connection = c, !.user = u,
                                          !.input = input]),
           UNCHANGED <<scenario, Scim!directory, Scim!tables, Scim!history>>
    PROVE  ScimInv'
<1> DEFINE new == [Scim!Idle EXCEPT !.stage = "find", !.connection = c, !.user = u,
                                    !.input = input]
<1>1. new \in Scim!Request /\ new.stage = "find" /\ new.connection = c /\ new.user = u
      /\ new.input = input
  BY ScimIdle DEF Scim!Request
<1>2. Scim!Step(r, new)
  OBVIOUS
<1> HIDE DEF new
<1>3. ProvisioningOK(new)
  BY <1>1 DEF ProvisioningOK
<1> QED
  BY <1>1, <1>2, <1>3, ReadingKeeps DEF ScimInv, Scim!TypeOK, Scim!directory

\* A patched resource is a resource, since the user that is read has an address and
\* the binding an external id.
LEMMA BeginPatchKeeps ==
    ASSUME ScimSetting, ScimInv, NEW r \in Requests, NEW c \in Connections, NEW u \in Users,
           NEW change \in scenario.changes, Scim!BeginPatchUser(r, c, u, change)
    PROVE  ScimInv'
<1>1. PICK b \in Scim!ManagedBy(c, u) :
        Scim!Step(r, [Scim!Idle EXCEPT !.stage = "find", !.connection = c, !.user = u,
                        !.input = Scim!Patched([email |-> users[u].email,
                                                external |-> bindings[b].external,
                                                active |-> ~users[u].disabled], change)])
  BY DEF Scim!BeginPatchUser
<1>2. b \in BindingIds /\ bindings[b].state = "stored"
  BY DEF Scim!ManagedBy, Scim!BindingsOf, Scim!Stored
<1>3. users[u].email \in Emails /\ bindings[b].external \in Externals
  BY <1>2 DEF Scim!BeginPatchUser, Scim!Present, ScimInv, UsersOK, BindingsOK
<1>4. (~users[u].disabled) \in BOOLEAN
  OBVIOUS
<1> DEFINE row == [email |-> users[u].email, external |-> bindings[b].external,
                   active |-> ~users[u].disabled]
<1>5. row \in Scim!Input
  BY <1>3, <1>4 DEF Scim!Input
<1> HIDE DEF row
<1>6. Scim!Patched(row, change) \in Scim!Input
  BY <1>5 DEF ScimSetting, Scim!ScenarioOK, ScimInv, Scim!TypeOK
<1>7. Scim!Step(r, [Scim!Idle EXCEPT !.stage = "find", !.connection = c, !.user = u,
                                     !.input = Scim!Patched(row, change)])
  BY <1>1 DEF row
<1>8. UNCHANGED <<scenario, Scim!directory, Scim!tables, Scim!history>>
  BY DEF Scim!BeginPatchUser
<1> QED
  BY <1>6, <1>7, <1>8, FindKeeps

LEMMA FindManagedKeeps ==
    ASSUME ScimSetting, ScimInv, NEW r \in Requests, Scim!FindManagedUser(r)
    PROVE  ScimInv'
<1> DEFINE u == req[r].user
<1>1. req[r] \in Scim!Request /\ ProvisioningOK(req[r]) /\ req[r].stage = "find"
  BY DEF ScimInv, Scim!TypeOK, Scim!FindManagedUser
<1>2. u \in Users /\ users[u] \in Scim!UserRow
  BY <1>1 DEF ProvisioningOK, ScimInv, Scim!TypeOK
<1>3. UNCHANGED <<scenario, connections, rows, Scim!tables, Scim!history>>
  BY DEF Scim!FindManagedUser, Scim!directory
<1>4. ASSUME NEW b \in BindingIds,
             Scim!Step(r, [req[r] EXCEPT !.stage = "update", !.row = users[u], !.binding = b])
      PROVE  ScimInv'
  <2> DEFINE new == [req[r] EXCEPT !.stage = "update", !.row = users[u], !.binding = b]
  <2>1. new \in Scim!Request /\ new.stage = "update" /\ new.connection = req[r].connection
        /\ new.user = u /\ new.input = req[r].input /\ new.binding = b
    BY <1>1, <1>2 DEF Scim!Request
  <2>2. Scim!Step(r, new)
    BY <1>4
  <2> HIDE DEF new
  <2>3. ProvisioningOK(new)
    BY <1>1, <1>2, <2>1 DEF ProvisioningOK
  <2> QED
    BY <1>3, <2>1, <2>2, <2>3, ReadingKeeps DEF ScimInv, Scim!TypeOK
<1>5. CASE Scim!Finish(r)
  BY <1>3, <1>5, ScimIdle, ReadingKeeps DEF Scim!Finish, ScimInv, Scim!TypeOK
<1> QED
  BY <1>4, <1>5 DEF Scim!FindManagedUser, Scim!ManagedBy, Scim!BindingsOf

\* deleteUser has read a binding of the connection to the user.
LEMMA BeginDeleteKeeps ==
    ASSUME ScimSetting, ScimInv, NEW r \in Requests, NEW c \in Connections, NEW u \in Users,
           Scim!BeginDeleteUser(r, c, u)
    PROVE  ScimInv'
<1>1. PICK b \in Scim!ManagedBy(c, u) :
        Scim!Step(r, [Scim!Idle EXCEPT !.stage = "deprovision", !.connection = c, !.user = u,
                                       !.binding = b])
  BY DEF Scim!BeginDeleteUser
<1>2. /\ b \in BindingIds /\ bindings[b].state = "stored"
      /\ bindings[b].connection = c /\ bindings[b].user = u
  BY DEF Scim!ManagedBy, Scim!BindingsOf, Scim!Stored
<1> DEFINE new == [Scim!Idle EXCEPT !.stage = "deprovision", !.connection = c, !.user = u,
                                    !.binding = b]
<1>3. new \in Scim!Request /\ new.stage = "deprovision" /\ new.connection = c /\ new.user = u
      /\ new.binding = b
  BY <1>2, ScimIdle DEF Scim!Request
<1>4. Scim!Step(r, new)
  BY <1>1
<1> HIDE DEF new
<1>5. ProvisioningOK(new)
  BY <1>2, <1>3 DEF ProvisioningOK
<1>6. UNCHANGED <<scenario, connections, rows, Scim!tables, Scim!history>>
  BY DEF Scim!BeginDeleteUser, Scim!directory
<1> QED
  BY <1>3, <1>4, <1>5, <1>6, ReadingKeeps DEF ScimInv, Scim!TypeOK

-----------------------------------------------------------------------------
(* SCIM: transactions                                                      *)

\* createUser: a user who is made is nobody's yet, and a binding row that is written
\* was free.
LEMMA CreateUserKeeps ==
    ASSUME ScimSetting, ScimInv, NEW r \in Requests, Scim!CreateUser(r)
    PROVE  ScimInv'
<1> DEFINE c == req[r].connection
           input == req[r].input
<1>1. /\ req[r] \in Scim!Request /\ ProvisioningOK(req[r])
      /\ c \in Connections /\ input \in Scim!Input
      /\ req[r].user # None => users[req[r].user].state # "absent"
      /\ req[r].user \in Users \cup {None}
  BY DEF ScimInv, Scim!TypeOK, Scim!CreateUser, ProvisioningOK, Scim!Request
<1>2. input.email \in Emails /\ input.external \in Externals
  BY <1>1 DEF Scim!Input
<1>3. /\ Scim!Step(r, Scim!Idle)
      /\ UNCHANGED <<scenario, connections, rows, accounts, sessions, deletions>>
  BY DEF Scim!CreateUser, Scim!Finish, Scim!directory
<1>4. PICK b \in BindingIds :
        /\ bindings[b].state = "free"
        /\ \/ /\ \E u \in Users :
                   /\ users[u].state = "absent"
                   /\ users' = [users EXCEPT ![u] = [state |-> "present", email |-> input.email,
                                                     disabled |-> input.active = FALSE]]
                   /\ creator' = [creator EXCEPT ![u] = c]
                   /\ Scim!Provision(r, u, b, TRUE)
           \/ /\ req[r].user # None
              /\ Scim!Provision(r, req[r].user, b, FALSE)
              /\ UNCHANGED <<users, creator>>
           \/ UNCHANGED <<users, bindings, members, creator>>
  BY DEF Scim!CreateUser, Scim!Draw, Scim!NewUserIds
<1>5. AccountHoldersKept /\ DeletionsOK /\ deletions \subseteq Scim!Deletion
  BY DEF ScimInv, Scim!TypeOK
\* The binding that is written, for a user who is there.
<1>6. ASSUME NEW u \in Users, NEW owns \in BOOLEAN, Scim!Provision(r, u, b, owns)
      PROVE  /\ bindings' \in [BindingIds -> Scim!BindingRow] /\ members' \subseteq Users
             /\ bindings'[b].state = "stored" /\ bindings'[b].user = u
             /\ bindings'[b].connection = c /\ bindings'[b].external \in Externals
             /\ bindings'[b].owns = owns
             /\ \A d \in BindingIds \ {b} : bindings'[d] = bindings[d]
  <2> DEFINE row == [state |-> "stored", connection |-> c, user |-> u,
                     external |-> input.external, owns |-> owns]
  <2>1. row \in Scim!BindingRow /\ row.state = "stored" /\ row.user = u /\ row.connection = c
        /\ row.external \in Externals /\ row.owns = owns
    BY <1>1, <1>2 DEF Scim!BindingRow
  <2>2. bindings' = [bindings EXCEPT ![b] = row] /\ (members' = members \cup {u} \/ members' = members)
    BY <1>6 DEF Scim!Provision
  <2> HIDE DEF row
  <2> QED
    BY <2>1, <2>2 DEF ScimInv, Scim!TypeOK
<1>7. ASSUME NEW u \in Users, users[u].state = "absent",
             users' = [users EXCEPT ![u] = [state |-> "present", email |-> input.email,
                                            disabled |-> input.active = FALSE]],
             creator' = [creator EXCEPT ![u] = c], Scim!Provision(r, u, b, TRUE)
      PROVE  ScimInv'
  <2> DEFINE row == [state |-> "present", email |-> input.email,
                     disabled |-> input.active = FALSE]
  <2>1. row \in Scim!UserRow /\ row.state = "present" /\ row.email \in Emails
    <3>1. (input.active = FALSE) \in BOOLEAN
      OBVIOUS
    <3> QED
      BY <1>2, <3>1 DEF Scim!UserRow
  <2>2. users' = [users EXCEPT ![u] = row]
    BY <1>7
  <2> HIDE DEF row
  <2>3. /\ users' \in [Users -> Scim!UserRow] /\ users'[u] = row
        /\ \A v \in Users \ {u} : users'[v] = users[v]
        /\ creator' \in [Users -> Connections \cup {None}] /\ creator'[u] = c
        /\ \A v \in Users \ {u} : creator'[v] = creator[v]
    BY <1>1, <1>7, <2>1, <2>2 DEF ScimInv, Scim!TypeOK
  <2>4. ScimFrame
    <3>1. \A v \in Users : users[v].state # "absent" =>
            users'[v].state # "absent" /\ creator'[v] = creator[v]
      BY <1>7, <2>3
    <3>2. \A d \in BindingIds : bindings[d].state # "free" => bindings'[d] = bindings[d]
      BY <1>4, <1>6, <1>7
    <3> QED
      BY <3>1, <3>2 DEF ScimFrame
  <2>5. req' \in [Requests -> Scim!Request] /\ \A q \in Requests : ProvisioningOK(req[q])'
    BY <1>3, <2>4, ScimIdle, ProvisioningKeeps
  <2>6. Scim!TypeOK'
    BY <1>3, <1>6, <1>7, <2>3, <2>5 DEF ScimInv, Scim!TypeOK
  <2>7. UsersOK'
    BY <2>1, <2>3 DEF ScimInv, UsersOK
  <2>8. BindingsOK'
    <3>1. \A d \in BindingIds \ {b} : bindings[d].state # "free" =>
            /\ bindings[d].user \in Users \ {u} /\ users[bindings[d].user].state # "absent"
            /\ bindings[d].connection \in Connections /\ bindings[d].external \in Externals
            /\ bindings[d].owns => creator[bindings[d].user] = bindings[d].connection
      BY <1>7 DEF ScimInv, BindingsOK
    <3>2. \A d \in BindingIds \ {b} : bindings'[d] = bindings[d]
      BY <1>6, <1>7
    <3>3. ASSUME NEW d \in BindingIds \ {b}, bindings'[d].state # "free"
          PROVE  /\ bindings'[d].user \in Users /\ users'[bindings'[d].user].state # "absent"
                 /\ bindings'[d].connection \in Connections /\ bindings'[d].external \in Externals
                 /\ bindings'[d].owns => creator'[bindings'[d].user] = bindings'[d].connection
      BY <2>3, <3>1, <3>2, <3>3
    <3>4. /\ bindings'[b].user \in Users /\ users'[bindings'[b].user].state # "absent"
          /\ bindings'[b].connection \in Connections /\ bindings'[b].external \in Externals
          /\ bindings'[b].owns => creator'[bindings'[b].user] = bindings'[b].connection
      BY <1>1, <1>6, <1>7, <2>1, <2>3
    <3> QED
      BY <3>3, <3>4 DEF BindingsOK
  <2>9. DeletionsOK' /\ AccountHoldersKept'
    BY <1>3, <1>5, <1>7, <2>1, <2>3 DEF DeletionsOK, AccountHoldersKept, Scim!Deletion
  <2> QED
    BY <2>5, <2>6, <2>7, <2>8, <2>9 DEF ScimInv
<1>8. ASSUME req[r].user # None, Scim!Provision(r, req[r].user, b, FALSE),
             UNCHANGED <<users, creator>>
      PROVE  ScimInv'
  <2>1. req[r].user \in Users /\ users[req[r].user].state # "absent"
    BY <1>1, <1>8
  <2>2. ScimFrame
    <3>1. \A d \in BindingIds : bindings[d].state # "free" => bindings'[d] = bindings[d]
      BY <1>4, <1>6, <1>8, <2>1
    <3> QED
      BY <1>8, <3>1 DEF ScimFrame
  <2>3. req' \in [Requests -> Scim!Request] /\ \A q \in Requests : ProvisioningOK(req[q])'
    BY <1>3, <2>2, ScimIdle, ProvisioningKeeps
  <2>4. Scim!TypeOK'
    BY <1>3, <1>6, <1>8, <2>1, <2>3 DEF ScimInv, Scim!TypeOK
  <2>5. BindingsOK'
    <3>1. /\ bindings'[b].user \in Users /\ users[bindings'[b].user].state # "absent"
          /\ bindings'[b].connection \in Connections /\ bindings'[b].external \in Externals
          /\ ~bindings'[b].owns
      BY <1>1, <1>6, <1>8, <2>1
    <3>2. \A d \in BindingIds \ {b} : bindings'[d] = bindings[d]
      BY <1>6, <1>8, <2>1
    <3>3. BindingsOK
      BY DEF ScimInv
    <3> QED
      BY <1>8, <3>1, <3>2, <3>3 DEF BindingsOK
  <2>6. UsersOK' /\ DeletionsOK' /\ AccountHoldersKept'
    BY <1>3, <1>8 DEF ScimInv, UsersOK, DeletionsOK, AccountHoldersKept
  <2> QED
    BY <2>3, <2>4, <2>5, <2>6 DEF ScimInv
<1>9. CASE UNCHANGED <<users, bindings, members, creator>>
  <2>1. UNCHANGED <<scenario, Scim!tables, Scim!history>>
    BY <1>3, <1>9 DEF Scim!tables, Scim!history
  <2> QED
    BY <1>3, <2>1, ScimIdle, ReadingKeeps DEF ScimInv, Scim!TypeOK
<1> QED
  BY <1>4, <1>7, <1>8, <1>9

\* updateUser writes address and external id; the binding keeps what it ties.
LEMMA UpdateUserKeeps ==
    ASSUME ScimSetting, ScimInv, NEW r \in Requests, Scim!UpdateUser(r)
    PROVE  ScimInv'
<1> DEFINE u == req[r].user
           b == req[r].binding
           input == req[r].input
<1>1. /\ req[r] \in Scim!Request /\ input \in Scim!Input
      /\ u \in Users /\ b \in BindingIds
  BY DEF ScimInv, Scim!TypeOK, Scim!UpdateUser, ProvisioningOK
<1>2. input.email \in Emails /\ input.external \in Externals
      /\ input.active \in BOOLEAN \cup {None} /\ req[r].row.disabled \in BOOLEAN
  BY <1>1 DEF Scim!Input, Scim!Request, Scim!UserRow
<1>3. /\ Scim!Step(r, Scim!Idle)
      /\ UNCHANGED <<scenario, connections, rows, members, accounts, creator, deletions>>
  BY DEF Scim!UpdateUser, Scim!Finish, Scim!directory, Scim!history
<1>4. Scim!Disables(r) \in BOOLEAN
  BY <1>2 DEF Scim!Disables
<1>5. \/ users' = users
      \/ Scim!Present(u) /\ users' = [users EXCEPT ![u].email = input.email,
                                                   ![u].disabled = Scim!Disables(r)]
  BY DEF Scim!UpdateUser
<1>6. \/ bindings' = bindings
      \/ Scim!Stored(b) /\ bindings' = [bindings EXCEPT ![b].external = input.external]
  BY DEF Scim!UpdateUser
<1>7. sessions' \subseteq Users
  BY DEF Scim!UpdateUser, ScimInv, Scim!TypeOK
<1>8. /\ users' \in [Users -> Scim!UserRow]
      /\ \A v \in Users : /\ users'[v].state = users[v].state
                          /\ users'[v].email \in {users[v].email, input.email}
  <2>1. users \in [Users -> Scim!UserRow]
    BY DEF ScimInv, Scim!TypeOK
  <2>2. CASE users' = users
    BY <2>1, <2>2
  <2>3. CASE users' = [users EXCEPT ![u].email = input.email, ![u].disabled = Scim!Disables(r)]
    BY <1>1, <1>2, <1>4, <2>1, <2>3 DEF Scim!UserRow
  <2> QED
    BY <1>5, <2>2, <2>3
<1>9. /\ bindings' \in [BindingIds -> Scim!BindingRow]
      /\ \A d \in BindingIds :
           /\ bindings'[d].state = bindings[d].state /\ bindings'[d].owns = bindings[d].owns
           /\ bindings'[d].user = bindings[d].user
           /\ bindings'[d].connection = bindings[d].connection
           /\ bindings'[d].external \in {bindings[d].external, input.external}
  <2>1. bindings \in [BindingIds -> Scim!BindingRow]
    BY DEF ScimInv, Scim!TypeOK
  <2>2. CASE bindings' = bindings
    BY <2>1, <2>2
  <2>3. CASE bindings' = [bindings EXCEPT ![b].external = input.external]
    BY <1>1, <1>2, <2>1, <2>3 DEF Scim!BindingRow
  <2> QED
    BY <1>6, <2>2, <2>3
<1>10. ScimFrame
  BY <1>3, <1>8, <1>9 DEF ScimFrame
<1>11. req' \in [Requests -> Scim!Request] /\ \A q \in Requests : ProvisioningOK(req[q])'
  BY <1>3, <1>10, ScimIdle, ProvisioningKeeps
<1>12. Scim!TypeOK'
  BY <1>3, <1>7, <1>8, <1>9, <1>11 DEF ScimInv, Scim!TypeOK
<1>13. UsersOK'
  BY <1>2, <1>8 DEF ScimInv, UsersOK
<1>14. BindingsOK'
  BY <1>2, <1>3, <1>8, <1>9 DEF ScimInv, BindingsOK
<1>15. DeletionsOK' /\ AccountHoldersKept'
  BY <1>3, <1>8 DEF ScimInv, DeletionsOK, AccountHoldersKept, Scim!TypeOK, Scim!Deletion
<1> QED
  BY <1>11, <1>12, <1>13, <1>14, <1>15 DEF ScimInv

\* Removing bindings keeps the rows' contents.
LEMMA RemovedRows ==
    ASSUME ScimInv, NEW bs, Scim!Removed(bs)
    PROVE  /\ bindings' \in [BindingIds -> Scim!BindingRow]
           /\ \A d \in BindingIds :
                /\ bindings[d].state # "free" => bindings'[d].state # "free"
                /\ bindings'[d].state # "free" => bindings[d].state # "free" \/ d \in bs
                /\ bindings'[d].owns = bindings[d].owns /\ bindings'[d].user = bindings[d].user
                /\ bindings'[d].connection = bindings[d].connection
                /\ bindings'[d].external = bindings[d].external
<1>1. \A d \in BindingIds : bindings[d] \in Scim!BindingRow
  BY DEF ScimInv, Scim!TypeOK
<1>2. ASSUME NEW row \in Scim!BindingRow
      PROVE  /\ [row EXCEPT !.state = "gone"] \in Scim!BindingRow
             /\ [row EXCEPT !.state = "gone"].state = "gone"
             /\ [row EXCEPT !.state = "gone"].owns = row.owns
             /\ [row EXCEPT !.state = "gone"].user = row.user
             /\ [row EXCEPT !.state = "gone"].connection = row.connection
             /\ [row EXCEPT !.state = "gone"].external = row.external
  BY DEF Scim!BindingRow
<1>3. \A d \in BindingIds :
        bindings'[d] = IF d \in bs THEN [bindings[d] EXCEPT !.state = "gone"] ELSE bindings[d]
  BY DEF Scim!Removed
<1>4. DOMAIN bindings' = BindingIds /\ bindings' = [d \in BindingIds |-> bindings'[d]]
  BY DEF Scim!Removed
<1>5. \A d \in BindingIds : bindings'[d] \in Scim!BindingRow
  BY <1>1, <1>2, <1>3
<1>6. bindings' \in [BindingIds -> Scim!BindingRow]
  BY <1>4, <1>5
<1>7. \A d \in BindingIds \cap bs :
        /\ bindings'[d].state = "gone"
        /\ bindings'[d].owns = bindings[d].owns /\ bindings'[d].user = bindings[d].user
        /\ bindings'[d].connection = bindings[d].connection
        /\ bindings'[d].external = bindings[d].external
  <2> SUFFICES ASSUME NEW d \in BindingIds, d \in bs
               PROVE  /\ bindings'[d].state = "gone"
                      /\ bindings'[d].owns = bindings[d].owns /\ bindings'[d].user = bindings[d].user
                      /\ bindings'[d].connection = bindings[d].connection
                      /\ bindings'[d].external = bindings[d].external
    OBVIOUS
  <2>1. bindings[d] \in Scim!BindingRow /\ bindings'[d] = [bindings[d] EXCEPT !.state = "gone"]
    BY <1>1, <1>3
  <2> QED
    BY <1>2, <2>1
<1>8. \A d \in BindingIds \ bs : bindings'[d] = bindings[d]
  BY <1>3
<1> QED
  BY <1>6, <1>7, <1>8

\* deleteUser.  The binding that the request has read, if it owns the user, was made
\* by the connection that created the user; the accounts are counted in the
\* transaction.
LEMMA DeleteUserKeeps ==
    ASSUME ScimSetting, ScimInv, NEW r \in Requests, Scim!DeleteUser(r)
    PROVE  ScimInv'
<1> DEFINE c == req[r].connection
           u == req[r].user
           b == req[r].binding
<1>1. /\ c \in Connections /\ u \in Users /\ b \in BindingIds
      /\ bindings[b].state # "free" /\ bindings[b].connection = c /\ bindings[b].user = u
  BY DEF ScimInv, Scim!DeleteUser, ProvisioningOK
<1>2. /\ Scim!Step(r, Scim!Idle)
      /\ UNCHANGED <<scenario, connections, rows, accounts, creator>>
  BY DEF Scim!DeleteUser, Scim!Finish, Scim!directory
<1>3. /\ users[u].state # "absent"
      /\ bindings[b].owns => creator[u] = c
  BY <1>1 DEF ScimInv, BindingsOK
<1>4. PICK bs : Scim!Removed(bs) /\ \A d \in bs : bindings[d].state = "stored"
  BY DEF Scim!DeleteUser, Scim!BindingsIn, Scim!BindingsOf, Scim!Stored
<1>5. /\ bindings' \in [BindingIds -> Scim!BindingRow]
      /\ \A d \in BindingIds :
           /\ (bindings'[d].state # "free") <=> (bindings[d].state # "free")
           /\ bindings'[d].owns = bindings[d].owns /\ bindings'[d].user = bindings[d].user
           /\ bindings'[d].connection = bindings[d].connection
           /\ bindings'[d].external = bindings[d].external
  BY <1>4, RemovedRows
<1>6. members' \subseteq Users /\ sessions' \subseteq Users
  BY DEF Scim!DeleteUser, ScimInv, Scim!TypeOK
<1>7. \/ users' = users
      \/ users' = [users EXCEPT ![u].state = "gone"]
  BY DEF Scim!DeleteUser
<1>8. /\ users' \in [Users -> Scim!UserRow]
      /\ \A v \in Users : /\ users'[v].state \in {users[v].state, "gone"}
                          /\ users'[v].email = users[v].email
  <2>1. users \in [Users -> Scim!UserRow]
    BY DEF ScimInv, Scim!TypeOK
  <2>2. CASE users' = users
    BY <2>1, <2>2
  <2>3. CASE users' = [users EXCEPT ![u].state = "gone"]
    BY <1>1, <2>1, <2>3 DEF Scim!UserRow
  <2> QED
    BY <1>7, <2>2, <2>3
<1>9. \/ deletions' = deletions
      \/ /\ c \notin OrgConnections /\ bindings[b].owns /\ u \notin accounts
         /\ deletions' = deletions \cup {[user |-> u, by |-> c, account |-> u \in accounts]}
  BY DEF Scim!DeleteUser, Scim!SoleIdentity
<1>10. /\ deletions' \subseteq Scim!Deletion /\ DeletionsOK' /\ AccountHoldersKept'
  <2>1. deletions \subseteq Scim!Deletion /\ DeletionsOK /\ AccountHoldersKept
    BY DEF ScimInv, Scim!TypeOK
  <2>2. \A d \in deletions : d.user \in Users
    BY <2>1 DEF Scim!Deletion
  <2>3. CASE deletions' = deletions
    BY <1>2, <1>8, <2>1, <2>2, <2>3 DEF DeletionsOK, AccountHoldersKept
  <2>4. CASE c \notin OrgConnections /\ bindings[b].owns /\ u \notin accounts
             /\ deletions' = deletions \cup {[user |-> u, by |-> c, account |-> u \in accounts]}
    <3> DEFINE new == [user |-> u, by |-> c, account |-> u \in accounts]
    <3>1. (u \in accounts) = FALSE
      BY <2>4
    <3>2. new \in Scim!Deletion /\ new.user = u /\ new.by = c /\ ~new.account
      BY <1>1, <3>1 DEF Scim!Deletion
    <3>3. deletions' = deletions \cup {new}
      BY <2>4
    <3> HIDE DEF new
    <3>4. DeletionsOK'
      BY <1>1, <1>3, <1>8, <2>1, <2>2, <3>2, <3>3 DEF DeletionsOK
    <3>5. AccountHoldersKept'
      BY <1>2, <1>3, <2>1, <2>4, <3>2, <3>3 DEF AccountHoldersKept
    <3> QED
      BY <2>1, <3>2, <3>3, <3>4, <3>5
  <2> QED
    BY <1>9, <2>3, <2>4
<1>11. ScimFrame
  BY <1>2, <1>5, <1>8 DEF ScimFrame
<1>12. req' \in [Requests -> Scim!Request] /\ \A q \in Requests : ProvisioningOK(req[q])'
  BY <1>2, <1>11, ScimIdle, ProvisioningKeeps
<1>13. Scim!TypeOK'
  BY <1>2, <1>5, <1>6, <1>8, <1>10, <1>12 DEF ScimInv, Scim!TypeOK
<1>14. UsersOK'
  BY <1>8 DEF ScimInv, UsersOK
<1>15. BindingsOK'
  BY <1>2, <1>5, <1>8 DEF ScimInv, BindingsOK
<1> QED
  BY <1>10, <1>12, <1>13, <1>14, <1>15 DEF ScimInv

-----------------------------------------------------------------------------
(* SCIM: the rest of the server                                            *)

LEMMA CoreKeeps ==
    ASSUME ScimInv, NEW u \in Users,
           Scim!SignIn(u) \/ Scim!CoreDeleteUser(u) \/ Scim!LeaveOrganization(u)
    PROVE  ScimInv'
<1>1. CASE Scim!SignIn(u) \/ Scim!LeaveOrganization(u)
  <2>1. UNCHANGED <<scenario, connections, rows, users, bindings, req, creator, deletions>>
    BY <1>1 DEF Scim!SignIn, Scim!LeaveOrganization, Scim!directory, Scim!history
  <2>2. members' \subseteq Users /\ accounts' \subseteq Users /\ sessions' \subseteq Users
    BY <1>1 DEF Scim!SignIn, Scim!LeaveOrganization, ScimInv, Scim!TypeOK
  <2> QED
    BY <2>1, <2>2, OthersKeep
<1>2. CASE Scim!CoreDeleteUser(u)
  <2>1. UNCHANGED <<scenario, connections, rows, bindings, members, req, creator, deletions>>
    BY <1>2 DEF Scim!CoreDeleteUser, Scim!directory, Scim!history
  <2>2. users \in [Users -> Scim!UserRow] /\ users' = [users EXCEPT ![u].state = "gone"]
        /\ accounts' \subseteq Users /\ sessions' \subseteq Users
    BY <1>2 DEF Scim!CoreDeleteUser, ScimInv, Scim!TypeOK
  <2>3. /\ users' \in [Users -> Scim!UserRow]
        /\ \A v \in Users : /\ users'[v].state \in {users[v].state, "gone"}
                            /\ users'[v].email = users[v].email
    BY <2>2 DEF Scim!UserRow
  <2>4. Scim!TypeOK'
    BY <2>1, <2>2, <2>3 DEF ScimInv, Scim!TypeOK
  <2>5. UsersOK' /\ BindingsOK'
    BY <2>1, <2>3 DEF ScimInv, UsersOK, BindingsOK
  <2>6. DeletionsOK' /\ AccountHoldersKept'
    BY <2>1, <2>3 DEF ScimInv, DeletionsOK, AccountHoldersKept, Scim!TypeOK, Scim!Deletion
  <2>7. \A q \in Requests : ProvisioningOK(req[q])'
    <3>1. \A q \in Requests : req[q].user # None => req[q].user \in Users
      BY DEF ScimInv, Scim!TypeOK, Scim!Request
    <3> QED
      BY <2>1, <2>3, <3>1 DEF ScimInv, ProvisioningOK
  <2> QED
    BY <2>4, <2>5, <2>6, <2>7 DEF ScimInv
<1> QED
  BY <1>1, <1>2

-----------------------------------------------------------------------------
(* SCIM: theorem                                                           *)

LEMMA ScimInitInv == ASSUME ScimSetting PROVE Scim!Init => ScimInv
<1> SUFFICES ASSUME Scim!Init PROVE ScimInv
  OBVIOUS
<1>1. /\ connections \in [Connections -> 0..MaxRows] /\ rows \in 0..MaxRows
      /\ users \in [Users -> Scim!UserRow] /\ UsersOK
  BY DEF Scim!Init, ScimSetting, Scim!ScenarioOK, UsersOK
<1>2. \A b \in BindingIds : bindings[b] = Scim!NoBinding
  BY DEF Scim!Init
<1>3. \A r \in Requests : req[r] = Scim!Idle
  BY DEF Scim!Init
<1>4. Scim!TypeOK
  BY <1>1, ScimIdle DEF Scim!Init, Scim!TypeOK
<1>5. BindingsOK
  BY <1>2, ScimIdle DEF BindingsOK
<1>6. DeletionsOK /\ AccountHoldersKept
  BY DEF Scim!Init, DeletionsOK, AccountHoldersKept
<1>7. \A r \in Requests : ProvisioningOK(req[r])
  BY <1>3, ScimIdle
<1> QED
  BY <1>1, <1>4, <1>5, <1>6, <1>7 DEF ScimInv

LEMMA ScimNextKeeps == ASSUME ScimSetting PROVE ScimInv /\ [Scim!Next]_(Scim!vars) => ScimInv'
<1> SUFFICES ASSUME ScimInv, [Scim!Next]_(Scim!vars) PROVE ScimInv'
  OBVIOUS
<1>1. scenario.inputs \subseteq Scim!Input
  BY DEF ScimSetting, Scim!ScenarioOK, ScimInv, Scim!TypeOK
<1>2. CASE UNCHANGED Scim!vars
  <2>1. UNCHANGED <<scenario, connections, rows, users, bindings, members, accounts, sessions,
                    req, creator, deletions>>
    BY <1>2 DEF Scim!vars, Scim!directory, Scim!tables, Scim!history
  <2> QED
    BY <2>1, OthersKeep DEF ScimInv, Scim!TypeOK
<1>3. ASSUME NEW r \in Requests, NEW c \in Connections,
             Scim!BeginGenerateToken(r, c) \/ Scim!BeginDeleteConnection(r, c)
      PROVE  ScimInv'
  BY <1>3, TokenKeeps
<1>4. ASSUME NEW r \in Requests, NEW c \in Connections, NEW i \in scenario.inputs,
             Scim!BeginCreateUser(r, c, i)
      PROVE  ScimInv'
  BY <1>1, <1>4, BeginCreateKeeps
<1>5. ASSUME NEW r \in Requests, NEW c \in Connections, NEW u \in Users,
             \/ \E change \in scenario.changes : Scim!BeginPatchUser(r, c, u, change)
             \/ Scim!BeginDeleteUser(r, c, u)
      PROVE  ScimInv'
  BY <1>5, BeginPatchKeeps, BeginDeleteKeeps
<1>6. ASSUME NEW r \in Requests, NEW c \in Connections, NEW u \in Users,
             NEW i \in scenario.inputs, Scim!BeginReplaceUser(r, c, u, i)
      PROVE  ScimInv'
  BY <1>1, <1>6, FindKeeps DEF Scim!BeginReplaceUser
<1>7. ASSUME NEW r \in Requests,
             \/ Scim!GenerateToken(r) \/ Scim!DeleteConnection(r) \/ Scim!CreateUser(r)
             \/ Scim!FindManagedUser(r) \/ Scim!UpdateUser(r) \/ Scim!DeleteUser(r)
      PROVE  ScimInv'
  BY <1>7, ConnectionKeeps, CreateUserKeeps, FindManagedKeeps, UpdateUserKeeps, DeleteUserKeeps
<1>8. ASSUME NEW u \in Users,
             Scim!SignIn(u) \/ Scim!CoreDeleteUser(u) \/ Scim!LeaveOrganization(u)
      PROVE  ScimInv'
  BY <1>8, CoreKeeps
<1> QED
  BY <1>2, <1>3, <1>4, <1>5, <1>6, <1>7, <1>8 DEF Scim!Next

\* Deprovisioning deletes a user only through the personal connection that created
\* it, and never one with an authentication account: owning bindings are made once,
\* with their user, and the accounts are counted in the transaction (deleteUser).
THEOREM DeprovisioningKeepsAccountHolders ==
    ASSUME ScimSetting PROVE Scim!Spec => []AccountHoldersKept
<1>1. Scim!Init => ScimInv
  BY ScimInitInv
<1>2. ScimInv /\ [Scim!Next]_(Scim!vars) => ScimInv'
  BY ScimNextKeeps
<1>3. ScimInv => AccountHoldersKept
  BY DEF ScimInv
<1> QED
  BY <1>1, <1>2, <1>3, PTL DEF Scim!Spec

=============================================================================

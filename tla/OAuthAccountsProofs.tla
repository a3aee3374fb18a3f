------------------------ MODULE OAuthAccountsProofs -------------------------
(***************************************************************************)
(* Proofs of the safety properties of OAuthAccounts for any number of      *)
(* users, identities, providers, accounts, states and concurrent requests, *)
(* and for every setting of the linking options.                           *)
(***************************************************************************)
EXTENDS OAuthAccounts, FiniteSetTheorems, TLAPS

-----------------------------------------------------------------------------
(* The inductive invariant                                                 *)

\* Tokens are numbered without gaps, so the next number was never issued.
TokensNumbered == \E k \in 0..MaxTokens : Issued = 1..k

\* Token n was issued to the person that identity i names.
Belongs(n, i) == n \in Issued /\ i \in Identities /\ SamePerson(grantee[n], i)

\* A social account, present or unlinked, has a token of its identity; a
\* credential account has none.
RowOK(a) ==
    accounts[a].state # "free" =>
        IF accounts[a].identity = None THEN accounts[a].token = 0
        ELSE Belongs(accounts[a].token, accounts[a].identity)

\* What a request in flight holds: a callback the token of the profile it got, a
\* link its starter, and a token request a token of the row it has read.
RequestOK(q) ==
    /\ q.step = "consume" => q.oauthState \in OAuthStates
    /\ q.step \in {"session", "link", "upsert"} => q.identity # None /\ Belongs(q.token, q.identity)
    /\ q.step = "link" => q.user \in Users /\ q.user = q.linkUser
    /\ q.step \in {"refresh", "store"} =>
         /\ q.account \in AccountIds /\ accounts[q.account].state # "free"
         /\ accounts[q.account].identity # None
         /\ Belongs(q.token, accounts[q.account].identity)

Inv ==
    /\ TypeOK
    /\ TokensNumbered
    /\ \A a \in AccountIds : RowOK(a)
    /\ \A r \in Requests : RequestOK(req[r])
    /\ LinkedByStarter
    /\ ImplicitLinkProved
    /\ VerifiedByEvidence

-----------------------------------------------------------------------------
(* Identities and values                                                   *)

LEMMA SamePersonTransitive ==
    ASSUME NEW i \in Identities, NEW j \in Identities, NEW k \in Identities,
           SamePerson(i, j), SamePerson(j, k)
    PROVE  SamePerson(i, k)
BY OAuthAccountsAssumption DEF SamePerson

LEMMA IdleType == Idle \in Request /\ Idle.step = "idle"
BY OAuthAccountsAssumption DEF Idle, Request

LEMMA IdleOK == RequestOK(Idle)'
BY IdleType DEF RequestOK

LEMMA FreeType == FreeAccount \in AccountRow /\ NoUser \in UserRow
BY DEF AccountRow, UserRow

LEMMA GotProfile ==
    ASSUME NEW q \in Request, NEW i \in Identities, NEW k \in 0..MaxTokens, NEW v \in BOOLEAN,
           NEW st \in {"session", "upsert"}
    PROVE  [q EXCEPT !.identity = i, !.token = k, !.verified = v, !.step = st] \in Request
BY DEF Request

LEMMA RefreshedType ==
    ASSUME NEW q \in Request, NEW k \in 0..MaxTokens
    PROVE  [q EXCEPT !.token = k, !.step = "store"] \in Request
BY DEF Request

LEMMA UserRowType ==
    ASSUME NEW e \in Emails, NEW v \in BOOLEAN
    PROVE  [state |-> "present", email |-> e, verified |-> v] \in UserRow
BY DEF UserRow

LEMMA VerifiedRowType ==
    ASSUME NEW old \in [state: {"present"}, email: Emails, verified: BOOLEAN], NEW v \in BOOLEAN
    PROVE  /\ [old EXCEPT !.verified = v] \in UserRow
           /\ [old EXCEPT !.verified = v].email = old.email
BY DEF UserRow

LEMMA MovedRowType ==
    ASSUME NEW old \in [state: {"present"}, email: Emails, verified: BOOLEAN], NEW v \in BOOLEAN,
           NEW e \in Emails
    PROVE  /\ [old EXCEPT !.email = e, !.verified = v] \in UserRow
           /\ [old EXCEPT !.email = e, !.verified = v].email = e
           /\ [old EXCEPT !.email = e, !.verified = v].verified = v
BY DEF UserRow

LEMMA AccountRowType ==
    ASSUME NEW u \in Users, NEW i \in Identities \cup {None}, NEW k \in 0..MaxTokens,
           NEW via \in {"sign-up", "implicit", "link"}, NEW s \in Users \cup {None},
           NEW own \in BOOLEAN
    PROVE  [state |-> "present", user |-> u, identity |-> i, token |-> k, via |-> via,
            starter |-> s, owned |-> own] \in AccountRow
BY DEF AccountRow

\* A row that was drawn is a full row.
LEMMA DrawnRow ==
    ASSUME TypeOK, NEW a \in AccountIds, accounts[a].state # "free"
    PROVE  /\ accounts[a].state \in {"present", "gone"}
           /\ accounts[a].user \in Users /\ accounts[a].identity \in Identities \cup {None}
           /\ accounts[a].token \in 0..MaxTokens
           /\ accounts[a] \in [state: {"present", "gone"}, user: Users,
                 identity: Identities \cup {None}, token: 0..MaxTokens,
                 via: {"sign-up", "implicit", "link"}, starter: Users \cup {None}, owned: BOOLEAN]
BY DEF TypeOK, AccountRow, FreeAccount

\* A user who is present has a full row.
LEMMA PresentUser ==
    ASSUME TypeOK, NEW u \in Users, Present(u)
    PROVE  users[u] \in [state: {"present"}, email: Emails, verified: BOOLEAN]
BY DEF TypeOK, UserRow, NoUser, Present

LEMMA NewIdFree ==
    ASSUME NEW a \in NewIds
    PROVE  a \in AccountIds /\ accounts[a].state = "free"
<1>1. Drawn \subseteq AccountIds /\ Drawn # AccountIds /\ a = CHOOSE x \in AccountIds : x \notin Drawn
  BY DEF NewIds, Drawn
<1>2. a \in AccountIds /\ a \notin Drawn
  BY <1>1
<1> QED
  BY <1>2 DEF Drawn

\* The next token number is unused.
LEMMA NextTokenFresh ==
    ASSUME Inv, NextToken <= MaxTokens
    PROVE  /\ NextToken \in 1..MaxTokens /\ NextToken \notin Issued
           /\ Issued \cup {NextToken} = 1..NextToken
<1>1. PICK k \in 0..MaxTokens : Issued = 1..k
  BY DEF Inv, TokensNumbered
<1>2. k \in Nat /\ MaxTokens \in Nat
  BY OAuthAccountsAssumption
<1>3. Cardinality(1..k) = k
  <2>1. Cardinality(1..k) = IF 1 > k THEN 0 ELSE k - 1 + 1
    BY <1>2, FS_Interval
  <2> QED
    BY <1>2, <2>1
<1>4. NextToken = k + 1
  BY <1>1, <1>3 DEF NextToken
<1> QED
  BY <1>1, <1>2, <1>4

-----------------------------------------------------------------------------
(* Frames                                                                  *)

\* What a step may do to a row that was drawn: give it new tokens, re-key it to
\* another id of the same person, or unlink it.
Kept(o, n) ==
    /\ n.state # "free" /\ n.user = o.user
    /\ n.via = o.via /\ n.starter = o.starter /\ n.owned = o.owned
    /\ o.identity = None => n.identity = None
    /\ o.identity # None => n.identity \in Identities /\ SamePerson(o.identity, n.identity)

RowsKept == \A a \in AccountIds : accounts[a].state # "free" => Kept(accounts[a], accounts'[a])

TokensKept == \A n \in Issued : n \in Issued' /\ grantee'[n] = grantee[n]

LEMMA RowsStay ==
    ASSUME TypeOK, UNCHANGED accounts
    PROVE  RowsKept
BY DrawnRow DEF RowsKept, Kept, SamePerson

LEMMA TokensStay ==
    ASSUME UNCHANGED grantee
    PROVE  TokensKept /\ Issued' = Issued
BY DEF TokensKept, Issued

LEMMA IssuedIdentity ==
    ASSUME TypeOK, NEW n \in Issued
    PROVE  grantee[n] \in Identities /\ n \in 1..MaxTokens
BY DEF TypeOK, Issued

LEMMA BelongsStays ==
    ASSUME TokensKept, NEW n, NEW i, Belongs(n, i)
    PROVE  Belongs(n, i)'
BY DEF TokensKept, Belongs, SamePerson

\* A request that is not served goes on holding what it held.
LEMMA RequestStays ==
    ASSUME TypeOK, TokensKept, RowsKept, NEW q, RequestOK(q)
    PROVE  RequestOK(q)'
<1>1. q.step \in {"session", "link", "upsert"} => Belongs(q.token, q.identity)'
  BY BelongsStays DEF RequestOK
<1>2. ASSUME q.step \in {"refresh", "store"}
      PROVE  /\ accounts'[q.account].state # "free" /\ accounts'[q.account].identity # None
             /\ Belongs(q.token, accounts[q.account].identity)'
  <2> DEFINE i == accounts[q.account].identity
             j == accounts'[q.account].identity
  <2>1. /\ q.account \in AccountIds /\ accounts[q.account].state # "free" /\ i # None
        /\ Belongs(q.token, i)
    BY <1>2 DEF RequestOK
  <2>2. /\ accounts'[q.account].state # "free" /\ j \in Identities /\ i \in Identities
        /\ SamePerson(i, j)
    BY <2>1, DrawnRow DEF RowsKept, Kept
  <2>3. q.token \in Issued' /\ grantee'[q.token] = grantee[q.token]
        /\ grantee[q.token] \in Identities /\ SamePerson(grantee[q.token], i)
    BY <2>1, IssuedIdentity DEF TokensKept, Belongs
  <2>4. SamePerson(grantee[q.token], j)
    BY <2>2, <2>3, SamePersonTransitive
  <2>5. j # None
    BY <2>2, OAuthAccountsAssumption
  <2> QED
    BY <2>2, <2>3, <2>4, <2>5 DEF Belongs, SamePerson
<1> QED
  BY <1>1, <1>2 DEF RequestOK

\* Request r becomes n, the others stay.
LEMMA RequestsStep ==
    ASSUME Inv, TokensKept, RowsKept, NEW r \in Requests, NEW n \in Request,
           req' = [req EXCEPT ![r] = n], RequestOK(n)'
    PROVE  req' \in [Requests -> Request] /\ \A q \in Requests : RequestOK(req[q])'
<1>1. /\ req' \in [Requests -> Request] /\ req'[r] = n
      /\ \A q \in Requests \ {r} : req'[q] = req[q]
  BY DEF Inv, TypeOK
<1>2. ASSUME NEW q \in Requests PROVE RequestOK(req[q])'
  <2>1. CASE q = r
    BY <1>1, <2>1 DEF RequestOK
  <2>2. CASE q # r
    <3>1. RequestOK(req[q]) /\ req'[q] = req[q]
      BY <1>1, <2>2 DEF Inv
    <3>2. \A x : RequestOK(x) => RequestOK(x)'
      BY RequestStays DEF Inv
    <3> QED
      BY <3>1, <3>2
  <2> QED
    BY <2>1, <2>2
<1> QED
  BY <1>1, <1>2

\* A step that answers or advances one request, and changes no user or account.
LEMMA RequestOnly ==
    ASSUME Inv, UNCHANGED <<endpoints, users, accounts, history>>,
           oauthStates' \in [OAuthStates -> StateRow],
           NEW r \in Requests, NEW n \in Request, req' = [req EXCEPT ![r] = n], RequestOK(n)'
    PROVE  Inv'
<1>1. TokensKept /\ RowsKept /\ Issued' = Issued
  BY RowsStay, TokensStay DEF Inv, history
<1>2. req' \in [Requests -> Request] /\ \A q \in Requests : RequestOK(req[q])'
  BY <1>1, RequestsStep
<1>3. TypeOK' /\ TokensNumbered'
  BY <1>1, <1>2 DEF Inv, TypeOK, TokensNumbered, history
<1>4. \A a \in AccountIds : RowOK(a)'
  BY <1>1 DEF Inv, RowOK, Belongs, SamePerson, history
<1>5. LinkedByStarter' /\ ImplicitLinkProved' /\ VerifiedByEvidence'
  BY DEF Inv, LinkedByStarter, ImplicitLinkProved, VerifiedByEvidence, Drawn, history
<1> QED
  BY <1>2, <1>3, <1>4, <1>5 DEF Inv

LEMMA FinishOnly ==
    ASSUME Inv, UNCHANGED <<endpoints, users, accounts, history>>,
           oauthStates' \in [OAuthStates -> StateRow], NEW r \in Requests, Finish(r)
    PROVE  Inv'
BY RequestOnly, IdleType, IdleOK DEF Finish


\* The account table: rows that were drawn are kept, and a new row is as the
\* invariant wants it.
NewOK(row) ==
    /\ row.state # "free" /\ row.via = "link" => row.user = row.starter
    /\ row.state # "free" /\ RequireLocalEmailVerified /\ row.via = "implicit" => row.owned

LEMMA RowsStep ==
    ASSUME Inv, NEW table \in [AccountIds -> AccountRow], accounts' = table,
           \A a \in AccountIds :
              IF accounts[a].state = "free" THEN NewOK(table[a]) ELSE Kept(accounts[a], table[a])
    PROVE  /\ accounts' \in [AccountIds -> AccountRow] /\ RowsKept
           /\ LinkedByStarter' /\ ImplicitLinkProved'
<1>1. RowsKept
  BY DEF RowsKept
<1>2. ASSUME NEW a \in AccountIds, table[a].state # "free"
      PROVE  /\ table[a].via = "link" => table[a].user = table[a].starter
             /\ RequireLocalEmailVerified /\ table[a].via = "implicit" => table[a].owned
  <2>1. CASE accounts[a].state = "free"
    BY <1>2, <2>1 DEF NewOK
  <2>2. CASE accounts[a].state # "free"
    BY <1>2, <2>2 DEF Kept, Inv, LinkedByStarter, ImplicitLinkProved, Drawn
  <2> QED
    BY <2>1, <2>2
<1> QED
  BY <1>1, <1>2 DEF LinkedByStarter, ImplicitLinkProved, Drawn

\* One row changes.
LEMMA RowStep ==
    ASSUME Inv, UNCHANGED grantee, NEW a \in AccountIds, NEW row \in AccountRow,
           accounts' = [accounts EXCEPT ![a] = row], row.state # "free",
           IF row.identity = None THEN row.token = 0 ELSE Belongs(row.token, row.identity),
           IF accounts[a].state = "free" THEN NewOK(row) ELSE Kept(accounts[a], row)
    PROVE  /\ accounts' \in [AccountIds -> AccountRow] /\ RowsKept
           /\ LinkedByStarter' /\ ImplicitLinkProved'
           /\ \A b \in AccountIds : RowOK(b)'
<1>1. PICK table \in [AccountIds -> AccountRow] : table = accounts'
  BY DEF Inv, TypeOK
<1>2. table[a] = row /\ \A b \in AccountIds \ {a} : table[b] = accounts[b]
  BY <1>1 DEF Inv, TypeOK
<1>3. ASSUME NEW b \in AccountIds \ {a}
      PROVE  IF accounts[b].state = "free" THEN NewOK(table[b]) ELSE Kept(accounts[b], table[b])
  BY <1>2, DrawnRow DEF NewOK, Kept, SamePerson, Inv
<1>4. \A b \in AccountIds :
        IF accounts[b].state = "free" THEN NewOK(table[b]) ELSE Kept(accounts[b], table[b])
  BY <1>2, <1>3
<1>5. \A b \in AccountIds : RowOK(b)'
  <2>1. \A n, i : Belongs(n, i) => Belongs(n, i)'
    BY TokensStay, BelongsStays
  <2> QED
    BY <1>1, <1>2, <2>1 DEF Inv, RowOK
<1> QED
  BY <1>1, <1>4, <1>5, RowsStep

\* A step on users and accounts that answers at most one request.
LEMMA TablesStep ==
    ASSUME Inv, UNCHANGED <<endpoints, oauthStates, grantee>>,
           users' \in [Users -> UserRow], proved' \subseteq Users \X Emails,
           accounts' \in [AccountIds -> AccountRow], RowsKept,
           LinkedByStarter', ImplicitLinkProved', VerifiedByEvidence',
           \A a \in AccountIds : RowOK(a)',
           (\E r \in Requests : Finish(r)) \/ UNCHANGED req
    PROVE  Inv'
<1>1. TokensKept /\ Issued' = Issued
  BY TokensStay
<1>2. req' \in [Requests -> Request] /\ \A q \in Requests : RequestOK(req[q])'
  <2>1. ASSUME NEW r \in Requests, Finish(r)
        PROVE  req' \in [Requests -> Request] /\ \A q \in Requests : RequestOK(req[q])'
    BY <1>1, <2>1, RequestsStep, IdleType, IdleOK DEF Finish
  <2>2. ASSUME UNCHANGED req
        PROVE  req' \in [Requests -> Request] /\ \A q \in Requests : RequestOK(req[q])'
    <3>1. \A x : RequestOK(x) => RequestOK(x)'
      BY <1>1, RequestStays DEF Inv
    <3> QED
      BY <2>2, <3>1 DEF Inv, TypeOK
  <2> QED
    BY <2>1, <2>2
<1>3. TypeOK' /\ TokensNumbered'
  BY <1>1, <1>2 DEF Inv, TypeOK, TokensNumbered
<1> QED
  BY <1>2, <1>3 DEF Inv

\* A token of the identity goes into a row of it, or into one of its previous id.
LEMMA WithTokensKeeps ==
    ASSUME Inv, UNCHANGED grantee, NEW i \in Identities, NEW n, Belongs(n, i),
           NEW a \in ProfileAccounts(i),
           accounts' = WithTokens(a, i, n) \/ accounts' = Rekeyed(a, i)
    PROVE  /\ accounts' \in [AccountIds -> AccountRow] /\ RowsKept
           /\ LinkedByStarter' /\ ImplicitLinkProved'
           /\ \A b \in AccountIds : RowOK(b)'
<1>1. /\ a \in AccountIds /\ accounts[a].state = "present"
      /\ accounts[a].identity = i \/ (Previous[i] # None /\ accounts[a].identity = Previous[i])
  BY DEF ProfileAccounts, Keyed, Linked
<1>2. PICK j \in Identities : j = accounts[a].identity /\ SamePerson(j, i) /\ i # None /\ j # None
  BY <1>1, OAuthAccountsAssumption DEF SamePerson
<1>3. /\ accounts[a].token \in Issued /\ SamePerson(grantee[accounts[a].token], j)
      /\ grantee[accounts[a].token] \in Identities
  BY <1>1, <1>2, IssuedIdentity DEF Inv, RowOK, Belongs
<1>4. PICK m \in 0..MaxTokens : /\ accounts' = [accounts EXCEPT ![a].identity = i, ![a].token = m]
                                /\ Belongs(m, i)
  <2>1. CASE accounts' = WithTokens(a, i, n)
    <3>1. n \in 1..MaxTokens
      BY IssuedIdentity DEF Belongs, Inv
    <3>2. n \in 0..MaxTokens
      BY <3>1, OAuthAccountsAssumption
    <3> QED
      BY <2>1, <3>2 DEF WithTokens
  <2>2. CASE accounts' = Rekeyed(a, i)
    <3>1. Belongs(accounts[a].token, i)
      BY <1>2, <1>3, SamePersonTransitive DEF Belongs
    <3>2. accounts' = [accounts EXCEPT ![a].identity = i, ![a].token = accounts[a].token]
      BY <1>1, <2>2, DrawnRow DEF Rekeyed, Inv, TypeOK
    <3>3. accounts[a].token \in 0..MaxTokens
      BY <1>1, DrawnRow DEF Inv
    <3> QED
      BY <3>1, <3>2, <3>3
  <2> QED
    BY <2>1, <2>2
<1>5. PICK row : row = [accounts[a] EXCEPT !.identity = i, !.token = m]
  OBVIOUS
<1>6. /\ row \in AccountRow /\ row.state = "present" /\ row.identity = i /\ row.token = m
      /\ row.user = accounts[a].user /\ row.via = accounts[a].via
      /\ row.starter = accounts[a].starter /\ row.owned = accounts[a].owned
  BY <1>1, <1>5, DrawnRow DEF Inv, AccountRow
<1>7. accounts' = [accounts EXCEPT ![a] = row]
  BY <1>1, <1>4, <1>5 DEF Inv, TypeOK
<1>8. Kept(accounts[a], row)
  BY <1>2, <1>6 DEF Kept
<1> QED
  BY <1>1, <1>2, <1>4, <1>6, <1>7, <1>8, RowStep


-----------------------------------------------------------------------------
(* Steps that change requests and states only                              *)

\* An arriving request holds nothing yet.
LEMMA ArriveKeeps ==
    ASSUME Inv, NEW r \in Requests, Arrive(r), UNCHANGED endpoints
    PROVE  Inv'
<1> DEFINE Fresh(n) == /\ n \in Request /\ n.step \in {"put", "consume", "unlink", "read"}
                       /\ n.step = "consume" => n.oauthState \in OAuthStates
<1>1. PICK n : req' = [req EXCEPT ![r] = n] /\ Fresh(n)
  <2>1. endpoints \subseteq Ops
    BY OAuthAccountsAssumption DEF Inv, TypeOK
  <2>2. ASSUME NEW p \in Providers
        PROVE  Fresh([Idle EXCEPT !.op = "authorize", !.step = "put", !.provider = p])
    BY IdleType DEF Request, Ops
  <2>3. ASSUME NEW p \in Providers, NEW u \in Users
        PROVE  Fresh([Idle EXCEPT !.op = "link", !.step = "put", !.provider = p, !.user = u,
                                  !.linkUser = u])
    BY IdleType DEF Request, Ops
  <2>4. ASSUME NEW p \in Providers, NEW s \in OAuthStates
        PROVE  Fresh([Idle EXCEPT !.op = "callback", !.step = "consume", !.provider = p,
                                  !.oauthState = s])
    BY IdleType DEF Request, Ops
  <2>5. ASSUME NEW u \in Users, NEW op \in {"unlink", "token"}
        PROVE  Fresh([Idle EXCEPT !.op = op, !.user = u,
                                  !.step = IF op = "unlink" THEN "unlink" ELSE "read"])
    <3>1. PICK st \in {"unlink", "read"} : st = IF op = "unlink" THEN "unlink" ELSE "read"
      OBVIOUS
    <3>2. op \in Ops
      BY DEF Ops
    <3>3. Fresh([Idle EXCEPT !.op = op, !.user = u, !.step = st])
      BY <3>2, IdleType DEF Request
    <3> QED
      BY <3>1, <3>3
  <2> HIDE DEF Fresh
  <2> QED
    BY <2>1, <2>2, <2>3, <2>4, <2>5 DEF Arrive, Start
<1>2. RequestOK(n)'
  BY <1>1 DEF RequestOK
<1>3. oauthStates' \in [OAuthStates -> StateRow]
  BY DEF Arrive, Inv, TypeOK
<1> QED
  BY <1>1, <1>2, <1>3, RequestOnly DEF Arrive

LEMMA PutOAuthStateKeeps ==
    ASSUME Inv, NEW r \in Requests, PutOAuthState(r), UNCHANGED endpoints
    PROVE  Inv'
<1>1. req[r] \in Request
  BY DEF Inv, TypeOK
<1>2. oauthStates' \in [OAuthStates -> StateRow]
  BY <1>1 DEF PutOAuthState, Inv, TypeOK, StateRow, Request
<1> QED
  BY <1>2, FinishOnly DEF PutOAuthState

LEMMA ConsumeOAuthStateKeeps ==
    ASSUME Inv, NEW r \in Requests, ConsumeOAuthState(r), UNCHANGED endpoints
    PROVE  Inv'
<1> DEFINE s == req[r].oauthState
<1>1. req[r] \in Request /\ s \in OAuthStates /\ oauthStates[s] \in StateRow
  BY DEF ConsumeOAuthState, Inv, TypeOK, RequestOK
<1>2. oauthStates' \in [OAuthStates -> StateRow]
  BY <1>1 DEF ConsumeOAuthState, SpendState, Inv, TypeOK, StateRow
<1>3. CASE Finish(r)
  BY <1>2, <1>3, FinishOnly DEF ConsumeOAuthState, history
<1>4. CASE req' = [req EXCEPT ![r].step = "exchange", ![r].linkUser = oauthStates[s].linkUser]
  <2>1. PICK n \in Request : n = [req[r] EXCEPT !.step = "exchange",
                                               !.linkUser = oauthStates[s].linkUser]
    BY <1>1 DEF Request, StateRow
  <2>2. RequestOK(n)' /\ req' = [req EXCEPT ![r] = n]
    BY <1>1, <1>4, <2>1 DEF RequestOK, Request, Inv, TypeOK
  <2> QED
    BY <1>2, <2>2, RequestOnly DEF ConsumeOAuthState, history
<1> QED
  BY <1>3, <1>4 DEF ConsumeOAuthState

\* The session presented in the callback is that of the user who began the link.
LEMMA CheckLinkSessionKeeps ==
    ASSUME Inv, NEW r \in Requests, CheckLinkSession(r), UNCHANGED endpoints
    PROVE  Inv'
<1>1. /\ req[r] \in Request /\ oauthStates' \in [OAuthStates -> StateRow]
      /\ req[r].identity # None /\ Belongs(req[r].token, req[r].identity)
  BY DEF CheckLinkSession, Inv, TypeOK, RequestOK
<1>2. CASE Finish(r)
  BY <1>1, <1>2, FinishOnly DEF CheckLinkSession
<1>3. ASSUME NEW u \in Users, MayLink(r, u), req' = [req EXCEPT ![r].user = u, ![r].step = "link"]
      PROVE  Inv'
  <2>1. PICK n \in Request : n = [req[r] EXCEPT !.user = u, !.step = "link"]
    BY <1>1 DEF Request
  <2>2. /\ req' = [req EXCEPT ![r] = n] /\ n.step = "link" /\ n.user = u /\ u = n.linkUser
        /\ n.identity = req[r].identity /\ n.token = req[r].token
    BY <1>1, <1>3, <2>1 DEF Request, Inv, TypeOK, MayLink
  <2>3. Belongs(n.token, n.identity)'
    BY <1>1, <2>2, TokensStay, BelongsStays DEF CheckLinkSession, history
  <2>4. RequestOK(n)'
    BY <1>1, <1>3, <2>2, <2>3 DEF RequestOK
  <2> QED
    BY <1>1, <2>2, <2>4, RequestOnly DEF CheckLinkSession
<1> QED
  BY <1>2, <1>3 DEF CheckLinkSession

\* The tokens that were read are those of the row.
LEMMA ReadTokensKeeps ==
    ASSUME Inv, NEW r \in Requests, ReadTokens(r), UNCHANGED endpoints
    PROVE  Inv'
<1>1. req[r] \in Request /\ oauthStates' \in [OAuthStates -> StateRow]
  BY DEF ReadTokens, Inv, TypeOK
<1>2. CASE Finish(r)
  BY <1>1, <1>2, FinishOnly DEF ReadTokens
<1>3. ASSUME NEW a \in AccountsOf(req[r].user), accounts[a].identity # None,
             req' = [req EXCEPT ![r].account = a, ![r].token = accounts[a].token,
                                ![r].step = "refresh"]
      PROVE  Inv'
  <2>1. /\ a \in AccountIds /\ accounts[a].state = "present"
        /\ accounts[a].token \in 0..MaxTokens
        /\ Belongs(accounts[a].token, accounts[a].identity)
    BY <1>3, DrawnRow DEF AccountsOf, Linked, Inv, RowOK
  <2>2. PICK n \in Request : n = [req[r] EXCEPT !.account = a, !.token = accounts[a].token,
                                                !.step = "refresh"]
    BY <1>1, <2>1 DEF Request
  <2>3. /\ req' = [req EXCEPT ![r] = n] /\ n.step = "refresh" /\ n.account = a
        /\ n.token = accounts[a].token
    BY <1>1, <1>3, <2>2 DEF Request, Inv, TypeOK
  <2>4. UNCHANGED <<accounts, grantee>>
    BY DEF ReadTokens, history
  <2>5. RequestOK(n)'
    BY <1>3, <2>1, <2>3, <2>4 DEF RequestOK, Belongs, Issued, SamePerson
  <2> QED
    BY <1>1, <2>3, <2>5, RequestOnly DEF ReadTokens
<1> QED
  BY <1>2, <1>3 DEF ReadTokens

LEMMA AbortKeeps ==
    ASSUME Inv, NEW r \in Requests, Abort(r), UNCHANGED endpoints
    PROVE  Inv'
<1>1. oauthStates' \in [OAuthStates -> StateRow]
  BY DEF Abort, Inv, TypeOK
<1> QED
  BY <1>1, FinishOnly DEF Abort

LEMMA ExpireStateKeeps ==
    ASSUME Inv, NEW s \in OAuthStates, ExpireState(s), UNCHANGED endpoints
    PROVE  Inv'
<1>1. oauthStates' \in [OAuthStates -> StateRow]
  BY DEF ExpireState, Inv, TypeOK, StateRow
<1>2. UNCHANGED <<users, accounts, req, grantee, proved>>
  BY DEF ExpireState, history
<1> QED
  BY <1>1, <1>2 DEF Inv, TypeOK, TokensNumbered, Issued, RowOK, RequestOK, Belongs, SamePerson,
                    LinkedByStarter, ImplicitLinkProved, VerifiedByEvidence, Drawn

-----------------------------------------------------------------------------
(* Steps that issue a token                                                *)

\* The next number is issued to i, and the request that asked becomes n.
LEMMA IssueKeeps ==
    ASSUME Inv, NextToken <= MaxTokens, NEW i \in Identities,
           grantee' = [grantee EXCEPT ![NextToken] = i],
           UNCHANGED <<endpoints, users, accounts, oauthStates, proved>>,
           NEW r \in Requests, NEW n \in Request, req' = [req EXCEPT ![r] = n],
           \A k : k = NextToken /\ Belongs(k, i)' => RequestOK(n)'
    PROVE  Inv'
<1>1. /\ NextToken \in 1..MaxTokens /\ NextToken \notin Issued
      /\ Issued \cup {NextToken} = 1..NextToken /\ i # None
  BY NextTokenFresh, OAuthAccountsAssumption
<1>2. PICK k \in 1..MaxTokens : k = NextToken
  BY <1>1
<1>3. /\ grantee' \in [1..MaxTokens -> Identities \cup {None}] /\ grantee'[k] = i
      /\ \A m \in 1..MaxTokens \ {k} : grantee'[m] = grantee[m]
  BY <1>2 DEF Inv, TypeOK
<1>4. Issued' = 1..k /\ TokensKept
  <2>1. Issued' = Issued \cup {k}
    BY <1>1, <1>2, <1>3 DEF Issued
  <2> QED
    BY <1>1, <1>2, <1>3, <2>1 DEF TokensKept, Issued
<1>5. TokensNumbered'
  <2>1. k \in 0..MaxTokens
    BY OAuthAccountsAssumption
  <2> QED
    BY <1>4, <2>1 DEF TokensNumbered
<1>6. Belongs(k, i)'
  BY <1>3, <1>4, OAuthAccountsAssumption DEF Belongs, SamePerson
<1>7. RequestOK(n)'
  BY <1>2, <1>6
<1>8. req' \in [Requests -> Request] /\ \A q \in Requests : RequestOK(req[q])'
  BY <1>4, <1>7, RowsStay, RequestsStep DEF Inv
<1>9. \A a \in AccountIds : RowOK(a)'
  <2>1. \A m, j : Belongs(m, j) => Belongs(m, j)'
    BY <1>4, BelongsStays
  <2> QED
    BY <2>1 DEF Inv, RowOK
<1>10. TypeOK' /\ LinkedByStarter' /\ ImplicitLinkProved' /\ VerifiedByEvidence'
  BY <1>3, <1>8 DEF Inv, TypeOK, LinkedByStarter, ImplicitLinkProved, VerifiedByEvidence, Drawn
<1> QED
  BY <1>5, <1>8, <1>9, <1>10 DEF Inv


LEMMA ExchangeKeeps ==
    ASSUME Inv, NEW r \in Requests, Exchange(r), UNCHANGED endpoints
    PROVE  Inv'
<1>1. req[r] \in Request /\ oauthStates' \in [OAuthStates -> StateRow] /\ NextToken <= MaxTokens
  BY DEF Exchange, Inv, TypeOK
<1>2. CASE Finish(r) /\ UNCHANGED grantee
  BY <1>1, <1>2, FinishOnly DEF Exchange, history
<1>3. ASSUME NEW i \in Identities, NEW verified \in BOOLEAN,
             grantee' = [grantee EXCEPT ![NextToken] = i],
             req' = [req EXCEPT ![r].identity = i, ![r].token = NextToken,
                                ![r].verified = Asserts(i, verified),
                                ![r].step = IF req[r].linkUser # None THEN "session" ELSE "upsert"]
      PROVE  Inv'
  <2>1. PICK st \in {"session", "upsert"} :
          st = IF req[r].linkUser # None THEN "session" ELSE "upsert"
    OBVIOUS
  <2>2. PICK v \in BOOLEAN : v = Asserts(i, verified)
    BY <1>3 DEF Asserts
  <2>3. PICK k \in 0..MaxTokens : k = NextToken
    BY <1>1, NextTokenFresh, OAuthAccountsAssumption
  <2>4. PICK n \in Request : n = [req[r] EXCEPT !.identity = i, !.token = k, !.verified = v,
                                                !.step = st]
    BY <1>1, GotProfile
  <2>5. n.step = st /\ n.identity = i /\ n.token = k
    BY <1>1, <2>4 DEF Request
  <2>6. req' = [req EXCEPT ![r] = n]
    BY <1>3, <2>1, <2>2, <2>3, <2>4 DEF Inv, TypeOK
  <2>7. Belongs(k, i)' => RequestOK(n)'
    BY <2>5, OAuthAccountsAssumption DEF RequestOK, Belongs
  <2>8. \A m : m = NextToken /\ Belongs(m, i)' => RequestOK(n)'
    BY <2>3, <2>7
  <2>9. UNCHANGED <<endpoints, users, accounts, oauthStates, proved>>
    BY DEF Exchange
  <2> QED
    BY <1>1, <1>3, <2>6, <2>8, <2>9, IssueKeeps
<1> QED
  BY <1>2, <1>3 DEF Exchange

\* The new token is issued to whom the presented one was issued to.
LEMMA RefreshKeeps ==
    ASSUME Inv, NEW r \in Requests, Refresh(r), UNCHANGED endpoints
    PROVE  Inv'
<1>1. req[r] \in Request /\ NextToken <= MaxTokens
  BY DEF Refresh, Inv, TypeOK
<1>2. PICK a \in AccountIds, j \in Identities :
        /\ a = req[r].account /\ accounts[a].state # "free" /\ j = accounts[a].identity /\ j # None
        /\ req[r].token \in Issued /\ SamePerson(grantee[req[r].token], j)
  BY DEF Refresh, Inv, RequestOK, Belongs
<1>3. PICK i \in Identities : i = grantee[req[r].token] /\ SamePerson(i, j)
  BY <1>2, IssuedIdentity DEF Inv
<1>4. PICK k \in 0..MaxTokens : k = NextToken
  BY <1>1, NextTokenFresh, OAuthAccountsAssumption
<1>5. PICK n \in Request : n = [req[r] EXCEPT !.token = k, !.step = "store"]
  BY <1>1, RefreshedType
<1>6. n.step = "store" /\ n.account = a /\ n.token = k /\ req' = [req EXCEPT ![r] = n]
  <2>1. n.step = "store" /\ n.account = req[r].account /\ n.token = k
    BY <1>1, <1>5 DEF Request
  <2>2. req' = [req EXCEPT ![r].token = k, ![r].step = "store"]
    BY <1>4 DEF Refresh
  <2>3. req' = [req EXCEPT ![r] = n]
    BY <1>5, <2>2 DEF Inv, TypeOK
  <2> QED
    BY <1>2, <2>1, <2>3
<1>7. UNCHANGED <<users, accounts, oauthStates, proved>> /\ grantee' = [grantee EXCEPT ![k] = i]
  BY <1>3, <1>4 DEF Refresh
<1>8. Belongs(k, i)' => RequestOK(n)'
  <2>1. Belongs(k, i)' => k \in Issued' /\ SamePerson(grantee'[k], i)
    BY DEF Belongs, SamePerson
  <2>2. k \in 1..MaxTokens
    BY <1>1, <1>4, NextTokenFresh
  <2>3. grantee'[k] = i
    BY <1>7, <2>2 DEF Inv, TypeOK
  <2> QED
    BY <1>2, <1>3, <1>6, <1>7, <2>1, <2>3 DEF RequestOK, Belongs, SamePerson
<1> QED
  BY <1>1, <1>4, <1>6, <1>7, <1>8, IssueKeeps

-----------------------------------------------------------------------------
(* Steps on the account table                                              *)

\* A new social account has the tokens of its identity.
LEMMA NewAccountKeeps ==
    ASSUME Inv, UNCHANGED grantee, NEW r \in Requests, NEW u \in Users,
           NEW via \in {"sign-up", "implicit", "link"}, NEW a \in NewIds,
           accounts' = [accounts EXCEPT ![a] = NewAccount(r, u, via)],
           req[r].step \in {"link", "upsert"},
           via = "link" => u = req[r].linkUser,
           via = "implicit" /\ RequireLocalEmailVerified =>
               <<u, EmailOf[req[r].identity]>> \in proved
    PROVE  /\ accounts' \in [AccountIds -> AccountRow] /\ RowsKept
           /\ LinkedByStarter' /\ ImplicitLinkProved'
           /\ \A b \in AccountIds : RowOK(b)'
<1>1. a \in AccountIds /\ accounts[a].state = "free"
  BY NewIdFree
<1>2. /\ req[r] \in Request /\ req[r].identity \in Identities /\ req[r].identity # None
      /\ Belongs(req[r].token, req[r].identity)
  BY DEF Inv, TypeOK, RequestOK, Belongs
<1>3. PICK own \in BOOLEAN :
        own = (via = "implicit" /\ <<u, EmailOf[req[r].identity]>> \in proved)
  OBVIOUS
<1>3a. /\ req[r].token \in 0..MaxTokens /\ req[r].linkUser \in Users \cup {None}
       /\ NewAccount(r, u, via) =
            [state |-> "present", user |-> u, identity |-> req[r].identity,
             token |-> req[r].token, via |-> via, starter |-> req[r].linkUser, owned |-> own]
  BY <1>2, <1>3 DEF NewAccount, Request
<1>3b. PICK row \in AccountRow : row = NewAccount(r, u, via)
  BY <1>2, <1>3a, AccountRowType
<1>4. /\ row.state = "present" /\ row.user = u /\ row.via = via
      /\ row.identity = req[r].identity /\ row.token = req[r].token
      /\ row.starter = req[r].linkUser
  BY <1>3b DEF NewAccount
<1>4a. row.owned = (via = "implicit" /\ <<u, EmailOf[req[r].identity]>> \in proved)
  BY <1>3b DEF NewAccount
<1>5. NewOK(row)
  BY <1>4, <1>4a DEF NewOK
<1> QED
  BY <1>1, <1>2, <1>3b, <1>4, <1>5, RowStep

LEMMA LinkOAuthAccountKeeps ==
    ASSUME Inv, NEW r \in Requests, LinkOAuthAccount(r), UNCHANGED endpoints
    PROVE  Inv'
<1>1. /\ req[r] \in Request /\ req[r].step = "link" /\ req[r].identity \in Identities
      /\ Belongs(req[r].token, req[r].identity)
      /\ req[r].user \in Users /\ req[r].user = req[r].linkUser
  BY DEF LinkOAuthAccount, Inv, TypeOK, RequestOK, Belongs
<1>2. UNCHANGED <<users, oauthStates, grantee, proved>> /\ Finish(r)
  BY DEF LinkOAuthAccount, history
<1>3. CASE UNCHANGED accounts
  <2>1. oauthStates' \in [OAuthStates -> StateRow]
    BY <1>2 DEF Inv, TypeOK
  <2> QED
    BY <1>2, <1>3, <2>1, FinishOnly DEF history
<1>4. CASE /\ accounts' \in [AccountIds -> AccountRow] /\ RowsKept
           /\ LinkedByStarter' /\ ImplicitLinkProved'
           /\ \A b \in AccountIds : RowOK(b)'
  <2>1. VerifiedByEvidence' /\ users' \in [Users -> UserRow] /\ proved' \subseteq Users \X Emails
    BY <1>2 DEF Inv, TypeOK, VerifiedByEvidence
  <2> QED
    BY <1>2, <1>4, <2>1, TablesStep
<1>5. ASSUME NEW a \in ProfileAccounts(req[r].identity),
             accounts' = WithTokens(a, req[r].identity, req[r].token)
      PROVE  Inv'
  BY <1>1, <1>2, <1>4, <1>5, WithTokensKeeps
<1>6. ASSUME NEW a \in NewIds, accounts' = [accounts EXCEPT ![a] = NewAccount(r, req[r].user, "link")]
      PROVE  Inv'
  BY <1>1, <1>2, <1>4, <1>6, NewAccountKeeps
<1> QED
  BY <1>3, <1>5, <1>6 DEF LinkOAuthAccount

\* A user row is written; only its own evidence counts for it.
LEMMA EvidenceStep ==
    ASSUME Inv, NEW u \in Users, NEW row \in UserRow, users' = [users EXCEPT ![u] = row],
           proved \subseteq proved', row.verified => <<u, row.email>> \in proved'
    PROVE  users' \in [Users -> UserRow] /\ VerifiedByEvidence'
BY DEF Inv, TypeOK, VerifiedByEvidence

\* The sign-in of a known account or of the owner of its address marks the user
\* verified only if the profile proves the address the row holds.
LEMMA ProveKeeps ==
    ASSUME Inv, NEW r \in Requests, NEW u \in Users, Present(u),
           users' = IF ProvesEmail(r, u) THEN [users EXCEPT ![u].verified = TRUE] ELSE users,
           proved' = proved \cup Evidence(r, u), req[r].identity \in Identities
    PROVE  /\ users' \in [Users -> UserRow] /\ VerifiedByEvidence'
           /\ proved' \subseteq Users \X Emails
<1>1. proved' \subseteq Users \X Emails /\ proved \subseteq proved'
  BY OAuthAccountsAssumption DEF Evidence, Inv, TypeOK
<1>2. CASE ProvesEmail(r, u)
  <2>0. users[u] \in [state: {"present"}, email: Emails, verified: BOOLEAN]
    BY PresentUser DEF Inv
  <2>1. PICK row \in UserRow : /\ row = [users[u] EXCEPT !.verified = TRUE]
                               /\ row.email = users[u].email
    BY <2>0, VerifiedRowType
  <2>2. users' = [users EXCEPT ![u] = row] /\ <<u, row.email>> \in proved'
    BY <1>2, <2>1 DEF ProvesEmail, Evidence, Inv, TypeOK
  <2> QED
    BY <1>1, <2>2, EvidenceStep
<1>3. CASE ~ProvesEmail(r, u)
  BY <1>1, <1>3 DEF Inv, TypeOK, VerifiedByEvidence
<1> QED
  BY <1>1, <1>2, <1>3

LEMMA UpsertOAuthUserKeeps ==
    ASSUME Inv, NEW r \in Requests, UpsertOAuthUser(r), UNCHANGED endpoints
    PROVE  Inv'
<1> DEFINE i == req[r].identity
<1>1. /\ req[r] \in Request /\ req[r].step = "upsert" /\ i \in Identities /\ Belongs(req[r].token, i)
  BY DEF UpsertOAuthUser, Inv, TypeOK, RequestOK, Belongs
<1>2. UNCHANGED <<oauthStates, grantee>> /\ Finish(r)
  BY DEF UpsertOAuthUser
<1>3. CASE UNCHANGED <<users, accounts, proved>>
  <2>1. oauthStates' \in [OAuthStates -> StateRow]
    BY <1>2 DEF Inv, TypeOK
  <2> QED
    BY <1>2, <1>3, <2>1, FinishOnly DEF history
<1>4. ASSUME NEW a \in ProfileAccounts(i), UpsertKnown(r, a), ~UNCHANGED <<users, accounts, proved>>
      PROVE  Inv'
  <2> DEFINE u == accounts[a].user
  <2>1. a \in AccountIds /\ accounts[a].state = "present"
    BY DEF ProfileAccounts, Keyed, Linked
  <2>2. u \in Users
    BY <2>1, DrawnRow DEF Inv
  <2>3. /\ Present(u) /\ proved' = proved \cup Evidence(r, u)
        /\ users' = IF ProvesEmail(r, u) THEN [users EXCEPT ![u].verified = TRUE] ELSE users
        /\ accounts' = WithTokens(a, i, req[r].token) \/ accounts' = Rekeyed(a, i)
    BY <1>4 DEF UpsertKnown
  <2>4. /\ accounts' \in [AccountIds -> AccountRow] /\ RowsKept
        /\ LinkedByStarter' /\ ImplicitLinkProved'
        /\ \A b \in AccountIds : RowOK(b)'
    BY <1>1, <1>2, <2>3, WithTokensKeeps
  <2>5. /\ users' \in [Users -> UserRow] /\ VerifiedByEvidence'
        /\ proved' \subseteq Users \X Emails
    BY <1>1, <2>2, <2>3, ProveKeeps
  <2> QED
    BY <1>2, <2>4, <2>5, TablesStep
<1>5. CASE UpsertNew(r)
  <2>1. PICK u \in Users, a \in NewIds :
          /\ users' = [users EXCEPT ![u] = [state |-> "present", email |-> EmailOf[i],
                                            verified |-> req[r].verified]]
          /\ accounts' = [accounts EXCEPT ![a] = NewAccount(r, u, "sign-up")]
          /\ proved' = proved \cup Evidence(r, u)
    BY <1>5 DEF UpsertNew
  <2>2. /\ accounts' \in [AccountIds -> AccountRow] /\ RowsKept
        /\ LinkedByStarter' /\ ImplicitLinkProved'
        /\ \A b \in AccountIds : RowOK(b)'
    BY <1>1, <1>2, <2>1, NewAccountKeeps
  <2>3a. EmailOf[i] \in Emails /\ req[r].verified \in BOOLEAN
    BY <1>1, OAuthAccountsAssumption DEF Request
  <2>3. PICK row \in UserRow : /\ row = [state |-> "present", email |-> EmailOf[i],
                                         verified |-> req[r].verified]
                               /\ row.email = EmailOf[i] /\ row.verified = req[r].verified
    BY <2>3a, UserRowType
  <2>4. proved' \subseteq Users \X Emails /\ proved \subseteq proved'
    BY <1>1, <2>1, OAuthAccountsAssumption DEF Evidence, Inv, TypeOK
  <2>5. row.verified => <<u, row.email>> \in proved'
    BY <2>1, <2>3 DEF Evidence
  <2>6. users' \in [Users -> UserRow] /\ VerifiedByEvidence'
    BY <2>1, <2>3, <2>4, <2>5, EvidenceStep
  <2> QED
    BY <1>2, <2>2, <2>4, <2>6, TablesStep
<1>6. ASSUME NEW u \in Owners(EmailOf[i]), MayLinkImplicitly(u), UpsertImplicit(r, u)
      PROVE  Inv'
  <2>1. u \in Users /\ Present(u) /\ users[u].email = EmailOf[i]
    BY DEF Owners
  <2>2. RequireLocalEmailVerified => <<u, EmailOf[i]>> \in proved
    BY <1>6, <2>1 DEF MayLinkImplicitly, Inv, VerifiedByEvidence
  <2>3. PICK a \in NewIds :
          /\ accounts' = [accounts EXCEPT ![a] = NewAccount(r, u, "implicit")]
          /\ users' = IF ProvesEmail(r, u) THEN [users EXCEPT ![u].verified = TRUE] ELSE users
          /\ proved' = proved \cup Evidence(r, u)
    BY <1>6 DEF UpsertImplicit
  <2>4. /\ accounts' \in [AccountIds -> AccountRow] /\ RowsKept
        /\ LinkedByStarter' /\ ImplicitLinkProved'
        /\ \A b \in AccountIds : RowOK(b)'
    BY <1>1, <1>2, <2>1, <2>2, <2>3, NewAccountKeeps
  <2>5. /\ users' \in [Users -> UserRow] /\ VerifiedByEvidence'
        /\ proved' \subseteq Users \X Emails
    BY <1>1, <2>1, <2>3, ProveKeeps
  <2> QED
    BY <1>2, <2>4, <2>5, TablesStep
<1> QED
  BY <1>3, <1>4, <1>5, <1>6 DEF UpsertOAuthUser


\* The users and their evidence are left alone.
LEMMA AccountsOnly ==
    ASSUME Inv, UNCHANGED <<endpoints, users, oauthStates, grantee, proved>>,
           accounts' \in [AccountIds -> AccountRow], RowsKept,
           LinkedByStarter', ImplicitLinkProved', \A a \in AccountIds : RowOK(a)',
           (\E r \in Requests : Finish(r)) \/ UNCHANGED req
    PROVE  Inv'
<1>1. VerifiedByEvidence' /\ users' \in [Users -> UserRow] /\ proved' \subseteq Users \X Emails
  BY DEF Inv, TypeOK, VerifiedByEvidence
<1> QED
  BY <1>1, TablesStep

\* An account goes away: the row keeps everything but its state.
LEMMA GoneRow ==
    ASSUME Inv, NEW a \in AccountIds, accounts[a].state # "free"
    PROVE  LET row == [accounts[a] EXCEPT !.state = "gone"]
           IN  /\ row \in AccountRow /\ row.state = "gone" /\ row.identity = accounts[a].identity
               /\ row.token = accounts[a].token /\ Kept(accounts[a], row)
<1>1. accounts[a] \in [state: {"present", "gone"}, user: Users,
                 identity: Identities \cup {None}, token: 0..MaxTokens,
                 via: {"sign-up", "implicit", "link"}, starter: Users \cup {None}, owned: BOOLEAN]
  BY DrawnRow DEF Inv
<1>2. PICK row : row = [accounts[a] EXCEPT !.state = "gone"]
  OBVIOUS
<1>3. /\ row \in AccountRow /\ row.state = "gone" /\ row.user = accounts[a].user
      /\ row.identity = accounts[a].identity /\ row.token = accounts[a].token
      /\ row.via = accounts[a].via /\ row.starter = accounts[a].starter
      /\ row.owned = accounts[a].owned
  BY <1>1, <1>2 DEF AccountRow
<1>4. Kept(accounts[a], row)
  BY <1>1, <1>3 DEF Kept, SamePerson
<1> QED
  BY <1>2, <1>3, <1>4

LEMMA UnlinkAccountKeeps ==
    ASSUME Inv, NEW r \in Requests, UnlinkAccount(r), UNCHANGED endpoints
    PROVE  Inv'
<1>1. UNCHANGED <<users, oauthStates, grantee, proved>> /\ Finish(r)
  BY DEF UnlinkAccount, history
<1>2. CASE UNCHANGED accounts
  <2>1. oauthStates' \in [OAuthStates -> StateRow]
    BY <1>1 DEF Inv, TypeOK
  <2> QED
    BY <1>1, <1>2, <2>1, FinishOnly DEF history
<1>3. ASSUME NEW a \in AccountsOf(req[r].user), accounts' = [accounts EXCEPT ![a].state = "gone"]
      PROVE  Inv'
  <2>1. a \in AccountIds /\ accounts[a].state # "free"
    BY DEF AccountsOf, Linked
  <2>2. PICK row \in AccountRow :
          /\ row = [accounts[a] EXCEPT !.state = "gone"] /\ row.state # "free"
          /\ row.identity = accounts[a].identity /\ row.token = accounts[a].token
          /\ Kept(accounts[a], row)
    BY <2>1, GoneRow
  <2>3. accounts' = [accounts EXCEPT ![a] = row]
    BY <1>3, <2>1, <2>2 DEF Inv, TypeOK
  <2>4. IF row.identity = None THEN row.token = 0 ELSE Belongs(row.token, row.identity)
    BY <2>1, <2>2 DEF Inv, RowOK
  <2>5. /\ accounts' \in [AccountIds -> AccountRow] /\ RowsKept
        /\ LinkedByStarter' /\ ImplicitLinkProved'
        /\ \A b \in AccountIds : RowOK(b)'
    BY <1>1, <2>1, <2>2, <2>3, <2>4, RowStep
  <2> QED
    BY <1>1, <2>5, AccountsOnly
<1> QED
  BY <1>2, <1>3 DEF UnlinkAccount

\* The refreshed token goes to the row it was read from, whatever became of it.
LEMMA UpdateOAuthAccountTokensKeeps ==
    ASSUME Inv, NEW r \in Requests, UpdateOAuthAccountTokens(r), UNCHANGED endpoints
    PROVE  Inv'
<1>1. UNCHANGED <<users, oauthStates, grantee, proved>> /\ Finish(r)
  BY DEF UpdateOAuthAccountTokens, history
<1>2. PICK b \in AccountIds :
        /\ b = req[r].account /\ accounts[b].state # "free"
        /\ accounts[b].identity # None /\ Belongs(req[r].token, accounts[b].identity)
  BY DEF UpdateOAuthAccountTokens, Inv, RequestOK
<1>3. CASE StoredIn(r) = {}
  <2>1. UNCHANGED accounts
    BY <1>3 DEF UpdateOAuthAccountTokens, Inv, TypeOK
  <2>2. oauthStates' \in [OAuthStates -> StateRow]
    BY <1>1 DEF Inv, TypeOK
  <2> QED
    BY <1>1, <2>1, <2>2, FinishOnly DEF history
<1>4. CASE StoredIn(r) # {}
  <2>1. StoredIn(r) = {b}
    BY <1>2, <1>4 DEF StoredIn
  <2>2. PICK k \in 0..MaxTokens : k = req[r].token
    BY DEF Inv, TypeOK, Request
  <2>3. accounts[b] \in [state: {"present", "gone"}, user: Users,
                 identity: Identities \cup {None}, token: 0..MaxTokens,
                 via: {"sign-up", "implicit", "link"}, starter: Users \cup {None}, owned: BOOLEAN]
    BY <1>2, DrawnRow DEF Inv
  <2>4. PICK row : row = [accounts[b] EXCEPT !.token = k]
    OBVIOUS
  <2>5. /\ row \in AccountRow /\ row.state = accounts[b].state /\ row.user = accounts[b].user
        /\ row.identity = accounts[b].identity /\ row.token = k
        /\ row.via = accounts[b].via /\ row.starter = accounts[b].starter
        /\ row.owned = accounts[b].owned
    BY <2>3, <2>4 DEF AccountRow
  <2>6. Kept(accounts[b], row)
    BY <1>2, <2>3, <2>5 DEF Kept, SamePerson
  <2>7. accounts' = [accounts EXCEPT ![b] = row]
    BY <2>1, <2>2, <2>4 DEF UpdateOAuthAccountTokens, Inv, TypeOK
  <2>8. /\ accounts' \in [AccountIds -> AccountRow] /\ RowsKept
        /\ LinkedByStarter' /\ ImplicitLinkProved'
        /\ \A a \in AccountIds : RowOK(a)'
    BY <1>1, <1>2, <2>2, <2>5, <2>6, <2>7, RowStep
  <2> QED
    BY <1>1, <2>8, AccountsOnly
<1> QED
  BY <1>3, <1>4

LEMMA SignUpKeeps ==
    ASSUME Inv, NEW u \in Users, SignUp(u), UNCHANGED endpoints
    PROVE  Inv'
<1>1. UNCHANGED <<oauthStates, req, grantee, proved>>
  BY DEF SignUp, history
<1>2. PICK e \in Emails, a \in NewIds :
        /\ users' = [users EXCEPT ![u] = [state |-> "present", email |-> e, verified |-> FALSE]]
        /\ accounts' = [accounts EXCEPT ![a] =
                [state |-> "present", user |-> u, identity |-> None, token |-> 0,
                 via |-> "sign-up", starter |-> None, owned |-> FALSE]]
  BY DEF SignUp
<1>3. a \in AccountIds /\ accounts[a].state = "free"
  BY NewIdFree
<1>4. PICK user \in UserRow : /\ user = [state |-> "present", email |-> e, verified |-> FALSE]
                              /\ user.verified = FALSE
  BY UserRowType
<1>5. 0 \in 0..MaxTokens
  BY OAuthAccountsAssumption
<1>6. PICK row \in AccountRow :
        row = [state |-> "present", user |-> u, identity |-> None, token |-> 0,
               via |-> "sign-up", starter |-> None, owned |-> FALSE]
  BY <1>5, AccountRowType
<1>7. row.state = "present" /\ row.identity = None /\ row.token = 0 /\ row.via = "sign-up"
  BY <1>6
<1>8. /\ accounts' \in [AccountIds -> AccountRow] /\ RowsKept
      /\ LinkedByStarter' /\ ImplicitLinkProved'
      /\ \A b \in AccountIds : RowOK(b)'
  BY <1>1, <1>2, <1>3, <1>6, <1>7, RowStep DEF NewOK
<1>9. users' \in [Users -> UserRow] /\ VerifiedByEvidence' /\ proved' \subseteq Users \X Emails
  BY <1>1, <1>2, <1>4, EvidenceStep DEF Inv, TypeOK
<1> QED
  BY <1>1, <1>8, <1>9, TablesStep

LEMMA ChangeEmailKeeps ==
    ASSUME Inv, NEW u \in Users, ChangeEmail(u), UNCHANGED endpoints
    PROVE  Inv'
<1>1. UNCHANGED <<accounts, oauthStates, req, grantee>> /\ Present(u)
  BY DEF ChangeEmail
<1>2. PICK e \in Emails, v \in BOOLEAN :
        /\ users' = [users EXCEPT ![u].email = e, ![u].verified = v]
        /\ proved' = IF v THEN proved \cup {<<u, e>>} ELSE proved
  BY DEF ChangeEmail
<1>3. users[u] \in [state: {"present"}, email: Emails, verified: BOOLEAN]
  BY <1>1, PresentUser DEF Inv
<1>4. PICK row : row = [users[u] EXCEPT !.email = e, !.verified = v]
  OBVIOUS
<1>5. row \in UserRow /\ row.email = e /\ row.verified = v
  BY <1>3, <1>4, MovedRowType
<1>6. users' = [users EXCEPT ![u] = row]
  BY <1>2, <1>4 DEF Inv, TypeOK
<1>7. /\ proved \subseteq proved' /\ proved' \subseteq Users \X Emails
      /\ v => <<u, e>> \in proved'
  BY <1>2 DEF Inv, TypeOK
<1>8. users' \in [Users -> UserRow] /\ VerifiedByEvidence'
  BY <1>5, <1>6, <1>7, EvidenceStep
<1>9. RowsKept /\ TokensKept
  BY <1>1, RowsStay, TokensStay DEF Inv
<1>10. /\ accounts' \in [AccountIds -> AccountRow] /\ LinkedByStarter' /\ ImplicitLinkProved'
       /\ \A a \in AccountIds : RowOK(a)'
  BY <1>1 DEF Inv, TypeOK, LinkedByStarter, ImplicitLinkProved, Drawn, RowOK, Belongs, Issued,
              SamePerson
<1> QED
  BY <1>1, <1>7, <1>8, <1>9, <1>10, TablesStep

LEMMA DeleteUserKeeps ==
    ASSUME Inv, NEW u \in Users, DeleteUser(u), UNCHANGED endpoints
    PROVE  Inv'
<1>1. UNCHANGED <<oauthStates, req, grantee, proved>>
  BY DEF DeleteUser, history
<1>2. PICK user \in UserRow : user = [NoUser EXCEPT !.state = "deleted"]
  BY DEF UserRow
<1>2a. ~user.verified
  BY <1>2 DEF NoUser
<1>3. users' = [users EXCEPT ![u] = user]
  BY <1>2 DEF DeleteUser
<1>4. users' \in [Users -> UserRow] /\ VerifiedByEvidence' /\ proved' \subseteq Users \X Emails
  BY <1>1, <1>2a, <1>3, EvidenceStep DEF Inv, TypeOK
<1>5. PICK table : table = accounts'
  OBVIOUS
<1>6. /\ table = [a \in AccountIds |->
                   IF Linked(a) /\ accounts[a].user = u
                   THEN [accounts[a] EXCEPT !.state = "gone"] ELSE accounts[a]]
  BY <1>5 DEF DeleteUser
<1>7. ASSUME NEW a \in AccountIds
      PROVE  /\ table[a] \in AccountRow
             /\ accounts[a].state = "free" => table[a] = accounts[a]
             /\ accounts[a].state # "free" =>
                  /\ table[a].state # "free" /\ table[a].identity = accounts[a].identity
                  /\ table[a].token = accounts[a].token /\ Kept(accounts[a], table[a])
  <2>1. CASE accounts[a].state = "free"
    BY <1>6, <2>1 DEF Linked, Inv, TypeOK
  <2>2. CASE accounts[a].state # "free" /\ table[a] = accounts[a]
    BY <2>2, DrawnRow DEF Inv, TypeOK, Kept, SamePerson
  <2>3. CASE accounts[a].state # "free" /\ table[a] = [accounts[a] EXCEPT !.state = "gone"]
    BY <2>3, GoneRow
  <2> QED
    BY <1>6, <2>1, <2>2, <2>3
<1>8. table \in [AccountIds -> AccountRow]
  BY <1>6, <1>7
<1>9. \A a \in AccountIds :
        IF accounts[a].state = "free" THEN NewOK(table[a]) ELSE Kept(accounts[a], table[a])
  BY <1>7 DEF NewOK
<1>10. /\ accounts' \in [AccountIds -> AccountRow] /\ RowsKept
       /\ LinkedByStarter' /\ ImplicitLinkProved'
  BY <1>5, <1>8, <1>9, RowsStep
<1>11. \A a \in AccountIds : RowOK(a)'
  <2>1. \A n, i : Belongs(n, i) => Belongs(n, i)'
    BY <1>1, TokensStay, BelongsStays
  <2> QED
    BY <1>5, <1>7, <2>1 DEF Inv, RowOK
<1> QED
  BY <1>1, <1>4, <1>10, <1>11, TablesStep

-----------------------------------------------------------------------------
(* The invariant holds, and what it gives                                  *)

LEMMA InitInv == Init => Inv
<1> SUFFICES ASSUME Init PROVE Inv
  OBVIOUS
<1>1. TypeOK
  <2>1. [s \in OAuthStates |-> [state |-> "free", provider |-> None, linkUser |-> None]]
          \in [OAuthStates -> StateRow]
    BY DEF StateRow
  <2> QED
    BY <2>1, IdleType, FreeType DEF Init, TypeOK
<1>2. TokensNumbered
  <2>1. Issued = {}
    BY DEF Init, Issued
  <2>2. 0 \in 0..MaxTokens /\ 1..0 = {}
    BY OAuthAccountsAssumption
  <2> QED
    BY <2>1, <2>2 DEF TokensNumbered
<1>3. \A a \in AccountIds : accounts[a].state = "free"
  BY DEF Init, FreeAccount
<1>4. \A r \in Requests : RequestOK(req[r])
  BY IdleType DEF Init, RequestOK
<1>5. VerifiedByEvidence
  BY DEF Init, VerifiedByEvidence, NoUser
<1> QED
  BY <1>1, <1>2, <1>3, <1>4, <1>5 DEF Inv, RowOK, LinkedByStarter, ImplicitLinkProved, Drawn

LEMMA NextKeeps == Inv /\ [Next]_vars => Inv'
<1> SUFFICES ASSUME Inv, [Next]_vars PROVE Inv'
  OBVIOUS
<1>1. CASE UNCHANGED vars
  BY <1>1 DEF vars, Inv, TypeOK, TokensNumbered, Issued, RowOK, RequestOK, Belongs, SamePerson,
              LinkedByStarter, ImplicitLinkProved, VerifiedByEvidence, Drawn
<1>2. CASE Next
  <2>1. UNCHANGED endpoints
    BY <1>2 DEF Next
  <2>2. ASSUME NEW r \in Requests,
               \/ Arrive(r) \/ PutOAuthState(r) \/ ConsumeOAuthState(r) \/ Exchange(r)
               \/ CheckLinkSession(r) \/ LinkOAuthAccount(r) \/ UpsertOAuthUser(r)
               \/ UnlinkAccount(r) \/ ReadTokens(r) \/ Refresh(r)
               \/ UpdateOAuthAccountTokens(r) \/ Abort(r)
        PROVE  Inv'
    BY <2>1, <2>2, ArriveKeeps, PutOAuthStateKeeps, ConsumeOAuthStateKeeps, ExchangeKeeps,
       CheckLinkSessionKeeps, LinkOAuthAccountKeeps, UpsertOAuthUserKeeps, UnlinkAccountKeeps,
       ReadTokensKeeps, RefreshKeeps, UpdateOAuthAccountTokensKeeps, AbortKeeps
  <2>3. ASSUME NEW u \in Users, SignUp(u) \/ ChangeEmail(u) \/ DeleteUser(u)
        PROVE  Inv'
    BY <2>1, <2>3, SignUpKeeps, ChangeEmailKeeps, DeleteUserKeeps
  <2>4. ASSUME NEW s \in OAuthStates, ExpireState(s)
        PROVE  Inv'
    BY <2>1, <2>4, ExpireStateKeeps
  <2> QED
    BY <1>2, <2>2, <2>3, <2>4 DEF Next
<1> QED
  BY <1>1, <1>2

LEMMA InvHolds == Spec => []Inv
BY InitInv, NextKeeps, PTL DEF Spec

\* The account that a link-social round trip creates belongs to the user who began
\* it: the callback compares the session it finds with the user kept in the
\* authorization state (handleSocialCallback), and the row is written for that user.
THEOREM LinkGoesToStarter == Spec => []LinkedByStarter
<1>1. Inv => LinkedByStarter
  BY DEF Inv
<1> QED
  BY <1>1, InvHolds, PTL

\* Under RequireLocalEmailVerified no social account is attached to a user row
\* whose owner was not shown to own the address: UpsertOAuthUser asks for
\* emailVerified, and emailVerified is never set without evidence for the address
\* that the row holds.
THEOREM ImplicitLinksAreProved == Spec => []ImplicitLinkProved
<1>1. Inv => ImplicitLinkProved
  BY DEF Inv
<1> QED
  BY <1>1, InvHolds, PTL

\* A user row is verified only for an address it was shown to own, whichever
\* handler wrote it: sign-up, social sign-in or a change of address.
THEOREM VerifiedNeedsEvidence == Spec => []VerifiedByEvidence
<1>1. Inv => VerifiedByEvidence
  BY DEF Inv
<1> QED
  BY <1>1, InvHolds, PTL

\* The provider tokens in an account row were issued to that provider account,
\* although a refresh reads the row, calls the provider and writes in three steps,
\* and the account may be unlinked, linked again or re-keyed meanwhile.
THEOREM TokensStayWithIdentity == Spec => []TokensBelong
<1>1. Inv => TokensBelong
  <2> SUFFICES ASSUME Inv, NEW a \in AccountIds, Linked(a), accounts[a].token # 0
               PROVE  SamePerson(grantee[accounts[a].token], accounts[a].identity)
    BY DEF TokensBelong
  <2>1. accounts[a].state # "free"
    BY DEF Linked
  <2> QED
    BY <2>1 DEF Inv, RowOK, Belongs
<1> QED
  BY <1>1, InvHolds, PTL

=============================================================================

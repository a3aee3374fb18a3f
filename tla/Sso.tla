-------------------------------- MODULE Sso ---------------------------------
(***************************************************************************)
(* The enterprise SSO plugin (plugin/sso): provider rows and their domain  *)
(* verification, OIDC and SAML sign-in over single-use states, and SAML    *)
(* single logout.                                                          *)
(*                                                                         *)
(* Providers live in the ssoProvider table under a unique providerId, with *)
(* a row id of their own: a provider that was deleted and registered again *)
(* has a new id.  States, domain tokens and seen assertion ids are rows of *)
(* the verification table.  Each step is one database call with the local  *)
(* computation around it; no endpoint of the plugin uses a transaction. A  *)
(* request that fails, or is cut short, never takes its next step.         *)
(*                                                                         *)
(* An identity provider signs answers for a subject; what its signature,   *)
(* audience, nonce and InResponseTo bind is in the answer's fields.        *)
(***************************************************************************)
EXTENDS Naturals, FiniteSets

CONSTANTS
    Users, None,
    ProviderIds,
    Idps, SamlIdps,      \* identity provider configurations; the SAML ones
    Domains, Subjects,   \* subjects that identity providers assert
    DomainOf,            \* the domain of a subject's email address
    Tokens, States, AssertionIds,
    Requests,            \* concurrent requests
    MaxRows,             \* bound on provider rows ever created
    ProvidersLimit,
    Scenarios            \* of an instance: configuration, endpoints, initial rows, and
                         \* the provider configurations that requests offer

ASSUME SsoAssumption ==
    /\ None \notin Users \cup States \cup Tokens \cup Idps \cup AssertionIds
    /\ States \cap AssertionIds = {}
    /\ SamlIdps \subseteq Idps
    /\ DomainOf \in [Subjects -> Domains]
    /\ MaxRows \in Nat /\ ProvidersLimit \in Nat

VARIABLES
    scenario,   \* configuration; never changes
    providers,  \* the ssoProvider table, by providerId
    rows,       \* row ids drawn so far
    tokens,     \* pending domain tokens
    records,    \* DNS: TXT records published
    states,     \* OIDC, SAML and logout states
    recorded,   \* assertion ids in the verification table
    answers,    \* what identity providers have signed
    known,      \* subjects that have an account or a user with their email
    live,       \* subjects with a live session
    req,        \* requests in flight
    signIns,    \* history: the completed sign-ins
    used,       \* history: sign-ins per state and per assertion id
    writes      \* history: row written, its owner and the user who wrote it

table == <<providers, rows, writes>>
domain == <<tokens, records>>
login == <<states, recorded, answers, known, live, signIns, used>>
vars == <<scenario, table, domain, login, req>>

\* A provider row.  owner is the personal owner, or stands for the administrators
\* that the OrganizationAuthorizer accepts; default providers have none.
ProviderRow ==
    [id: 0..MaxRows, owner: Users \cup {None}, idp: Idps \cup {None},
     domains: SUBSET Domains, verified: BOOLEAN]

NoRow == [id |-> 0, owner |-> None, idp |-> None, domains |-> {}, verified |-> FALSE]

\* Rows that are there at the start have been numbered one after the other.
Numbered(table0) == Cardinality({p \in ProviderIds : table0[p].id # 0})

ASSUME ScenarioAssumption ==
    \A sc \in Scenarios :
        /\ sc.offers \subseteq [idp: Idps, domains: SUBSET Domains \ {{}}]
        /\ sc.domainVerification \in BOOLEAN /\ sc.allowIDPInitiated \in BOOLEAN
        /\ sc.disableImplicitSignUp \in BOOLEAN
        /\ sc.providers \in [ProviderIds -> ProviderRow]
        /\ Numbered(sc.providers) \in 0..MaxRows
        /\ \A p \in ProviderIds :
             /\ sc.providers[p].id \in 0..Numbered(sc.providers)
             /\ sc.providers[p].id # 0 => sc.providers[p].idp # None

StateRow ==
    [status: {"free", "stored", "gone"}, kind: {"oidc", "saml", "slo", None},
     provider: ProviderIds \cup {None}, signUp: BOOLEAN]

NoState == [status |-> "free", kind |-> None, provider |-> None, signUp |-> FALSE]

\* asked: the state whose nonce or request id the answer carries.
Answer ==
    [id: AssertionIds, idp: Idps, provider: ProviderIds,
     asked: States \cup {None}, subject: Subjects]

Request ==
    [stage: {"idle", "create", "clear", "put", "update", "delete", "pending", "lookup",
             "consume", "confirm", "exchange", "relay", "record", "exists",
             "authenticate", "revoke"},
     user: Users \cup {None}, provider: ProviderIds \cup {None},
     row: ProviderRow,      \* the row as read, or as it will be written
     reset: BOOLEAN,        \* update-provider resets domainVerified
     token: Tokens \cup {None}, state: States \cup {None},
     answer: Answer \cup {None}]

Idle ==
    [stage |-> "idle", user |-> None, provider |-> None, row |-> NoRow, reset |-> FALSE,
     token |-> None, state |-> None, answer |-> None]

TypeOK ==
    /\ scenario \in Scenarios
    /\ providers \in [ProviderIds -> ProviderRow]
    /\ rows \in 0..MaxRows
    /\ tokens \subseteq Tokens \X ProviderIds
    /\ records \subseteq Domains \X Tokens
    /\ states \in [States -> StateRow]
    /\ recorded \subseteq AssertionIds
    /\ answers \subseteq Answer
    /\ known \subseteq Subjects /\ live \subseteq Subjects
    /\ req \in [Requests -> Request]
    /\ signIns \subseteq [answer: Answer, state: States \cup {None}]
    /\ used \in [States \cup AssertionIds -> Nat]
    /\ writes \subseteq (Users \cup {None}) \X Users

Init ==
    /\ scenario \in Scenarios
    /\ providers = scenario.providers
    /\ rows = Numbered(providers)
    /\ tokens = {} /\ records = {}
    /\ states = [s \in States |-> NoState]
    /\ recorded = {} /\ answers = {} /\ known = {} /\ live = {}
    /\ req = [r \in Requests |-> Idle]
    /\ signIns = {} /\ used = [x \in States \cup AssertionIds |-> 0]
    /\ writes = {}

Present(p) == providers[p].id # 0

IsSaml(row) == row.idp \in SamlIdps

\* Tokens and ids come from the random source; which of the unused ones is drawn
\* makes no difference.
Draw(unused) == IF unused = {} THEN {} ELSE {CHOOSE x \in unused : TRUE}

Step(r, fields) == req' = [req EXCEPT ![r] = fields]

Finish(r) == Step(r, Idle)

Endpoint(e) == e \in scenario.endpoints

-----------------------------------------------------------------------------
(* Provider management                                                     *)

\* createProvider up to its insert: the provider limit is counted.  A providerId
\* of the configuration is refused; those of social providers are not in ProviderIds.
BeginRegister(r, u, p, idp, domains) ==
    /\ Endpoint("register") /\ req[r].stage = "idle"
    /\ providers[p].owner = None => ~Present(p)
    /\ Cardinality({q \in ProviderIds : providers[q].owner = u}) < ProvidersLimit
    /\ Step(r, [Idle EXCEPT !.stage = "create", !.user = u, !.provider = p,
                            !.row = [NoRow EXCEPT !.owner = u, !.idp = idp,
                                                  !.domains = domains,
                                                  !.verified = ~scenario.domainVerification]])
    /\ UNCHANGED <<scenario, table, domain, login>>

\* The insert, whose unique providerId lets one of several win.  register goes on
\* to putDomainVerification.
CreateProvider(r) ==
    LET p == req[r].provider IN
    /\ req[r].stage = "create"
    /\ \/ /\ ~Present(p) /\ rows < MaxRows
          /\ rows' = rows + 1
          /\ providers' = [providers EXCEPT ![p] = [req[r].row EXCEPT !.id = rows + 1]]
          /\ IF scenario.domainVerification THEN Step(r, [req[r] EXCEPT !.stage = "clear"])
             ELSE Finish(r)
       \/ /\ Present(p)
          /\ Finish(r)
          /\ UNCHANGED <<providers, rows>>
    /\ UNCHANGED <<scenario, writes, domain, login>>

\* findProvider and authorizeProvider at the head of a management endpoint.
ReadProvider(r, u, p, stage) ==
    /\ req[r].stage = "idle"
    /\ Present(p) /\ providers[p].owner = u
    /\ Step(r, [Idle EXCEPT !.stage = stage, !.user = u, !.provider = p, !.row = providers[p]])
    /\ UNCHANGED <<scenario, table, domain, login>>

\* updateProvider up to its write: the fields that are not requested are those of
\* the row it read.  A configuration or an issuer in the request, or another
\* domain, resets domainVerified.
BeginUpdate(r, u, p, idp, domains, configured) ==
    /\ Endpoint("update")
    /\ idp # providers[p].idp => configured
    /\ req[r].stage = "idle"
    /\ Present(p) /\ providers[p].owner = u
    /\ Step(r, [Idle EXCEPT !.stage = "update", !.user = u, !.provider = p,
                            !.row = [providers[p] EXCEPT !.idp = idp, !.domains = domains],
                            !.reset = /\ scenario.domainVerification
                                      /\ configured \/ domains # providers[p].domains])
    /\ UNCHANGED <<scenario, table, domain, login>>

\* Fault variant of SameRow: the row is found by providerId alone.
SameProviderId(r) == Present(req[r].provider)

\* The WHERE clause id and providerId of update, delete and verify.
SameRow(r) == Present(req[r].provider) /\ providers[req[r].provider].id = req[r].row.id

Wrote(r) == writes' = writes \cup {<<providers[req[r].provider].owner, req[r].user>>}

\* domainVerified is written only to reset it.
UpdateProvider(r) ==
    LET p == req[r].provider IN
    /\ req[r].stage = "update"
    /\ \/ /\ SameRow(r)
          /\ providers' = [providers EXCEPT ![p].idp = req[r].row.idp,
                                            ![p].domains = req[r].row.domains,
                                            ![p].verified = @ /\ ~req[r].reset]
          /\ Wrote(r)
       \/ ~SameRow(r) /\ UNCHANGED <<providers, writes>>
    /\ Finish(r)
    /\ UNCHANGED <<scenario, rows, domain, login>>

\* deleteProvider leaves the accounts, states and tokens of the provider.
DeleteProvider(r) ==
    /\ req[r].stage = "delete"
    /\ \/ /\ SameRow(r)
          /\ providers' = [providers EXCEPT ![req[r].provider] = NoRow]
          /\ Wrote(r)
       \/ ~SameRow(r) /\ UNCHANGED <<providers, writes>>
    /\ Finish(r)
    /\ UNCHANGED <<scenario, rows, domain, login>>

-----------------------------------------------------------------------------
(* Domain verification                                                     *)

\* requestDomainVerification, for a row that is not verified.
RequestDomainVerification(r, u, p) ==
    /\ Endpoint("request") /\ scenario.domainVerification /\ ~providers[p].verified
    /\ ReadProvider(r, u, p, "clear")

\* putDomainVerification: DeleteMany of the provider's tokens, then the new one.
ClearTokens(r) ==
    /\ req[r].stage = "clear"
    /\ tokens' = {t \in tokens : t[2] # req[r].provider}
    /\ Step(r, [req[r] EXCEPT !.stage = "put"])
    /\ UNCHANGED <<scenario, table, records, login>>

PutToken(r) ==
    /\ req[r].stage = "put"
    /\ \E t \in Draw(Tokens \ ({x[1] : x \in tokens} \cup {x[2] : x \in records} \cup
                               {req[q].token : q \in Requests})) :
         tokens' = tokens \cup {<<t, req[r].provider>>}
    /\ Finish(r)
    /\ UNCHANGED <<scenario, table, records, login>>

\* The owner of a domain publishes a token it was given.
Publish(d, t) ==
    /\ <<d, t[1]>> \notin records
    /\ records' = records \cup {<<d, t[1]>>}
    /\ UNCHANGED <<scenario, table, tokens, login, req>>

\* verifyDomain reads the provider, then a pending token.
FindPending(r) ==
    /\ req[r].stage = "pending"
    /\ \/ \E t \in tokens :
            /\ t[2] = req[r].provider
            /\ Step(r, [req[r] EXCEPT !.stage = "lookup", !.token = t[1]])
       \/ /\ \A t \in tokens : t[2] # req[r].provider
          /\ Finish(r)
    /\ UNCHANGED <<scenario, table, domain, login>>

\* The TXT records of the domains of the row it read: one match is enough.
LookupTXT(r) ==
    LET found == {d \in req[r].row.domains : <<d, req[r].token>> \in records} IN
    /\ req[r].stage = "lookup"
    /\ IF found # {} THEN Step(r, [req[r] EXCEPT !.stage = "consume"]) ELSE Finish(r)
    /\ UNCHANGED <<scenario, table, domain, login>>

\* ConsumeOne of the token; that it may find no row is not looked at.
ConsumeToken(r) ==
    /\ req[r].stage = "consume"
    /\ tokens' = tokens \ {<<req[r].token, req[r].provider>>}
    /\ Step(r, [req[r] EXCEPT !.stage = "confirm"])
    /\ UNCHANGED <<scenario, table, records, login>>

\* domainVerified, on the row's id alone.
ConfirmDomain(r) ==
    /\ req[r].stage = "confirm"
    /\ \/ /\ SameRow(r)
          /\ providers' = [providers EXCEPT ![req[r].provider].verified = TRUE]
          /\ Wrote(r)
       \/ ~SameRow(r) /\ UNCHANGED <<providers, writes>>
    /\ Finish(r)
    /\ UNCHANGED <<scenario, rows, domain, login>>

-----------------------------------------------------------------------------
(* Sign-in                                                                 *)

\* createState.  The caller learns the state with the answer to its request.
CreateState(s, kind, p, signUp) ==
    states' = [states EXCEPT ![s] = [status |-> "stored", kind |-> kind, provider |-> p,
                                     signUp |-> signUp]]

FreeStates == Draw({s \in States : states[s].status = "free"})

\* startSAML: the id of the authentication request is kept in the state.
StartSAML(s, p, signUp) == CreateState(s, "saml", p, signUp)

\* findProviderForSignIn: by providerId, issuer or domain, which come to the same.
Selected(p) == Present(p)

\* signIn: the provider is read and a state stored for it.
SignIn(p, signUp) ==
    /\ Endpoint("sign-in") /\ Selected(p)
    /\ scenario.domainVerification => providers[p].verified
    /\ \E s \in FreeStates :
         IF IsSaml(providers[p]) THEN StartSAML(s, p, signUp)
         ELSE CreateState(s, "oidc", p, signUp)
    /\ UNCHANGED <<scenario, table, domain, recorded, answers, known, live, req, signIns, used>>

Stored(s, kind) == states[s].status = "stored" /\ states[s].kind = kind

\* Fault variant of ConsumeState: the row is only found.
FindState(s, kind) == Stored(s, kind) /\ UNCHANGED states

\* consumeState: ConsumeOne by identifier and value.
ConsumeState(s, kind) ==
    /\ Stored(s, kind)
    /\ states' = [states EXCEPT ![s].status = "gone"]

\* StateTTL passes.
ExpireState(s) ==
    /\ states[s].status = "stored"
    /\ states' = [states EXCEPT ![s].status = "gone"]
    /\ UNCHANGED <<scenario, table, domain, recorded, answers, known, live, req, signIns, used>>

\* An identity provider answers a state, or without being asked.
SignAnswer(p, s, subject) ==
    /\ Endpoint("sign-in") /\ Present(p)
    /\ s # None => states[s].status # "free" /\ states[s].provider = p
    /\ s = None => IsSaml(providers[p])
    /\ \E id \in Draw(AssertionIds \ {a.id : a \in answers}) :
         answers' = answers \cup {[id |-> id, idp |-> providers[p].idp, provider |-> p,
                                   asked |-> s, subject |-> subject]}
    /\ UNCHANGED <<scenario, table, domain, states, recorded, known, live, req, signIns, used>>

\* oidcCallback consumes the state first: a mismatching path, an error answer or
\* a missing code leaves it consumed.
OidcCallback(r, s, a) ==
    /\ req[r].stage = "idle"
    /\ ConsumeState(s, "oidc")
    /\ \/ Step(r, [Idle EXCEPT !.stage = "exchange", !.provider = states[s].provider,
                               !.state = s, !.answer = a])
       \/ Finish(r)
    /\ UNCHANGED <<scenario, table, domain, recorded, answers, known, live, signIns, used>>

Allowed(row, subject) == DomainOf[subject] \in row.domains

\* The ID token carries the nonce of the state.
NonceMatches(a, s) == a.asked = s

\* findProvider, Exchange and the check of the address against that row.
Exchange(r) ==
    LET p == req[r].provider  a == req[r].answer IN
    /\ req[r].stage = "exchange"
    /\ IF /\ Present(p) /\ ~IsSaml(providers[p])
          /\ a.idp = providers[p].idp /\ NonceMatches(a, req[r].state)
          /\ Allowed(providers[p], a.subject)
       THEN Step(r, [req[r] EXCEPT !.stage = "exists", !.row = providers[p]])
       ELSE Finish(r)
    /\ UNCHANGED <<scenario, table, domain, login>>

\* samlCallback reads the provider named by the path ...
SamlCallback(r, p, s, a) ==
    /\ req[r].stage = "idle" /\ Present(p) /\ IsSaml(providers[p])
    /\ s # None \/ scenario.allowIDPInitiated
    /\ Step(r, [Idle EXCEPT !.stage = "relay", !.provider = p, !.row = providers[p],
                            !.state = s, !.answer = a])
    /\ UNCHANGED <<scenario, table, domain, login>>

\* Fault variant of ParseResponse: InResponseTo is never compared.
ParseAnyResponse(r) ==
    req[r].answer.idp = req[r].row.idp /\ req[r].answer.provider = req[r].provider

\* ParseResponse.  The library does not compare InResponseTo at all once IdP
\* initiated answers are allowed.
ParseResponse(r) ==
    LET a == req[r].answer IN
    /\ a.idp = req[r].row.idp /\ a.provider = req[r].provider
    /\ scenario.allowIDPInitiated \/ a.asked = req[r].state

\* ... then consumes the relay state, if there is one, and validates the response.
RelayState(r) ==
    LET s == req[r].state IN
    /\ req[r].stage = "relay"
    /\ \/ /\ s # None /\ ConsumeState(s, "saml")
          /\ IF states[s].provider = req[r].provider /\ ParseResponse(r)
             THEN Step(r, [req[r] EXCEPT !.stage = "record"]) ELSE Finish(r)
       \/ /\ s # None /\ ~Stored(s, "saml")
          /\ Finish(r) /\ UNCHANGED states
       \/ /\ s = None
          /\ IF ParseResponse(r) THEN Step(r, [req[r] EXCEPT !.stage = "record"])
             ELSE Finish(r)
          /\ UNCHANGED states
    /\ UNCHANGED <<scenario, table, domain, recorded, answers, known, live, signIns, used>>

\* Fault variant of NewAssertion: an answer that was asked for is not looked up.
NewOrAsked(a) == a.id \notin recorded \/ a.asked # None

\* The unique value of the verification table.
NewAssertion(a) == a.id \notin recorded

\* recordSAMLAssertion, then the check of the address against the row read.
RecordSAMLAssertion(r) ==
    LET a == req[r].answer IN
    /\ req[r].stage = "record"
    /\ IF NewAssertion(a)
       THEN /\ recorded' = recorded \cup {a.id}
            /\ IF Allowed(req[r].row, a.subject)
               THEN Step(r, [req[r] EXCEPT !.stage = "exists"]) ELSE Finish(r)
       ELSE Finish(r) /\ UNCHANGED recorded
    /\ UNCHANGED <<scenario, table, domain, states, answers, known, live, signIns, used>>

\* ssoIdentityExists: by account key or by email.
IdentityExists(a) == a.subject \in known

\* completeIdentityWithState: ssoIdentityExists when implicit sign-up is disabled.
CheckSignUp(r) ==
    LET s == req[r].state
        asked == s # None /\ states[s].signUp
    IN
    /\ req[r].stage = "exists"
    /\ IF ~scenario.disableImplicitSignUp \/ asked \/ IdentityExists(req[r].answer)
       THEN Step(r, [req[r] EXCEPT !.stage = "authenticate"]) ELSE Finish(r)
    /\ UNCHANGED <<scenario, table, domain, login>>

\* AuthenticateOAuth: OAuthAccounts!UpsertOAuthUser and its session, in one
\* transaction, which may refuse to link the identity.  A failing provisioning hook
\* afterwards leaves both.
Authenticate(r) ==
    LET a == req[r].answer IN
    /\ req[r].stage = "authenticate"
    /\ \/ /\ known' = known \cup {a.subject}
          /\ live' = live \cup {a.subject}
          /\ signIns' = signIns \cup {[answer |-> a, state |-> req[r].state]}
          /\ used' = [x \in DOMAIN used |-> IF x \in {req[r].state, a.id} THEN used[x] + 1
                                           ELSE used[x]]
       \/ UNCHANGED <<known, live, signIns, used>>
    /\ Finish(r)
    /\ UNCHANGED <<scenario, table, domain, states, recorded, answers>>

-----------------------------------------------------------------------------
(* Single logout                                                           *)

\* initiateSAMLLogout for a subject with an account of the provider.
InitiateSAMLLogout(r, p, x) ==
    /\ Endpoint("logout") /\ req[r].stage = "idle"
    /\ Present(p) /\ IsSaml(providers[p]) /\ x \in live \cap known
    /\ \E s \in FreeStates :
         /\ CreateState(s, "slo", p, FALSE)
         /\ Step(r, [Idle EXCEPT !.stage = "revoke", !.provider = p, !.state = s])
    /\ UNCHANGED <<scenario, table, domain, recorded, answers, known, live, signIns, used>>

\* The caller's session is revoked by id and token hash; one that was rotated
\* since the request was authenticated is not found, and goes on.
RevokeAtLogout(r) ==
    /\ req[r].stage = "revoke"
    /\ \/ UNCHANGED live
       \/ \E x \in live : live' = live \ {x}
    /\ Finish(r)
    /\ UNCHANGED <<scenario, table, domain, states, recorded, answers, known, signIns, used>>

\* samlLogoutCallback; the browser has the state once initiateSAMLLogout answered.
SamlLogoutCallback(s) ==
    /\ Endpoint("logout") /\ \A r \in Requests : req[r].state # s
    /\ ConsumeState(s, "slo")
    /\ UNCHANGED <<scenario, table, domain, recorded, answers, known, live, req, signIns, used>>

Next ==
    \/ \E r \in Requests, u \in Users, p \in ProviderIds :
         \/ \E o \in scenario.offers :
              \/ BeginRegister(r, u, p, o.idp, o.domains)
              \/ \E configured \in BOOLEAN : BeginUpdate(r, u, p, o.idp, o.domains, configured)
         \/ Endpoint("delete") /\ ReadProvider(r, u, p, "delete")
         \/ Endpoint("verify") /\ ReadProvider(r, u, p, "pending")
         \/ RequestDomainVerification(r, u, p)
    \/ \E r \in Requests :
         \/ CreateProvider(r) \/ UpdateProvider(r) \/ DeleteProvider(r)
         \/ ClearTokens(r) \/ PutToken(r) \/ FindPending(r) \/ LookupTXT(r)
         \/ ConsumeToken(r) \/ ConfirmDomain(r)
         \/ Exchange(r) \/ RelayState(r) \/ RecordSAMLAssertion(r)
         \/ CheckSignUp(r) \/ Authenticate(r) \/ RevokeAtLogout(r)
    \/ \E d \in Domains, t \in tokens : Publish(d, t)
    \/ \E p \in ProviderIds, signUp \in BOOLEAN : SignIn(p, signUp)
    \/ \E p \in ProviderIds, s \in States \cup {None}, x \in Subjects : SignAnswer(p, s, x)
    \/ \E r \in Requests, a \in answers :
         \/ \E s \in States : OidcCallback(r, s, a)
         \/ \E s \in States \cup {None} : SamlCallback(r, a.provider, s, a)
    \/ \E r \in Requests, p \in ProviderIds, x \in Subjects : InitiateSAMLLogout(r, p, x)
    \/ \E s \in States : SamlLogoutCallback(s) \/ ExpireState(s)

Spec == Init /\ [][Next]_vars

-----------------------------------------------------------------------------
(* Properties                                                              *)

\* A state completes one sign-in, however many callbacks carry it at once, and
\* although the code or assertion is exchanged after the state was consumed.
OneSignInPerState == \A s \in States : used[s] <= 1

\* A SAML assertion completes one sign-in, whether it was asked for or not, and
\* also when it is delivered twice at once and with different relay states
\* (recordSAMLAssertion).
AssertionOnce == \A a \in answers : a.idp \in SamlIdps => used[a.id] <= 1

\* Answers that nothing ties to a request: all those of SAML providers once
\* AllowIDPInitiated is on, for then the request id of the consumed state is handed
\* to a library that does not look at it (saml.go lines 189-197).
Uncorrelated(a) == scenario.allowIDPInitiated /\ a.idp \in SamlIdps

\* A sign-in that began here is completed at the provider it began with and never
\* with the state of a logout; and with what the identity provider answered to that
\* very request, except for SAML when AllowIDPInitiated is on.  There it may end with
\* an unsolicited answer or one to another request, although ADR 0007 (lines 121-123
\* and 131-133) consumes request ids for InResponseTo and bypasses no correlation.
AnswerOfThisCeremony ==
    \A i \in signIns : i.state # None =>
        /\ states[i.state].provider = i.answer.provider
        /\ states[i.state].kind = IF i.answer.idp \in SamlIdps THEN "saml" ELSE "oidc"
        /\ Uncorrelated(i.answer) \/ i.answer.asked = i.state

\* A provider row is only written for its owner, also when the providerId was
\* deleted and registered by somebody else between the check and the write.
OwnerWrites == \A w \in writes : w[1] = w[2]

=============================================================================

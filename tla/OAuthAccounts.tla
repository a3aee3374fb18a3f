--------------------------- MODULE OAuthAccounts ----------------------------
(***************************************************************************)
(* Social sign-in and linked accounts: the authorization state, the        *)
(* provider callback, explicit and implicit linking, unlinking, and the    *)
(* refresh of provider tokens (handlers_oauth.go,                          *)
(* handlers_account_tokens.go, account_identity.go, store.go).             *)
(*                                                                         *)
(* An identity is an account at a provider: the pair (providerId,          *)
(* accountId) that the unique index uniq_provider_account protects.  A     *)
(* callback is several steps with a provider call among them, so accounts  *)
(* and users may change between any two of them.  A transaction of the     *)
(* store is one step.  Provider tokens are numbered as they are issued.    *)
(***************************************************************************)
EXTENDS Naturals, FiniteSets

CONSTANTS
    Users, Emails, Providers, Identities, AccountIds, OAuthStates, Requests, None,
    ProviderOf, EmailOf,    \* of each identity
    Previous,               \* the identity's id before the provider renumbered it
    TrustedProviders,       \* Config.Account.TrustedProviders
    Placeholders,           \* made-up addresses of identities without one
    Workloads,              \* the sets of operations that clients may mix
    AllowImplicitLink, RequireLocalEmailVerified, AllowLinkingDifferentEmails,
    AllowUnlinkingAll, UpdateAccountOnSignIn, AllowSignUp,
    MaxTokens               \* bound on the provider tokens issued

Ops == {"authorize", "link", "callback", "unlink", "token",
        "sign-up", "change-email", "delete"}

ASSUME OAuthAccountsAssumption ==
    /\ None \notin Users \cup Emails \cup Providers \cup Identities \cup AccountIds
                   \cup OAuthStates
    /\ ProviderOf \in [Identities -> Providers]
    /\ EmailOf \in [Identities -> Emails]
    /\ Previous \in [Identities -> Identities \cup {None}]
    /\ \A i \in Identities : Previous[i] # None =>
          ProviderOf[Previous[i]] = ProviderOf[i] /\ EmailOf[Previous[i]] = EmailOf[i]
    /\ \A i \in Identities : Previous[i] # None =>      \* renumbered once, each its own id
          Previous[Previous[i]] = None /\ \A j \in Identities \ {i} : Previous[j] # Previous[i]
    /\ TrustedProviders \subseteq Providers /\ Placeholders \subseteq Emails
    /\ Workloads \subseteq SUBSET Ops
    /\ {AllowImplicitLink, RequireLocalEmailVerified, AllowLinkingDifferentEmails,
        AllowUnlinkingAll, UpdateAccountOnSignIn, AllowSignUp} \subseteq BOOLEAN
    /\ MaxTokens \in Nat

VARIABLES
    endpoints,      \* the operations that clients call in this behaviour
    users,          \* the user table
    accounts,       \* the account table
    oauthStates,    \* the oauth-state rows of the verification table
    req,            \* the requests in flight
    grantee,        \* history: the identity each provider token was issued to
    proved          \* history: <<u, e>> when user u was shown to own address e

vars == <<endpoints, users, accounts, oauthStates, req, grantee, proved>>

history == <<grantee, proved>>

NoUser == [state |-> "absent", email |-> None, verified |-> FALSE]

UserRow == [state: {"present"}, email: Emails, verified: BOOLEAN]
           \cup {NoUser, [NoUser EXCEPT !.state = "deleted"]}

FreeAccount == [state |-> "free", user |-> None, identity |-> None, token |-> 0,
                via |-> None, starter |-> None, owned |-> FALSE]

\* identity is None in a credential account.  The last three fields are history: how
\* the row came about, the user who began an explicit link, and whether an implicit
\* link found a user already shown to own the profile's address.
AccountRow ==
    [state: {"present", "gone"}, user: Users, identity: Identities \cup {None},
     token: 0..MaxTokens, via: {"sign-up", "implicit", "link"}, starter: Users \cup {None},
     owned: BOOLEAN]
    \cup {FreeAccount}

StateRow == [state: {"free", "valid", "gone"}, provider: Providers \cup {None},
             linkUser: Users \cup {None}]

Request ==
    [step: {"idle", "put", "consume", "exchange", "session", "link", "upsert",
            "unlink", "read", "refresh", "store"},
     op: Ops \cup {None},
     user: Users \cup {None},               \* the user of the presented session
     provider: Providers \cup {None},       \* the provider of the route or body
     linkUser: Users \cup {None},           \* OAuthState.LinkUserID
     oauthState: OAuthStates \cup {None},
     account: AccountIds \cup {None},
     identity: Identities \cup {None},      \* the profile the provider returned
     verified: BOOLEAN,                     \* OAuthProfile.EmailVerified
     token: 0..MaxTokens]

Idle == [step |-> "idle", op |-> None, user |-> None, provider |-> None, linkUser |-> None,
         oauthState |-> None, account |-> None, identity |-> None, verified |-> FALSE,
         token |-> 0]

TypeOK ==
    /\ endpoints \in Workloads
    /\ users \in [Users -> UserRow]
    /\ accounts \in [AccountIds -> AccountRow]
    /\ oauthStates \in [OAuthStates -> StateRow]
    /\ req \in [Requests -> Request]
    /\ grantee \in [1..MaxTokens -> Identities \cup {None}]
    /\ proved \subseteq Users \X Emails

Init ==
    /\ endpoints \in Workloads
    /\ users = [u \in Users |-> NoUser]
    /\ accounts = [a \in AccountIds |-> FreeAccount]
    /\ oauthStates = [s \in OAuthStates |->
                        [state |-> "free", provider |-> None, linkUser |-> None]]
    /\ req = [r \in Requests |-> Idle]
    /\ grantee = [n \in 1..MaxTokens |-> None]
    /\ proved = {}

Finish(r) == req' = [req EXCEPT ![r] = Idle]

Goto(r, step) == req' = [req EXCEPT ![r].step = step]

Present(u) == users[u].state = "present"

Owners(e) == {u \in Users : Present(u) /\ users[u].email = e}

Linked(a) == accounts[a].state = "present"

Drawn == {a \in AccountIds : accounts[a].state # "free"}

\* The id of the next account row, if one is left.
NewIds ==
    IF Drawn = AccountIds THEN {} ELSE {CHOOSE a \in AccountIds : a \notin Drawn}

\* FindAccountByKey; the unique index makes it at most one row.
Keyed(i) == {a \in AccountIds : Linked(a) /\ accounts[a].identity = i}

-----------------------------------------------------------------------------
(* Arrival.  link, unlink and token requests present a session of a user.  *)

Start(r, inputs) == req[r].step = "idle" /\ req' = [req EXCEPT ![r] = inputs]

Arrive(r) ==
    /\ \E op \in endpoints :
         \/ /\ op = "authorize"
            /\ \E p \in Providers :
                 Start(r, [Idle EXCEPT !.op = op, !.step = "put", !.provider = p])
         \/ /\ op = "link"
            /\ \E p \in Providers, u \in Users :
                 /\ Present(u)
                 /\ Start(r, [Idle EXCEPT !.op = op, !.step = "put", !.provider = p,
                                          !.user = u, !.linkUser = u])
         \/ /\ op = "callback"
            /\ \E p \in Providers, s \in OAuthStates :
                 Start(r, [Idle EXCEPT !.op = op, !.step = "consume", !.provider = p,
                                       !.oauthState = s])
         \/ /\ op \in {"unlink", "token"}
            /\ \E u \in Users :
                 /\ Present(u)
                 /\ Start(r, [Idle EXCEPT !.op = op, !.user = u,
                                !.step = IF op = "unlink" THEN "unlink" ELSE "read"])
    /\ UNCHANGED <<users, accounts, oauthStates, history>>

-----------------------------------------------------------------------------
(* The authorization state                                                 *)

\* beginSocialAuthorize: PutOAuthState, then the redirect to the provider.
PutOAuthState(r) ==
    /\ req[r].step = "put"
    /\ \E s \in OAuthStates :
         /\ oauthStates[s].state = "free"
         /\ oauthStates' = [oauthStates EXCEPT ![s] =
                [state |-> "valid", provider |-> req[r].provider,
                 linkUser |-> req[r].linkUser]]
    /\ Finish(r)
    /\ UNCHANGED <<users, accounts, history>>

\* ConsumeOAuthState's ConsumeOne.
SpendState(s) == [oauthStates EXCEPT ![s].state = "gone"]

\* handleSocialCallback up to the provider call: the state is spent even when it
\* was issued for another provider's callback.
ConsumeOAuthState(r) ==
    /\ req[r].step = "consume"
    /\ LET s == req[r].oauthState IN
       \/ /\ oauthStates[s].state = "valid"
          /\ oauthStates' = SpendState(s)
          /\ IF oauthStates[s].provider = req[r].provider
             THEN req' = [req EXCEPT ![r].step = "exchange",
                                     ![r].linkUser = oauthStates[s].linkUser]
             ELSE Finish(r)
       \/ /\ oauthStates[s].state # "valid"
          /\ Finish(r)
          /\ UNCHANGED oauthStates
    /\ UNCHANGED <<users, accounts, grantee, proved>>

-----------------------------------------------------------------------------
(* The provider                                                            *)

Issued == {n \in 1..MaxTokens : grantee[n] # None}

NextToken == Cardinality(Issued) + 1

\* What a profile is taken to assert: the provider's own word, or the application's
\* trust in the provider unless the address is made up.
Asserts(i, verified) ==
    verified \/ (ProviderOf[i] \in TrustedProviders /\ EmailOf[i] \notin Placeholders)

\* OAuthProvider.Exchange, and the checks on the profile.  A profile that neither
\* the provider nor the application vouches for ends the request.
Exchange(r) ==
    /\ req[r].step = "exchange" /\ NextToken <= MaxTokens
    /\ \E i \in Identities, verified \in BOOLEAN :
         /\ ProviderOf[i] = req[r].provider
         /\ \/ /\ verified \/ ProviderOf[i] \in TrustedProviders
               /\ grantee' = [grantee EXCEPT ![NextToken] = i]
               /\ req' = [req EXCEPT ![r].identity = i, ![r].token = NextToken,
                                     ![r].verified = Asserts(i, verified),
                                     ![r].step = IF req[r].linkUser # None
                                                 THEN "session" ELSE "upsert"]
            \/ /\ ~(verified \/ ProviderOf[i] \in TrustedProviders)
               /\ Finish(r)
               /\ UNCHANGED grantee
    /\ UNCHANGED <<users, accounts, oauthStates, proved>>

-----------------------------------------------------------------------------
(* Linking                                                                 *)

\* Fault variant of MayLink: whoever is signed in gets the account.
MayLinkAnyone(r, u) ==
    /\ Present(u)
    /\ AllowLinkingDifferentEmails \/ EmailOf[req[r].identity] = users[u].email

\* The checks of a callback that links, when the browser presents a session of u.
MayLink(r, u) ==
    /\ Present(u)
    /\ u = req[r].linkUser
    /\ AllowLinkingDifferentEmails \/ EmailOf[req[r].identity] = users[u].email

\* sessionFromRequest in the callback: the browser may be signed in as anybody by
\* now, or as nobody.
CheckLinkSession(r) ==
    /\ req[r].step = "session"
    /\ \/ \E u \in Users :
            /\ MayLink(r, u)
            /\ req' = [req EXCEPT ![r].user = u, ![r].step = "link"]
       \/ Finish(r)
    /\ UNCHANGED <<users, accounts, oauthStates, history>>

\* findProfileAccount: the row of the identity, or else the row of its previous id.
ProfileAccounts(i) ==
    IF Keyed(i) # {} \/ Previous[i] = None THEN Keyed(i) ELSE Keyed(Previous[i])

\* findProfileAccount's re-keying and the update of the tokens.
Rekeyed(a, i) == [accounts EXCEPT ![a].identity = i]

WithTokens(a, i, token) == [accounts EXCEPT ![a].identity = i, ![a].token = token]

\* The account record of a profile, with the tokens of the exchange.
NewAccount(r, u, via) ==
    [state |-> "present", user |-> u, identity |-> req[r].identity, token |-> req[r].token,
     via |-> via, starter |-> req[r].linkUser,
     owned |-> via = "implicit" /\ <<u, EmailOf[req[r].identity]>> \in proved]

\* LinkOAuthAccount: an account of another user is a conflict, one of the same user
\* gets the new tokens.  The user itself is not looked at: it may be gone.
LinkOAuthAccount(r) ==
    /\ req[r].step = "link"
    /\ LET found == ProfileAccounts(req[r].identity) IN
       \/ \E a \in found :
            accounts' = IF accounts[a].user = req[r].user
                        THEN WithTokens(a, req[r].identity, req[r].token) ELSE accounts
       \/ /\ found = {}
          /\ \E a \in NewIds :
               accounts' = [accounts EXCEPT ![a] = NewAccount(r, req[r].user, "link")]
    /\ Finish(r)
    /\ UNCHANGED <<users, oauthStates, history>>

-----------------------------------------------------------------------------
(* Sign-in: UpsertOAuthUser                                                *)

\* Fault variant of ProvesEmail: the address of the profile is not compared.
ProvesAnyEmail(r, u) == req[r].verified

\* The profile proves the address that the user row holds.
ProvesEmail(r, u) == req[r].verified /\ EmailOf[req[r].identity] = users[u].email

Evidence(r, u) ==
    IF req[r].verified THEN {<<u, EmailOf[req[r].identity]>>} ELSE {}

\* The account exists.  Without its user (deleted after a link was checked) the
\* transaction fails and the re-keying is undone.
UpsertKnown(r, a) ==
    LET u == accounts[a].user
        i == req[r].identity
    IN  IF Present(u)
        THEN /\ accounts' = IF UpdateAccountOnSignIn THEN WithTokens(a, i, req[r].token)
                            ELSE Rekeyed(a, i)
             /\ users' = IF ProvesEmail(r, u) THEN [users EXCEPT ![u].verified = TRUE]
                         ELSE users
             /\ proved' = proved \cup Evidence(r, u)
        ELSE UNCHANGED <<accounts, users, proved>>

\* Neither the account nor a user with the profile's address exists.
UpsertNew(r) ==
    \E u \in Users, a \in NewIds :
        /\ users[u].state = "absent"
        /\ users' = [users EXCEPT ![u] = [state |-> "present",
                        email |-> EmailOf[req[r].identity], verified |-> req[r].verified]]
        /\ accounts' = [accounts EXCEPT ![a] = NewAccount(r, u, "sign-up")]
        /\ proved' = proved \cup Evidence(r, u)

\* Fault variant of MayLinkImplicitly: the local verification is not asked for.
MayLinkUnverified(u) == AllowImplicitLink

MayLinkImplicitly(u) ==
    AllowImplicitLink /\ (RequireLocalEmailVerified => users[u].verified)

\* A user with the profile's address exists: the account is linked to it.
UpsertImplicit(r, u) ==
    \E a \in NewIds :
        /\ accounts' = [accounts EXCEPT ![a] = NewAccount(r, u, "implicit")]
        /\ users' = IF ProvesEmail(r, u) THEN [users EXCEPT ![u].verified = TRUE] ELSE users
        /\ proved' = proved \cup Evidence(r, u)

UpsertOAuthUser(r) ==
    /\ req[r].step = "upsert"
    /\ LET found == ProfileAccounts(req[r].identity)
           owners == Owners(EmailOf[req[r].identity])
       IN  \/ \E a \in found : UpsertKnown(r, a)
           \/ /\ found = {} /\ owners = {} /\ AllowSignUp
              /\ UpsertNew(r)
           \/ /\ found = {}
              /\ \E u \in owners : MayLinkImplicitly(u) /\ UpsertImplicit(r, u)
           \/ /\ found = {}
              /\ IF owners = {} THEN ~AllowSignUp
                 ELSE \A u \in owners : ~MayLinkImplicitly(u)
              /\ UNCHANGED <<users, accounts, proved>>
    /\ Finish(r)
    /\ UNCHANGED <<oauthStates, grantee>>

-----------------------------------------------------------------------------
(* Unlinking                                                               *)

AccountsOf(u) == {a \in AccountIds : Linked(a) /\ accounts[a].user = u}

MayUnlink(u) == AllowUnlinkingAll \/ Cardinality(AccountsOf(u)) > 1

\* UnlinkAccount and UnlinkAccountByID: count, look up and delete in one
\* transaction.  The selector finds one of the user's own accounts, or none.
UnlinkAccount(r) ==
    /\ req[r].step = "unlink"
    /\ \/ /\ MayUnlink(req[r].user)
          /\ \E a \in AccountsOf(req[r].user) :
               accounts' = [accounts EXCEPT ![a].state = "gone"]
       \/ UNCHANGED accounts
    /\ Finish(r)
    /\ UNCHANGED <<users, oauthStates, history>>

-----------------------------------------------------------------------------
(* Provider tokens                                                         *)

\* providerAccount: one of the caller's own social accounts, and its tokens.
\* get-access-token answers at once when the stored token is still good.
ReadTokens(r) ==
    /\ req[r].step = "read"
    /\ \/ \E a \in AccountsOf(req[r].user) :
            /\ accounts[a].identity # None
            /\ req' = [req EXCEPT ![r].account = a, ![r].token = accounts[a].token,
                                  ![r].step = "refresh"]
       \/ Finish(r)
    /\ UNCHANGED <<users, accounts, oauthStates, history>>

\* OAuthTokenRefresher.Refresh: the provider issues a new token for the identity the
\* presented one was issued to.
Refresh(r) ==
    /\ req[r].step = "refresh" /\ NextToken <= MaxTokens
    /\ grantee' = [grantee EXCEPT ![NextToken] = grantee[req[r].token]]
    /\ req' = [req EXCEPT ![r].token = NextToken, ![r].step = "store"]
    /\ UNCHANGED <<users, accounts, oauthStates, proved>>

\* Fault variant of StoredIn: the row's id is not compared.
StoredInAll(r) == {a \in AccountsOf(req[r].user) : accounts[a].identity # None}

\* UpdateOAuthAccountTokens' WHERE clause: the row that was read, if still the
\* user's.
StoredIn(r) == AccountsOf(req[r].user) \cap {req[r].account}

UpdateOAuthAccountTokens(r) ==
    /\ req[r].step = "store"
    /\ accounts' = [a \in AccountIds |->
                      IF a \in StoredIn(r) THEN [accounts[a] EXCEPT !.token = req[r].token]
                      ELSE accounts[a]]
    /\ Finish(r)
    /\ UNCHANGED <<users, oauthStates, history>>

-----------------------------------------------------------------------------
(* The other handlers, as far as they touch users and accounts             *)

\* CreateEmailUser: an unverified user with a credential account.
SignUp(u) ==
    /\ "sign-up" \in endpoints
    /\ users[u].state = "absent"
    /\ \E e \in Emails, a \in NewIds :
         /\ Owners(e) = {}
         /\ users' = [users EXCEPT ![u] = [state |-> "present", email |-> e,
                                           verified |-> FALSE]]
         /\ accounts' = [accounts EXCEPT ![a] =
                [state |-> "present", user |-> u, identity |-> None, token |-> 0,
                 via |-> "sign-up", starter |-> None, owned |-> FALSE]]
    /\ UNCHANGED <<oauthStates, req, history>>

\* ConsumeEmailChange and VerifyUserEmail prove the address, UpdateUser with a new
\* address does not.
ChangeEmail(u) ==
    /\ "change-email" \in endpoints
    /\ Present(u)
    /\ \E e \in Emails, verified \in BOOLEAN :
         /\ Owners(e) \subseteq {u}
         /\ verified \/ e # users[u].email
         /\ users' = [users EXCEPT ![u].email = e, ![u].verified = verified]
         /\ proved' = IF verified THEN proved \cup {<<u, e>>} ELSE proved
    /\ UNCHANGED <<accounts, oauthStates, req, grantee>>

\* DeleteUser: the accounts go with the user.
DeleteUser(u) ==
    /\ "delete" \in endpoints
    /\ Present(u)
    /\ users' = [users EXCEPT ![u] = [NoUser EXCEPT !.state = "deleted"]]
    /\ accounts' = [a \in AccountIds |->
                      IF Linked(a) /\ accounts[a].user = u
                      THEN [accounts[a] EXCEPT !.state = "gone"] ELSE accounts[a]]
    /\ UNCHANGED <<oauthStates, req, history>>

\* A request is lost, the provider fails, or a token has expired.
Abort(r) ==
    /\ req[r].step # "idle"
    /\ Finish(r)
    /\ UNCHANGED <<users, accounts, oauthStates, history>>

ExpireState(s) ==
    /\ oauthStates[s].state = "valid"
    /\ oauthStates' = [oauthStates EXCEPT ![s].state = "gone"]
    /\ UNCHANGED <<users, accounts, req, history>>

Next ==
    /\ \/ \E r \in Requests :
            \/ Arrive(r) \/ PutOAuthState(r) \/ ConsumeOAuthState(r) \/ Exchange(r)
            \/ CheckLinkSession(r) \/ LinkOAuthAccount(r) \/ UpsertOAuthUser(r)
            \/ UnlinkAccount(r) \/ ReadTokens(r) \/ Refresh(r)
            \/ UpdateOAuthAccountTokens(r) \/ Abort(r)
       \/ \E u \in Users : SignUp(u) \/ ChangeEmail(u) \/ DeleteUser(u)
       \/ \E s \in OAuthStates : ExpireState(s)
    /\ UNCHANGED endpoints

Spec == Init /\ [][Next]_vars

-----------------------------------------------------------------------------
(* Safety                                                                  *)

\* An account that link-social created belongs to the user who began the link,
\* although the browser may have signed in as somebody else, or the user may have
\* been deleted, before the provider called back.
LinkedByStarter ==
    \A a \in Drawn : accounts[a].via = "link" => accounts[a].user = accounts[a].starter

\* Under RequireLocalEmailVerified a social account is attached to an existing
\* user only when that user had been shown to own the address before: an account registered with
\* somebody else's address does not capture the owner's social sign-in.
ImplicitLinkProved ==
    RequireLocalEmailVerified =>
        \A a \in Drawn : accounts[a].via = "implicit" => accounts[a].owned

\* emailVerified is set only for an address that the user was shown to own, also
\* when a social sign-in finds its user after the user moved to another address.
VerifiedByEvidence ==
    \A u \in Users : users[u].verified => <<u, users[u].email>> \in proved

\* An identity and its previous id at the provider are one person.
SamePerson(i, j) == i = j \/ Previous[i] = j \/ Previous[j] = i

\* The tokens in an account row were issued to the provider account of that row (or
\* under its previous id), although a refresh reads the row, calls the provider and
\* writes in three steps while the account is unlinked, linked again or re-keyed.
TokensBelong ==
    \A a \in AccountIds : (Linked(a) /\ accounts[a].token # 0) =>
        SamePerson(grantee[accounts[a].token], accounts[a].identity)

=============================================================================

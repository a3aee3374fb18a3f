------------------------------ MODULE Passkey -------------------------------
(***************************************************************************)
(* The passkey plugin (plugin/passkey): WebAuthn registration and sign-in  *)
(* over single-use challenges, and the stored signature counters.          *)
(*                                                                         *)
(* A ceremony has two requests.  The first stores a challenge and gives    *)
(* its handle to the browser in a cookie; the second consumes it, reads    *)
(* the stored credentials, lets the WebAuthn library check the signature   *)
(* and then writes.  Every step below is one database call or transaction  *)
(* with the local computation around it, but for the transaction of a      *)
(* registration: it reads, then writes, and only the isolation of the      *)
(* database makes it one step.  The adapters ask for the default one       *)
(* (BeginTx with no options), so both levels below are found in practice.  *)
(* A request that a failure cuts short never takes its next step.          *)
(*                                                                         *)
(* An authenticator signs a challenge with its credential's next counter   *)
(* value; some always send zero.  A copied credential has a counter of its *)
(* own, and an authenticator may be reset and register the same credential *)
(* id again.  What the library decides is the operator ValidateLogin.      *)
(***************************************************************************)
EXTENDS Naturals, FiniteSets

CONSTANTS
    Users, None,
    Credentials,     \* credential ids
    Counterless,     \* those of authenticators that always send counter 0
    Challenges,      \* the challenge handles that may be drawn
    UserHandles,     \* the WebAuthn user handles that may be drawn
    Requests,        \* concurrent verify requests
    MaxCredentials,  \* the plugin's limit per user
    MaxCounter,      \* bound on signature counters
    Retarget         \* Registration.AfterVerification may name another user

ASSUME PasskeyAssumption ==
    /\ None \notin Users \cup UserHandles \cup Credentials \cup Challenges
    /\ Counterless \subseteq Credentials
    /\ MaxCredentials \in Nat \ {0} /\ MaxCounter \in Nat
    /\ Retarget \in BOOLEAN

VARIABLES
    isolation,  \* what the database makes of a transaction; never changes
    passkeys,   \* the passkey table, by credential id
    challenges, \* the plugin's verification rows
    keys,       \* the authenticators: user handle and counters they keep
    made,       \* assertions that authenticators have signed
    req,        \* verify requests in flight
    issued,     \* history: sessions per authentication challenge
    signIns     \* history: credential, owner at the counter update, user signed in

vars == <<isolation, passkeys, challenges, keys, made, req, issued, signIns>>

PasskeyRow ==
    [user: Users \cup {None}, handle: UserHandles \cup {None}, counter: 0..MaxCounter]

NoPasskey == [user |-> None, handle |-> None, counter |-> 0]

\* storedChallenge.  user is None for discoverable sign-in; allowed are the
\* credentials BeginLogin listed.
ChallengeRow ==
    [state: {"free", "stored", "gone"}, type: {"registration", "authentication", None},
     user: Users \cup {None}, handle: UserHandles \cup {None}, allowed: SUBSET Credentials]

NoChallenge ==
    [state |-> "free", type |-> None, user |-> None, handle |-> None, allowed |-> {}]

Assertion ==
    [credential: Credentials, challenge: Challenges, handle: UserHandles, counter: 0..MaxCounter]

Request ==
    [stage: {"idle", "register", "create", "read", "persist", "issue"},
     challenge: Challenges \cup {None},
     session: Users \cup {None},    \* context.User: the user of the session presented
     target: Users \cup {None},     \* the user the ceremony is for
     credential: Credentials \cup {None},
     assertion: Assertion \cup {None}, expected: 0..MaxCounter]

Idle ==
    [stage |-> "idle", challenge |-> None, session |-> None, target |-> None,
     credential |-> None, assertion |-> None, expected |-> 0]

TypeOK ==
    /\ isolation \in {"serial", "read-committed"}
    /\ passkeys \in [Credentials -> PasskeyRow]
    /\ challenges \in [Challenges -> ChallengeRow]
    /\ keys \in [Credentials -> [handle: UserHandles \cup {None},
                                 original: 0..MaxCounter, copy: 0..MaxCounter]]
    /\ made \subseteq Assertion
    /\ req \in [Requests -> Request]
    /\ issued \in [Challenges -> Nat]
    /\ signIns \subseteq Credentials \X (Users \cup {None}) \X Users

Init ==
    /\ isolation \in {"serial", "read-committed"}
    /\ passkeys = [c \in Credentials |-> NoPasskey]
    /\ challenges = [h \in Challenges |-> NoChallenge]
    /\ keys = [c \in Credentials |-> [handle |-> None, original |-> 0, copy |-> 0]]
    /\ made = {}
    /\ req = [r \in Requests |-> Idle]
    /\ issued = [h \in Challenges |-> 0]
    /\ signIns = {}

PasskeysOf(u) == {c \in Credentials : u # None /\ passkeys[c].user = u}

HandlesOf(u) == {passkeys[c].handle : c \in PasskeysOf(u)}

\* Handles come from the random source; which of the unused ones is drawn makes no
\* difference.
Draw(unused) == IF unused = {} THEN {} ELSE {CHOOSE x \in unused : TRUE}

FreshHandles ==
    UserHandles \ ({passkeys[c].handle : c \in Credentials} \cup
                   {challenges[h].handle : h \in Challenges} \cup
                   {keys[c].handle : c \in Credentials})

\* putChallenge: the row, and its handle in the cookie.
PutChallenge(row) ==
    \E h \in Draw({x \in Challenges : challenges[x].state = "free"}) :
        challenges' = [challenges EXCEPT ![h] = row]

\* Fault variant of ConsumeChallenge: a sign-in only finds its row.
FindChallenge(h, type) ==
    /\ challenges[h].state = "stored" /\ challenges[h].type = type
    /\ challenges' = IF type = "authentication" THEN challenges
                     ELSE [challenges EXCEPT ![h].state = "gone"]

\* consumeChallenge: ConsumeOne by ceremony and handle.
ConsumeChallenge(h, type) ==
    /\ challenges[h].state = "stored" /\ challenges[h].type = type
    /\ challenges' = [challenges EXCEPT ![h].state = "gone"]

\* ChallengeTTL passes.
ExpireChallenge(h) ==
    /\ challenges[h].state = "stored"
    /\ challenges' = [challenges EXCEPT ![h].state = "gone"]
    /\ UNCHANGED <<isolation, passkeys, keys, made, req, issued, signIns>>

-----------------------------------------------------------------------------
(* Registration                                                            *)

\* registrationUserHandle: the one of the user's passkeys, or a fresh one.  Rows
\* that disagree fail the request.
RegistrationUserHandle(u) ==
    IF PasskeysOf(u) = {} THEN Draw(FreshHandles)
    ELSE {x \in HandlesOf(u) : HandlesOf(u) = {x}}

\* generateRegistrationOptions for the user of the session, or the one that
\* ResolveUser names.
GenerateRegistrationOptions(u) ==
    /\ Cardinality(PasskeysOf(u)) < MaxCredentials
    /\ \E x \in RegistrationUserHandle(u) :
         PutChallenge([state |-> "stored", type |-> "registration", user |-> u,
                       handle |-> x, allowed |-> {}])
    /\ UNCHANGED <<isolation, passkeys, keys, made, req, issued, signIns>>

\* verifyRegistration up to its transaction: the authenticator has made credential
\* c for the challenge; a session, if there is one, must be the target's.
BeginVerifyRegistration(r, h, session, target) ==
    /\ req[r].stage = "idle"
    /\ ConsumeChallenge(h, "registration")
    /\ session # None => target = session /\ challenges[h].user = session
    /\ target # challenges[h].user => Retarget
    /\ req' = [req EXCEPT ![r] = [Idle EXCEPT !.stage = "register", !.challenge = h,
                                              !.session = session, !.target = target]]
    /\ UNCHANGED <<isolation, passkeys, keys, made, issued, signIns>>

\* Fault variant of MayCreate: the transaction trusts the handle that the first
\* request read.
MayCreateAnyHandle(u, handle, c) ==
    Cardinality(PasskeysOf(u)) < MaxCredentials /\ passkeys[c].user = None

\* The reads of createPasskey's transaction: Count, the handle of one row of the
\* user, and a row of the credential.  No index guards the first two.
MayCreate(u, handle, c) ==
    /\ Cardinality(PasskeysOf(u)) < MaxCredentials
    /\ PasskeysOf(u) = {} \/ handle \in HandlesOf(u)
    /\ passkeys[c].user = None

ChallengeHandle(r) == challenges[req[r].challenge].handle

\* The transaction begins.  Of rows that disagree it may read one with another handle.
CheckRegistration(r, c) ==
    LET u == req[r].target IN
    /\ req[r].stage = "register"
    /\ \/ /\ MayCreate(u, ChallengeHandle(r), c)
          /\ req' = [req EXCEPT ![r].stage = "create", ![r].credential = c]
       \/ /\ ~MayCreate(u, ChallengeHandle(r), c) \/ HandlesOf(u) \ {ChallengeHandle(r)} # {}
          /\ req' = [req EXCEPT ![r] = Idle]
    /\ UNCHANGED <<isolation, passkeys, challenges, keys, made, issued, signIns>>

\* What the database holds against the insert: a serial one also what has changed
\* below the transaction's reads, the other one the unique credentialID.
MayCommit(u, handle, c) ==
    IF isolation = "serial" THEN MayCreate(u, handle, c) ELSE passkeys[c].user = None

\* Create and commit, with the session of createSession.
CreatePasskey(r) ==
    LET u == req[r].target  c == req[r].credential IN
    /\ req[r].stage = "create"
    /\ IF MayCommit(u, ChallengeHandle(r), c)
       THEN /\ passkeys' = [passkeys EXCEPT ![c] =
                                [user |-> u, handle |-> ChallengeHandle(r), counter |-> 0]]
            /\ keys' = [keys EXCEPT ![c] =
                            [handle |-> ChallengeHandle(r), original |-> 0, copy |-> 0]]
       ELSE UNCHANGED <<passkeys, keys>>
    /\ req' = [req EXCEPT ![r] = Idle]
    /\ UNCHANGED <<isolation, challenges, made, issued, signIns>>

-----------------------------------------------------------------------------
(* Sign-in                                                                 *)

\* generateAuthenticationOptions: bound to a signed-in user who has passkeys,
\* discoverable otherwise.
GenerateAuthenticationOptions(session) ==
    /\ LET bound == PasskeysOf(session) # {} IN
       \E x \in IF bound THEN HandlesOf(session) ELSE {None} :
         PutChallenge([state |-> "stored", type |-> "authentication",
                       user |-> IF bound THEN session ELSE None,
                       handle |-> x, allowed |-> PasskeysOf(session)])
    /\ UNCHANGED <<isolation, passkeys, keys, made, req, issued, signIns>>

\* The authenticator, or a copy of its credential, signs a challenge.
Sign(c, h, which) ==
    LET next == IF c \in Counterless THEN 0 ELSE keys[c][which] + 1 IN
    /\ keys[c].handle # None /\ next <= MaxCounter
    /\ challenges[h].state = "stored" /\ challenges[h].type = "authentication"
    /\ made' = made \cup {[credential |-> c, challenge |-> h, handle |-> keys[c].handle,
                           counter |-> next]}
    /\ keys' = [keys EXCEPT ![c][which] = next]
    /\ UNCHANGED <<isolation, passkeys, challenges, req, issued, signIns>>

\* verifyAuthentication takes the challenge of the cookie; the body carries an
\* assertion, which the library ties to that challenge.
BeginVerifyAuthentication(r, a) ==
    /\ req[r].stage = "idle"
    /\ ConsumeChallenge(a.challenge, "authentication")
    /\ req' = [req EXCEPT ![r] = [Idle EXCEPT !.stage = "read", !.challenge = a.challenge,
                                              !.assertion = a]]
    /\ UNCHANGED <<isolation, passkeys, keys, made, issued, signIns>>

\* UpdateCounter of the library: CloneWarning, which persistAuthentication turns
\* into ErrReplay.
CloneWarning(stored, new) == new <= stored /\ (new # 0 \/ stored # 0)

\* ValidateLogin and ValidatePasskeyLogin over the rows findUserPasskeys or
\* findDiscoverableUser returned.
ValidateLogin(ch, a, u) ==
    /\ u # None
    /\ IF ch.user # None
       THEN u = ch.user /\ a.credential \in ch.allowed /\ ch.handle \in HandlesOf(u)
       ELSE passkeys[a.credential].handle = a.handle
    /\ passkeys[a.credential].user = u
    /\ a.handle \in HandlesOf(u)

\* The reads of verifyAuthentication, the library's verdict, credentialCounter and
\* the application's callback.  The second read of a discoverable sign-in decides;
\* a row that changed hands since the first one fails like a deleted one.
ReadCredentials(r) ==
    LET a == req[r].assertion  row == passkeys[a.credential] IN
    /\ req[r].stage = "read"
    /\ req' = [req EXCEPT ![r] =
         IF ValidateLogin(challenges[a.challenge], a, row.user) /\ ~CloneWarning(row.counter, a.counter)
         THEN [@ EXCEPT !.stage = "persist", !.target = row.user, !.expected = row.counter]
         ELSE Idle]
    /\ UNCHANGED <<isolation, passkeys, challenges, keys, made, issued, signIns>>

\* Fault variants of Unmoved: the update lacks its counter, or its userId, clause.
SameOwner(c, u, expected) == passkeys[c].user = u

SameCounter(c, u, expected) == passkeys[c].user # None /\ passkeys[c].counter = expected

\* The WHERE clause of persistAuthentication.
Unmoved(c, u, expected) == passkeys[c].user = u /\ passkeys[c].counter = expected

\* persistAuthentication.
PersistAuthentication(r) ==
    LET a == req[r].assertion  c == a.credential IN
    /\ req[r].stage = "persist"
    /\ \/ /\ Unmoved(c, req[r].target, req[r].expected)
          /\ passkeys' = [passkeys EXCEPT ![c].counter = a.counter]
          /\ signIns' = signIns \cup {<<c, passkeys[c].user, req[r].target>>}
          /\ req' = [req EXCEPT ![r].stage = "issue"]
       \/ /\ ~Unmoved(c, req[r].target, req[r].expected)
          /\ req' = [req EXCEPT ![r] = Idle]
          /\ UNCHANGED <<passkeys, signIns>>
    /\ UNCHANGED <<isolation, challenges, keys, made, issued>>

\* IssueSession; TwoFactor and Sessions follow the session table itself.
IssueSession(r) ==
    /\ req[r].stage = "issue"
    /\ issued' = [issued EXCEPT ![req[r].challenge] = @ + 1]
    /\ req' = [req EXCEPT ![r] = Idle]
    /\ UNCHANGED <<isolation, passkeys, challenges, keys, made, signIns>>

\* deletePasskey: id and userId.  updatePasskey writes the name only.
DeletePasskey(c, session) ==
    /\ session # None /\ passkeys[c].user = session
    /\ passkeys' = [passkeys EXCEPT ![c] = NoPasskey]
    /\ UNCHANGED <<isolation, challenges, keys, made, req, issued, signIns>>

Next ==
    \/ \E u \in Users : GenerateRegistrationOptions(u)
    \/ \E r \in Requests :
         \/ \E h \in Challenges, session \in Users \cup {None}, target \in Users :
              BeginVerifyRegistration(r, h, session, target)
         \/ \E c \in Credentials : CheckRegistration(r, c)
         \/ CreatePasskey(r)
         \/ \E a \in made : BeginVerifyAuthentication(r, a)
         \/ ReadCredentials(r) \/ PersistAuthentication(r) \/ IssueSession(r)
    \/ \E session \in Users \cup {None} : GenerateAuthenticationOptions(session)
    \/ \E c \in Credentials, h \in Challenges, which \in {"original", "copy"} : Sign(c, h, which)
    \/ \E c \in Credentials, session \in Users : DeletePasskey(c, session)
    \/ \E h \in Challenges : ExpireChallenge(h)

Spec == Init /\ [][Next]_vars

-----------------------------------------------------------------------------
(* Properties                                                              *)

\* A stored signature counter never goes back while the credential stays where it
\* is, however the verify requests of an authenticator and of a copy of it
\* interleave: the copy is noticed (persistAuthentication).
CounterNeverGoesBack ==
    [][\A c \in Credentials :
          passkeys'[c].user = None \/ passkeys[c].user = None
          \/ passkeys'[c].counter >= passkeys[c].counter]_vars

\* An answered challenge gives one session, also for authenticators without a
\* counter, for which nothing else stops a second use (consumeChallenge).
OneSessionPerChallenge == \A h \in Challenges : issued[h] <= 1

\* The user who is signed in owns the credential when its counter is moved, also if
\* the credential was deleted and registered by somebody else since it was read.
OwnerSignsIn == \A s \in signIns : s[2] = s[3]

\* In a database with serial transactions all passkeys of a user carry one user
\* handle, also when two first registrations race: otherwise registrationUserHandle
\* refuses the user from then on.  Under READ COMMITTED this fails: both transactions
\* read no row (storage.go lines 158-178), both insert, and docs/passkeys.md line 144
\* ("stable ... user handle across its credentials") does not hold, nor does the limit
\* of line 148.
OneHandlePerUser ==
    isolation = "serial" => \A u \in Users : Cardinality(HandlesOf(u)) <= 1

=============================================================================

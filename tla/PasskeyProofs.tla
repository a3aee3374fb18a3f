--------------------------- MODULE PasskeyProofs ----------------------------
(***************************************************************************)
(* Proofs of the safety properties of Passkey for any number of users,     *)
(* credentials, challenges and concurrent verify requests, and any bound   *)
(* on the signature counters.                                              *)
(***************************************************************************)
EXTENDS Passkey, FiniteSetTheorems, TLAPS

-----------------------------------------------------------------------------
(* The inductive invariant                                                 *)

\* What each stage of a verify request knows: the checks before it succeeded.
RequestOK(r) ==
    /\ req[r].stage # "idle" => req[r].challenge \in Challenges
    /\ req[r].stage \in {"register", "create"} => req[r].target \in Users
    /\ req[r].stage = "create" => req[r].credential \in Credentials
    /\ req[r].stage \in {"read", "persist", "issue"} =>
         req[r].assertion \in Assertion /\ req[r].assertion.challenge = req[r].challenge
    /\ req[r].stage = "persist" =>
         /\ req[r].target \in Users
         /\ ~CloneWarning(req[r].expected, req[r].assertion.counter)

\* A request in flight has taken its challenge from the table, and nobody else
\* holds it.
HeldOnce ==
    \A r \in Requests : req[r].stage # "idle" =>
        /\ challenges[req[r].challenge].state = "gone"
        /\ issued[req[r].challenge] = 0
        /\ \A s \in Requests : req[s].stage # "idle" /\ req[s].challenge = req[r].challenge
                                  => s = r

\* A session was issued for a challenge that is gone, and once.
IssuedOnce ==
    \A h \in Challenges : issued[h] # 0 => issued[h] = 1 /\ challenges[h].state = "gone"

\* Two passkeys of a user carry one handle where transactions are serial.
SameHandle ==
    isolation = "serial" => \A c, d \in Credentials :
        passkeys[c].user # None /\ passkeys[d].user = passkeys[c].user
            => passkeys[d].handle = passkeys[c].handle

Inv ==
    /\ TypeOK
    /\ \A r \in Requests : RequestOK(r)
    /\ HeldOnce
    /\ IssuedOnce
    /\ SameHandle
    /\ OwnerSignsIn

-----------------------------------------------------------------------------
(* Operators                                                               *)

\* The random source draws one of the unused values.
LEMMA DrawUnused ==
    ASSUME NEW S, NEW x \in Draw(S)
    PROVE  x \in S
BY DEF Draw

LEMMA HandlesType ==
    ASSUME TypeOK, NEW u
    PROVE  HandlesOf(u) \subseteq UserHandles \cup {None} /\ PasskeysOf(u) \subseteq Credentials
BY DEF TypeOK, HandlesOf, PasskeysOf, PasskeyRow

LEMMA IdleType == Idle \in Request /\ Idle.stage = "idle"
BY PasskeyAssumption DEF Idle, Request

-----------------------------------------------------------------------------
(* Steps on the challenge table                                            *)

LEMMA InitInv == Init => Inv
<1> SUFFICES ASSUME Init PROVE Inv
  OBVIOUS
<1>1. TypeOK
  BY IdleType, PasskeyAssumption
     DEF Init, TypeOK, PasskeyRow, NoPasskey, ChallengeRow, NoChallenge
<1> QED
  BY <1>1 DEF Init, Inv, RequestOK, HeldOnce, IssuedOnce, SameHandle, OwnerSignsIn, Idle,
              NoPasskey

\* A new challenge takes a row that nobody holds.
LEMMA PutChallengeKeeps ==
    ASSUME Inv, NEW row \in ChallengeRow, PutChallenge(row),
           UNCHANGED <<isolation, passkeys, keys, made, req, issued, signIns>>
    PROVE  Inv'
<1> PICK h \in Challenges :
      challenges[h].state = "free" /\ challenges' = [challenges EXCEPT ![h] = row]
  BY DrawUnused DEF PutChallenge
<1>1. TypeOK'
  BY DEF Inv, TypeOK
<1>2. \A x \in Challenges : challenges[x].state = "gone" => challenges'[x].state = "gone"
  BY DEF Inv, TypeOK
<1>3. HeldOnce' /\ IssuedOnce'
  BY <1>2 DEF Inv, HeldOnce, IssuedOnce, RequestOK
<1> QED
  BY <1>1, <1>3 DEF Inv, RequestOK, CloneWarning, SameHandle, OwnerSignsIn

LEMMA GenerateRegistrationKeeps ==
    ASSUME Inv, NEW u \in Users, GenerateRegistrationOptions(u)
    PROVE  Inv'
<1> PICK x \in RegistrationUserHandle(u) :
      PutChallenge([state |-> "stored", type |-> "registration", user |-> u,
                    handle |-> x, allowed |-> {}])
  BY DEF GenerateRegistrationOptions
<1>1. x \in UserHandles \cup {None}
  BY DrawUnused, HandlesType DEF RegistrationUserHandle, FreshHandles, Inv
<1>2. [state |-> "stored", type |-> "registration", user |-> u, handle |-> x, allowed |-> {}]
        \in ChallengeRow
  BY <1>1 DEF ChallengeRow
<1> QED
  BY <1>2, PutChallengeKeeps DEF GenerateRegistrationOptions

LEMMA GenerateAuthenticationKeeps ==
    ASSUME Inv, NEW session \in Users \cup {None}, GenerateAuthenticationOptions(session)
    PROVE  Inv'
<1> PICK x \in UserHandles \cup {None}, u \in Users \cup {None} :
      PutChallenge([state |-> "stored", type |-> "authentication", user |-> u,
                    handle |-> x, allowed |-> PasskeysOf(session)])
  BY HandlesType DEF GenerateAuthenticationOptions, Inv
<1>1. [state |-> "stored", type |-> "authentication", user |-> u, handle |-> x,
       allowed |-> PasskeysOf(session)] \in ChallengeRow
  BY HandlesType DEF ChallengeRow, Inv
<1> QED
  BY <1>1, PutChallengeKeeps DEF GenerateAuthenticationOptions

LEMMA ExpireKeeps ==
    ASSUME Inv, NEW h \in Challenges, ExpireChallenge(h)
    PROVE  Inv'
<1>1. TypeOK'
  <2>1. [challenges[h] EXCEPT !.state = "gone"] \in ChallengeRow
    BY DEF Inv, TypeOK, ChallengeRow
  <2> QED
    BY <2>1 DEF ExpireChallenge, Inv, TypeOK
<1>2. \A x \in Challenges : challenges[x].state = "gone" => challenges'[x].state = "gone"
  BY DEF ExpireChallenge, Inv, TypeOK, ChallengeRow
<1>3. HeldOnce' /\ IssuedOnce'
  BY <1>2 DEF ExpireChallenge, Inv, HeldOnce, IssuedOnce, RequestOK
<1> QED
  BY <1>1, <1>3 DEF ExpireChallenge, Inv, RequestOK, CloneWarning, SameHandle, OwnerSignsIn

LEMMA ConsumeType ==
    ASSUME TypeOK, NEW h \in Challenges, NEW ceremony, ConsumeChallenge(h, ceremony)
    PROVE  challenges' \in [Challenges -> ChallengeRow]
<1>1. [challenges[h] EXCEPT !.state = "gone"] \in ChallengeRow
  BY DEF TypeOK, ChallengeRow
<1> QED
  BY <1>1 DEF TypeOK, ConsumeChallenge

\* Whoever consumes a challenge is the only one to hold it from then on
\* (consumeChallenge).
LEMMA ConsumeKeeps ==
    ASSUME Inv, NEW r \in Requests, NEW h \in Challenges, NEW ceremony, ConsumeChallenge(h, ceremony),
           NEW new \in Request, new.stage # "idle", new.challenge = h,
           req[r].stage = "idle", req' = [req EXCEPT ![r] = new], RequestOK(r)',
           UNCHANGED <<isolation, passkeys, keys, made, issued, signIns>>
    PROVE  Inv'
<1>1. TypeOK'
  <2>1. challenges' \in [Challenges -> ChallengeRow]
    BY ConsumeType DEF Inv
  <2>2. req' \in [Requests -> Request]
    BY DEF Inv, TypeOK
  <2> QED
    BY <2>1, <2>2 DEF Inv, TypeOK
<1>2. /\ challenges[h].state = "stored" /\ challenges'[h].state = "gone"
      /\ \A x \in Challenges : challenges[x].state = "gone" => challenges'[x].state = "gone"
  BY DEF ConsumeChallenge, Inv, TypeOK, ChallengeRow
<1>3. req'[r] = new /\ \A s \in Requests \ {r} : req'[s] = req[s]
  BY DEF Inv, TypeOK
<1>4. \A s \in Requests : RequestOK(s)'
  BY <1>3 DEF Inv, RequestOK, CloneWarning
<1>5. issued[h] = 0 /\ \A s \in Requests : req[s].stage # "idle" => req[s].challenge # h
  BY <1>2 DEF Inv, IssuedOnce, HeldOnce
<1>6. HeldOnce' /\ IssuedOnce'
  BY <1>2, <1>3, <1>5 DEF Inv, HeldOnce, IssuedOnce, RequestOK
<1> QED
  BY <1>1, <1>4, <1>6 DEF Inv, SameHandle, OwnerSignsIn

LEMMA BeginRegistrationKeeps ==
    ASSUME Inv, NEW r \in Requests, NEW h \in Challenges, NEW session \in Users \cup {None},
           NEW target \in Users, BeginVerifyRegistration(r, h, session, target)
    PROVE  Inv'
<1> DEFINE new == [Idle EXCEPT !.stage = "register", !.challenge = h,
                               !.session = session, !.target = target]
<1>1. new \in Request /\ new.stage = "register" /\ new.challenge = h /\ new.target = target
  BY IdleType DEF Request
<1>2. req' = [req EXCEPT ![r] = new] /\ req[r].stage = "idle" /\ ConsumeChallenge(h, "registration")
  BY DEF BeginVerifyRegistration
<1>3. UNCHANGED <<isolation, passkeys, keys, made, issued, signIns>>
  BY DEF BeginVerifyRegistration
<1>4. req'[r] = new
  BY <1>2 DEF Inv, TypeOK
<1> HIDE DEF new
<1>5. RequestOK(r)'
  BY <1>1, <1>4 DEF RequestOK
<1> QED
  BY <1>1, <1>2, <1>3, <1>5, ConsumeKeeps

LEMMA BeginAuthenticationKeeps ==
    ASSUME Inv, NEW r \in Requests, NEW a \in made, BeginVerifyAuthentication(r, a)
    PROVE  Inv'
<1> DEFINE new == [Idle EXCEPT !.stage = "read", !.challenge = a.challenge, !.assertion = a]
<1>1. a \in Assertion /\ a.challenge \in Challenges
  BY DEF Inv, TypeOK, Assertion
<1>2. new \in Request /\ new.stage = "read" /\ new.challenge = a.challenge /\ new.assertion = a
  BY <1>1, IdleType DEF Request
<1>3. req' = [req EXCEPT ![r] = new] /\ req[r].stage = "idle"
      /\ ConsumeChallenge(a.challenge, "authentication")
  BY DEF BeginVerifyAuthentication
<1>4. UNCHANGED <<isolation, passkeys, keys, made, issued, signIns>>
  BY DEF BeginVerifyAuthentication
<1>5. req'[r] = new
  BY <1>3 DEF Inv, TypeOK
<1> HIDE DEF new
<1>6. RequestOK(r)'
  BY <1>1, <1>2, <1>5 DEF RequestOK
<1> QED
  BY <1>1, <1>2, <1>3, <1>4, <1>6, ConsumeKeeps

-----------------------------------------------------------------------------
(* Steps of a request that holds its challenge                             *)

\* A request that goes on, or ends, keeps its challenge to itself.
LEMMA AdvanceKeeps ==
    ASSUME Inv, NEW r \in Requests, NEW new \in Request,
           req[r].stage # "idle", req' = [req EXCEPT ![r] = new],
           new.stage # "idle" => new.challenge = req[r].challenge,
           UNCHANGED <<challenges, issued>>
    PROVE  HeldOnce' /\ IssuedOnce'
<1>1. req'[r] = new /\ \A s \in Requests \ {r} : req'[s] = req[s]
  BY DEF Inv, TypeOK
<1>2. HeldOnce'
  BY <1>1 DEF Inv, HeldOnce
<1> QED
  BY <1>2 DEF Inv, IssuedOnce

\* The checks let a request go on to its insert, or end it.
LEMMA CheckRegistrationKeeps ==
    ASSUME Inv, NEW r \in Requests, NEW c \in Credentials, CheckRegistration(r, c)
    PROVE  Inv'
<1>1. /\ req[r].stage = "register" /\ req[r].challenge \in Challenges /\ req[r].target \in Users
      /\ UNCHANGED <<isolation, passkeys, challenges, keys, made, issued, signIns>>
  BY DEF CheckRegistration, Inv, RequestOK
<1>2. PICK new \in Request :
        /\ req' = [req EXCEPT ![r] = new]
        /\ \/ new = Idle
           \/ /\ new.stage = "create" /\ new.target \in Users /\ new.credential \in Credentials
              /\ new.challenge = req[r].challenge
  <2> DEFINE next == [req[r] EXCEPT !.stage = "create", !.credential = c]
  <2>1. CASE req' = [req EXCEPT ![r].stage = "create", ![r].credential = c]
    <3>1. req' = [req EXCEPT ![r] = next]
      BY <2>1 DEF Inv, TypeOK, Request
    <3>2. next \in Request /\ next.stage = "create" /\ next.target \in Users
          /\ next.credential \in Credentials /\ next.challenge = req[r].challenge
      BY <1>1 DEF Inv, TypeOK, Request
    <3> HIDE DEF next
    <3> QED
      BY <3>1, <3>2
  <2>2. CASE req' = [req EXCEPT ![r] = Idle]
    BY <2>2, IdleType
  <2> QED
    BY <2>1, <2>2 DEF CheckRegistration
<1>3. req'[r] = new /\ \A s \in Requests \ {r} : req'[s] = req[s]
  BY <1>2 DEF Inv, TypeOK
<1>4. \A s \in Requests : RequestOK(s)'
  BY <1>1, <1>2, <1>3, IdleType DEF Inv, RequestOK, CloneWarning
<1>5. HeldOnce' /\ IssuedOnce'
  BY <1>1, <1>2, IdleType, AdvanceKeeps
<1>6. TypeOK'
  BY <1>1, <1>2 DEF Inv, TypeOK
<1> QED
  BY <1>1, <1>4, <1>5, <1>6 DEF Inv, SameHandle, OwnerSignsIn

\* A passkey is written only where the credential is not registered, and in a serial
\* database only with the handle of all others of its user (createPasskey).
LEMMA CreatePasskeyKeeps ==
    ASSUME Inv, NEW r \in Requests, CreatePasskey(r)
    PROVE  Inv'
<1> DEFINE u == req[r].target
           c == req[r].credential
           handle == ChallengeHandle(r)
<1>1. /\ req[r].stage = "create" /\ req[r].challenge \in Challenges
      /\ u \in Users /\ c \in Credentials
  BY DEF CreatePasskey, Inv, RequestOK
<1>2. handle \in UserHandles \cup {None}
  BY <1>1 DEF ChallengeHandle, Inv, TypeOK, ChallengeRow
<1>3. req' = [req EXCEPT ![r] = Idle] /\ UNCHANGED <<isolation, challenges, made, issued, signIns>>
  BY DEF CreatePasskey
<1>4. req'[r] = Idle /\ \A s \in Requests \ {r} : req'[s] = req[s]
  BY <1>3 DEF Inv, TypeOK
<1>5. \A s \in Requests : RequestOK(s)'
  BY <1>4, IdleType DEF Inv, RequestOK, CloneWarning
<1>6. HeldOnce' /\ IssuedOnce'
  BY <1>1, <1>3, IdleType, AdvanceKeeps
<1>7. req' \in [Requests -> Request]
  BY <1>3, IdleType DEF Inv, TypeOK
<1>8. CASE MayCommit(u, handle, c)
  <2>1. /\ passkeys' = [passkeys EXCEPT ![c] = [user |-> u, handle |-> handle, counter |-> 0]]
        /\ keys' = [keys EXCEPT ![c] = [handle |-> handle, original |-> 0, copy |-> 0]]
    BY <1>8 DEF CreatePasskey
  <2>2. TypeOK'
    BY <1>1, <1>2, <1>3, <1>7, <2>1, PasskeyAssumption DEF Inv, TypeOK, PasskeyRow
  <2>3. ASSUME isolation = "serial", NEW d \in Credentials, passkeys[d].user = u
        PROVE  passkeys[d].handle = handle
    <3>1. d \in PasskeysOf(u)
      BY <1>1, <2>3, PasskeyAssumption DEF PasskeysOf
    <3>2. PICK e \in PasskeysOf(u) : passkeys[e].handle = handle
      BY <1>8, <2>3, <3>1 DEF MayCommit, MayCreate, HandlesOf
    <3> QED
      BY <2>3, <3>2, <1>1, PasskeyAssumption DEF PasskeysOf, Inv, SameHandle
  <2>4. SameHandle'
    BY <1>1, <1>3, <2>1, <2>3 DEF Inv, TypeOK, SameHandle
  <2> QED
    BY <1>3, <1>5, <1>6, <2>2, <2>4 DEF Inv, OwnerSignsIn
<1>9. CASE ~MayCommit(u, handle, c)
  <2>1. UNCHANGED <<passkeys, keys>>
    BY <1>9 DEF CreatePasskey
  <2> QED
    BY <1>3, <1>5, <1>6, <1>7, <2>1 DEF Inv, TypeOK, SameHandle, OwnerSignsIn
<1> QED
  BY <1>8, <1>9

LEMMA SignKeeps ==
    ASSUME Inv, NEW c \in Credentials, NEW h \in Challenges, NEW which \in {"original", "copy"},
           Sign(c, h, which)
    PROVE  Inv'
<1> DEFINE next == IF c \in Counterless THEN 0 ELSE keys[c][which] + 1
<1>1. next \in 0..MaxCounter
  BY PasskeyAssumption DEF Sign, Inv, TypeOK
<1>2. keys[c].handle \in UserHandles
  BY DEF Sign, Inv, TypeOK
<1>3. made' \subseteq Assertion
  BY <1>1, <1>2 DEF Sign, Inv, TypeOK, Assertion
<1>4. keys' \in [Credentials -> [handle: UserHandles \cup {None},
                                 original: 0..MaxCounter, copy: 0..MaxCounter]]
  BY <1>1 DEF Sign, Inv, TypeOK
<1> QED
  BY <1>3, <1>4 DEF Sign, Inv, TypeOK, RequestOK, CloneWarning, HeldOnce, IssuedOnce, SameHandle,
                    OwnerSignsIn

\* The row that is read becomes the value the update expects.
LEMMA ReadKeeps ==
    ASSUME Inv, NEW r \in Requests, ReadCredentials(r)
    PROVE  Inv'
<1> DEFINE a == req[r].assertion
           row == passkeys[a.credential]
<1>1. req[r].stage = "read" /\ a \in Assertion /\ a.challenge = req[r].challenge
  BY DEF ReadCredentials, Inv, RequestOK
<1>2. row \in PasskeyRow
  BY <1>1 DEF Inv, TypeOK, Assertion
<1>3. UNCHANGED <<isolation, passkeys, challenges, keys, made, issued, signIns>>
  BY DEF ReadCredentials
<1>4. PICK new \in Request :
        /\ req' = [req EXCEPT ![r] = new]
        /\ \/ new = Idle
           \/ /\ new.stage = "persist" /\ new.target \in Users
              /\ new.challenge = req[r].challenge /\ new.assertion = a
              /\ ~CloneWarning(new.expected, a.counter)
  <2> DEFINE next == [req[r] EXCEPT !.stage = "persist", !.target = row.user,
                                    !.expected = row.counter]
  <2>1. CASE ValidateLogin(challenges[a.challenge], a, row.user)
             /\ ~CloneWarning(row.counter, a.counter)
    <3>1. row.user \in Users /\ row.counter \in 0..MaxCounter
      BY <1>2, <2>1 DEF PasskeyRow, ValidateLogin
    <3>2. req' = [req EXCEPT ![r] = next]
      BY <2>1 DEF ReadCredentials
    <3>3. next \in Request /\ next.stage = "persist" /\ next.target \in Users
          /\ next.challenge = req[r].challenge /\ next.assertion = a
          /\ next.expected = row.counter
      BY <3>1 DEF Inv, TypeOK, Request
    <3> HIDE DEF next, row
    <3> QED
      BY <2>1, <3>2, <3>3
  <2>2. CASE ~(ValidateLogin(challenges[a.challenge], a, row.user)
               /\ ~CloneWarning(row.counter, a.counter))
    BY <2>2, IdleType DEF ReadCredentials
  <2> QED
    BY <2>1, <2>2
<1>5. req'[r] = new /\ \A s \in Requests \ {r} : req'[s] = req[s]
  BY <1>4 DEF Inv, TypeOK
<1>6. \A s \in Requests : RequestOK(s)'
  BY <1>1, <1>4, <1>5, IdleType DEF Inv, RequestOK
<1>7. HeldOnce' /\ IssuedOnce'
  BY <1>1, <1>3, <1>4, IdleType, AdvanceKeeps
<1>8. TypeOK'
  BY <1>3, <1>4 DEF Inv, TypeOK
<1> QED
  BY <1>3, <1>6, <1>7, <1>8 DEF Inv, SameHandle, OwnerSignsIn

\* The counter is moved for the owner that was read, or not at all.
LEMMA PersistKeeps ==
    ASSUME Inv, NEW r \in Requests, PersistAuthentication(r)
    PROVE  Inv'
<1> DEFINE a == req[r].assertion
           c == a.credential
<1>1. /\ req[r].stage = "persist" /\ a \in Assertion /\ a.challenge = req[r].challenge
      /\ req[r].target \in Users
  BY DEF PersistAuthentication, Inv, RequestOK
<1>2. c \in Credentials /\ a.counter \in 0..MaxCounter
  BY <1>1 DEF Assertion
<1>3. UNCHANGED <<isolation, challenges, keys, made, issued>>
  BY DEF PersistAuthentication
<1>4. CASE Unmoved(c, req[r].target, req[r].expected)
  <2> DEFINE new == [req[r] EXCEPT !.stage = "issue"]
  <2>1. /\ passkeys' = [passkeys EXCEPT ![c].counter = a.counter]
        /\ signIns' = signIns \cup {<<c, passkeys[c].user, req[r].target>>}
        /\ req' = [req EXCEPT ![r] = new]
    BY <1>4 DEF PersistAuthentication
  <2>2. new \in Request /\ new.stage = "issue" /\ new.challenge = req[r].challenge
        /\ new.assertion = a
    BY DEF Inv, TypeOK, Request
  <2> HIDE DEF new
  <2>3. req'[r] = new /\ \A s \in Requests \ {r} : req'[s] = req[s]
    BY <2>1 DEF Inv, TypeOK
  <2>4. \A s \in Requests : RequestOK(s)'
    BY <1>1, <2>2, <2>3 DEF Inv, RequestOK
  <2>5. HeldOnce' /\ IssuedOnce'
    BY <1>1, <1>3, <2>1, <2>2, AdvanceKeeps
  <2>6. passkeys[c].user = req[r].target
    BY <1>4 DEF Unmoved
  <2>7. TypeOK'
    <3>1. passkeys' \in [Credentials -> PasskeyRow]
      BY <1>2, <2>1 DEF Inv, TypeOK, PasskeyRow
    <3>2. signIns' \subseteq Credentials \X (Users \cup {None}) \X Users
      BY <1>1, <1>2, <2>1, <2>6 DEF Inv, TypeOK
    <3> QED
      BY <1>3, <2>1, <2>2, <3>1, <3>2 DEF Inv, TypeOK
  <2>8. \A d \in Credentials : /\ passkeys'[d].user = passkeys[d].user
                               /\ passkeys'[d].handle = passkeys[d].handle
    BY <1>2, <2>1 DEF Inv, TypeOK, PasskeyRow
  <2>9. SameHandle' /\ OwnerSignsIn'
    BY <1>3, <2>1, <2>6, <2>8 DEF Inv, SameHandle, OwnerSignsIn
  <2> QED
    BY <2>4, <2>5, <2>7, <2>9 DEF Inv
<1>5. CASE ~Unmoved(c, req[r].target, req[r].expected)
  <2>1. req' = [req EXCEPT ![r] = Idle] /\ UNCHANGED <<passkeys, signIns>>
    BY <1>5 DEF PersistAuthentication
  <2>2. req'[r] = Idle /\ \A s \in Requests \ {r} : req'[s] = req[s]
    BY <2>1 DEF Inv, TypeOK
  <2>3. \A s \in Requests : RequestOK(s)'
    BY <2>2, IdleType DEF Inv, RequestOK
  <2>4. HeldOnce' /\ IssuedOnce'
    BY <1>1, <1>3, <2>1, IdleType, AdvanceKeeps
  <2> QED
    BY <1>3, <2>1, <2>3, <2>4, IdleType DEF Inv, TypeOK, SameHandle, OwnerSignsIn
<1> QED
  BY <1>4, <1>5

\* The request that holds the challenge leaves with its one session.
LEMMA IssueKeeps ==
    ASSUME Inv, NEW r \in Requests, IssueSession(r)
    PROVE  Inv'
<1> DEFINE h == req[r].challenge
<1>1. req[r].stage = "issue" /\ h \in Challenges /\ challenges[h].state = "gone" /\ issued[h] = 0
  BY DEF IssueSession, Inv, RequestOK, HeldOnce
<1>2. /\ issued' = [issued EXCEPT ![h] = issued[h] + 1] /\ req' = [req EXCEPT ![r] = Idle]
      /\ UNCHANGED <<isolation, passkeys, challenges, keys, made, signIns>>
  BY DEF IssueSession
<1>3. issued'[h] = 1 /\ \A x \in Challenges \ {h} : issued'[x] = issued[x]
  BY <1>1, <1>2 DEF Inv, TypeOK
<1>4. req'[r] = Idle /\ \A s \in Requests \ {r} : req'[s] = req[s]
  BY <1>2 DEF Inv, TypeOK
<1>5. \A s \in Requests : RequestOK(s)'
  BY <1>4, IdleType DEF Inv, RequestOK
<1>6. \A s \in Requests \ {r} : req[s].stage # "idle" => req[s].challenge # h
  BY <1>1 DEF Inv, HeldOnce
<1>7. HeldOnce'
  BY <1>2, <1>3, <1>4, <1>6, IdleType DEF Inv, HeldOnce, RequestOK
<1>8. IssuedOnce'
  BY <1>1, <1>2, <1>3 DEF Inv, IssuedOnce
<1>9. TypeOK'
  BY <1>1, <1>2, IdleType DEF Inv, TypeOK
<1> QED
  BY <1>2, <1>5, <1>7, <1>8, <1>9 DEF Inv, SameHandle, OwnerSignsIn

LEMMA DeleteKeeps ==
    ASSUME Inv, NEW c \in Credentials, NEW session \in Users, DeletePasskey(c, session)
    PROVE  Inv'
<1>1. /\ passkeys' = [passkeys EXCEPT ![c] = NoPasskey]
      /\ UNCHANGED <<isolation, challenges, keys, made, req, issued, signIns>>
  BY DEF DeletePasskey
<1>2. NoPasskey \in PasskeyRow /\ NoPasskey.user = None
  BY PasskeyAssumption DEF NoPasskey, PasskeyRow
<1>3. TypeOK'
  BY <1>1, <1>2 DEF Inv, TypeOK
<1>4. SameHandle'
  BY <1>1, <1>2 DEF Inv, TypeOK, SameHandle
<1> QED
  BY <1>1, <1>3, <1>4 DEF Inv, RequestOK, HeldOnce, IssuedOnce, OwnerSignsIn

-----------------------------------------------------------------------------
(* Theorems                                                                *)

LEMMA NextKeeps == Inv /\ [Next]_vars => Inv'
<1> SUFFICES ASSUME Inv, [Next]_vars PROVE Inv'
  OBVIOUS
<1>1. CASE UNCHANGED vars
  BY <1>1 DEF vars, Inv, TypeOK, RequestOK, HeldOnce, IssuedOnce, SameHandle, OwnerSignsIn
<1>2. CASE \E u \in Users : GenerateRegistrationOptions(u)
  BY <1>2, GenerateRegistrationKeeps
<1>3. ASSUME NEW r \in Requests, NEW h \in Challenges, NEW session \in Users \cup {None},
             NEW target \in Users, BeginVerifyRegistration(r, h, session, target)
      PROVE  Inv'
  BY <1>3, BeginRegistrationKeeps
<1>4. ASSUME NEW r \in Requests,
             CreatePasskey(r) \/ \E c \in Credentials : CheckRegistration(r, c)
      PROVE  Inv'
  BY <1>4, CheckRegistrationKeeps, CreatePasskeyKeeps
<1>5. ASSUME NEW r \in Requests, NEW a \in made, BeginVerifyAuthentication(r, a) PROVE Inv'
  BY <1>5, BeginAuthenticationKeeps
<1>6. ASSUME NEW r \in Requests,
             ReadCredentials(r) \/ PersistAuthentication(r) \/ IssueSession(r)
      PROVE  Inv'
  BY <1>6, ReadKeeps, PersistKeeps, IssueKeeps
<1>7. CASE \E session \in Users \cup {None} : GenerateAuthenticationOptions(session)
  BY <1>7, GenerateAuthenticationKeeps
<1>8. CASE \E c \in Credentials, h \in Challenges, which \in {"original", "copy"} :
             Sign(c, h, which)
  BY <1>8, SignKeeps
<1>9. CASE \E c \in Credentials, session \in Users : DeletePasskey(c, session)
  BY <1>9, DeleteKeeps
<1>10. CASE \E h \in Challenges : ExpireChallenge(h)
  BY <1>10, ExpireKeeps
<1> QED
  BY <1>1, <1>2, <1>3, <1>4, <1>5, <1>6, <1>7, <1>8, <1>9, <1>10 DEF Next

LEMMA InvHolds == Spec => []Inv
BY InitInv, NextKeeps, PTL DEF Spec

\* A challenge gives at most one session however many verify requests present
\* answers to it at once, and whatever its authenticator's counter
\* (consumeChallenge before verifyAuthentication).
THEOREM ChallengeSingleUse == Spec => []OneSessionPerChallenge
<1>1. Inv => OneSessionPerChallenge
  BY DEF Inv, TypeOK, IssuedOnce, OneSessionPerChallenge
<1> QED
  BY <1>1, InvHolds, PTL

\* The user who is signed in owns the credential at the moment its counter moves
\* (the userId clause of persistAuthentication).
THEOREM SignsInTheOwner == Spec => []OwnerSignsIn
<1>1. Inv => OwnerSignsIn
  BY DEF Inv
<1> QED
  BY <1>1, InvHolds, PTL

\* Where transactions are serial, all passkeys of a user carry one handle, also when
\* any number of first registrations race (the reads and the insert of createPasskey's
\* transaction).  The condition is part of OneHandlePerUser: no index backs the reads.
THEOREM UserHandleUnique == Spec => []OneHandlePerUser
<1>1. Inv => OneHandlePerUser
  <2> SUFFICES ASSUME Inv, isolation = "serial", NEW u \in Users
               PROVE  Cardinality(HandlesOf(u)) <= 1
    BY DEF OneHandlePerUser
  <2>1. CASE PasskeysOf(u) = {}
    <3>1. HandlesOf(u) = {}
      BY <2>1 DEF HandlesOf
    <3> QED
      BY <3>1, FS_EmptySet
  <2>2. ASSUME NEW c \in PasskeysOf(u) PROVE Cardinality(HandlesOf(u)) <= 1
    <3>1. HandlesOf(u) = {passkeys[c].handle}
      BY <2>2, PasskeyAssumption DEF HandlesOf, PasskeysOf, Inv, SameHandle
    <3>2. Cardinality({passkeys[c].handle}) = 1
      BY FS_Singleton
    <3> QED
      BY <3>1, <3>2
  <2> QED
    BY <2>1, <2>2
<1> QED
  BY <1>1, InvHolds, PTL

\* No interleaving of the verify requests of an authenticator and of its copies
\* moves a stored counter back while the credential stays registered (the counter
\* clause of persistAuthentication, after the library's clone warning).
THEOREM CountersAdvance == Spec => CounterNeverGoesBack
<1> DEFINE Forward == \A c \in Credentials :
             passkeys'[c].user = None \/ passkeys[c].user = None
             \/ passkeys'[c].counter >= passkeys[c].counter
<1>1. Inv /\ [Next]_vars => [Forward]_vars
  <2> SUFFICES ASSUME Inv, [Next]_vars, vars' # vars, NEW c \in Credentials
               PROVE  passkeys'[c].user = None \/ passkeys[c].user = None
                      \/ passkeys'[c].counter >= passkeys[c].counter
    OBVIOUS
  <2>1. passkeys[c].counter \in Nat
    BY PasskeyAssumption DEF Inv, TypeOK, PasskeyRow
  <2>2. CASE passkeys' = passkeys
    BY <2>1, <2>2
  <2>3. ASSUME NEW r \in Requests, CreatePasskey(r), passkeys' # passkeys
        PROVE  passkeys[c].user = None \/ passkeys'[c] = passkeys[c]
    BY <2>3 DEF CreatePasskey, MayCommit, MayCreate, Inv, TypeOK
  <2>4. ASSUME NEW r \in Requests, PersistAuthentication(r), passkeys' # passkeys
        PROVE  passkeys'[c].counter >= passkeys[c].counter
    <3> DEFINE a == req[r].assertion
    <3>1. /\ passkeys' = [passkeys EXCEPT ![a.credential].counter = a.counter]
          /\ passkeys[a.credential].counter = req[r].expected
          /\ req[r].stage = "persist"
      BY <2>4 DEF PersistAuthentication, Unmoved
    <3>2. a \in Assertion /\ ~CloneWarning(req[r].expected, a.counter)
      BY <3>1 DEF Inv, RequestOK
    <3>3. a.counter \in Nat /\ req[r].expected \in Nat
      BY <3>2, PasskeyAssumption DEF Assertion, Inv, TypeOK, Request
    <3>4. a.counter >= req[r].expected
      BY <3>2, <3>3 DEF CloneWarning
    <3>5. CASE c = a.credential
      BY <3>1, <3>4, <3>5 DEF Inv, TypeOK, PasskeyRow
    <3>6. CASE c # a.credential
      BY <2>1, <3>1, <3>6 DEF Inv, TypeOK
    <3> QED
      BY <3>5, <3>6
  <2>5. ASSUME NEW d \in Credentials, NEW session \in Users, DeletePasskey(d, session)
        PROVE  passkeys'[c].user = None \/ passkeys'[c] = passkeys[c]
    BY <2>5 DEF DeletePasskey, NoPasskey, Inv, TypeOK
  <2>6. ASSUME passkeys' # passkeys
        PROVE  \/ \E r \in Requests : CreatePasskey(r) \/ PersistAuthentication(r)
               \/ \E d \in Credentials, session \in Users : DeletePasskey(d, session)
    BY <2>6 DEF Next, vars, GenerateRegistrationOptions, BeginVerifyRegistration,
                CheckRegistration, BeginVerifyAuthentication, ReadCredentials, IssueSession,
                GenerateAuthenticationOptions, Sign, ExpireChallenge
  <2>7. CASE passkeys'[c] = passkeys[c]
    BY <2>1, <2>7
  <2> QED
    BY <2>2, <2>3, <2>4, <2>5, <2>6, <2>7
<1> QED
  BY <1>1, InvHolds, PTL DEF Spec, CounterNeverGoesBack

=============================================================================

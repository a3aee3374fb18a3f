----------------------------- MODULE TwoFactor ------------------------------
(***************************************************************************)
(* The two-factor plugin (plugin/twofactor) together with the one-time     *)
(* token plugin, whose header hook sees the same sign-in responses.        *)
(*                                                                         *)
(* A credential sign-in creates a session; the after-hooks then run in the *)
(* order of registration.  interceptCredentialSignIn takes the session     *)
(* away again and leaves a pending challenge, unless the user has no       *)
(* second factor or the browser is trusted.  A verification (TOTP,         *)
(* delivered OTP or backup code) works on the challenge, or on the session *)
(* of a signed-in user; it consumes the attempt row, so that the guesses   *)
(* of one challenge come one at a time, reads the configuration once and   *)
(* goes on with that snapshot.  Every step below is one database call with *)
(* the local computation around it; a request may stop after any of them.  *)
(*                                                                         *)
(* A code is right when it fits the snapshot, so which code a client sends *)
(* is decided where it is compared.                                        *)
(***************************************************************************)
EXTENDS OneTimeToken, Functions

CONSTANTS
    FactorIds,  \* ids of two-factor rows and of generations of backup codes
    Handles,    \* pending challenges (the values of the pending cookie)
    Devices,    \* trusted devices (the values of their cookie)
    Otps,       \* delivered one-time passwords
    Scenarios,  \* what clients do and how the plugins are configured
    ChallengeMaxAttempts, AccountMaxFailedAttempts, BackupCodeCount

Verifications == {"totp", "otp", "backup"}

Management == {"enable", "enable-otp", "disable", "regenerate"}

Ops == {"sign-in", "send-otp", "token", "revoke"} \cup Verifications \cup Management

\* hooks: the after-hooks of a sign-in in order ("token" only if
\* SetOTTHeaderOnNewSession); otp: DeliverOTP is configured; skip:
\* SkipVerificationOnEnable; users: those who have signed in before; enrolled:
\* those of them that begin with a verified factor; sessions and handles bound
\* what may be drawn.
Scenario ==
    [ops: SUBSET Ops, users: SUBSET Users, sessions: SUBSET SessionIds, handles: SUBSET Handles,
     hooks: {<<"factor">>, <<"token", "factor">>, <<"factor", "token">>},
     otp: BOOLEAN, skip: BOOLEAN, enrolled: SUBSET Users]

\* normalizeConfig refuses other limits.
LimitsOK ==
    /\ ChallengeMaxAttempts \in Nat \ {0} /\ AccountMaxFailedAttempts \in Nat \ {0}
    /\ BackupCodeCount \in Nat \ {0}
    /\ AccountMaxFailedAttempts >= ChallengeMaxAttempts

ASSUME TwoFactorAssumption ==
    /\ Scenarios \subseteq Scenario
    /\ \A c \in Scenarios : c.enrolled \subseteq c.users
    /\ LimitsOK

\* Values of different kinds are never mistaken for one another: a cookie, a token
\* and a verification row are looked up by name and purpose.
ASSUME ValuesAssumption ==
    /\ \A S \in {FactorIds, Handles, Devices, Otps, Tokens} : None \notin S
    /\ SessionIds \cap (Tokens \cup Handles \cup Devices) = {}
    /\ Tokens \cap (Handles \cup Devices) = {}

VARIABLES
    scenario,
    enabled,    \* user.twoFactorEnabled
    factor,     \* the twoFactor table: at most one row per user
    challenge,  \* verification rows two_factor_pending and two_factor_attempts
    otps,       \* verification rows two_factor_otp
    devices,    \* verification rows two_factor_trusted_device
    req,        \* requests in flight
    proof,      \* history: what the sign-in that led to a session presented
    proved,     \* history: secrets for which the user has shown a right code
    guesses,    \* history: wrong codes compared per challenge
    spent       \* history: acceptances per backup code

factorVars == <<enabled, factor>>
rowVars == <<challenge, otps, devices>>
historyVars == <<proof, proved, guesses, spent>>
vars == <<sessions, tokens, redeem, held, traded, scenario, enabled, factor,
          challenge, otps, devices, req, historyVars>>

Codes == FactorIds \X (1..BackupCodeCount)

CodesOf(f) == {f} \X (1..BackupCodeCount)

FactorRow ==
    [id: FactorIds \cup {None}, verified: BOOLEAN, codes: SUBSET Codes,
     failed: Nat, locked: {"no", "until", "past"}]

NoFactor == [id |-> None, verified |-> FALSE, codes |-> {}, failed |-> 0, locked |-> "no"]

NewFactor(f, verified) ==
    [id |-> f, verified |-> verified, codes |-> CodesOf(f), failed |-> 0, locked |-> "no"]

\* The pending row and the attempt row of a handle expire together.
ChallengeRow ==
    [state: {"free", "pending", "gone"}, user: Users \cup {None},
     armed: BOOLEAN, attempts: Nat, expired: BOOLEAN]

OtpRow == [state: {"free", "stored", "gone"}, key: Handles \cup SessionIds \cup {None}]

DeviceRow == [state: {"free", "trusted", "gone"}, user: Users \cup {None}]

Stages ==
    {"idle", "token", "factor", "trusted", "retrust", "challenge", "respond",
     "attempt", "load", "unlock", "judge", "refile", "spend", "enroll", "fail", "count", "lock",
     "complete", "reset", "issue", "trust", "clear", "store", "unsend",
     "manage", "reseal", "forget", "rotate"}

Request ==
    [stage: Stages, op: Ops \cup {None}, user: Users \cup {None},
     hooks: Seq({"token", "factor"}),       \* after-hooks still to run
     session: SessionIds \cup {None},       \* the session created or presented
     cookie: SessionIds \cup {None},        \* the session cookie of the response
     token: Tokens \cup {None},             \* the set-ott header of the response
     handle: Handles \cup {None},           \* the challenge; None when signed in
     device: Devices \cup {None},           \* the trusted-device cookie
     snap: FactorRow, attempts: Nat, code: Codes \cup Otps \cup {None}]

Idle ==
    [stage |-> "idle", op |-> None, user |-> None, hooks |-> <<>>, session |-> None,
     cookie |-> None, token |-> None, handle |-> None, device |-> None,
     snap |-> NoFactor, attempts |-> 0, code |-> None]

TypeOK ==
    /\ TokenTypeOK /\ scenario \in Scenarios
    /\ enabled \in [Users -> BOOLEAN] /\ factor \in [Users -> FactorRow]
    /\ challenge \in [Handles -> ChallengeRow]
    /\ otps \in [Otps -> OtpRow] /\ devices \in [Devices -> DeviceRow]
    /\ req \in [Requests -> Request]
    /\ held \subseteq SessionIds \cup Tokens \cup Handles \cup Devices
    /\ proof \in [SessionIds -> {"open", "password", "factor"}]
    /\ proved \subseteq FactorIds
    /\ guesses \in [Handles -> Nat] /\ spent \in [Codes -> Nat]

\* An enrolled user has a verified row and one signed-in browser, which trusts
\* itself if there are devices to draw.
Init ==
    /\ TokenInit
    /\ scenario \in Scenarios
    /\ enabled = [u \in Users |-> u \in scenario.enrolled]
    /\ \E first \in Draw(Injection(scenario.users, scenario.sessions)),
          f \in Draw(Injection(scenario.users, FactorIds)) :
         /\ sessions = [i \in SessionIds |->
                IF \E u \in scenario.users : first[u] = i
                THEN NewSession(CHOOSE u \in scenario.users : first[u] = i, 0, 1) ELSE FreeRow]
         /\ factor = [u \in Users |->
                IF u \in scenario.enrolled THEN NewFactor(f[u], TRUE) ELSE NoFactor]
         /\ held = {first[u] : u \in scenario.users}
         /\ proved = {f[u] : u \in scenario.enrolled}
    /\ challenge = [h \in Handles |-> [state |-> "free", user |-> None, armed |-> FALSE,
                                       attempts |-> 0, expired |-> FALSE]]
    /\ otps = [o \in Otps |-> [state |-> "free", key |-> None]]
    /\ devices = [d \in Devices |-> [state |-> "free", user |-> None]]
    /\ req = [r \in Requests |-> Idle]
    /\ proof = [i \in SessionIds |-> "open"]
    /\ guesses = [h \in Handles |-> 0]
    /\ spent = [c \in Codes |-> 0]

NewSessionId == Draw(Unused(sessions) \cap scenario.sessions)

Finish(r) == req' = [req EXCEPT ![r] = Idle]

Goto(r, stage) == req' = [req EXCEPT ![r].stage = stage]

Pending(h) == challenge[h].state = "pending" /\ ~challenge[h].expired

\* Whose row a request works on, and whether it is still the row it has read.
SameRow(r) == factor[req[r].user].id = req[r].snap.id

-----------------------------------------------------------------------------
(* The after-hooks of a response                                           *)

\* runResponseHooks: the next hook, or commitPluginResponse after the last one.
NextHook(r, rec) ==
    req' = [req EXCEPT ![r] =
        [rec EXCEPT !.stage = IF rec.hooks = <<>> THEN "respond" ELSE Head(rec.hooks),
                    !.hooks = IF rec.hooks = <<>> THEN <<>> ELSE Tail(rec.hooks)]]

\* Two-factor matches only sign-in responses, the token hook every response.
HooksOf(op) ==
    IF op = "sign-in" THEN scenario.hooks
    ELSE IF scenario.hooks = <<"factor">> THEN <<>> ELSE <<"token">>

\* The response carries a session cookie to the client.
Respond(r, s) == [req[r] EXCEPT !.cookie = s, !.hooks = HooksOf(req[r].op)]

\* attachHeader: a token for the session cookie of the response, if it resumes.
AttachHeader(r) ==
    /\ req[r].stage = "token"
    /\ IF ResumeSession(req[r].cookie)
       THEN \E t \in Tokens :
              Issue(t, req[r].cookie) /\ NextHook(r, [req[r] EXCEPT !.token = t])
       ELSE NextHook(r, req[r]) /\ UNCHANGED tokens
    /\ UNCHANGED <<sessions, redeem, held, traded, scenario, factorVars, rowVars, historyVars>>

\* commitPluginResponse.
Deliver(r) ==
    /\ req[r].stage = "respond"
    /\ held' = held \cup ({req[r].cookie, req[r].token, req[r].handle, req[r].device} \ {None})
    /\ Finish(r)
    /\ UNCHANGED <<sessions, tokens, redeem, traded, scenario, factorVars, rowVars, historyVars>>

-----------------------------------------------------------------------------
(* Sign-in and interceptCredentialSignIn                                   *)

\* handleSignIn with the right password: the provisional session exists before
\* any hook runs.
SignIn(r, u, d) ==
    /\ "sign-in" \in scenario.ops
    /\ req[r].stage = "idle"
    /\ \E new \in NewSessionId :
         /\ sessions' = CreateSession(sessions, new, NewSession(u, 0, 1))
         /\ NextHook(r, [Idle EXCEPT !.op = "sign-in", !.user = u, !.session = new,
                                     !.cookie = new, !.device = d, !.hooks = HooksOf("sign-in")])
         /\ proof' = [proof EXCEPT ![new] = IF enabled[u] THEN "password" ELSE "open"]
    /\ UNCHANGED <<tokens, redeem, held, traded, scenario, factorVars, rowVars,
                   proved, guesses, spent>>

\* Reads user.twoFactorEnabled.
Gate(r) ==
    /\ req[r].stage = "factor"
    /\ IF enabled[req[r].user] THEN Goto(r, "trusted")
       ELSE NextHook(r, [req[r] EXCEPT !.device = None])
    /\ UNCHANGED <<tokenVars, scenario, factorVars, rowVars, historyVars>>

\* Fault variant of DeviceAccepted: the device may belong to anybody.
DeviceOfAnyone(d, u) == d # None /\ devices[d].state = "trusted"

\* acceptTrustedDevice: the consumed row exists and belongs to this user.
DeviceAccepted(d, u) ==
    d # None /\ devices[d].state = "trusted" /\ devices[d].user = u

ConsumeDevice(d) ==
    IF d # None /\ devices[d].state = "trusted"
    THEN devices' = [devices EXCEPT ![d].state = "gone"] ELSE UNCHANGED devices

\* findTwoFactor, and the consuming half of acceptTrustedDevice.  A user without
\* any usable method fails the hook: the response becomes an error.
AcceptTrustedDevice(r) ==
    /\ req[r].stage = "trusted"
    /\ LET u == req[r].user d == req[r].device IN
       IF ~factor[u].verified /\ ~scenario.otp
       THEN Finish(r) /\ UNCHANGED <<devices, proof>>
       ELSE /\ ConsumeDevice(d)
            /\ IF DeviceAccepted(d, u)
               THEN /\ Goto(r, "retrust")
                    /\ proof' = [proof EXCEPT ![req[r].session] =
                                    IF devices[d].user = u THEN "factor" ELSE @]
               ELSE Goto(r, "challenge") /\ UNCHANGED proof
    /\ UNCHANGED <<tokenVars, scenario, factorVars, challenge, otps,
                   proved, guesses, spent>>

\* createTrustedDevice with a fresh value: an accepted device is replaced and the
\* sign-in response passes, or a verified challenge asked for trust.
CreateTrustedDevice(r) ==
    /\ req[r].stage \in {"retrust", "trust"}
    /\ \E d \in Draw({x \in Devices : devices[x].state = "free"}) :
         /\ devices' = [devices EXCEPT ![d] = [state |-> "trusted", user |-> req[r].user]]
         /\ NextHook(r, [req[r] EXCEPT !.device = d])
    /\ UNCHANGED <<tokenVars, scenario, factorVars, challenge, otps, historyVars>>

\* The update with revokedAt IS NULL inside the challenge's transaction.
TakeBackSession(r) == sessions' = RevokeSession(sessions, req[r].session)

\* The transaction that creates the challenge and revokes the provisional session;
\* it fails, and with it the hook, when the session is already revoked.
BeginChallenge(r) ==
    /\ req[r].stage = "challenge"
    /\ \/ /\ ~Live(req[r].session)
          /\ Finish(r)
          /\ UNCHANGED <<sessions, challenge>>
       \/ /\ Live(req[r].session)
          /\ \E h \in Draw({x \in scenario.handles : challenge[x].state = "free"}) :
               /\ challenge' = [challenge EXCEPT ![h] =
                      [state |-> "pending", user |-> req[r].user, armed |-> TRUE,
                       attempts |-> 0, expired |-> FALSE]]
               /\ NextHook(r, [req[r] EXCEPT !.cookie = None, !.device = None, !.handle = h])
          /\ TakeBackSession(r)
    /\ UNCHANGED <<tokens, redeem, held, traded, scenario, factorVars, otps, devices, historyVars>>

-----------------------------------------------------------------------------
(* Verification                                                            *)

\* verificationState: the live session of a signed-in user, or a pending
\* challenge whose attempt must first be won.
Arrive(r, op) ==
    /\ op \in scenario.ops
    /\ req[r].stage = "idle"
    /\ \/ \E s \in held : Live(s) /\ req' = [req EXCEPT ![r] =
              [Idle EXCEPT !.stage = "load", !.op = op, !.session = s, !.user = sessions[s].user]]
       \/ \E h \in held \cap Handles : Pending(h) /\ req' = [req EXCEPT ![r] =
              [Idle EXCEPT !.stage = IF op = "send-otp" THEN "load" ELSE "attempt",
                           !.op = op, !.handle = h, !.user = challenge[h].user]]
    /\ UNCHANGED <<tokenVars, scenario, factorVars, rowVars, historyVars>>

\* Fault variant of TakeAttempt: the attempt row is only read.
ReadAttempt(h) == UNCHANGED challenge

\* ConsumeOne of the attempt row.
TakeAttempt(h) == challenge' = [challenge EXCEPT ![h].armed = FALSE]

\* beginAttempt.
BeginAttempt(r) ==
    LET h == req[r].handle IN
    /\ req[r].stage = "attempt"
    /\ \/ /\ challenge[h].armed /\ ~challenge[h].expired
          /\ challenge[h].attempts < ChallengeMaxAttempts
          /\ TakeAttempt(h)
          /\ req' = [req EXCEPT ![r].stage = "load", ![r].attempts = challenge[h].attempts]
       \/ /\ ~challenge[h].armed \/ challenge[h].expired
          /\ Finish(r)
          /\ UNCHANGED challenge
    /\ UNCHANGED <<tokenVars, scenario, factorVars, otps, devices, historyVars>>

\* rearmAttempt: the row is created again, with the expiry it had.
Rearm(h, n) == challenge' = [challenge EXCEPT ![h].armed = TRUE, ![h].attempts = n]

\* restoreAttempt, and the refusal that follows it everywhere.
RestoreAndRefuse(r) ==
    /\ IF req[r].handle # None /\ req[r].op # "send-otp"
       THEN Rearm(req[r].handle, req[r].attempts) ELSE UNCHANGED challenge
    /\ Finish(r)

\* findTwoFactor and the tests that verifyTOTP, verifyOTP, verifyBackupCode and
\* sendOTP make on the row: a challenge needs a verified row that is not locked.
LoadFactor(r) ==
    LET row == factor[req[r].user]  pending == req[r].handle # None IN
    /\ req[r].stage = "load"
    /\ \/ /\ row.id = None \/ (pending /\ (~row.verified \/ row.locked = "until"))
          /\ RestoreAndRefuse(r)
       \/ /\ row.id # None /\ (pending => row.verified /\ row.locked # "until")
          /\ req' = [req EXCEPT ![r].snap = row,
                ![r].stage = IF pending /\ row.locked = "past" THEN "unlock"
                             ELSE IF req[r].op = "send-otp" THEN "clear" ELSE "judge"]
          /\ UNCHANGED challenge
    /\ UNCHANGED <<tokenVars, scenario, factorVars, otps, devices, historyVars>>

\* The guard of assertNotLocked's update: id, and lockedUntil <= now.
StillExpired(r) == SameRow(r) /\ factor[req[r].user].locked = "past"

ClearFailures(u) ==
    factor' = [factor EXCEPT ![u].failed = 0, ![u].locked = "no"]

\* assertNotLocked when the lock it read has expired.
AssertNotLocked(r) ==
    /\ req[r].stage = "unlock"
    /\ IF StillExpired(r) THEN ClearFailures(req[r].user) ELSE UNCHANGED factor
    /\ Goto(r, IF req[r].op = "send-otp" THEN "clear" ELSE "judge")
    /\ UNCHANGED <<tokenVars, scenario, enabled, rowVars, historyVars>>

\* verifyTOTP compares the code with the secret it read.
JudgeTOTP(r) ==
    /\ req[r].stage = "judge" /\ req[r].op = "totp"
    /\ \/ Goto(r, "fail") /\ UNCHANGED proved
       \/ /\ proved' = proved \cup {req[r].snap.id}
          /\ Goto(r, IF req[r].handle = None /\ ~req[r].snap.verified
                     THEN "enroll" ELSE "complete")
    /\ UNCHANGED <<tokenVars, scenario, factorVars, rowVars,
                   proof, guesses, spent>>

\* verifyBackupCode looks the code up in the set it read.
JudgeBackupCode(r) ==
    /\ req[r].stage = "judge" /\ req[r].op = "backup"
    /\ \/ Goto(r, "fail")
       \/ \E c \in req[r].snap.codes :
            req' = [req EXCEPT ![r].stage = "spend", ![r].code = c]
    /\ UNCHANGED <<tokenVars, scenario, factorVars, rowVars, historyVars>>

Key(r) == IF req[r].handle # None THEN req[r].handle ELSE req[r].session

StoredOtps(r) == {o \in Otps : otps[o].state = "stored" /\ otps[o].key = Key(r)}

\* verifyOTP consumes the row of the key and compares its code.
JudgeOTP(r) ==
    /\ req[r].stage = "judge" /\ req[r].op = "otp" /\ scenario.otp
    /\ \/ StoredOtps(r) = {} /\ RestoreAndRefuse(r) /\ UNCHANGED otps
       \/ /\ \E o \in StoredOtps(r) :
               /\ otps' = [otps EXCEPT ![o].state = "gone"]
               /\ \/ Goto(r, "complete")
                  \/ req' = [req EXCEPT ![r].stage = "refile", ![r].code = o]
          /\ UNCHANGED challenge
    /\ UNCHANGED <<tokenVars, scenario, factorVars, devices, historyVars>>

\* A wrong OTP puts the consumed row back, unless the unique value is taken by a
\* code that was sent in between.
Refile(r) ==
    /\ req[r].stage = "refile"
    /\ otps' = IF StoredOtps(r) = {} THEN [otps EXCEPT ![req[r].code].state = "stored"] ELSE otps
    /\ req' = [req EXCEPT ![r].stage = "fail", ![r].code = None]
    /\ UNCHANGED <<tokenVars, scenario, factorVars, challenge, devices, historyVars>>

\* Fault variant of CodesUnchanged: the update is keyed by the row id alone.
CodesOfSameRow(r) == SameRow(r)

\* The expected-old-value guard of both writers of backupCodes.
CodesUnchanged(r) == SameRow(r) /\ factor[req[r].user].codes = req[r].snap.codes

\* verifyBackupCode's update; a conflict gives the attempt back.
SpendBackupCode(r) ==
    LET u == req[r].user  c == req[r].code IN
    /\ req[r].stage = "spend"
    /\ \/ /\ CodesUnchanged(r)
          /\ factor' = [factor EXCEPT ![u].codes = req[r].snap.codes \ {c}]
          /\ spent' = [spent EXCEPT ![c] = @ + 1]
          /\ Goto(r, "complete")
          /\ UNCHANGED challenge
       \/ /\ ~CodesUnchanged(r)
          /\ RestoreAndRefuse(r)
          /\ UNCHANGED <<factor, spent>>
    /\ UNCHANGED <<tokenVars, scenario, enabled, otps, devices,
                   proof, proved, guesses>>

\* Fault variant of Unenrolled: the update is keyed by the user.
UnenrolledUser(r) ==
    factor[req[r].user].id # None /\ ~factor[req[r].user].verified

\* The guard of completeEnrollment: the row that was read, still unverified.
Unenrolled(r) == SameRow(r) /\ ~factor[req[r].user].verified

\* completeEnrollment: row and user in one transaction.
CompleteEnrollment(r) ==
    LET u == req[r].user IN
    /\ req[r].stage = "enroll"
    /\ \/ /\ Unenrolled(r)
          /\ factor' = [factor EXCEPT ![u].verified = TRUE]
          /\ enabled' = [enabled EXCEPT ![u] = TRUE]
          /\ Goto(r, "complete")
       \/ ~Unenrolled(r) /\ Finish(r) /\ UNCHANGED factorVars
    /\ UNCHANGED <<tokenVars, scenario, rowVars, historyVars>>

\* failedFactor: a signed-in user's wrong code has no consequence; a challenge
\* gets its attempt row back, or is destroyed when the budget is used up.  The
\* row of a spent attempt budget is never armed again, so beginAttempt's own test
\* of the budget never fails.
FailedFactor(r) ==
    LET h == req[r].handle  n == req[r].attempts + 1 IN
    /\ req[r].stage = "fail"
    /\ \/ h = None /\ Finish(r) /\ UNCHANGED <<challenge, guesses>>
       \/ /\ h # None
          /\ guesses' = [guesses EXCEPT ![h] = @ + 1]
          /\ IF n < ChallengeMaxAttempts THEN Rearm(h, n)
             ELSE challenge' = [challenge EXCEPT ![h].state = "gone"]
          /\ Goto(r, "count")
    /\ UNCHANGED <<tokenVars, scenario, factorVars, otps, devices,
                   proof, proved, spent>>

\* Fault variant of OverBudget: off by one.
OverBudgetLate(n) == n > AccountMaxFailedAttempts

OverBudget(n) == n >= AccountMaxFailedAttempts

\* recordFailure's IncrementOne.
RecordFailure(r) ==
    LET u == req[r].user IN
    /\ req[r].stage = "count"
    /\ \/ ~SameRow(r) /\ Finish(r) /\ UNCHANGED factor
       \/ /\ SameRow(r)
          /\ factor' = [factor EXCEPT ![u].failed = @ + 1]
          /\ IF OverBudget(factor[u].failed + 1) THEN Goto(r, "lock") ELSE Finish(r)
    /\ UNCHANGED <<tokenVars, scenario, enabled, rowVars, historyVars>>

\* recordFailure's second update.
LockAccount(r) ==
    /\ req[r].stage = "lock"
    /\ IF SameRow(r) THEN factor' = [factor EXCEPT ![req[r].user].locked = "until"]
       ELSE UNCHANGED factor
    /\ Finish(r)
    /\ UNCHANGED <<tokenVars, scenario, enabled, rowVars, historyVars>>

ConsumePending(h) == challenge' = [challenge EXCEPT ![h].state = "gone"]

\* completeVerification consumes the challenge; of several right codes one wins.
CompleteVerification(r) ==
    LET h == req[r].handle IN
    /\ req[r].stage = "complete"
    /\ \/ h = None /\ Goto(r, "reset") /\ UNCHANGED challenge
       \/ h # None /\ Pending(h) /\ ConsumePending(h) /\ Goto(r, "reset")
       \/ h # None /\ ~Pending(h) /\ Finish(r) /\ UNCHANGED challenge
    /\ UNCHANGED <<tokenVars, scenario, factorVars, otps, devices, historyVars>>

\* resetFailures, then what completeVerification does for the kind of request: a
\* first enrollment rotates the session, a challenge issues one unless a backup
\* code was sent with disableSession.
ResetFailures(r) ==
    /\ req[r].stage = "reset"
    /\ IF SameRow(r) THEN ClearFailures(req[r].user) ELSE UNCHANGED factor
    /\ \/ req[r].handle = None /\ req[r].snap.verified /\ Finish(r)
       \/ req[r].handle = None /\ ~req[r].snap.verified /\ Goto(r, "rotate")
       \/ req[r].handle # None /\ req[r].op = "backup" /\ Finish(r)
       \/ req[r].handle # None /\ Goto(r, "issue")
    /\ UNCHANGED <<tokenVars, scenario, enabled, rowVars, historyVars>>

\* IssueSession without a current session, and whether trustDevice was asked for.
IssueSession(r) ==
    LET h == req[r].handle IN
    /\ req[r].stage = "issue"
    /\ \E new \in NewSessionId :
         /\ sessions' = CreateSession(sessions, new, NewSession(req[r].user, 0, 1))
         /\ proof' = [proof EXCEPT ![new] = "factor"]
         /\ \/ NextHook(r, Respond(r, new))
            \/ req' = [req EXCEPT ![r] = [Respond(r, new) EXCEPT !.stage = "trust"]]
    /\ UNCHANGED <<tokens, redeem, held, traded, scenario, factorVars, rowVars,
                   proved, guesses, spent>>

-----------------------------------------------------------------------------
(* sendOTP: DeleteMany, Create, and DeleteMany again if the delivery fails *)

DeleteOtps(r) ==
    otps' = [o \in Otps |-> IF o \in StoredOtps(r) THEN [otps[o] EXCEPT !.state = "gone"]
                            ELSE otps[o]]

ClearOtps(r) ==
    /\ req[r].stage \in {"clear", "unsend"} /\ scenario.otp
    /\ DeleteOtps(r)
    /\ IF req[r].stage = "clear" THEN Goto(r, "store") ELSE Finish(r)
    /\ UNCHANGED <<tokenVars, scenario, factorVars, challenge, devices, historyVars>>

\* Of two requests that both deleted, the unique value refuses the later row.
SendOTP(r) ==
    /\ req[r].stage = "store"
    /\ \/ /\ StoredOtps(r) = {}
          /\ \E o \in Draw({x \in Otps : otps[x].state = "free"}) :
               otps' = [otps EXCEPT ![o] = [state |-> "stored", key |-> Key(r)]]
          /\ Finish(r) \/ Goto(r, "unsend")
       \/ /\ StoredOtps(r) # {}
          /\ Finish(r)
          /\ UNCHANGED otps
    /\ UNCHANGED <<tokenVars, scenario, factorVars, challenge, devices, historyVars>>

-----------------------------------------------------------------------------
(* Management: a fresh session, and the password of a credential user      *)

BeginManagement(r, op) ==
    /\ op \in scenario.ops
    /\ req[r].stage = "idle"
    /\ \E s \in held :
         /\ Live(s)
         /\ \E d \in (held \cap Devices) \cup {None} :
              /\ op # "disable" => d = None
              /\ req' = [req EXCEPT ![r] = [Idle EXCEPT !.stage = "manage", !.op = op,
                            !.session = s, !.user = sessions[s].user, !.device = d]]
    /\ UNCHANGED <<tokenVars, scenario, factorVars, rowVars, historyVars>>

FreshFactors ==
    {f \in FactorIds : /\ f \notin proved
                       /\ \A u \in Users : factor[u].id # f /\ factor[u].codes \cap CodesOf(f) = {}
                       /\ \A r \in Requests : req[r].snap.id # f /\ req[r].snap.codes \cap CodesOf(f) = {}
                       /\ \A c \in CodesOf(f) : spent[c] = 0}

\* enable: a verified row is not replaced.
Enable(r) ==
    LET u == req[r].user IN
    /\ req[r].stage = "manage" /\ req[r].op = "enable"
    /\ \/ factor[u].verified /\ Finish(r) /\ UNCHANGED factorVars
       \/ /\ ~factor[u].verified
          /\ \E f \in Draw(FreshFactors) : factor' = [factor EXCEPT ![u] = NewFactor(f, scenario.skip)]
          /\ enabled' = [enabled EXCEPT ![u] = @ \/ scenario.skip]
          /\ Goto(r, "rotate")
    /\ UNCHANGED <<tokenVars, scenario, rowVars, historyVars>>

\* enableOTP sets the flag and creates no row.
EnableOTP(r) ==
    /\ req[r].stage = "manage" /\ req[r].op = "enable-otp" /\ scenario.otp
    /\ enabled' = [enabled EXCEPT ![req[r].user] = TRUE]
    /\ Goto(r, "rotate")
    /\ UNCHANGED <<tokenVars, scenario, factor, rowVars, historyVars>>

\* disable.  Sign-ins that passed the password only are complete from here on.
Disable(r) ==
    LET u == req[r].user IN
    /\ req[r].stage = "manage" /\ req[r].op = "disable"
    /\ enabled' = [enabled EXCEPT ![u] = FALSE]
    /\ factor' = [factor EXCEPT ![u] = NoFactor]
    /\ proof' = [s \in SessionIds |-> IF sessions[s].user = u /\ proof[s] = "password"
                                      THEN "open" ELSE proof[s]]
    /\ Goto(r, "forget")
    /\ UNCHANGED <<tokenVars, scenario, rowVars, proved, guesses, spent>>

\* disable consumes the trusted device of the browser that asked.
ForgetDevice(r) ==
    /\ req[r].stage = "forget"
    /\ ConsumeDevice(req[r].device)
    /\ req' = [req EXCEPT ![r].stage = "rotate", ![r].device = None]
    /\ UNCHANGED <<tokenVars, scenario, factorVars, challenge, otps, historyVars>>

\* regenerateBackupCodes reads the row ...
BeginRegenerate(r) ==
    LET row == factor[req[r].user] IN
    /\ req[r].stage = "manage" /\ req[r].op = "regenerate"
    /\ IF row.verified THEN req' = [req EXCEPT ![r].stage = "reseal", ![r].snap = row]
       ELSE Finish(r)
    /\ UNCHANGED <<tokenVars, scenario, factorVars, rowVars, historyVars>>

\* ... and replaces the set it read.
RegenerateBackupCodes(r) ==
    /\ req[r].stage = "reseal"
    /\ \/ ~CodesUnchanged(r) /\ Finish(r) /\ UNCHANGED factor
       \/ /\ CodesUnchanged(r)
          /\ \E f \in Draw(FreshFactors) : factor' = [factor EXCEPT ![req[r].user].codes = CodesOf(f)]
          /\ Goto(r, "rotate")
    /\ UNCHANGED <<tokenVars, scenario, enabled, rowVars, historyVars>>

\* rotateAuthenticatedSession: issuePluginSessionUsing rotates the session the
\* request presented, or creates one if it does not resolve any more.
RotateAuthenticatedSession(r) ==
    LET s == req[r].session IN
    /\ req[r].stage = "rotate"
    /\ \E new \in NewSessionId :
         /\ LET row == NewSession(req[r].user, 0, 1) IN
            sessions' = IF Live(s) THEN RotateSession(sessions, s, new, row)
                        ELSE CreateSession(sessions, new, row)
         /\ proof' = [proof EXCEPT ![new] = proof[s]]
         /\ NextHook(r, Respond(r, new))
    /\ UNCHANGED <<tokens, redeem, held, traded, scenario, factorVars, rowVars,
                   proved, guesses, spent>>

-----------------------------------------------------------------------------
(* The environment                                                         *)

\* PendingTTL passes: neither row of the challenge is found any more.
ExpireChallenge(h) ==
    /\ challenge[h].state = "pending" /\ ~challenge[h].expired
    /\ challenge' = [challenge EXCEPT ![h].expired = TRUE]
    /\ UNCHANGED <<tokenVars, scenario, factorVars, otps, devices, req, historyVars>>

\* AccountLockoutDuration passes.
LockoutEnds(u) ==
    /\ factor[u].locked = "until"
    /\ factor' = [factor EXCEPT ![u].locked = "past"]
    /\ UNCHANGED <<tokenVars, scenario, enabled, rowVars, req, historyVars>>

\* Sign-out and the revocations of the core handlers.
RevokeUser(u) ==
    /\ "revoke" \in scenario.ops /\ LiveRows(sessions, u) # {}
    /\ sessions' = RevokeUserSessions(sessions, u)
    /\ UNCHANGED <<tokens, redeem, held, traded, scenario, factorVars, rowVars, req, historyVars>>

OutsideTokens == <<scenario, factorVars, rowVars, req, historyVars>>

TokenStep ==
    /\ "token" \in scenario.ops
    /\ \E t \in Tokens :
         \/ Generate(t)
         \/ \E r \in Requests : t \in held /\ redeem[r] = None /\ ConsumeToken(r, t)
         \/ ExpireToken(t)
         \/ \E r \in Requests : Verify(r)
    /\ UNCHANGED OutsideTokens

Next ==
    \/ \E r \in Requests :
         \/ \E u \in scenario.users, d \in (held \cap Devices) \cup {None} : SignIn(r, u, d)
         \/ AttachHeader(r) \/ Deliver(r)
         \/ Gate(r) \/ AcceptTrustedDevice(r) \/ CreateTrustedDevice(r) \/ BeginChallenge(r)
         \/ \E op \in Verifications \cup {"send-otp"} : Arrive(r, op)
         \/ BeginAttempt(r) \/ LoadFactor(r) \/ AssertNotLocked(r)
         \/ JudgeTOTP(r) \/ JudgeBackupCode(r) \/ JudgeOTP(r) \/ Refile(r)
         \/ SpendBackupCode(r) \/ CompleteEnrollment(r)
         \/ FailedFactor(r) \/ RecordFailure(r) \/ LockAccount(r)
         \/ CompleteVerification(r) \/ ResetFailures(r) \/ IssueSession(r)
         \/ ClearOtps(r) \/ SendOTP(r)
         \/ \E op \in Management : BeginManagement(r, op)
         \/ Enable(r) \/ EnableOTP(r) \/ Disable(r) \/ ForgetDevice(r)
         \/ BeginRegenerate(r) \/ RegenerateBackupCodes(r)
         \/ RotateAuthenticatedSession(r)
    \/ TokenStep
    \/ \E h \in Handles : ExpireChallenge(h)
    \/ \E u \in Users : LockoutEnds(u) \/ RevokeUser(u)

Spec == Init /\ [][Next]_vars

-----------------------------------------------------------------------------
(* Properties                                                              *)

\* A first-factor session never reaches a client: whatever live session a client
\* holds, by cookie or through a one-time token, it did not come out of a sign-in
\* that had shown only the password while the user's second factor was on.
SecondFactorProved == \A s \in held : Live(s) => proof[s] # "password"

\* The guesses of one challenge share one budget, however many requests present
\* its cookie at once (beginAttempt, rearmAttempt).
AttemptsBounded == \A h \in Handles : guesses[h] <= ChallengeMaxAttempts

\* A backup code is accepted once, also when it is sent twice at once or while the
\* set is being regenerated (verifyBackupCode, regenerateBackupCodes).
BackupCodeSingleUse == \A c \in Codes : spent[c] <= 1

\* Without the skip option a factor counts as verified only after a right code
\* for that very secret, and without delivered OTPs an enabled user has a verified
\* factor to answer with: enrollment, re-enrollment and disable may race.
EnrollmentProved ==
    \A u \in Users :
        /\ (factor[u].verified /\ ~scenario.skip) => factor[u].id \in proved
        /\ (enabled[u] /\ ~scenario.otp) => factor[u].verified

\* When the failures of a row reach the account budget, the row is locked, or a
\* request is between the two writes of recordFailure: only a crash there loses
\* the lock, until the next failure.
BudgetLocks ==
    \A u \in Users :
        (factor[u].failed >= AccountMaxFailedAttempts /\ factor[u].locked = "no") =>
            \E r \in Requests : req[r].stage = "lock" /\ req[r].snap.id = factor[u].id

=============================================================================

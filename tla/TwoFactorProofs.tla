-------------------------- MODULE TwoFactorProofs ---------------------------
(***************************************************************************)
(* Proofs of the safety properties of TwoFactor and of the one-time tokens *)
(* it is composed with, for any number of users, browsers, challenges and  *)
(* concurrent requests, in every configuration that normalizeConfig        *)
(* accepts and with the after-hooks in any order.                          *)
(***************************************************************************)
EXTENDS TwoFactor, TLAPS

-----------------------------------------------------------------------------
(* The inductive invariant: rows and requests                              *)

\* A row that was drawn is a user's.
RowsOK ==
    /\ \A s \in SessionIds : sessions[s].state # "free" => sessions[s].user \in Users
    /\ \A h \in Handles : challenge[h].state # "free" => challenge[h].user \in Users

\* Stages of requests that act on the two-factor row they have read.
Loaded == {"unlock", "judge", "refile", "spend", "enroll", "fail", "count", "lock"}

\* A row id names one user, so a request that read a row finds it, if anywhere, at
\* its own user.
FactorReq(q) ==
    /\ q.stage # "idle" => q.user \in Users
    /\ q.snap.id # None => \A v \in Users : factor[v].id = q.snap.id => v = q.user
    /\ q.stage \in Loaded => q.snap.id # None
    /\ q.stage = "spend" => q.code \in q.snap.codes
    /\ q.stage = "refile" => q.code \in Otps
    /\ q.stage = "enroll" => q.snap.id \in proved

\* Ids and backup codes are drawn once; a code that is in a row is unspent.
FactorInv ==
    /\ \A u, v \in Users : u # v =>
         /\ factor[u].id = None \/ factor[u].id # factor[v].id
         /\ factor[u].codes \cap factor[v].codes = {}
    /\ \A u \in Users : \A c \in factor[u].codes : spent[c] = 0
    /\ \A r \in Requests : FactorReq(req[r])
    /\ BackupCodeSingleUse
    /\ EnrollmentProved
    /\ BudgetLocks

-----------------------------------------------------------------------------
(* The inductive invariant: attempts                                       *)

\* The request consumed the attempt row of its challenge and has not answered yet.
Holds(q) ==
    /\ q.stage \in {"load", "unlock", "judge", "refile", "spend", "fail"}
    /\ q.handle # None /\ q.op # "send-otp"

\* The attempt row, or the one request that holds it, counts the guesses so far.
AttemptReq(q) ==
    /\ q.stage \in {"judge", "refile", "spend", "fail"} => q.op # "send-otp"
    /\ q.stage = "attempt" => q.handle \in Handles /\ challenge[q.handle].state # "free"
    /\ Holds(q) =>
         /\ challenge[q.handle].state # "free" /\ ~challenge[q.handle].armed
         /\ q.attempts = guesses[q.handle] /\ guesses[q.handle] < ChallengeMaxAttempts

AttemptInv ==
    /\ \A h \in Handles :
         /\ challenge[h].state = "free" => ~challenge[h].armed /\ guesses[h] = 0
         /\ challenge[h].armed =>
              challenge[h].attempts = guesses[h] /\ guesses[h] < ChallengeMaxAttempts
    /\ \A r \in Requests : AttemptReq(req[r])
    /\ \A r, q \in Requests :
         r # q /\ Holds(req[r]) /\ Holds(req[q]) => req[r].handle # req[q].handle
    /\ AttemptsBounded

-----------------------------------------------------------------------------
(* The inductive invariant: sessions                                       *)

\* Handing out s gives nobody a session that has shown the password only.
Harmless(s) ==
    /\ s \in SessionIds /\ sessions[s].state # "free"
    /\ sessions[s].state = "live" => proof[s] # "password"

\* The token t opens a harmless session.
HarmlessToken(t) == tokens[t].state # "free" /\ Harmless(tokens[t].session)

\* interceptCredentialSignIn has run for the sign-in q.
Passed(q) ==
    q.stage \in {"retrust", "respond"} \/ (q.stage = "token" /\ q.hooks # <<"factor">>)

SignInData(q) ==
    /\ q.session \in SessionIds /\ sessions[q.session].state # "free"
    /\ sessions[q.session].user = q.user
    /\ q.cookie \in {None, q.session}
    /\ q.token # None => tokens[q.token].state # "free" /\ tokens[q.token].session = q.session

SignInReq(q) ==
    /\ q.stage \in {"token", "factor", "trusted", "challenge", "retrust", "respond"}
    /\ q.hooks \in {<<>>, <<"token">>} \/ (q.stage = "token" /\ q.hooks = <<"factor">>)
    /\ SignInData(q)
    /\ Passed(q) => Harmless(q.session)

OtherData(q) ==
    /\ q.session # None => sessions[q.session].state # "free" /\ proof[q.session] # "password"
    /\ q.handle = None => q.session # None
    /\ q.cookie # None => Harmless(q.cookie)
    /\ q.token # None => HarmlessToken(q.token)

OtherReq(q) ==
    /\ q.stage \notin {"factor", "trusted", "challenge", "retrust"}
    /\ q.hooks \in {<<>>, <<"token">>}
    /\ q.stage \in {"manage", "reseal", "forget", "rotate"} => q.session # None
    /\ OtherData(q)

AccessReq(q) ==
    q.stage # "idle" => IF q.op = "sign-in" THEN SignInReq(q) ELSE OtherReq(q)

AccessInv ==
    /\ \A s \in SessionIds : proof[s] = "password" =>
         sessions[s].state # "free" /\ enabled[sessions[s].user]
    /\ \A s \in held \cap SessionIds : Harmless(s)
    /\ \A t \in held \cap Tokens : HarmlessToken(t)
    /\ \A r \in Requests : redeem[r] # None => Harmless(redeem[r])
    /\ \A r \in Requests : AccessReq(req[r])

\* A token that was traded is gone.
TradeInv ==
    \A t \in Tokens : traded[t] <= 1 /\ (tokens[t].state # "gone" => traded[t] = 0)

Inv == TypeOK /\ RowsOK /\ FactorInv /\ AttemptInv /\ AccessInv /\ TradeInv

-----------------------------------------------------------------------------
(* The values of the model                                                 *)

LEMMA DrawUnused ==
    ASSUME NEW S, NEW x \in Draw(S)
    PROVE  x \in S
BY DEF Draw

LEMMA Limits ==
    /\ ChallengeMaxAttempts \in Nat \ {0} /\ AccountMaxFailedAttempts \in Nat \ {0}
    /\ BackupCodeCount \in Nat \ {0}
BY TwoFactorAssumption DEF LimitsOK

LEMMA NoneDiffers ==
    /\ None \notin Users /\ None \notin SessionIds /\ None \notin FactorIds
    /\ None \notin Handles /\ None \notin Devices /\ None \notin Otps /\ None \notin Tokens
BY NoneAssumption, ValuesAssumption

LEMMA NoFactorType ==
    /\ NoFactor \in FactorRow /\ NoFactor.id = None /\ NoFactor.codes = {}
    /\ NoFactor.failed = 0 /\ NoFactor.verified = FALSE
BY DEF NoFactor, FactorRow

LEMMA CodesType ==
    ASSUME NEW f \in FactorIds
    PROVE  CodesOf(f) \subseteq Codes
BY DEF CodesOf, Codes

LEMMA NewFactorType ==
    ASSUME NEW f \in FactorIds, NEW verified \in BOOLEAN
    PROVE  /\ NewFactor(f, verified) \in FactorRow /\ NewFactor(f, verified).id = f
           /\ NewFactor(f, verified).codes = CodesOf(f) /\ NewFactor(f, verified).failed = 0
           /\ NewFactor(f, verified).verified = verified
BY CodesType DEF NewFactor, FactorRow

LEMMA IdleType ==
    /\ Idle \in Request /\ Idle.stage = "idle" /\ Idle.op = None /\ Idle.snap = NoFactor
    /\ Idle.hooks = <<>> /\ Idle.session = None /\ Idle.cookie = None /\ Idle.token = None
    /\ Idle.handle = None /\ Idle.device = None /\ Idle.attempts = 0 /\ Idle.user = None
BY NoFactorType DEF Idle, Request, Stages

LEMMA IdleOK == FactorReq(Idle) /\ AttemptReq(Idle) /\ AccessReq(Idle) /\ ~Holds(Idle)
BY IdleType, NoFactorType DEF FactorReq, AttemptReq, AccessReq, Holds, Loaded

LEMMA NewSessionType ==
    ASSUME NEW u \in Users
    PROVE  /\ NewSession(u, 0, 1) \in SessionRow
           /\ NewSession(u, 0, 1).state = "live" /\ NewSession(u, 0, 1).user = u
BY DEF NewSession, Impersonation, SessionRow

LEMMA ScenarioType ==
    ASSUME TypeOK
    PROVE  /\ scenario.users \subseteq Users /\ scenario.sessions \subseteq SessionIds
           /\ scenario.handles \subseteq Handles /\ scenario.enrolled \subseteq scenario.users
           /\ scenario.hooks \in {<<"factor">>, <<"token", "factor">>, <<"factor", "token">>}
           /\ scenario.otp \in BOOLEAN /\ scenario.skip \in BOOLEAN
BY TwoFactorAssumption DEF TypeOK, Scenario

LEMMA Drawn ==
    ASSUME TypeOK, NEW new \in NewSessionId
    PROVE  new \in SessionIds /\ sessions[new].state = "free"
BY DrawUnused DEF NewSessionId, Unused

-----------------------------------------------------------------------------
(* Requests that move on                                                   *)

\* n is o at another stage.
Moved(n, o) ==
    /\ n.op = o.op /\ n.user = o.user /\ n.hooks = o.hooks /\ n.session = o.session
    /\ n.cookie = o.cookie /\ n.token = o.token /\ n.handle = o.handle /\ n.device = o.device
    /\ n.snap = o.snap /\ n.attempts = o.attempts /\ n.code = o.code

LEMMA GotoMoves ==
    ASSUME TypeOK, NEW r \in Requests, NEW stage \in Stages, Goto(r, stage)
    PROVE  \E n \in Request : /\ req' = [req EXCEPT ![r] = n]
                              /\ n.stage = stage /\ Moved(n, req[r])
<1> DEFINE n == [req[r] EXCEPT !.stage = stage]
<1>1. req[r] \in Request
  BY DEF TypeOK
<1>2. n \in Request /\ n.stage = stage /\ Moved(n, req[r])
  BY <1>1 DEF Request, Moved
<1>3. req' = [req EXCEPT ![r] = n]
  BY DEF Goto
<1> QED
  BY <1>2, <1>3

\* n is o after NextHook.
Hooked(n, o) ==
    /\ n.stage = IF o.hooks = <<>> THEN "respond" ELSE Head(o.hooks)
    /\ n.hooks = IF o.hooks = <<>> THEN <<>> ELSE Tail(o.hooks)
    /\ n.op = o.op /\ n.user = o.user /\ n.session = o.session
    /\ n.cookie = o.cookie /\ n.token = o.token /\ n.handle = o.handle /\ n.device = o.device
    /\ n.snap = o.snap /\ n.attempts = o.attempts /\ n.code = o.code

\* What may be left of the hooks of a response.
HooksLeft == {<<>>, <<"token">>, <<"factor">>, <<"token", "factor">>, <<"factor", "token">>}

LEMMA NextHookMoves ==
    ASSUME NEW r \in Requests, NEW o \in Request, o.hooks \in HooksLeft, NextHook(r, o)
    PROVE  \E n \in Request : req' = [req EXCEPT ![r] = n] /\ Hooked(n, o)
<1> DEFINE stage == IF o.hooks = <<>> THEN "respond" ELSE Head(o.hooks)
           hooks == IF o.hooks = <<>> THEN <<>> ELSE Tail(o.hooks)
<1>1. stage \in {"respond", "token", "factor"} /\ hooks \in Seq({"token", "factor"})
  <2>1. CASE o.hooks = <<>>
    BY <2>1
  <2>2. CASE o.hooks = <<"token">>
    BY <2>2
  <2>3. CASE o.hooks = <<"factor">>
    BY <2>3
  <2>4. CASE o.hooks = <<"token", "factor">>
    BY <2>4
  <2>5. CASE o.hooks = <<"factor", "token">>
    BY <2>5
  <2> QED
    BY <2>1, <2>2, <2>3, <2>4, <2>5 DEF HooksLeft
<1>2. PICK st \in Stages, hk \in Seq({"token", "factor"}) : st = stage /\ hk = hooks
  BY <1>1 DEF Stages
<1> DEFINE n == [o EXCEPT !.stage = st, !.hooks = hk]
<1>3. req' = [req EXCEPT ![r] = n]
  BY <1>2 DEF NextHook
<1> HIDE DEF stage, hooks
<1>4. n \in Request
  BY DEF Request
<1>5. /\ n.stage = st /\ n.hooks = hk
      /\ n.op = o.op /\ n.user = o.user /\ n.session = o.session
      /\ n.cookie = o.cookie /\ n.token = o.token /\ n.handle = o.handle
      /\ n.device = o.device /\ n.snap = o.snap /\ n.attempts = o.attempts
      /\ n.code = o.code
  BY DEF Request
<1> HIDE DEF n
<1>6. Hooked(n, o)
  BY <1>2, <1>5 DEF Hooked, stage, hooks
<1> QED
  BY <1>3, <1>4, <1>6

-----------------------------------------------------------------------------
(* Frames                                                                  *)

LEMMA Others ==
    ASSUME TypeOK, NEW r \in Requests, NEW n \in Request, req' = [req EXCEPT ![r] = n]
    PROVE  /\ req' \in [Requests -> Request] /\ req'[r] = n
           /\ \A q \in Requests \ {r} : req'[q] = req[q]
BY DEF TypeOK

\* A step of a request that leaves the two-factor rows alone.
LEMMA FactorFrame ==
    ASSUME Inv, NEW r \in Requests, NEW n \in Request, req' = [req EXCEPT ![r] = n],
           FactorReq(n)', req[r].stage # "lock",
           UNCHANGED <<factor, enabled, scenario, spent>>, proved \subseteq proved'
    PROVE  FactorInv'
<1>1. req'[r] = n /\ \A q \in Requests \ {r} : req'[q] = req[q]
  BY Others DEF Inv
<1>2. \A q \in Requests : FactorReq(req[q])'
  BY <1>1 DEF Inv, FactorInv, FactorReq
<1>3. BudgetLocks'
  BY <1>1 DEF Inv, FactorInv, BudgetLocks
<1> QED
  BY <1>2, <1>3 DEF Inv, FactorInv, BackupCodeSingleUse, EnrollmentProved

\* A step of a request that leaves the challenges and their attempts alone.
LEMMA AttemptFrame ==
    ASSUME Inv, NEW r \in Requests, NEW n \in Request, req' = [req EXCEPT ![r] = n],
           AttemptReq(n), Holds(n) => Holds(req[r]) /\ n.handle = req[r].handle,
           UNCHANGED <<challenge, guesses>>
    PROVE  AttemptInv'
<1>1. req'[r] = n /\ \A q \in Requests \ {r} : req'[q] = req[q]
  BY Others DEF Inv
<1>2. \A q \in Requests : AttemptReq(req[q])'
  BY <1>1 DEF Inv, AttemptInv, AttemptReq, Holds
<1>3. \A q \in Requests : Holds(req[q])' => Holds(req[q]) /\ req'[q].handle = req[q].handle
  BY <1>1 DEF Holds
<1>4. \A p, q \in Requests :
        p # q /\ Holds(req[p])' /\ Holds(req[q])' => req'[p].handle # req'[q].handle
  BY <1>3 DEF Inv, AttemptInv
<1> QED
  BY <1>2, <1>4 DEF Inv, AttemptInv, AttemptsBounded

\* Sessions that were drawn stay drawn, do not come back to life and keep what
\* they have shown; tokens stay sealed to their session.
SessionsAge ==
    \A s \in SessionIds : sessions[s].state # "free" =>
        /\ sessions'[s].state # "free" /\ sessions'[s].user = sessions[s].user
        /\ sessions'[s].state = "live" => sessions[s].state = "live"
        /\ proof'[s] = "password" => proof[s] = "password"

TokensAge ==
    \A t \in Tokens : tokens[t].state # "free" =>
        tokens'[t].state # "free" /\ tokens'[t].session = tokens[t].session

LEMMA HarmlessStays ==
    ASSUME SessionsAge, NEW s, Harmless(s)
    PROVE  Harmless(s)'
BY DEF SessionsAge, Harmless

LEMMA HarmlessTokenStays ==
    ASSUME SessionsAge, TokensAge, NEW t \in Tokens, HarmlessToken(t)
    PROVE  HarmlessToken(t)'
<1>1. tokens'[t].state # "free" /\ tokens'[t].session = tokens[t].session
  BY DEF TokensAge, HarmlessToken
<1>2. PICK s : s = tokens[t].session
  OBVIOUS
<1>3. Harmless(s)'
  BY <1>2, HarmlessStays DEF HarmlessToken
<1> QED
  BY <1>1, <1>2, <1>3 DEF HarmlessToken, Harmless

LEMMA AccessReqStays ==
    ASSUME SessionsAge, TokensAge, NEW q \in Request, AccessReq(q)
    PROVE  AccessReq(q)'
<1>1. q.session \in SessionIds \cup {None} /\ q.token \in Tokens \cup {None}
  BY DEF Request
<1>2. CASE q.stage # "idle" /\ q.op = "sign-in"
  <2>1. SignInReq(q)
    BY <1>2 DEF AccessReq
  <2>2. Passed(q) => Harmless(q.session)'
    BY <2>1, HarmlessStays DEF SignInReq
  <2>3. SignInReq(q)'
    BY <1>1, <2>1, <2>2 DEF SignInReq, SignInData, SessionsAge, TokensAge, Passed
  <2> QED
    BY <1>2, <2>3 DEF AccessReq
<1>3. CASE q.stage # "idle" /\ q.op # "sign-in"
  <2>1. OtherReq(q)
    BY <1>3 DEF AccessReq
  <2>2. q.cookie # None => Harmless(q.cookie)'
    BY <2>1, HarmlessStays DEF OtherReq, OtherData
  <2>3. q.token # None => HarmlessToken(q.token)'
    BY <1>1, <2>1, HarmlessTokenStays DEF OtherReq, OtherData
  <2>4. OtherReq(q)'
    BY <1>1, <2>1, <2>2, <2>3 DEF OtherReq, OtherData, SessionsAge
  <2> QED
    BY <1>3, <2>4 DEF AccessReq
<1> QED
  BY <1>2, <1>3 DEF AccessReq

\* A step of a request that gives no session away.
LEMMA AccessFrame ==
    ASSUME Inv, NEW r \in Requests, NEW n \in Request, req' = [req EXCEPT ![r] = n],
           AccessReq(n)', SessionsAge, TokensAge, UNCHANGED <<redeem, held>>,
           \A s \in SessionIds : proof'[s] = "password" =>
               sessions'[s].state # "free" /\ enabled'[sessions'[s].user]
    PROVE  AccessInv'
<1>1. req'[r] = n /\ \A q \in Requests \ {r} : req'[q] = req[q] /\ req[q] \in Request
  BY Others DEF Inv, TypeOK
<1>2. ASSUME NEW q \in Requests PROVE AccessReq(req[q])'
  <2>1. CASE q = r
    BY <1>1, <2>1 DEF AccessReq, SignInReq, SignInData, OtherReq, OtherData, Passed,
                      Harmless, HarmlessToken
  <2>2. CASE q # r
    <3>1. PICK o \in Request : o = req[q] /\ o = req'[q]
      BY <1>1, <2>2
    <3>2. AccessReq(o)
      BY <3>1 DEF Inv, AccessInv
    <3>3. AccessReq(o)'
      BY <3>2, AccessReqStays
    <3> QED
      BY <3>1, <3>3 DEF AccessReq, SignInReq, SignInData, OtherReq, OtherData, Passed,
                      Harmless, HarmlessToken
  <2> QED
    BY <2>1, <2>2
<1>3. \A s \in held \cap SessionIds : Harmless(s)'
  BY HarmlessStays DEF Inv, AccessInv
<1>4. \A t \in held \cap Tokens : HarmlessToken(t)'
  BY HarmlessTokenStays DEF Inv, AccessInv
<1>5. \A q \in Requests : redeem[q] # None => Harmless(redeem[q])'
  <2> SUFFICES ASSUME NEW q \in Requests, redeem[q] # None PROVE Harmless(redeem[q])'
    OBVIOUS
  <2>1. PICK s : s = redeem[q]
    OBVIOUS
  <2>2. Harmless(s)'
    BY <2>1, HarmlessStays DEF Inv, AccessInv
  <2> QED
    BY <2>1, <2>2 DEF Harmless
<1> QED
  BY <1>2, <1>3, <1>4, <1>5 DEF AccessInv

LEMMA NothingAges ==
    ASSUME UNCHANGED <<sessions, tokens, proof>>
    PROVE  SessionsAge /\ TokensAge
BY DEF SessionsAge, TokensAge

LEMMA TradeFrame ==
    ASSUME Inv, UNCHANGED <<tokens, traded>>
    PROVE  TradeInv'
BY DEF Inv, TradeInv

\* Steps that change a request, and perhaps delivered codes and devices.
LEMMA QuietKeeps ==
    ASSUME Inv, NEW r \in Requests, NEW n \in Request, req' = [req EXCEPT ![r] = n],
           FactorReq(n), AttemptReq(n), AccessReq(n), req[r].stage # "lock",
           Holds(n) => Holds(req[r]) /\ n.handle = req[r].handle,
           UNCHANGED <<tokenVars, scenario, factorVars, challenge, historyVars>>,
           otps' \in [Otps -> OtpRow], devices' \in [Devices -> DeviceRow]
    PROVE  Inv'
<1> USE DEF tokenVars, factorVars, historyVars
<1>1. TypeOK'
  <2>1. req' \in [Requests -> Request]
    BY Others DEF Inv
  <2> QED
    BY <2>1 DEF Inv, TypeOK, TokenTypeOK
<1>2. FactorInv'
  <2>1. FactorReq(n)'
    BY DEF FactorReq
  <2> QED
    BY <2>1, FactorFrame
<1>3. AttemptInv'
  BY AttemptFrame
<1>4. AccessInv'
  <2>1. SessionsAge /\ TokensAge
    BY NothingAges
  <2>2. AccessReq(n)'
    BY <2>1, AccessReqStays
  <2>3. \A s \in SessionIds : proof'[s] = "password" =>
          sessions'[s].state # "free" /\ enabled'[sessions'[s].user]
    BY DEF Inv, AccessInv
  <2> QED
    BY <2>1, <2>2, <2>3, AccessFrame
<1>5. RowsOK' /\ TradeInv'
  BY TradeFrame DEF Inv, RowsOK
<1> QED
  BY <1>1, <1>2, <1>3, <1>4, <1>5 DEF Inv

LEMMA QuietFinish ==
    ASSUME Inv, NEW r \in Requests, Finish(r), req[r].stage # "lock",
           UNCHANGED <<tokenVars, scenario, factorVars, rowVars, historyVars>>
    PROVE  Inv'
<1>1. otps' \in [Otps -> OtpRow] /\ devices' \in [Devices -> DeviceRow] /\ UNCHANGED challenge
  BY DEF rowVars, Inv, TypeOK
<1> QED
  BY <1>1, IdleType, IdleOK, QuietKeeps DEF Finish

-----------------------------------------------------------------------------
(* Requests other than sign-ins move on                                    *)

LEMMA OpKnown ==
    ASSUME Inv, NEW r \in Requests,
           req[r].stage \notin {"idle", "token", "factor", "trusted", "challenge", "retrust", "respond"}
    PROVE  req[r].op # "sign-in" /\ OtherReq(req[r])
BY DEF Inv, AccessInv, AccessReq, SignInReq

\* The request q may go on to the stage st.
Onward(q, st) ==
    /\ q.stage # "idle" /\ q.op # "sign-in"
    /\ st \in Stages \ {"idle", "attempt", "load", "factor", "trusted", "challenge", "retrust",
                        "spend", "refile", "enroll"}
    /\ st \in Loaded => q.snap.id # None
    /\ st \in {"unlock", "judge", "fail"} => Holds(q) \/ q.handle = None \/ q.op = "send-otp"
    /\ st \in {"judge", "fail"} => q.op # "send-otp"
    /\ st \in {"manage", "reseal", "forget", "rotate"} => q.session # None

LEMMA MovedOK ==
    ASSUME Inv, NEW r \in Requests, NEW n \in Request, Moved(n, req[r]), Onward(req[r], n.stage)
    PROVE  /\ FactorReq(n) /\ AttemptReq(n) /\ AccessReq(n)
           /\ Holds(n) => Holds(req[r]) /\ n.handle = req[r].handle
<1>1. FactorReq(req[r]) /\ AttemptReq(req[r]) /\ OtherReq(req[r])
  BY DEF Inv, FactorInv, AttemptInv, AccessInv, AccessReq, Onward
<1>2. FactorReq(n)
  BY <1>1 DEF FactorReq, Moved, Onward, Loaded
<1>3. Holds(n) => Holds(req[r]) /\ n.handle = req[r].handle
  BY DEF Holds, Moved, Onward
<1>4. AttemptReq(n)
  BY <1>1, <1>3 DEF AttemptReq, Holds, Moved, Onward
<1>5. OtherReq(n)
  BY <1>1 DEF OtherReq, OtherData, Moved, Onward
<1>6. AccessReq(n)
  BY <1>5 DEF AccessReq, Moved, Onward
<1> QED
  BY <1>2, <1>3, <1>4, <1>6

LEMMA QuietGoto ==
    ASSUME Inv, NEW r \in Requests, NEW st, Goto(r, st), Onward(req[r], st), req[r].stage # "lock",
           UNCHANGED <<tokenVars, scenario, factorVars, challenge, historyVars>>,
           otps' \in [Otps -> OtpRow], devices' \in [Devices -> DeviceRow]
    PROVE  Inv'
<1>1. st \in Stages
  BY DEF Onward
<1>2. PICK n \in Request : req' = [req EXCEPT ![r] = n] /\ n.stage = st /\ Moved(n, req[r])
  BY <1>1, GotoMoves DEF Inv
<1>3. /\ FactorReq(n) /\ AttemptReq(n) /\ AccessReq(n)
      /\ Holds(n) => Holds(req[r]) /\ n.handle = req[r].handle
  BY <1>2, MovedOK
<1> QED
  BY <1>2, <1>3, QuietKeeps

LEMMA OtherRows ==
    ASSUME Inv, UNCHANGED rowVars
    PROVE  otps' \in [Otps -> OtpRow] /\ devices' \in [Devices -> DeviceRow] /\ UNCHANGED challenge
BY DEF Inv, TypeOK, rowVars

LEMMA OtherStages ==
    ASSUME Inv, NEW r \in Requests
    PROVE  FactorReq(req[r]) /\ AttemptReq(req[r]) /\ AccessReq(req[r]) /\ req[r] \in Request
BY DEF Inv, TypeOK, FactorInv, AttemptInv, AccessInv

-----------------------------------------------------------------------------
(* Sending codes, managing the factor: steps that only read it             *)

LEMMA StoredOtpsType ==
    ASSUME TypeOK, NEW S \in SUBSET Otps, NEW how \in {"stored", "gone"},
           otps' = [o \in Otps |-> IF o \in S THEN [otps[o] EXCEPT !.state = how] ELSE otps[o]]
    PROVE  otps' \in [Otps -> OtpRow]
BY DEF TypeOK, OtpRow

LEMMA OneOtpType ==
    ASSUME TypeOK, NEW o \in Otps, NEW how \in {"stored", "gone"},
           otps' = [otps EXCEPT ![o].state = how]
    PROVE  otps' \in [Otps -> OtpRow]
BY DEF TypeOK, OtpRow

LEMMA ClearOtpsKeeps ==
    ASSUME Inv, NEW r \in Requests, ClearOtps(r)
    PROVE  Inv'
<1>1. /\ req[r].stage \in {"clear", "unsend"} /\ req[r].op # "sign-in"
      /\ UNCHANGED <<tokenVars, scenario, factorVars, challenge, historyVars>>
  BY OpKnown DEF ClearOtps
<1>2. otps' \in [Otps -> OtpRow] /\ devices' \in [Devices -> DeviceRow]
  <2>1. StoredOtps(r) \in SUBSET Otps
    BY DEF StoredOtps
  <2> QED
    BY <2>1, StoredOtpsType DEF ClearOtps, DeleteOtps, Inv, TypeOK
<1>3. CASE Goto(r, "store")
  <2>1. Onward(req[r], "store")
    BY <1>1 DEF Onward, Stages, Loaded
  <2> QED
    BY <1>1, <1>2, <1>3, <2>1, QuietGoto
<1>4. CASE Finish(r)
  BY <1>1, <1>2, <1>4, IdleType, IdleOK, QuietKeeps DEF Finish
<1> QED
  BY <1>3, <1>4 DEF ClearOtps

LEMMA SendKeeps ==
    ASSUME Inv, NEW r \in Requests, SendOTP(r)
    PROVE  Inv'
<1>1. /\ req[r].stage = "store" /\ req[r].op # "sign-in"
      /\ UNCHANGED <<tokenVars, scenario, factorVars, challenge, historyVars>>
  BY OpKnown DEF SendOTP
<1>2. otps' \in [Otps -> OtpRow] /\ devices' \in [Devices -> DeviceRow]
  <2>1. CASE UNCHANGED otps
    BY <2>1 DEF SendOTP, Inv, TypeOK
  <2>2. ASSUME NEW o \in Otps, otps' = [otps EXCEPT ![o] = [state |-> "stored", key |-> Key(r)]]
        PROVE  otps' \in [Otps -> OtpRow] /\ devices' \in [Devices -> DeviceRow]
    <3>1. Key(r) \in Handles \cup SessionIds \cup {None}
      BY OtherStages DEF Key, Request
    <3> QED
      BY <2>2, <3>1 DEF SendOTP, Inv, TypeOK, OtpRow
  <2> QED
    BY <2>1, <2>2, DrawUnused DEF SendOTP
<1>3. CASE Goto(r, "unsend")
  <2>1. Onward(req[r], "unsend")
    BY <1>1 DEF Onward, Stages, Loaded
  <2> QED
    BY <1>1, <1>2, <1>3, <2>1, QuietGoto
<1>4. CASE Finish(r)
  BY <1>1, <1>2, <1>4, IdleType, IdleOK, QuietKeeps DEF Finish
<1> QED
  BY <1>3, <1>4 DEF SendOTP

\* Who presents a live session that the client holds has shown more than the password.
LEMMA PresentedSession ==
    ASSUME Inv, NEW s \in held, Live(s)
    PROVE  /\ s \in SessionIds /\ sessions[s].state # "free" /\ proof[s] # "password"
           /\ sessions[s].user \in Users
BY DEF Inv, AccessInv, Harmless, Live, RowsOK

LEMMA BeginManagementKeeps ==
    ASSUME Inv, NEW r \in Requests, NEW op \in Management, BeginManagement(r, op)
    PROVE  Inv'
<1>1. PICK s \in held, d \in (held \cap Devices) \cup {None} :
        /\ Live(s)
        /\ req' = [req EXCEPT ![r] = [Idle EXCEPT !.stage = "manage", !.op = op,
                       !.session = s, !.user = sessions[s].user, !.device = d]]
  BY DEF BeginManagement
<1>2. /\ s \in SessionIds /\ sessions[s].state # "free" /\ proof[s] # "password"
      /\ sessions[s].user \in Users
  BY <1>1, PresentedSession
<1> DEFINE n == [Idle EXCEPT !.stage = "manage", !.op = op,
                     !.session = s, !.user = sessions[s].user, !.device = d]
<1>3. n \in Request
  BY <1>2, IdleType DEF Request, Stages, Ops
<1>4. /\ n.stage = "manage" /\ n.op = op /\ n.session = s /\ n.user = sessions[s].user
      /\ n.hooks = <<>> /\ n.cookie = None /\ n.token = None /\ n.handle = None
      /\ n.snap = NoFactor
  BY IdleType DEF Request
<1>5. req' = [req EXCEPT ![r] = n]
  BY <1>1
<1> HIDE DEF n
<1>6. op # "sign-in"
  BY DEF Management
<1>7. FactorReq(n) /\ AttemptReq(n) /\ ~Holds(n)
  BY <1>2, <1>4, NoFactorType DEF FactorReq, AttemptReq, Holds, Loaded
<1>8. AccessReq(n)
  BY <1>2, <1>4, <1>6, NoneDiffers DEF AccessReq, OtherReq, OtherData
<1>9. UNCHANGED <<tokenVars, scenario, factorVars, rowVars, historyVars>> /\ req[r].stage = "idle"
  BY DEF BeginManagement
<1> QED
  BY <1>3, <1>5, <1>7, <1>8, <1>9, OtherRows, QuietKeeps

LEMMA ForgetKeeps ==
    ASSUME Inv, NEW r \in Requests, ForgetDevice(r)
    PROVE  Inv'
<1>1. /\ req[r].stage = "forget" /\ req[r].op # "sign-in" /\ OtherReq(req[r])
      /\ UNCHANGED <<tokenVars, scenario, factorVars, challenge, otps, historyVars>>
  BY OpKnown DEF ForgetDevice
<1>2. devices' \in [Devices -> DeviceRow] /\ otps' \in [Otps -> OtpRow]
  BY <1>1 DEF ForgetDevice, ConsumeDevice, Inv, TypeOK, DeviceRow
<1> DEFINE n == [req[r] EXCEPT !.stage = "rotate", !.device = None]
<1>0. req[r] \in Request
  BY OtherStages
<1>3. n \in Request
  BY <1>0 DEF Request, Stages
<1>4. /\ n.stage = "rotate" /\ n.op = req[r].op /\ n.session = req[r].session
      /\ n.user = req[r].user /\ n.hooks = req[r].hooks /\ n.cookie = req[r].cookie
      /\ n.token = req[r].token /\ n.handle = req[r].handle /\ n.snap = req[r].snap
  BY OtherStages DEF Request
<1>5. req' = [req EXCEPT ![r] = n]
  BY DEF ForgetDevice
<1> HIDE DEF n
<1>6. FactorReq(n) /\ AttemptReq(n) /\ ~Holds(n)
  BY <1>1, <1>4, OtherStages DEF FactorReq, AttemptReq, Holds, Loaded
<1>7. req[r].session # None
  BY <1>1 DEF OtherReq
<1>8. AccessReq(n)
  BY <1>1, <1>4, <1>7 DEF AccessReq, OtherReq, OtherData
<1> QED
  BY <1>1, <1>2, <1>3, <1>5, <1>6, <1>8, QuietKeeps

\* A row that a request reads is its own user's.
LEMMA ReadRow ==
    ASSUME Inv, NEW u \in Users, NEW v \in Users, factor[u].id # None, factor[v].id = factor[u].id
    PROVE  v = u
BY DEF Inv, FactorInv

LEMMA FactorRowType ==
    ASSUME TypeOK, NEW u \in Users
    PROVE  /\ factor[u] \in FactorRow /\ factor[u].id \in FactorIds \cup {None}
           /\ factor[u].verified \in BOOLEAN /\ factor[u].codes \subseteq Codes
           /\ factor[u].failed \in Nat /\ factor[u].locked \in {"no", "until", "past"}
BY DEF TypeOK, FactorRow

LEMMA BeginRegenerateKeeps ==
    ASSUME Inv, NEW r \in Requests, BeginRegenerate(r)
    PROVE  Inv'
<1> DEFINE row == factor[req[r].user]
<1>1. /\ req[r].stage = "manage" /\ req[r].op # "sign-in" /\ OtherReq(req[r])
      /\ UNCHANGED <<tokenVars, scenario, factorVars, rowVars, historyVars>>
  BY OpKnown DEF BeginRegenerate
<1>2. CASE row.verified
  <2> DEFINE n == [req[r] EXCEPT !.stage = "reseal", !.snap = row]
  <2>0. req[r] \in Request /\ req[r].user \in Users /\ row \in FactorRow
    BY <1>1, OtherStages, FactorRowType DEF FactorReq, Inv
  <2>1. n \in Request
    BY <2>0 DEF Request, Stages
  <2>2. /\ n.stage = "reseal" /\ n.op = req[r].op /\ n.session = req[r].session
        /\ n.user = req[r].user /\ n.hooks = req[r].hooks /\ n.cookie = req[r].cookie
        /\ n.token = req[r].token /\ n.handle = req[r].handle /\ n.snap = row
    BY <2>0 DEF Request
  <2>3. req' = [req EXCEPT ![r] = n]
    BY <1>2 DEF BeginRegenerate
  <2> HIDE DEF n
  <2>4. FactorReq(n) /\ AttemptReq(n) /\ ~Holds(n)
    BY <2>0, <2>2, ReadRow DEF FactorReq, AttemptReq, Holds, Loaded
  <2>5. AccessReq(n)
    BY <1>1, <2>2 DEF AccessReq, OtherReq, OtherData
  <2> QED
    BY <1>1, <2>1, <2>3, <2>4, <2>5, OtherRows, QuietKeeps
<1>3. CASE ~row.verified
  BY <1>1, <1>3, QuietFinish DEF BeginRegenerate
<1> QED
  BY <1>2, <1>3

-----------------------------------------------------------------------------
(* A verification begins                                                   *)

LEMMA ArriveKeeps ==
    ASSUME Inv, NEW r \in Requests, NEW op \in Verifications \cup {"send-otp"}, Arrive(r, op)
    PROVE  Inv'
<1>1. /\ UNCHANGED <<tokenVars, scenario, factorVars, rowVars, historyVars>>
      /\ req[r].stage = "idle"
  BY DEF Arrive
<1>2. op \in Ops /\ op # "sign-in"
  BY DEF Verifications, Ops
<1>3. ASSUME NEW s \in held, Live(s),
             req' = [req EXCEPT ![r] = [Idle EXCEPT !.stage = "load", !.op = op, !.session = s,
                                                    !.user = sessions[s].user]]
      PROVE  Inv'
  <2> DEFINE n == [Idle EXCEPT !.stage = "load", !.op = op, !.session = s, !.user = sessions[s].user]
  <2>1. /\ s \in SessionIds /\ sessions[s].state # "free" /\ proof[s] # "password"
        /\ sessions[s].user \in Users
    BY <1>3, PresentedSession
  <2>2. n \in Request
    BY <1>2, <2>1, IdleType DEF Request, Stages
  <2>3. /\ n.stage = "load" /\ n.op = op /\ n.session = s /\ n.user = sessions[s].user
        /\ n.hooks = <<>> /\ n.cookie = None /\ n.token = None /\ n.handle = None
        /\ n.snap = NoFactor
    BY IdleType DEF Request
  <2>4. req' = [req EXCEPT ![r] = n]
    BY <1>3
  <2> HIDE DEF n
  <2>5. FactorReq(n) /\ AttemptReq(n) /\ ~Holds(n)
    BY <2>1, <2>3, NoFactorType DEF FactorReq, AttemptReq, Holds, Loaded
  <2>6. AccessReq(n)
    BY <1>2, <2>1, <2>3, NoneDiffers DEF AccessReq, OtherReq, OtherData
  <2> QED
    BY <1>1, <2>2, <2>4, <2>5, <2>6, OtherRows, QuietKeeps
<1>4. ASSUME NEW h \in held \cap Handles, Pending(h),
             req' = [req EXCEPT ![r] =
                [Idle EXCEPT !.stage = IF op = "send-otp" THEN "load" ELSE "attempt",
                             !.op = op, !.handle = h, !.user = challenge[h].user]]
      PROVE  Inv'
  <2>1. PICK st \in {"load", "attempt"} :
          /\ st = IF op = "send-otp" THEN "load" ELSE "attempt"
          /\ op # "send-otp" => st = "attempt"
    OBVIOUS
  <2> DEFINE n == [Idle EXCEPT !.stage = st, !.op = op, !.handle = h, !.user = challenge[h].user]
  <2>2. challenge[h].user \in Users /\ challenge[h].state # "free"
    BY <1>4 DEF Pending, Inv, RowsOK
  <2>3. n \in Request
    BY <1>2, <2>2, IdleType DEF Request, Stages
  <2>4. /\ n.stage = st /\ n.op = op /\ n.session = None /\ n.user = challenge[h].user
        /\ n.hooks = <<>> /\ n.cookie = None /\ n.token = None /\ n.handle = h
        /\ n.snap = NoFactor
    BY IdleType DEF Request
  <2>5. req' = [req EXCEPT ![r] = n]
    BY <1>4, <2>1
  <2> HIDE DEF n
  <2>6. FactorReq(n) /\ AttemptReq(n) /\ ~Holds(n)
    BY <2>1, <2>2, <2>4, NoFactorType DEF FactorReq, AttemptReq, Holds, Loaded
  <2>7. AccessReq(n)
    BY <1>2, <2>4, NoneDiffers DEF AccessReq, OtherReq, OtherData
  <2> QED
    BY <1>1, <2>3, <2>5, <2>6, <2>7, OtherRows, QuietKeeps
<1> QED
  BY <1>3, <1>4 DEF Arrive

\* Steps of a request that touch only challenges and their attempts.
LEMMA ChallengeFrame ==
    ASSUME Inv, NEW r \in Requests, NEW n \in Request, req' = [req EXCEPT ![r] = n],
           FactorReq(n), AccessReq(n), req[r].stage # "lock", AttemptInv',
           challenge' \in [Handles -> ChallengeRow], guesses' \in [Handles -> Nat],
           \A h \in Handles : challenge'[h].user = challenge[h].user
                              /\ (challenge'[h].state = "free" <=> challenge[h].state = "free"),
           UNCHANGED <<tokenVars, scenario, factorVars, proof, proved, spent>>,
           otps' \in [Otps -> OtpRow], devices' \in [Devices -> DeviceRow]
    PROVE  Inv'
<1> USE DEF tokenVars, factorVars
<1>1. TypeOK'
  <2>1. req' \in [Requests -> Request]
    BY Others DEF Inv
  <2> QED
    BY <2>1 DEF Inv, TypeOK, TokenTypeOK
<1>2. FactorInv'
  <2>1. FactorReq(n)'
    BY DEF FactorReq
  <2> QED
    BY <2>1, FactorFrame
<1>3. AccessInv'
  <2>1. SessionsAge /\ TokensAge
    BY NothingAges
  <2>2. AccessReq(n)'
    BY <2>1, AccessReqStays
  <2>3. \A s \in SessionIds : proof'[s] = "password" =>
          sessions'[s].state # "free" /\ enabled'[sessions'[s].user]
    BY DEF Inv, AccessInv
  <2> QED
    BY <2>1, <2>2, <2>3, AccessFrame
<1>4. RowsOK' /\ TradeInv'
  BY TradeFrame DEF Inv, RowsOK
<1> QED
  BY <1>1, <1>2, <1>3, <1>4 DEF Inv


\* A step of the only request that may hold the attempt row of h.
LEMMA OneChallenge ==
    ASSUME Inv, NEW r \in Requests, NEW n \in Request, req' = [req EXCEPT ![r] = n],
           NEW h \in Handles, AttemptReq(n)', Holds(n) => n.handle = h,
           \A q \in Requests \ {r} : Holds(req[q]) => req[q].handle # h,
           challenge'[h].state # "free", guesses'[h] <= ChallengeMaxAttempts,
           challenge'[h].armed =>
               challenge'[h].attempts = guesses'[h] /\ guesses'[h] < ChallengeMaxAttempts,
           \A k \in Handles \ {h} : challenge'[k] = challenge[k] /\ guesses'[k] = guesses[k]
    PROVE  AttemptInv'
<1>1. req'[r] = n /\ \A q \in Requests \ {r} : req'[q] = req[q]
  BY Others DEF Inv
<1>2. ASSUME NEW q \in Requests PROVE AttemptReq(req[q])'
  <2>1. CASE q = r
    BY <1>1, <2>1 DEF AttemptReq, Holds
  <2>2. CASE q # r
    <3>1. AttemptReq(req[q]) /\ req[q].handle \in Handles \cup {None}
      BY OtherStages DEF Request
    <3> QED
      BY <1>1, <2>2, <3>1 DEF AttemptReq, Holds
  <2> QED
    BY <2>1, <2>2
<1>3. ASSUME NEW p \in Requests, NEW q \in Requests, p # q, Holds(req[p])', Holds(req[q])'
      PROVE  req'[p].handle # req'[q].handle
  <2>1. CASE p = r
    BY <1>1, <1>3, <2>1 DEF Holds
  <2>2. CASE q = r
    BY <1>1, <1>3, <2>2 DEF Holds
  <2>3. CASE p # r /\ q # r
    <3>1. Holds(req[p]) /\ Holds(req[q]) /\ req'[p] = req[p] /\ req'[q] = req[q]
      BY <1>1, <1>3, <2>3 DEF Holds
    <3> QED
      BY <1>3, <3>1 DEF Inv, AttemptInv
  <2> QED
    BY <2>1, <2>2, <2>3
<1>4. \A k \in Handles :
        /\ challenge'[k].state = "free" => ~challenge'[k].armed /\ guesses'[k] = 0
        /\ challenge'[k].armed =>
             challenge'[k].attempts = guesses'[k] /\ guesses'[k] < ChallengeMaxAttempts
  BY DEF Inv, AttemptInv
<1>5. AttemptsBounded'
  BY DEF Inv, AttemptInv, AttemptsBounded
<1> QED
  BY <1>2, <1>3, <1>4, <1>5 DEF AttemptInv

LEMMA ChallengeRowType ==
    ASSUME TypeOK, NEW h \in Handles
    PROVE  /\ challenge[h] \in ChallengeRow /\ challenge[h].attempts \in Nat
           /\ challenge[h].armed \in BOOLEAN
BY DEF TypeOK, ChallengeRow

\* Whoever consumes the attempt row holds it alone (beginAttempt).
LEMMA BeginAttemptKeeps ==
    ASSUME Inv, NEW r \in Requests, BeginAttempt(r)
    PROVE  Inv'
<1>1. PICK h \in Handles : h = req[r].handle
  BY OtherStages DEF BeginAttempt, AttemptReq
<1>2. /\ req[r].stage = "attempt" /\ req[r].op # "sign-in" /\ OtherReq(req[r])
      /\ req[r] \in Request /\ challenge[h].state # "free"
      /\ UNCHANGED <<tokenVars, scenario, factorVars, otps, devices, historyVars>>
  BY <1>1, OpKnown, OtherStages DEF BeginAttempt, AttemptReq
<1>3. ASSUME challenge[h].armed, TakeAttempt(h),
             req' = [req EXCEPT ![r].stage = "load", ![r].attempts = challenge[h].attempts]
      PROVE  Inv'
  <2>1. PICK k \in Nat : k = challenge[h].attempts
    BY ChallengeRowType DEF Inv
  <2>2. PICK n \in Request : n = [req[r] EXCEPT !.stage = "load", !.attempts = k]
    <3>1. req[r] \in Request
      BY <1>2
    <3>2. [req[r] EXCEPT !.stage = "load", !.attempts = k] \in Request
      BY <3>1 DEF Request, Stages
    <3> QED
      BY <3>2
  <2>3. /\ n.stage = "load" /\ n.attempts = k /\ n.op = req[r].op
        /\ n.session = req[r].session /\ n.user = req[r].user /\ n.hooks = req[r].hooks
        /\ n.cookie = req[r].cookie /\ n.token = req[r].token /\ n.handle = h
        /\ n.snap = req[r].snap
    BY <1>1, <1>2, <2>2 DEF Request
  <2>4. req' = [req EXCEPT ![r] = n]
    BY <1>3, <2>1, <2>2
  <2>5. /\ challenge' \in [Handles -> ChallengeRow]
        /\ challenge'[h].armed = FALSE /\ challenge'[h].state = challenge[h].state
        /\ challenge'[h].user = challenge[h].user
        /\ \A g \in Handles \ {h} : challenge'[g] = challenge[g]
    BY <1>3 DEF TakeAttempt, Inv, TypeOK, ChallengeRow
  <2>6. UNCHANGED guesses
    BY <1>2 DEF historyVars
  <2>7. /\ guesses[h] < ChallengeMaxAttempts /\ k = guesses[h]
        /\ \A q \in Requests : Holds(req[q]) => req[q].handle # h
    BY <1>3, <2>1 DEF Inv, AttemptInv, AttemptReq
  <2>8. AttemptReq(n)'
    BY <1>2, <2>3, <2>5, <2>6, <2>7 DEF AttemptReq, Holds
  <2>9. guesses[h] <= ChallengeMaxAttempts
    BY DEF Inv, AttemptInv, AttemptsBounded
  <2>10. AttemptInv'
    BY <1>2, <2>2, <2>3, <2>4, <2>5, <2>6, <2>7, <2>8, <2>9, OneChallenge
  <2>11. FactorReq(n)
    BY <1>2, <2>3, OtherStages DEF FactorReq, Loaded
  <2>12. AccessReq(n)
    BY <1>1, <1>2, <2>3 DEF AccessReq, OtherReq, OtherData
  <2>13. /\ guesses' \in [Handles -> Nat] /\ UNCHANGED <<proof, proved, spent>>
         /\ otps' \in [Otps -> OtpRow] /\ devices' \in [Devices -> DeviceRow]
    BY <1>2 DEF Inv, TypeOK, historyVars
  <2>14. \A g \in Handles : challenge'[g].user = challenge[g].user
                            /\ (challenge'[g].state = "free" <=> challenge[g].state = "free")
    BY <2>5
  <2> QED
    BY <1>2, <2>2, <2>4, <2>5, <2>10, <2>11, <2>12, <2>13, <2>14, ChallengeFrame
<1>4. CASE Finish(r) /\ UNCHANGED challenge
  BY <1>2, <1>4, QuietFinish DEF rowVars
<1> QED
  BY <1>1, <1>3, <1>4 DEF BeginAttempt


LEMMA RearmEffect ==
    ASSUME TypeOK, NEW h \in Handles, NEW k \in Nat, Rearm(h, k)
    PROVE  /\ challenge' \in [Handles -> ChallengeRow]
           /\ challenge'[h].armed = TRUE /\ challenge'[h].attempts = k
           /\ challenge'[h].state = challenge[h].state /\ challenge'[h].user = challenge[h].user
           /\ \A g \in Handles \ {h} : challenge'[g] = challenge[g]
BY DEF Rearm, TypeOK, ChallengeRow

\* A request that holds the attempt row is its only holder and knows its count.
LEMMA SoleHolder ==
    ASSUME Inv, NEW r \in Requests, Holds(req[r])
    PROVE  /\ req[r].handle \in Handles /\ challenge[req[r].handle].state # "free"
           /\ ~challenge[req[r].handle].armed
           /\ req[r].attempts = guesses[req[r].handle] /\ req[r].attempts \in Nat
           /\ guesses[req[r].handle] < ChallengeMaxAttempts
           /\ \A q \in Requests \ {r} : Holds(req[q]) => req[q].handle # req[r].handle
<1>1. req[r].handle \in Handles /\ req[r].attempts \in Nat
  BY OtherStages DEF Holds, Request
<1>2. AttemptReq(req[r])
  BY OtherStages
<1> QED
  BY <1>1, <1>2 DEF Inv, AttemptInv, AttemptReq

\* restoreAttempt: the holder puts the row back with the count it took.
LEMMA RestoreKeeps ==
    ASSUME Inv, NEW r \in Requests, RestoreAndRefuse(r),
           req[r].stage \in {"load", "judge", "spend"},
           UNCHANGED <<tokenVars, scenario, factorVars, historyVars>>,
           otps' \in [Otps -> OtpRow], devices' \in [Devices -> DeviceRow]
    PROVE  Inv'
<1>1. req' = [req EXCEPT ![r] = Idle] /\ Idle \in Request
  BY IdleType DEF RestoreAndRefuse, Finish
<1>2. CASE req[r].handle # None /\ req[r].op # "send-otp"
  <2>1. Holds(req[r])
    BY <1>2 DEF Holds
  <2>2. PICK h \in Handles, k \in Nat : h = req[r].handle /\ k = req[r].attempts
    BY <2>1, SoleHolder
  <2>3. /\ challenge' \in [Handles -> ChallengeRow]
        /\ challenge'[h].armed = TRUE /\ challenge'[h].attempts = k
        /\ challenge'[h].state = challenge[h].state /\ challenge'[h].user = challenge[h].user
        /\ \A g \in Handles \ {h} : challenge'[g] = challenge[g]
    BY <1>2, <2>2, RearmEffect DEF RestoreAndRefuse, Inv
  <2>4. /\ challenge[h].state # "free" /\ k = guesses[h] /\ guesses[h] < ChallengeMaxAttempts
        /\ \A q \in Requests \ {r} : Holds(req[q]) => req[q].handle # h
    BY <2>1, <2>2, SoleHolder
  <2>5. UNCHANGED <<guesses, proof, proved, spent>> /\ guesses' \in [Handles -> Nat]
    BY DEF historyVars, Inv, TypeOK
  <2>6. AttemptReq(Idle)' /\ ~Holds(Idle)
    BY IdleType DEF AttemptReq, Holds
  <2>7. guesses'[h] <= ChallengeMaxAttempts
    BY <2>5 DEF Inv, AttemptInv, AttemptsBounded
  <2>8. AttemptInv'
    BY <1>1, <2>3, <2>4, <2>5, <2>6, <2>7, OneChallenge
  <2>9. \A g \in Handles : challenge'[g].user = challenge[g].user
                           /\ (challenge'[g].state = "free" <=> challenge[g].state = "free")
    BY <2>3
  <2> QED
    BY <1>1, <2>3, <2>5, <2>8, <2>9, IdleOK, ChallengeFrame
<1>3. CASE ~(req[r].handle # None /\ req[r].op # "send-otp")
  <2>1. UNCHANGED challenge
    BY <1>3 DEF RestoreAndRefuse
  <2> QED
    BY <1>1, <2>1, IdleOK, QuietKeeps
<1> QED
  BY <1>2, <1>3

\* findTwoFactor: the request goes on with the row as it is now.
LEMMA LoadFactorKeeps ==
    ASSUME Inv, NEW r \in Requests, LoadFactor(r)
    PROVE  Inv'
<1>1. /\ req[r].stage = "load" /\ req[r].op # "sign-in" /\ OtherReq(req[r])
      /\ UNCHANGED <<tokenVars, scenario, factorVars, otps, devices, historyVars>>
  BY OpKnown DEF LoadFactor
<1>2. otps' \in [Otps -> OtpRow] /\ devices' \in [Devices -> DeviceRow]
  BY <1>1 DEF Inv, TypeOK
<1>3. PICK row \in FactorRow : row = factor[req[r].user] /\ req[r].user \in Users
  BY <1>1, OtherStages, FactorRowType DEF FactorReq, Inv
<1>4. CASE RestoreAndRefuse(r)
  BY <1>1, <1>2, <1>4, RestoreKeeps
<1>5. ASSUME row.id # None, UNCHANGED challenge,
             req' = [req EXCEPT ![r].snap = row,
                ![r].stage = IF req[r].handle # None /\ row.locked = "past" THEN "unlock"
                             ELSE IF req[r].op = "send-otp" THEN "clear" ELSE "judge"]
      PROVE  Inv'
  <2>1. PICK st \in {"unlock", "clear", "judge"} :
          /\ st = IF req[r].handle # None /\ row.locked = "past" THEN "unlock"
                  ELSE IF req[r].op = "send-otp" THEN "clear" ELSE "judge"
          /\ st = "judge" => req[r].op # "send-otp"
    OBVIOUS
  <2>2. PICK n \in Request : n = [req[r] EXCEPT !.snap = row, !.stage = st]
    <3>1. req[r] \in Request
      BY OtherStages
    <3>2. st \in Stages
      BY DEF Stages
    <3>3. [req[r] EXCEPT !.snap = row, !.stage = st] \in Request
      BY <3>1, <3>2 DEF Request
    <3> QED
      BY <3>3
  <2>3. /\ n.stage = st /\ n.snap = row /\ n.op = req[r].op /\ n.attempts = req[r].attempts
        /\ n.session = req[r].session /\ n.user = req[r].user /\ n.hooks = req[r].hooks
        /\ n.cookie = req[r].cookie /\ n.token = req[r].token /\ n.handle = req[r].handle
    BY <2>2, OtherStages DEF Request
  <2>4. req' = [req EXCEPT ![r] = n]
    BY <1>5, <2>1, <2>2
  <2>5. FactorReq(n)
    BY <1>3, <1>5, <2>1, <2>3, ReadRow DEF FactorReq, Loaded
  <2>6. Holds(n) => Holds(req[r]) /\ n.handle = req[r].handle
    BY <1>1, <2>3 DEF Holds
  <2>7. AttemptReq(n)
    BY <1>1, <2>1, <2>3, <2>6, OtherStages DEF AttemptReq
  <2>8. AccessReq(n)
    BY <1>1, <2>1, <2>3 DEF AccessReq, OtherReq, OtherData
  <2> QED
    BY <1>1, <1>2, <1>5, <2>4, <2>5, <2>6, <2>7, <2>8, QuietKeeps
<1> QED
  BY <1>3, <1>4, <1>5 DEF LoadFactor


-----------------------------------------------------------------------------
(* Codes are compared                                                      *)

LEMMA JudgedOnward ==
    ASSUME Inv, NEW r \in Requests, req[r].stage \in {"judge", "refile"}, NEW st \in {"fail", "complete"}
    PROVE  Onward(req[r], st)
<1>1. req[r].op # "sign-in" /\ req[r].op # "send-otp" /\ req[r].snap.id # None
  BY OpKnown, OtherStages DEF FactorReq, AttemptReq, Loaded
<1>2. Holds(req[r]) \/ req[r].handle = None
  BY <1>1 DEF Holds
<1> QED
  BY <1>1, <1>2 DEF Onward, Stages, Loaded

\* A right TOTP code proves the secret that was read.
LEMMA JudgeTOTPKeeps ==
    ASSUME Inv, NEW r \in Requests, JudgeTOTP(r)
    PROVE  Inv'
<1> USE DEF tokenVars, factorVars, historyVars
<1>1. /\ req[r].stage = "judge" /\ req[r].op # "sign-in" /\ req[r].op # "send-otp"
      /\ OtherReq(req[r]) /\ FactorReq(req[r])
      /\ UNCHANGED <<tokenVars, scenario, factorVars, rowVars, proof, guesses, spent>>
  BY OpKnown, OtherStages DEF JudgeTOTP, AttemptReq
<1>2. UNCHANGED challenge /\ otps' \in [Otps -> OtpRow] /\ devices' \in [Devices -> DeviceRow]
  BY <1>1, OtherRows
<1>3. ASSUME Goto(r, "fail"), UNCHANGED proved PROVE Inv'
  <2>1. Onward(req[r], "fail")
    BY <1>1, JudgedOnward
  <2> QED
    BY <1>1, <1>2, <1>3, <2>1, QuietGoto
<1>4. ASSUME NEW st \in {"enroll", "complete"}, Goto(r, st), proved' = proved \cup {req[r].snap.id}
      PROVE  Inv'
  <2>1. PICK n \in Request : req' = [req EXCEPT ![r] = n] /\ n.stage = st /\ Moved(n, req[r])
    BY <1>4, GotoMoves DEF Inv, Stages
  <2>2. req[r].snap.id \in FactorIds /\ req[r].snap.id # None
    <3>1. req[r].snap \in FactorRow /\ req[r].snap.id # None
      BY <1>1, OtherStages DEF FactorReq, Loaded, Request
    <3> QED
      BY <3>1 DEF FactorRow
  <2>3. TypeOK'
    <3>1. req' \in [Requests -> Request]
      BY <2>1, Others DEF Inv
    <3> QED
      BY <1>1, <1>2, <1>4, <2>2, <3>1 DEF Inv, TypeOK, TokenTypeOK
  <2>4. FactorInv'
    <3>1. FactorReq(n)'
      BY <1>1, <1>4, <2>1, <2>2 DEF FactorReq, Moved, Loaded
    <3> QED
      BY <1>1, <1>4, <2>1, <3>1, FactorFrame
  <2>5. AttemptInv'
    <3>1. AttemptReq(n) /\ ~Holds(n)
      BY <2>1 DEF AttemptReq, Holds
    <3> QED
      BY <1>1, <1>2, <2>1, <3>1, AttemptFrame
  <2>6. AccessInv'
    <3>1. SessionsAge /\ TokensAge
      BY <1>1, NothingAges
    <3>2. AccessReq(n)
      BY <1>1, <2>1 DEF AccessReq, OtherReq, OtherData, Moved
    <3>3. AccessReq(n)'
      BY <3>1, <3>2, AccessReqStays
    <3>4. \A s \in SessionIds : proof'[s] = "password" =>
            sessions'[s].state # "free" /\ enabled'[sessions'[s].user]
      BY <1>1 DEF Inv, AccessInv
    <3> QED
      BY <1>1, <2>1, <3>1, <3>3, <3>4, AccessFrame
  <2>7. RowsOK' /\ TradeInv'
    BY <1>1, <1>2, TradeFrame DEF Inv, RowsOK
  <2> QED
    BY <2>3, <2>4, <2>5, <2>6, <2>7 DEF Inv
<1>5. PICK st \in {"enroll", "complete"} :
        st = IF req[r].handle = None /\ ~req[r].snap.verified THEN "enroll" ELSE "complete"
  OBVIOUS
<1> QED
  BY <1>3, <1>4, <1>5 DEF JudgeTOTP

\* n is o at another stage and with another code.
Coded(n, o) ==
    /\ n.op = o.op /\ n.user = o.user /\ n.hooks = o.hooks /\ n.session = o.session
    /\ n.cookie = o.cookie /\ n.token = o.token /\ n.handle = o.handle /\ n.device = o.device
    /\ n.snap = o.snap /\ n.attempts = o.attempts

LEMMA CodedType ==
    ASSUME NEW q \in Request, NEW st \in {"spend", "refile", "fail"},
           NEW c \in Codes \cup Otps \cup {None}
    PROVE  [q EXCEPT !.stage = st, !.code = c] \in Request
<1>1. st \in Stages
  BY DEF Stages
<1> QED
  BY <1>1 DEF Request

\* A code that was compared goes with its request to the next step.
LEMMA CodeKeeps ==
    ASSUME Inv, NEW r \in Requests, req[r].stage \in {"judge", "refile"},
           NEW st \in {"spend", "refile", "fail"}, NEW c \in Codes \cup Otps \cup {None},
           req' = [req EXCEPT ![r].stage = st, ![r].code = c],
           st = "spend" => c \in req[r].snap.codes, st = "refile" => c \in Otps,
           UNCHANGED <<tokenVars, scenario, factorVars, challenge, historyVars>>,
           otps' \in [Otps -> OtpRow], devices' \in [Devices -> DeviceRow]
    PROVE  Inv'
<1>1. req[r] \in Request
  BY OtherStages
<1>2. PICK n \in Request : n = [req[r] EXCEPT !.stage = st, !.code = c]
  BY <1>1, CodedType
<1>3. n.stage = st /\ n.code = c /\ Coded(n, req[r])
  BY <1>1, <1>2 DEF Request, Coded
<1>4. req' = [req EXCEPT ![r] = n]
  BY <1>2
<1>5. req[r].op # "sign-in" /\ OtherReq(req[r]) /\ FactorReq(req[r]) /\ AttemptReq(req[r])
  BY OpKnown, OtherStages
<1>6. FactorReq(n)
  BY <1>3, <1>5 DEF FactorReq, Coded, Loaded
<1>7. Holds(n) => Holds(req[r]) /\ n.handle = req[r].handle
  BY <1>3 DEF Holds, Coded
<1>8. AttemptReq(n)
  BY <1>3, <1>5, <1>7 DEF AttemptReq, Coded
<1>9. AccessReq(n)
  BY <1>3, <1>5 DEF AccessReq, OtherReq, OtherData, Coded
<1> QED
  BY <1>4, <1>6, <1>7, <1>8, <1>9, QuietKeeps

LEMMA JudgeBackupCodeKeeps ==
    ASSUME Inv, NEW r \in Requests, JudgeBackupCode(r)
    PROVE  Inv'
<1>1. /\ req[r].stage = "judge" /\ UNCHANGED rowVars
      /\ UNCHANGED <<tokenVars, scenario, factorVars, historyVars>>
  BY DEF JudgeBackupCode
<1>2. UNCHANGED challenge /\ otps' \in [Otps -> OtpRow] /\ devices' \in [Devices -> DeviceRow]
  BY <1>1, OtherRows
<1>3. CASE Goto(r, "fail")
  <2>1. Onward(req[r], "fail")
    BY <1>1, JudgedOnward
  <2> QED
    BY <1>1, <1>2, <1>3, <2>1, QuietGoto
<1>4. ASSUME NEW c \in req[r].snap.codes, req' = [req EXCEPT ![r].stage = "spend", ![r].code = c]
      PROVE  Inv'
  <2>1. c \in Codes
    <3>1. req[r].snap \in FactorRow
      BY OtherStages DEF Request
    <3> QED
      BY <1>4, <3>1 DEF FactorRow
  <2> QED
    BY <1>1, <1>2, <1>4, <2>1, CodeKeeps
<1> QED
  BY <1>3, <1>4 DEF JudgeBackupCode

LEMMA JudgeOTPKeeps ==
    ASSUME Inv, NEW r \in Requests, JudgeOTP(r)
    PROVE  Inv'
<1>1. /\ req[r].stage = "judge" /\ UNCHANGED devices
      /\ UNCHANGED <<tokenVars, scenario, factorVars, historyVars>>
  BY DEF JudgeOTP
<1>2. devices' \in [Devices -> DeviceRow]
  BY <1>1 DEF Inv, TypeOK
<1>3. CASE RestoreAndRefuse(r) /\ UNCHANGED otps
  <2>1. otps' \in [Otps -> OtpRow]
    BY <1>3 DEF Inv, TypeOK
  <2> QED
    BY <1>1, <1>2, <1>3, <2>1, RestoreKeeps
<1>4. ASSUME NEW o \in StoredOtps(r), otps' = [otps EXCEPT ![o].state = "gone"], UNCHANGED challenge,
             Goto(r, "complete") \/ req' = [req EXCEPT ![r].stage = "refile", ![r].code = o]
      PROVE  Inv'
  <2>1. o \in Otps
    BY DEF StoredOtps
  <2>2. otps' \in [Otps -> OtpRow]
    BY <1>4, <2>1, OneOtpType DEF Inv
  <2>3. CASE Goto(r, "complete")
    <3>1. Onward(req[r], "complete")
      BY <1>1, JudgedOnward
    <3> QED
      BY <1>1, <1>2, <1>4, <2>2, <2>3, <3>1, QuietGoto
  <2>4. CASE req' = [req EXCEPT ![r].stage = "refile", ![r].code = o]
    BY <1>1, <1>2, <1>4, <2>1, <2>2, <2>4, CodeKeeps
  <2> QED
    BY <1>4, <2>3, <2>4
<1> QED
  BY <1>3, <1>4 DEF JudgeOTP

LEMMA RefileKeeps ==
    ASSUME Inv, NEW r \in Requests, Refile(r)
    PROVE  Inv'
<1>1. /\ req[r].stage = "refile" /\ UNCHANGED <<challenge, devices>>
      /\ UNCHANGED <<tokenVars, scenario, factorVars, historyVars>>
      /\ req' = [req EXCEPT ![r].stage = "fail", ![r].code = None]
  BY DEF Refile
<1>2. PICK o \in Otps : o = req[r].code
  BY <1>1, OtherStages DEF FactorReq
<1>3. otps' \in [Otps -> OtpRow] /\ devices' \in [Devices -> DeviceRow]
  <2>1. CASE otps' = [otps EXCEPT ![o].state = "stored"]
    BY <1>1, <2>1, OneOtpType DEF Inv, TypeOK
  <2>2. CASE otps' = otps
    BY <1>1, <2>2 DEF Inv, TypeOK
  <2> QED
    BY <1>2, <2>1, <2>2 DEF Refile
<1> QED
  BY <1>1, <1>3, CodeKeeps


-----------------------------------------------------------------------------
(* Challenges end                                                          *)

\* failedFactor: the holder counts the guess and puts the row back, or destroys
\* the challenge.
LEMMA FailedFactorKeeps ==
    ASSUME Inv, NEW r \in Requests, FailedFactor(r)
    PROVE  Inv'
<1>1. /\ req[r].stage = "fail" /\ req[r].op # "sign-in" /\ OtherReq(req[r])
      /\ UNCHANGED <<tokenVars, scenario, factorVars, otps, devices, proof, proved, spent>>
  BY OpKnown DEF FailedFactor
<1>2. otps' \in [Otps -> OtpRow] /\ devices' \in [Devices -> DeviceRow]
  BY <1>1 DEF Inv, TypeOK
<1>3. CASE Finish(r) /\ UNCHANGED <<challenge, guesses>>
  <2>1. UNCHANGED <<rowVars, historyVars>>
    BY <1>1, <1>3 DEF rowVars, historyVars
  <2> QED
    BY <1>1, <1>3, <2>1, QuietFinish
<1>4. CASE req[r].handle # None
  <2>1. req[r].op # "send-otp" /\ Holds(req[r])
    BY <1>1, <1>4, OtherStages DEF Holds, AttemptReq
  <2>2. PICK h \in Handles, k \in Nat : h = req[r].handle /\ k = req[r].attempts
    BY <2>1, SoleHolder
  <2>3. /\ challenge[h].state # "free" /\ k = guesses[h] /\ guesses[h] < ChallengeMaxAttempts
        /\ ~challenge[h].armed
        /\ \A q \in Requests \ {r} : Holds(req[q]) => req[q].handle # h
    BY <2>1, <2>2, SoleHolder
  <2>4. PICK m \in Nat : m = k + 1 /\ m <= ChallengeMaxAttempts
    BY <2>3, Limits
  <2>5. /\ Goto(r, "count") /\ guesses' = [guesses EXCEPT ![h] = m]
        /\ IF m < ChallengeMaxAttempts THEN Rearm(h, m)
           ELSE challenge' = [challenge EXCEPT ![h].state = "gone"]
    BY <1>4, <2>2, <2>3, <2>4 DEF FailedFactor
  <2>6. /\ guesses' \in [Handles -> Nat] /\ guesses'[h] = m
        /\ \A g \in Handles \ {h} : guesses'[g] = guesses[g]
    BY <2>5 DEF Inv, TypeOK
  <2>7. /\ challenge' \in [Handles -> ChallengeRow] /\ challenge'[h].state # "free"
        /\ challenge'[h].user = challenge[h].user
        /\ challenge'[h].armed => challenge'[h].attempts = m /\ m < ChallengeMaxAttempts
        /\ \A g \in Handles \ {h} : challenge'[g] = challenge[g]
    <3>1. CASE m < ChallengeMaxAttempts
      BY <2>3, <2>5, <3>1, RearmEffect DEF Inv
    <3>2. CASE ~(m < ChallengeMaxAttempts)
      <4>1. challenge' = [challenge EXCEPT ![h].state = "gone"]
        BY <2>5, <3>2
      <4> QED
        BY <2>3, <4>1 DEF Inv, TypeOK, ChallengeRow
    <3> QED
      BY <3>1, <3>2
  <2>8. PICK n \in Request : req' = [req EXCEPT ![r] = n] /\ n.stage = "count" /\ Moved(n, req[r])
    BY <2>5, GotoMoves DEF Inv, Stages
  <2>9. AttemptReq(n)' /\ ~Holds(n)
    BY <2>8 DEF AttemptReq, Holds
  <2>10. \A g \in Handles \ {h} : challenge'[g] = challenge[g] /\ guesses'[g] = guesses[g]
    BY <2>7, <2>6
  <2>11. /\ guesses'[h] <= ChallengeMaxAttempts
         /\ challenge'[h].armed =>
              challenge'[h].attempts = guesses'[h] /\ guesses'[h] < ChallengeMaxAttempts
    BY <2>4, <2>7, <2>6
  <2>12. /\ challenge'[h].state # "free" /\ req' = [req EXCEPT ![r] = n]
         /\ \A q \in Requests \ {r} : Holds(req[q]) => req[q].handle # h
    BY <2>3, <2>7, <2>8
  <2>13. AttemptInv'
    BY <2>9, <2>10, <2>11, <2>12, OneChallenge
  <2>14. FactorReq(n)
    BY <1>1, <2>8, OtherStages DEF FactorReq, Moved, Loaded
  <2>15. AccessReq(n)
    BY <1>1, <2>8 DEF AccessReq, OtherReq, OtherData, Moved
  <2>16. \A g \in Handles : challenge'[g].user = challenge[g].user
                            /\ (challenge'[g].state = "free" <=> challenge[g].state = "free")
    BY <2>3, <2>7
  <2> QED
    BY <1>1, <1>2, <2>7, <2>8, <2>13, <2>14, <2>15, <2>16, <2>6, ChallengeFrame
<1> QED
  BY <1>3, <1>4 DEF FailedFactor

\* Ending a challenge leaves its attempt row to whoever holds it.
LEMMA AttemptsStay ==
    ASSUME Inv, NEW h \in Handles, UNCHANGED guesses,
           challenge[h].state # "free", challenge'[h].state # "free",
           challenge'[h].armed = challenge[h].armed, challenge'[h].attempts = challenge[h].attempts,
           \A g \in Handles \ {h} : challenge'[g] = challenge[g],
           \A q \in Requests : AttemptReq(req'[q]),
           \A q \in Requests : Holds(req'[q]) => Holds(req[q]) /\ req'[q].handle = req[q].handle
    PROVE  AttemptInv'
<1>1. \A g \in Handles : /\ challenge'[g].armed = challenge[g].armed
                         /\ challenge'[g].attempts = challenge[g].attempts
                         /\ challenge'[g].state = "free" <=> challenge[g].state = "free"
  OBVIOUS
<1>2. ASSUME NEW q \in Requests PROVE AttemptReq(req[q])'
  <2>1. Holds(req'[q]) => req'[q].handle \in Handles
    BY OtherStages DEF Holds, Request
  <2> QED
    BY <1>1, <2>1 DEF AttemptReq, Holds
<1>3. \A p, q \in Requests :
        p # q /\ Holds(req[p])' /\ Holds(req[q])' => req'[p].handle # req'[q].handle
  BY DEF Inv, AttemptInv, Holds
<1> QED
  BY <1>1, <1>2, <1>3 DEF Inv, AttemptInv, AttemptsBounded

LEMMA CompleteVerificationKeeps ==
    ASSUME Inv, NEW r \in Requests, CompleteVerification(r)
    PROVE  Inv'
<1>1. /\ req[r].stage = "complete" /\ req[r].op # "sign-in" /\ OtherReq(req[r])
      /\ UNCHANGED <<tokenVars, scenario, factorVars, otps, devices, historyVars>>
  BY OpKnown DEF CompleteVerification
<1>2. otps' \in [Otps -> OtpRow] /\ devices' \in [Devices -> DeviceRow]
  BY <1>1 DEF Inv, TypeOK
<1>3. Onward(req[r], "reset")
  BY <1>1 DEF Onward, Stages, Loaded
<1>4. CASE Goto(r, "reset") /\ UNCHANGED challenge
  BY <1>1, <1>2, <1>3, <1>4, QuietGoto
<1>5. CASE Finish(r) /\ UNCHANGED challenge
  BY <1>1, <1>5, QuietFinish DEF rowVars
<1>6. ASSUME req[r].handle # None, Pending(req[r].handle), ConsumePending(req[r].handle), Goto(r, "reset")
      PROVE  Inv'
  <2>1. PICK h \in Handles : h = req[r].handle
    BY <1>6, OtherStages DEF Request
  <2>2. /\ challenge' \in [Handles -> ChallengeRow] /\ challenge'[h].state = "gone"
        /\ challenge'[h].user = challenge[h].user /\ challenge[h].state = "pending"
        /\ challenge'[h].armed = challenge[h].armed
        /\ challenge'[h].attempts = challenge[h].attempts
        /\ \A g \in Handles \ {h} : challenge'[g] = challenge[g]
    BY <1>6, <2>1 DEF Pending, ConsumePending, Inv, TypeOK, ChallengeRow
  <2>3. PICK n \in Request : req' = [req EXCEPT ![r] = n] /\ n.stage = "reset" /\ Moved(n, req[r])
    BY <1>6, GotoMoves DEF Inv, Stages
  <2>4. /\ FactorReq(n) /\ AttemptReq(n) /\ AccessReq(n) /\ ~Holds(n)
    BY <1>3, <2>3, MovedOK DEF Holds
  <2>5. req'[r] = n /\ \A q \in Requests \ {r} : req'[q] = req[q]
    BY <2>3, Others DEF Inv
  <2>6. \A q \in Requests : AttemptReq(req'[q])
    BY <2>4, <2>5, OtherStages
  <2>7. \A q \in Requests : Holds(req'[q]) => Holds(req[q]) /\ req'[q].handle = req[q].handle
    BY <2>4, <2>5
  <2>8. /\ UNCHANGED <<guesses, proof, proved, spent>> /\ guesses' \in [Handles -> Nat]
    BY <1>1 DEF historyVars, Inv, TypeOK
  <2>9. AttemptInv'
    BY <2>2, <2>6, <2>7, <2>8, AttemptsStay
  <2>10. \A g \in Handles : challenge'[g].user = challenge[g].user
                            /\ (challenge'[g].state = "free" <=> challenge[g].state = "free")
    BY <2>2
  <2> QED
    BY <1>1, <1>2, <2>2, <2>3, <2>4, <2>8, <2>9, <2>10, ChallengeFrame
<1> QED
  BY <1>4, <1>5, <1>6 DEF CompleteVerification

\* A step of the environment: no request moves.
LEMMA RequestsStay ==
    ASSUME Inv, UNCHANGED <<req, redeem, held>>, SessionsAge, TokensAge,
           \A s \in SessionIds : proof'[s] = "password" =>
               sessions'[s].state # "free" /\ enabled'[sessions'[s].user]
    PROVE  AccessInv'
<1>1. ASSUME NEW r \in Requests PROVE AccessInv'
  <2>1. req[r] \in Request /\ AccessReq(req[r])
    BY OtherStages
  <2>2. PICK n \in Request : n = req[r]
    BY <2>1
  <2>3. AccessReq(n)'
    BY <2>1, <2>2, AccessReqStays
  <2>4. req' = [req EXCEPT ![r] = n]
    BY <2>2 DEF Inv, TypeOK
  <2> QED
    BY <2>2, <2>3, <2>4, AccessFrame
<1>2. CASE Requests = {}
  BY <1>2, HarmlessStays, HarmlessTokenStays DEF Inv, AccessInv
<1> QED
  BY <1>1, <1>2

LEMMA ExpireChallengeKeeps ==
    ASSUME Inv, NEW h \in Handles, ExpireChallenge(h)
    PROVE  Inv'
<1> USE DEF tokenVars, factorVars, historyVars
<1>1. UNCHANGED <<tokenVars, scenario, factorVars, otps, devices, req, historyVars>>
  BY DEF ExpireChallenge
<1>2. /\ challenge' \in [Handles -> ChallengeRow] /\ challenge'[h].state = "pending"
      /\ challenge'[h].user = challenge[h].user /\ challenge[h].state = "pending"
      /\ challenge'[h].armed = challenge[h].armed
      /\ challenge'[h].attempts = challenge[h].attempts
      /\ \A g \in Handles \ {h} : challenge'[g] = challenge[g]
  BY DEF ExpireChallenge, Inv, TypeOK, ChallengeRow
<1>3. AttemptInv'
  BY <1>1, <1>2, AttemptsStay, OtherStages
<1>4. TypeOK'
  BY <1>1, <1>2 DEF Inv, TypeOK, TokenTypeOK
<1>5. RowsOK' /\ TradeInv'
  BY <1>1, <1>2, TradeFrame DEF Inv, RowsOK
<1>6. FactorInv'
  BY <1>1 DEF Inv, FactorInv, FactorReq, BackupCodeSingleUse, EnrollmentProved, BudgetLocks
<1>7. AccessInv'
  <2>1. SessionsAge /\ TokensAge
    BY <1>1, NothingAges
  <2>2. \A s \in SessionIds : proof'[s] = "password" =>
          sessions'[s].state # "free" /\ enabled'[sessions'[s].user]
    BY <1>1 DEF Inv, AccessInv
  <2> QED
    BY <1>1, <2>1, <2>2, RequestsStay
<1> QED
  BY <1>3, <1>4, <1>5, <1>6, <1>7 DEF Inv


-----------------------------------------------------------------------------
(* Steps on the two-factor row                                             *)

\* A write that keeps the id of the row and adds no code.
LEMMA RowKeepsIds ==
    ASSUME Inv, NEW u \in Users, NEW row \in FactorRow, factor' = [factor EXCEPT ![u] = row],
           row.id = factor[u].id, row.codes \subseteq factor[u].codes,
           UNCHANGED proved, \A q \in Requests : FactorReq(req'[q])
    PROVE  /\ factor' \in [Users -> FactorRow] /\ factor'[u] = row
           /\ \A v \in Users \ {u} : factor'[v] = factor[v]
           /\ \A v, w \in Users : v # w =>
                /\ factor'[v].id = None \/ factor'[v].id # factor'[w].id
                /\ factor'[v].codes \cap factor'[w].codes = {}
           /\ \A q \in Requests : FactorReq(req[q])'
<1>1. /\ factor' \in [Users -> FactorRow] /\ factor'[u] = row
      /\ \A v \in Users \ {u} : factor'[v] = factor[v]
  BY DEF Inv, TypeOK
<1>2. \A v \in Users : factor'[v].id = factor[v].id /\ factor'[v].codes \subseteq factor[v].codes
  BY <1>1
<1>3. \A v, w \in Users : v # w =>
        /\ factor'[v].id = None \/ factor'[v].id # factor'[w].id
        /\ factor'[v].codes \cap factor'[w].codes = {}
  <2>1. \A v, w \in Users : v # w => factor[v].codes \cap factor[w].codes = {}
    BY DEF Inv, FactorInv
  <2>2. \A v, w \in Users : v # w => factor[v].id = None \/ factor[v].id # factor[w].id
    BY DEF Inv, FactorInv
  <2> QED
    BY <1>2, <2>1, <2>2
<1>4. \A q \in Requests : FactorReq(req[q])'
  BY <1>2 DEF FactorReq
<1> QED
  BY <1>1, <1>3, <1>4

\* The two writes of recordFailure, for every row but the one being written.
LEMMA BudgetFrame ==
    ASSUME Inv, NEW u \in Users, factor'[u] \in FactorRow,
           \A v \in Users \ {u} : factor'[v] = factor[v],
           (factor'[u].failed >= AccountMaxFailedAttempts /\ factor'[u].locked = "no") =>
               \E q \in Requests : req'[q].stage = "lock" /\ req'[q].snap.id = factor'[u].id,
           \A v \in Users \ {u}, q \in Requests :
               req[q].stage = "lock" /\ req[q].snap.id = factor[v].id =>
                   req'[q].stage = "lock" /\ req'[q].snap.id = factor[v].id
    PROVE  BudgetLocks'
<1> SUFFICES ASSUME NEW v \in Users, factor'[v].failed >= AccountMaxFailedAttempts,
                    factor'[v].locked = "no"
             PROVE  \E q \in Requests : req'[q].stage = "lock" /\ req'[q].snap.id = factor'[v].id
  BY DEF BudgetLocks
<1>1. CASE v = u
  BY <1>1
<1>2. CASE v # u
  <2>1. PICK q \in Requests : req[q].stage = "lock" /\ req[q].snap.id = factor[v].id
    BY <1>2 DEF Inv, FactorInv, BudgetLocks
  <2> QED
    BY <1>2, <2>1
<1> QED
  BY <1>1, <1>2

\* A step of a request that writes two-factor rows and gives no session away.
LEMMA FactorStep ==
    ASSUME Inv, NEW r \in Requests, NEW n \in Request, req' = [req EXCEPT ![r] = n],
           FactorInv', AttemptReq(n), AccessReq(n),
           Holds(n) => Holds(req[r]) /\ n.handle = req[r].handle,
           factor' \in [Users -> FactorRow], enabled' \in [Users -> BOOLEAN],
           proof' \in [SessionIds -> {"open", "password", "factor"}], spent' \in [Codes -> Nat],
           UNCHANGED <<tokenVars, scenario, rowVars, proved, guesses>>,
           \A s \in SessionIds : proof'[s] = "password" =>
               proof[s] = "password" /\ enabled'[sessions[s].user]
    PROVE  Inv'
<1> USE DEF tokenVars, rowVars
<1>1. TypeOK'
  <2>1. req' \in [Requests -> Request]
    BY Others DEF Inv
  <2> QED
    BY <2>1 DEF Inv, TypeOK, TokenTypeOK
<1>2. AttemptInv'
  BY AttemptFrame
<1>3. AccessInv'
  <2>1. SessionsAge /\ TokensAge
    BY DEF SessionsAge, TokensAge
  <2>2. AccessReq(n)'
    BY <2>1, AccessReqStays
  <2>3. \A s \in SessionIds : proof'[s] = "password" =>
          sessions'[s].state # "free" /\ enabled'[sessions'[s].user]
    BY DEF Inv, AccessInv
  <2> QED
    BY <2>1, <2>2, <2>3, AccessFrame
<1>4. RowsOK' /\ TradeInv'
  BY TradeFrame DEF Inv, RowsOK
<1> QED
  BY <1>1, <1>2, <1>3, <1>4 DEF Inv

\* Steps that only count failures, lock or unlock.
LEMMA CountStep ==
    ASSUME Inv, NEW r \in Requests, NEW n \in Request, req' = [req EXCEPT ![r] = n],
           NEW u \in Users, NEW row \in FactorRow, factor' = [factor EXCEPT ![u] = row],
           row.id = factor[u].id, row.codes = factor[u].codes, row.verified = factor[u].verified,
           FactorReq(n), AttemptReq(n), AccessReq(n),
           Holds(n) => Holds(req[r]) /\ n.handle = req[r].handle, BudgetLocks',
           UNCHANGED <<tokenVars, scenario, enabled, rowVars, historyVars>>
    PROVE  Inv'
<1>1. UNCHANGED <<proof, proved, guesses, spent>>
  BY DEF historyVars
<1>2. req'[r] = n /\ \A q \in Requests \ {r} : req'[q] = req[q]
  BY Others DEF Inv
<1>3. \A q \in Requests : FactorReq(req'[q])
  BY <1>2, OtherStages
<1>4. /\ factor' \in [Users -> FactorRow] /\ factor'[u] = row
      /\ \A v \in Users \ {u} : factor'[v] = factor[v]
      /\ \A v, w \in Users : v # w =>
           /\ factor'[v].id = None \/ factor'[v].id # factor'[w].id
           /\ factor'[v].codes \cap factor'[w].codes = {}
      /\ \A q \in Requests : FactorReq(req[q])'
  BY <1>1, <1>3, RowKeepsIds
<1>5. \A v \in Users : /\ factor'[v].id = factor[v].id /\ factor'[v].codes = factor[v].codes
                       /\ factor'[v].verified = factor[v].verified
  BY <1>4
<1>6. EnrollmentProved'
  BY <1>1, <1>5 DEF Inv, FactorInv, EnrollmentProved
<1>7. BackupCodeSingleUse' /\ \A v \in Users : \A c \in factor'[v].codes : spent'[c] = 0
  BY <1>1, <1>5 DEF Inv, FactorInv, BackupCodeSingleUse
<1>8. FactorInv'
  BY <1>4, <1>6, <1>7 DEF FactorInv
<1>9. /\ enabled' \in [Users -> BOOLEAN] /\ spent' \in [Codes -> Nat]
      /\ proof' \in [SessionIds -> {"open", "password", "factor"}]
  BY <1>1 DEF Inv, TypeOK
<1>10. \A s \in SessionIds : proof'[s] = "password" =>
         proof[s] = "password" /\ enabled'[sessions[s].user]
  BY <1>1 DEF Inv, AccessInv
<1> QED
  BY <1>1, <1>4, <1>8, <1>9, <1>10, FactorStep

LEMMA Cleared ==
    ASSUME TypeOK, NEW u \in Users, ClearFailures(u)
    PROVE  \E row \in FactorRow :
             /\ factor' = [factor EXCEPT ![u] = row] /\ row.id = factor[u].id
             /\ row.codes = factor[u].codes /\ row.verified = factor[u].verified
             /\ row.failed = 0
<1>1. factor[u] \in FactorRow
  BY FactorRowType
<1> DEFINE row == [factor[u] EXCEPT !.failed = 0, !.locked = "no"]
<1>2. row \in FactorRow
  BY <1>1 DEF FactorRow
<1>3. /\ row.id = factor[u].id /\ row.codes = factor[u].codes
      /\ row.verified = factor[u].verified /\ row.failed = 0
  BY <1>1 DEF FactorRow
<1>4. factor' = [factor EXCEPT ![u] = row]
  BY DEF ClearFailures
<1> QED
  BY <1>2, <1>3, <1>4

\* resetFailures and assertNotLocked.
LEMMA ClearStep ==
    ASSUME Inv, NEW r \in Requests, NEW n \in Request, req' = [req EXCEPT ![r] = n],
           req[r].user \in Users, req[r].stage # "lock",
           FactorReq(n), AttemptReq(n), AccessReq(n),
           Holds(n) => Holds(req[r]) /\ n.handle = req[r].handle,
           ClearFailures(req[r].user) \/ UNCHANGED factor,
           UNCHANGED <<tokenVars, scenario, enabled, rowVars, historyVars>>
    PROVE  Inv'
<1>1. CASE UNCHANGED factor
  BY <1>1, OtherRows, QuietKeeps DEF factorVars
<1>2. CASE ClearFailures(req[r].user)
  <2>1. PICK u \in Users : u = req[r].user
    OBVIOUS
  <2>2. PICK row \in FactorRow :
             /\ factor' = [factor EXCEPT ![u] = row] /\ row.id = factor[u].id
             /\ row.codes = factor[u].codes /\ row.verified = factor[u].verified
             /\ row.failed = 0
    BY <1>2, <2>1, Cleared DEF Inv
  <2>3. factor'[u] = row /\ \A v \in Users \ {u} : factor'[v] = factor[v]
    BY <2>2 DEF Inv, TypeOK
  <2>4. \A q \in Requests : req[q].stage = "lock" => req'[q] = req[q]
    BY Others DEF Inv
  <2>5. BudgetLocks'
    BY <2>2, <2>3, <2>4, Limits, BudgetFrame
  <2> QED
    BY <2>2, <2>5, CountStep
<1> QED
  BY <1>1, <1>2


LEMMA AssertNotLockedKeeps ==
    ASSUME Inv, NEW r \in Requests, AssertNotLocked(r)
    PROVE  Inv'
<1>1. /\ req[r].stage = "unlock" /\ req[r].op # "sign-in"
      /\ req[r].user \in Users /\ req[r].snap.id # None
      /\ UNCHANGED <<tokenVars, scenario, enabled, rowVars, historyVars>>
      /\ ClearFailures(req[r].user) \/ UNCHANGED factor
  BY OpKnown, OtherStages DEF AssertNotLocked, FactorReq, Loaded
<1>2. PICK st \in {"clear", "judge"} :
        /\ st = IF req[r].op = "send-otp" THEN "clear" ELSE "judge"
        /\ st = "judge" => req[r].op # "send-otp"
  OBVIOUS
<1>3. Goto(r, st)
  BY <1>2 DEF AssertNotLocked
<1>4. Onward(req[r], st)
  BY <1>1, <1>2 DEF Onward, Stages, Loaded, Holds
<1>5. PICK n \in Request : req' = [req EXCEPT ![r] = n] /\ n.stage = st /\ Moved(n, req[r])
  BY <1>2, <1>3, GotoMoves DEF Inv, Stages
<1>6. /\ FactorReq(n) /\ AttemptReq(n) /\ AccessReq(n)
      /\ Holds(n) => Holds(req[r]) /\ n.handle = req[r].handle
  BY <1>4, <1>5, MovedOK
<1> QED
  BY <1>1, <1>5, <1>6, ClearStep

LEMMA ResetFailuresKeeps ==
    ASSUME Inv, NEW r \in Requests, ResetFailures(r)
    PROVE  Inv'
<1>1. /\ req[r].stage = "reset" /\ req[r].op # "sign-in" /\ OtherReq(req[r])
      /\ req[r].user \in Users
      /\ UNCHANGED <<tokenVars, scenario, enabled, rowVars, historyVars>>
      /\ ClearFailures(req[r].user) \/ UNCHANGED factor
  BY OpKnown, OtherStages DEF ResetFailures, FactorReq
<1>2. CASE Finish(r)
  BY <1>1, <1>2, IdleType, IdleOK, ClearStep DEF Finish
<1>3. ASSUME NEW st \in {"rotate", "issue"}, Goto(r, st), st = "rotate" => req[r].handle = None
      PROVE  Inv'
  <2>1. Onward(req[r], st)
    BY <1>1, <1>3 DEF Onward, Stages, Loaded, OtherReq, OtherData
  <2>2. PICK n \in Request : req' = [req EXCEPT ![r] = n] /\ n.stage = st /\ Moved(n, req[r])
    BY <1>3, GotoMoves DEF Inv, Stages
  <2>3. /\ FactorReq(n) /\ AttemptReq(n) /\ AccessReq(n)
        /\ Holds(n) => Holds(req[r]) /\ n.handle = req[r].handle
    BY <2>1, <2>2, MovedOK
  <2> QED
    BY <1>1, <2>2, <2>3, ClearStep
<1> QED
  BY <1>2, <1>3 DEF ResetFailures

\* The row of u with other values of failedAttempts and lockedUntil.
RowWith(u, k, how) == [factor[u] EXCEPT !.failed = k, !.locked = how]

LEMMA Counted ==
    ASSUME TypeOK, NEW u \in Users, NEW k \in Nat, NEW how \in {"no", "until", "past"}
    PROVE  /\ RowWith(u, k, how) \in FactorRow /\ RowWith(u, k, how).id = factor[u].id
           /\ RowWith(u, k, how).codes = factor[u].codes
           /\ RowWith(u, k, how).verified = factor[u].verified
           /\ RowWith(u, k, how).failed = k /\ RowWith(u, k, how).locked = how
<1>1. factor[u] \in FactorRow
  BY FactorRowType
<1>2. RowWith(u, k, how) \in FactorRow
  BY <1>1 DEF FactorRow, RowWith
<1> QED
  BY <1>1, <1>2 DEF FactorRow, RowWith

\* Writing one column is writing the row with the other as it is.
LEMMA OneColumn ==
    ASSUME TypeOK, NEW u \in Users, NEW k \in Nat, NEW how \in {"no", "until", "past"}
    PROVE  /\ [factor EXCEPT ![u].failed = k] = [factor EXCEPT ![u] = RowWith(u, k, factor[u].locked)]
           /\ [factor EXCEPT ![u].locked = how] = [factor EXCEPT ![u] = RowWith(u, factor[u].failed, how)]
<1>1. factor[u] \in FactorRow
  BY FactorRowType
<1>2. /\ RowWith(u, k, factor[u].locked) = [factor[u] EXCEPT !.failed = k]
      /\ RowWith(u, factor[u].failed, how) = [factor[u] EXCEPT !.locked = how]
  BY <1>1 DEF FactorRow, RowWith
<1> QED
  BY <1>2

\* recordFailure's IncrementOne: the request that reaches the budget goes on to lock.
LEMMA RecordFailureKeeps ==
    ASSUME Inv, NEW r \in Requests, RecordFailure(r)
    PROVE  Inv'
<1>1. /\ req[r].stage = "count" /\ req[r].op # "sign-in" /\ OtherReq(req[r])
      /\ req[r].user \in Users /\ req[r].snap.id # None
      /\ UNCHANGED <<tokenVars, scenario, enabled, rowVars, historyVars>>
  BY OpKnown, OtherStages DEF RecordFailure, FactorReq, Loaded
<1>2. PICK u \in Users : u = req[r].user
  BY <1>1
<1>3. CASE Finish(r) /\ UNCHANGED factor
  BY <1>1, <1>3, QuietFinish DEF factorVars
<1>4. ASSUME SameRow(r), factor' = [factor EXCEPT ![u].failed = @ + 1],
             IF OverBudget(factor[u].failed + 1) THEN Goto(r, "lock") ELSE Finish(r)
      PROVE  Inv'
  <2>1. PICK k \in Nat, how \in {"no", "until", "past"} :
          k = factor[u].failed + 1 /\ how = factor[u].locked
    BY FactorRowType DEF Inv
  <2>2. PICK row \in FactorRow :
             /\ row = RowWith(u, k, how) /\ row.id = factor[u].id /\ row.codes = factor[u].codes
             /\ row.verified = factor[u].verified /\ row.failed = k /\ row.locked = how
    BY Counted DEF Inv
  <2>3. factor' = [factor EXCEPT ![u] = row]
    <3>1. factor' = [factor EXCEPT ![u].failed = k]
      BY <1>4, <2>1
    <3> QED
      BY <2>1, <2>2, <3>1, OneColumn DEF Inv
  <2>4. factor'[u] = row /\ \A v \in Users \ {u} : factor'[v] = factor[v]
    BY <2>3 DEF Inv, TypeOK
  <2>5. CASE OverBudget(k)
    <3>1. Goto(r, "lock")
      BY <1>4, <2>1, <2>5
    <3>2. PICK n \in Request : req' = [req EXCEPT ![r] = n] /\ n.stage = "lock" /\ Moved(n, req[r])
      BY <3>1, GotoMoves DEF Inv, Stages
    <3>3. Onward(req[r], "lock")
      BY <1>1 DEF Onward, Stages, Loaded
    <3>4. /\ FactorReq(n) /\ AttemptReq(n) /\ AccessReq(n)
          /\ Holds(n) => Holds(req[r]) /\ n.handle = req[r].handle
      BY <3>2, <3>3, MovedOK
    <3>5. /\ req'[r].stage = "lock" /\ req'[r].snap.id = row.id
          /\ \A q \in Requests : req[q].stage = "lock" => req'[q] = req[q]
      <4>1. req'[r] = n /\ \A q \in Requests \ {r} : req'[q] = req[q]
        BY <3>2, Others DEF Inv
      <4>2. n.snap.id = row.id
        BY <1>2, <1>4, <2>2, <3>2 DEF Moved, SameRow
      <4> QED
        BY <1>1, <3>2, <4>1, <4>2
    <3>6. BudgetLocks'
      BY <2>4, <3>5, BudgetFrame
    <3> QED
      BY <1>1, <2>2, <2>3, <3>2, <3>4, <3>6, CountStep
  <2>6. CASE ~OverBudget(k)
    <3>1. req' = [req EXCEPT ![r] = Idle]
      BY <1>4, <2>1, <2>6 DEF Finish
    <3>2. \A q \in Requests : req[q].stage = "lock" => req'[q] = req[q]
      BY <1>1, <3>1, IdleType, Others DEF Inv
    <3>3. ~(factor'[u].failed >= AccountMaxFailedAttempts) /\ factor'[u] \in FactorRow
      BY <2>2, <2>4, <2>6, Limits DEF OverBudget
    <3>4. BudgetLocks'
      BY <2>4, <3>2, <3>3, BudgetFrame
    <3> QED
      BY <1>1, <2>2, <2>3, <3>1, <3>4, IdleType, IdleOK, CountStep
  <2> QED
    BY <2>5, <2>6
<1> QED
  BY <1>2, <1>3, <1>4 DEF RecordFailure

\* recordFailure's second update: it finds the row the request has read, or none.
LEMMA LockAccountKeeps ==
    ASSUME Inv, NEW r \in Requests, LockAccount(r)
    PROVE  Inv'
<1> USE DEF factorVars
<1>1. /\ req[r].stage = "lock" /\ req[r].snap.id # None /\ req[r].user \in Users
      /\ \A v \in Users : factor[v].id = req[r].snap.id => v = req[r].user
      /\ UNCHANGED <<tokenVars, scenario, enabled, rowVars, historyVars>>
      /\ req' = [req EXCEPT ![r] = Idle]
  BY OtherStages DEF LockAccount, FactorReq, Loaded, Finish
<1>2. PICK u \in Users : u = req[r].user
  BY <1>1
<1>3. \A q \in Requests \ {r} : req'[q] = req[q]
  BY <1>1, IdleType, Others DEF Inv
<1>4. \A v \in Users \ {u}, q \in Requests :
        req[q].stage = "lock" /\ req[q].snap.id = factor[v].id =>
            req'[q].stage = "lock" /\ req'[q].snap.id = factor[v].id
  BY <1>1, <1>2, <1>3
<1>5. CASE SameRow(r)
  <2>0. PICK k \in Nat : k = factor[u].failed
    BY FactorRowType DEF Inv
  <2>1. PICK row \in FactorRow :
             /\ row = RowWith(u, k, "until") /\ row.id = factor[u].id /\ row.codes = factor[u].codes
             /\ row.verified = factor[u].verified /\ row.locked = "until"
    BY Counted DEF Inv
  <2>2. factor' = [factor EXCEPT ![u] = row]
    <3>1. factor' = [factor EXCEPT ![u].locked = "until"]
      BY <1>2, <1>5 DEF LockAccount
    <3> QED
      BY <2>0, <2>1, <3>1, OneColumn DEF Inv
  <2>3. factor'[u] = row /\ \A v \in Users \ {u} : factor'[v] = factor[v]
    BY <2>2 DEF Inv, TypeOK
  <2>4. BudgetLocks'
    BY <1>4, <2>1, <2>3, BudgetFrame
  <2> QED
    BY <1>1, <2>1, <2>2, <2>4, IdleType, IdleOK, CountStep
<1>6. CASE ~SameRow(r)
  <2>1. UNCHANGED factor
    BY <1>6 DEF LockAccount
  <2>2. factor = [factor EXCEPT ![u] = factor[u]] /\ factor[u] \in FactorRow
    BY DEF Inv, TypeOK
  <2>3. \A q \in Requests : req[q].stage = "lock" /\ req[q].snap.id = factor[u].id => req'[q] = req[q]
    BY <1>2, <1>3, <1>6 DEF SameRow
  <2>4. (factor[u].failed >= AccountMaxFailedAttempts /\ factor[u].locked = "no") =>
           \E q \in Requests : req'[q].stage = "lock" /\ req'[q].snap.id = factor[u].id
    BY <2>3 DEF Inv, FactorInv, BudgetLocks
  <2>5. BudgetLocks'
    BY <1>4, <2>1, <2>2, <2>4, BudgetFrame
  <2> QED
    BY <1>1, <2>1, <2>2, <2>5, IdleType, IdleOK, CountStep
<1> QED
  BY <1>5, <1>6


LEMMA LockoutEndsKeeps ==
    ASSUME Inv, NEW u \in Users, LockoutEnds(u)
    PROVE  Inv'
<1> USE DEF tokenVars, rowVars, historyVars
<1>1. UNCHANGED <<tokenVars, scenario, enabled, rowVars, req, historyVars>>
  BY DEF LockoutEnds
<1>2. PICK k \in Nat : k = factor[u].failed
  BY FactorRowType DEF Inv
<1>3. PICK row \in FactorRow :
        /\ row = RowWith(u, k, "past") /\ row.id = factor[u].id /\ row.codes = factor[u].codes
        /\ row.verified = factor[u].verified /\ row.locked = "past"
  BY Counted DEF Inv
<1>4. factor' = [factor EXCEPT ![u] = row]
  <2>1. factor' = [factor EXCEPT ![u].locked = "past"]
    BY DEF LockoutEnds
  <2> QED
    BY <1>2, <1>3, <2>1, OneColumn DEF Inv
<1>5. \A q \in Requests : FactorReq(req'[q])
  BY <1>1, OtherStages
<1>6. /\ factor' \in [Users -> FactorRow] /\ factor'[u] = row
      /\ \A v \in Users \ {u} : factor'[v] = factor[v]
      /\ \A v, w \in Users : v # w =>
           /\ factor'[v].id = None \/ factor'[v].id # factor'[w].id
           /\ factor'[v].codes \cap factor'[w].codes = {}
      /\ \A q \in Requests : FactorReq(req[q])'
  BY <1>1, <1>3, <1>4, <1>5, RowKeepsIds
<1>7. \A v \in Users : /\ factor'[v].id = factor[v].id /\ factor'[v].codes = factor[v].codes
                       /\ factor'[v].verified = factor[v].verified
  BY <1>3, <1>6
<1>8. EnrollmentProved' /\ BackupCodeSingleUse'
  BY <1>1, <1>7 DEF Inv, FactorInv, EnrollmentProved, BackupCodeSingleUse
<1>9. \A v \in Users : \A c \in factor'[v].codes : spent'[c] = 0
  BY <1>1, <1>7 DEF Inv, FactorInv
<1>10. BudgetLocks'
  BY <1>1, <1>3, <1>6, BudgetFrame
<1>11. FactorInv'
  BY <1>6, <1>8, <1>9, <1>10 DEF FactorInv
<1>12. TypeOK' /\ RowsOK' /\ TradeInv'
  BY <1>1, <1>6, TradeFrame DEF Inv, TypeOK, TokenTypeOK, RowsOK
<1>13. AttemptInv'
  BY <1>1 DEF Inv, AttemptInv, AttemptReq, Holds, AttemptsBounded
<1>14. AccessInv'
  <2>1. SessionsAge /\ TokensAge
    BY <1>1, NothingAges
  <2>2. \A s \in SessionIds : proof'[s] = "password" =>
          sessions'[s].state # "free" /\ enabled'[sessions'[s].user]
    BY <1>1 DEF Inv, AccessInv
  <2> QED
    BY <1>1, <2>1, <2>2, RequestsStay
<1> QED
  BY <1>11, <1>12, <1>13, <1>14 DEF Inv

\* A backup code leaves the set together with its acceptance, and only the set
\* that the request has read.
LEMMA SpendKeeps ==
    ASSUME Inv, NEW r \in Requests, SpendBackupCode(r)
    PROVE  Inv'
<1> USE DEF factorVars, historyVars
<1>1. /\ req[r].stage = "spend" /\ req[r].op # "sign-in" /\ OtherReq(req[r])
      /\ req[r].user \in Users /\ req[r].code \in req[r].snap.codes
      /\ UNCHANGED <<tokenVars, scenario, enabled, otps, devices, proof, proved, guesses>>
  BY OpKnown, OtherStages DEF SpendBackupCode, FactorReq, Loaded
<1>2. otps' \in [Otps -> OtpRow] /\ devices' \in [Devices -> DeviceRow]
  BY <1>1 DEF Inv, TypeOK
<1>3. CASE RestoreAndRefuse(r) /\ UNCHANGED <<factor, spent>>
  BY <1>1, <1>2, <1>3, RestoreKeeps
<1>4. ASSUME CodesUnchanged(r), Goto(r, "complete"), UNCHANGED challenge,
             factor' = [factor EXCEPT ![req[r].user].codes = req[r].snap.codes \ {req[r].code}],
             spent' = [spent EXCEPT ![req[r].code] = @ + 1]
      PROVE  Inv'
  <2>1. PICK u \in Users : u = req[r].user
    BY <1>1
  <2>2. factor[u] \in FactorRow /\ factor[u].codes = req[r].snap.codes /\ factor[u].codes \subseteq Codes
    BY <1>4, <2>1, FactorRowType DEF CodesUnchanged, Inv
  <2>3. PICK c \in Codes : c = req[r].code /\ c \in factor[u].codes
    BY <1>1, <2>2
  <2>4. PICK row \in FactorRow : row = [factor[u] EXCEPT !.codes = factor[u].codes \ {c}]
    <3>1. [factor[u] EXCEPT !.codes = factor[u].codes \ {c}] \in FactorRow
      BY <2>2 DEF FactorRow
    <3> QED
      BY <3>1
  <2>5. /\ row.id = factor[u].id /\ row.codes = factor[u].codes \ {c}
        /\ row.verified = factor[u].verified /\ row.failed = factor[u].failed
        /\ row.locked = factor[u].locked
    BY <2>2, <2>4 DEF FactorRow
  <2>6. factor' = [factor EXCEPT ![u] = row]
    BY <1>4, <2>1, <2>2, <2>3, <2>4
  <2>7. /\ spent[c] = 0 /\ spent' \in [Codes -> Nat] /\ spent'[c] = 1
        /\ \A d \in Codes \ {c} : spent'[d] = spent[d]
    <3>1. spent[c] = 0
      BY <2>3 DEF Inv, FactorInv
    <3> QED
      BY <1>4, <2>3, <3>1 DEF Inv, TypeOK
  <2>8. Onward(req[r], "complete")
    BY <1>1 DEF Onward, Stages, Loaded
  <2>9. PICK n \in Request : req' = [req EXCEPT ![r] = n] /\ n.stage = "complete" /\ Moved(n, req[r])
    BY <1>4, GotoMoves DEF Inv, Stages
  <2>10. /\ FactorReq(n) /\ AttemptReq(n) /\ AccessReq(n)
         /\ Holds(n) => Holds(req[r]) /\ n.handle = req[r].handle
    BY <2>8, <2>9, MovedOK
  <2>11. req'[r] = n /\ \A q \in Requests \ {r} : req'[q] = req[q]
    BY <2>9, Others DEF Inv
  <2>12. \A q \in Requests : FactorReq(req'[q])
    BY <2>10, <2>11, OtherStages
  <2>13. /\ factor' \in [Users -> FactorRow] /\ factor'[u] = row
         /\ \A v \in Users \ {u} : factor'[v] = factor[v]
         /\ \A v, w \in Users : v # w =>
              /\ factor'[v].id = None \/ factor'[v].id # factor'[w].id
              /\ factor'[v].codes \cap factor'[w].codes = {}
         /\ \A q \in Requests : FactorReq(req[q])'
    BY <1>1, <2>5, <2>6, <2>12, RowKeepsIds
  <2>14. ASSUME NEW v \in Users, NEW d \in factor'[v].codes PROVE spent'[d] = 0
    <3>1. d \in factor[v].codes /\ d \in Codes
      BY <2>5, <2>13, FactorRowType DEF Inv
    <3>2. d # c
      BY <2>3, <2>5, <2>13, <3>1 DEF Inv, FactorInv
    <3> QED
      BY <2>7, <3>1, <3>2 DEF Inv, FactorInv
  <2>15. BackupCodeSingleUse'
    BY <2>7 DEF Inv, FactorInv, BackupCodeSingleUse
  <2>16. EnrollmentProved'
    BY <1>1, <2>5, <2>13 DEF Inv, FactorInv, EnrollmentProved
  <2>17. BudgetLocks'
    <3>1. \A q \in Requests : req[q].stage = "lock" => req'[q] = req[q]
      BY <1>1, <2>11
    <3> QED
      BY <2>5, <2>13, <3>1 DEF Inv, FactorInv, BudgetLocks
  <2>18. FactorInv'
    BY <2>13, <2>14, <2>15, <2>16, <2>17 DEF FactorInv
  <2>19. /\ enabled' \in [Users -> BOOLEAN]
         /\ proof' \in [SessionIds -> {"open", "password", "factor"}]
         /\ \A s \in SessionIds : proof'[s] = "password" =>
              proof[s] = "password" /\ enabled'[sessions[s].user]
    BY <1>1 DEF Inv, TypeOK, AccessInv
  <2>20. UNCHANGED rowVars
    BY <1>1, <1>4 DEF rowVars
  <2> QED
    BY <1>1, <2>7, <2>9, <2>10, <2>13, <2>18, <2>19, <2>20, FactorStep
<1> QED
  BY <1>3, <1>4 DEF SpendBackupCode

\* completeEnrollment verifies the row whose secret the request has proved.
LEMMA CompleteEnrollmentKeeps ==
    ASSUME Inv, NEW r \in Requests, CompleteEnrollment(r)
    PROVE  Inv'
<1> USE DEF factorVars, historyVars
<1>1. /\ req[r].stage = "enroll" /\ req[r].op # "sign-in" /\ OtherReq(req[r])
      /\ req[r].user \in Users /\ req[r].snap.id \in proved
      /\ UNCHANGED <<tokenVars, scenario, rowVars, historyVars>>
  BY OpKnown, OtherStages DEF CompleteEnrollment, FactorReq
<1>2. PICK u \in Users : u = req[r].user
  BY <1>1
<1>3. CASE Finish(r) /\ UNCHANGED factorVars
  BY <1>1, <1>3, QuietFinish
<1>4. ASSUME Unenrolled(r), Goto(r, "complete"),
             factor' = [factor EXCEPT ![u].verified = TRUE],
             enabled' = [enabled EXCEPT ![u] = TRUE]
      PROVE  Inv'
  <2>1. factor[u] \in FactorRow /\ factor[u].id \in proved
    BY <1>1, <1>2, <1>4, FactorRowType DEF Unenrolled, SameRow, Inv
  <2>2. PICK row \in FactorRow : row = [factor[u] EXCEPT !.verified = TRUE]
    <3>1. [factor[u] EXCEPT !.verified = TRUE] \in FactorRow
      BY <2>1 DEF FactorRow
    <3> QED
      BY <3>1
  <2>3. /\ row.id = factor[u].id /\ row.codes = factor[u].codes
        /\ row.verified = TRUE /\ row.failed = factor[u].failed /\ row.locked = factor[u].locked
    BY <2>1, <2>2 DEF FactorRow
  <2>4. factor' = [factor EXCEPT ![u] = row]
    BY <1>4, <2>2
  <2>5. Onward(req[r], "complete")
    BY <1>1 DEF Onward, Stages, Loaded
  <2>6. PICK n \in Request : req' = [req EXCEPT ![r] = n] /\ n.stage = "complete" /\ Moved(n, req[r])
    BY <1>4, GotoMoves DEF Inv, Stages
  <2>7. /\ FactorReq(n) /\ AttemptReq(n) /\ AccessReq(n)
        /\ Holds(n) => Holds(req[r]) /\ n.handle = req[r].handle
    BY <2>5, <2>6, MovedOK
  <2>8. req'[r] = n /\ \A q \in Requests \ {r} : req'[q] = req[q]
    BY <2>6, Others DEF Inv
  <2>9. \A q \in Requests : FactorReq(req'[q])
    BY <2>7, <2>8, OtherStages
  <2>10. /\ factor' \in [Users -> FactorRow] /\ factor'[u] = row
         /\ \A v \in Users \ {u} : factor'[v] = factor[v]
         /\ \A v, w \in Users : v # w =>
              /\ factor'[v].id = None \/ factor'[v].id # factor'[w].id
              /\ factor'[v].codes \cap factor'[w].codes = {}
         /\ \A q \in Requests : FactorReq(req[q])'
    BY <1>1, <2>3, <2>4, <2>9, RowKeepsIds
  <2>11. BackupCodeSingleUse' /\ \A v \in Users : \A c \in factor'[v].codes : spent'[c] = 0
    BY <1>1, <2>3, <2>10 DEF Inv, FactorInv, BackupCodeSingleUse
  <2>12. /\ enabled' \in [Users -> BOOLEAN] /\ enabled'[u]
         /\ \A v \in Users \ {u} : enabled'[v] = enabled[v]
    BY <1>4 DEF Inv, TypeOK
  <2>13. EnrollmentProved'
    BY <1>1, <2>1, <2>3, <2>10, <2>12 DEF Inv, FactorInv, EnrollmentProved
  <2>14. BudgetLocks'
    <3>1. \A q \in Requests : req[q].stage = "lock" => req'[q] = req[q]
      BY <1>1, <2>8
    <3> QED
      BY <2>3, <2>10, <3>1 DEF Inv, FactorInv, BudgetLocks
  <2>15. FactorInv'
    BY <2>10, <2>11, <2>13, <2>14 DEF FactorInv
  <2>16. /\ proof' \in [SessionIds -> {"open", "password", "factor"}] /\ spent' \in [Codes -> Nat]
         /\ \A s \in SessionIds : proof'[s] = "password" =>
              proof[s] = "password" /\ enabled'[sessions[s].user]
    BY <1>1, <2>12 DEF Inv, TypeOK, AccessInv, RowsOK
  <2> QED
    BY <1>1, <2>6, <2>7, <2>10, <2>12, <2>15, <2>16, FactorStep
<1> QED
  BY <1>2, <1>3, <1>4 DEF CompleteEnrollment


-----------------------------------------------------------------------------
(* Management writes a row                                                 *)

\* A row is replaced by one with an id and codes that nobody else has.
LEMMA RowReplaced ==
    ASSUME Inv, NEW u \in Users, NEW row \in FactorRow, factor' = [factor EXCEPT ![u] = row],
           \/ row.id \in {None, factor[u].id}
           \/ /\ \A v \in Users : factor[v].id # row.id
              /\ \A q \in Requests : req[q].snap.id # row.id,
           \A v \in Users \ {u} : row.codes \cap factor[v].codes = {},
           \A c \in row.codes : spent[c] = 0,
           UNCHANGED <<proved, spent>>, \A q \in Requests : FactorReq(req'[q]),
           \A q \in Requests : req'[q].snap \in {req[q].snap, NoFactor}
    PROVE  /\ factor' \in [Users -> FactorRow] /\ factor'[u] = row
           /\ \A v \in Users \ {u} : factor'[v] = factor[v]
           /\ \A v, w \in Users : v # w =>
                /\ factor'[v].id = None \/ factor'[v].id # factor'[w].id
                /\ factor'[v].codes \cap factor'[w].codes = {}
           /\ \A v \in Users : \A c \in factor'[v].codes : spent'[c] = 0
           /\ BackupCodeSingleUse'
           /\ \A q \in Requests : FactorReq(req[q])'
<1>1. /\ factor' \in [Users -> FactorRow] /\ factor'[u] = row
      /\ \A v \in Users \ {u} : factor'[v] = factor[v]
  BY DEF Inv, TypeOK
<1>2. \A v, w \in Users : v # w => factor'[v].codes \cap factor'[w].codes = {}
  <2>1. \A v, w \in Users : v # w => factor[v].codes \cap factor[w].codes = {}
    BY DEF Inv, FactorInv
  <2>2. ASSUME NEW v \in Users, NEW w \in Users, v # w
        PROVE  factor'[v].codes \cap factor'[w].codes = {}
    <3>1. CASE v = u
      BY <1>1, <2>2, <3>1
    <3>2. CASE w = u
      BY <1>1, <2>2, <3>2
    <3>3. CASE v # u /\ w # u
      BY <1>1, <2>1, <2>2, <3>3
    <3> QED
      BY <3>1, <3>2, <3>3
  <2> QED
    BY <2>2
<1>3. \A v, w \in Users : v # w => factor'[v].id = None \/ factor'[v].id # factor'[w].id
  <2>1. \A v, w \in Users : v # w => factor[v].id = None \/ factor[v].id # factor[w].id
    BY DEF Inv, FactorInv
  <2> QED
    BY <1>1, <2>1
<1>4. ASSUME NEW q \in Requests PROVE FactorReq(req[q])'
  <2>1. FactorReq(req'[q])
    OBVIOUS
  <2>2. ASSUME NEW v \in Users, req'[q].snap.id # None, factor'[v].id = req'[q].snap.id
        PROVE  v = req'[q].user
    <3>1. req'[q].snap = req[q].snap
      BY <2>2, NoFactorType
    <3>2. factor[v].id = req'[q].snap.id
      BY <1>1, <2>2, <3>1
    <3> QED
      BY <2>1, <2>2, <3>2 DEF FactorReq
  <2> QED
    BY <2>1, <2>2 DEF FactorReq
<1>5. BackupCodeSingleUse' /\ \A v \in Users : \A c \in factor'[v].codes : spent'[c] = 0
  BY <1>1 DEF Inv, FactorInv, BackupCodeSingleUse
<1> QED
  BY <1>1, <1>2, <1>3, <1>4, <1>5

LEMMA FreshFactor ==
    ASSUME NEW f \in Draw(FreshFactors)
    PROVE  /\ f \in FactorIds
           /\ \A u \in Users : factor[u].id # f /\ factor[u].codes \cap CodesOf(f) = {}
           /\ \A r \in Requests : req[r].snap.id # f
           /\ \A c \in CodesOf(f) : spent[c] = 0
<1>1. f \in FreshFactors
  BY DrawUnused
<1> QED
  BY <1>1 DEF FreshFactors

\* The stages of a management request.
LEMMA ManageOnward ==
    ASSUME Inv, NEW r \in Requests, req[r].stage \in {"manage", "reseal"},
           NEW st \in {"rotate", "forget"}, Goto(r, st)
    PROVE  \E n \in Request :
             /\ req' = [req EXCEPT ![r] = n] /\ n.snap = req[r].snap /\ ~Holds(n)
             /\ FactorReq(n) /\ AttemptReq(n) /\ AccessReq(n)
             /\ \A q \in Requests : FactorReq(req'[q]) /\ req'[q].snap = req[q].snap
             /\ \A q \in Requests : req[q].stage = "lock" => req'[q] = req[q]
<1>1. req[r].op # "sign-in" /\ OtherReq(req[r])
  BY OpKnown
<1>2. Onward(req[r], st)
  BY <1>1 DEF Onward, Stages, Loaded, OtherReq
<1>3. PICK n \in Request : req' = [req EXCEPT ![r] = n] /\ n.stage = st /\ Moved(n, req[r])
  BY GotoMoves DEF Inv, Stages
<1>4. FactorReq(n) /\ AttemptReq(n) /\ AccessReq(n) /\ ~Holds(n)
  BY <1>2, <1>3, MovedOK DEF Holds
<1>5. req'[r] = n /\ \A q \in Requests \ {r} : req'[q] = req[q]
  BY <1>3, Others DEF Inv
<1>6. n.snap = req[r].snap
  BY <1>3 DEF Moved
<1>7. \A q \in Requests : FactorReq(req'[q]) /\ req'[q].snap = req[q].snap
  BY <1>4, <1>5, <1>6, OtherStages
<1>8. \A q \in Requests : req[q].stage = "lock" => req'[q] = req[q]
  BY <1>5
<1> QED
  BY <1>3, <1>4, <1>6, <1>7, <1>8

LEMMA EnableKeeps ==
    ASSUME Inv, NEW r \in Requests, Enable(r)
    PROVE  Inv'
<1>1. /\ req[r].stage = "manage" /\ req[r].user \in Users
      /\ UNCHANGED <<tokenVars, scenario, rowVars, historyVars>>
  BY OtherStages DEF Enable, FactorReq
<1>2. PICK u \in Users : u = req[r].user
  BY <1>1
<1>3. CASE Finish(r) /\ UNCHANGED factorVars
  BY <1>1, <1>3, QuietFinish
<1>4. ASSUME ~factor[u].verified, NEW f \in Draw(FreshFactors), Goto(r, "rotate"),
             factor' = [factor EXCEPT ![u] = NewFactor(f, scenario.skip)],
             enabled' = [enabled EXCEPT ![u] = @ \/ scenario.skip]
      PROVE  Inv'
  <2>1. UNCHANGED <<proof, proved, guesses, spent>>
    BY <1>1 DEF historyVars
  <2>2. /\ f \in FactorIds
        /\ \A v \in Users : factor[v].id # f /\ factor[v].codes \cap CodesOf(f) = {}
        /\ \A q \in Requests : req[q].snap.id # f
        /\ \A c \in CodesOf(f) : spent[c] = 0
    BY FreshFactor
  <2>3. PICK row \in FactorRow :
          /\ row = NewFactor(f, scenario.skip) /\ row.id = f /\ row.codes = CodesOf(f)
          /\ row.failed = 0 /\ row.verified = scenario.skip
    BY <2>2, NewFactorType, ScenarioType DEF Inv
  <2>4. PICK n \in Request :
             /\ req' = [req EXCEPT ![r] = n] /\ n.snap = req[r].snap /\ ~Holds(n)
             /\ FactorReq(n) /\ AttemptReq(n) /\ AccessReq(n)
             /\ \A q \in Requests : FactorReq(req'[q]) /\ req'[q].snap = req[q].snap
             /\ \A q \in Requests : req[q].stage = "lock" => req'[q] = req[q]
    BY <1>1, <1>4, ManageOnward
  <2>5. /\ factor' \in [Users -> FactorRow] /\ factor'[u] = row
        /\ \A v \in Users \ {u} : factor'[v] = factor[v]
        /\ \A v, w \in Users : v # w =>
             /\ factor'[v].id = None \/ factor'[v].id # factor'[w].id
             /\ factor'[v].codes \cap factor'[w].codes = {}
        /\ \A v \in Users : \A c \in factor'[v].codes : spent'[c] = 0
        /\ BackupCodeSingleUse'
        /\ \A q \in Requests : FactorReq(req[q])'
    <3>1. factor' = [factor EXCEPT ![u] = row]
      BY <1>4, <2>3
    <3>2. \A v \in Users \ {u} : row.codes \cap factor[v].codes = {}
      BY <2>2, <2>3
    <3>3. \A c \in row.codes : spent[c] = 0
      BY <2>2, <2>3
    <3>4. \A q \in Requests : req'[q].snap \in {req[q].snap, NoFactor}
      BY <2>4
    <3>5. /\ \A v \in Users : factor[v].id # row.id
          /\ \A q \in Requests : req[q].snap.id # row.id
      BY <2>2, <2>3
    <3>6. \A q \in Requests : FactorReq(req'[q])
      BY <2>4
    <3> QED
      BY <2>1, <3>1, <3>2, <3>3, <3>4, <3>5, <3>6, RowReplaced
  <2>6. /\ enabled' \in [Users -> BOOLEAN] /\ enabled'[u] = (enabled[u] \/ scenario.skip)
        /\ \A v \in Users \ {u} : enabled'[v] = enabled[v]
    BY <1>4, ScenarioType DEF Inv, TypeOK
  <2>7. EnrollmentProved'
    <3>1. ASSUME NEW v \in Users
          PROVE  /\ (factor'[v].verified /\ ~scenario'.skip) => factor'[v].id \in proved'
                 /\ (enabled'[v] /\ ~scenario'.otp) => factor'[v].verified
      <4>1. UNCHANGED <<scenario, proved>>
        BY <1>1, <2>1
      <4>2. CASE v = u
        BY <1>4, <2>3, <2>5, <2>6, <4>1, <4>2 DEF Inv, FactorInv, EnrollmentProved
      <4>3. CASE v # u
        BY <2>5, <2>6, <4>1, <4>3 DEF Inv, FactorInv, EnrollmentProved
      <4> QED
        BY <4>2, <4>3
    <3> QED
      BY <3>1 DEF EnrollmentProved
  <2>8. BudgetLocks'
    BY <2>3, <2>4, <2>5, Limits, BudgetFrame
  <2>9. FactorInv'
    BY <2>5, <2>7, <2>8 DEF FactorInv
  <2>10. /\ proof' \in [SessionIds -> {"open", "password", "factor"}] /\ spent' \in [Codes -> Nat]
         /\ \A s \in SessionIds : proof'[s] = "password" =>
              proof[s] = "password" /\ enabled'[sessions[s].user]
    BY <2>1, <2>6 DEF Inv, TypeOK, AccessInv, RowsOK
  <2> QED
    BY <1>1, <2>1, <2>4, <2>5, <2>6, <2>9, <2>10, FactorStep
<1> QED
  BY <1>2, <1>3, <1>4 DEF Enable

LEMMA EnableOTPKeeps ==
    ASSUME Inv, NEW r \in Requests, EnableOTP(r)
    PROVE  Inv'
<1>1. /\ req[r].stage = "manage" /\ req[r].user \in Users /\ scenario.otp /\ Goto(r, "rotate")
      /\ UNCHANGED <<tokenVars, scenario, factor, rowVars, historyVars>>
      /\ enabled' = [enabled EXCEPT ![req[r].user] = TRUE]
  BY OtherStages DEF EnableOTP, FactorReq
<1>2. PICK n \in Request :
             /\ req' = [req EXCEPT ![r] = n] /\ n.snap = req[r].snap /\ ~Holds(n)
             /\ FactorReq(n) /\ AttemptReq(n) /\ AccessReq(n)
             /\ \A q \in Requests : FactorReq(req'[q]) /\ req'[q].snap = req[q].snap
             /\ \A q \in Requests : req[q].stage = "lock" => req'[q] = req[q]
  BY <1>1, ManageOnward
<1>3. UNCHANGED <<proof, proved, guesses, spent>>
  BY <1>1 DEF historyVars
<1>4. enabled' \in [Users -> BOOLEAN] /\ \A v \in Users : enabled[v] => enabled'[v]
  BY <1>1 DEF Inv, TypeOK
<1>5. FactorInv'
  <2>1. \A q \in Requests : FactorReq(req[q])'
    BY <1>1, <1>2, <1>3 DEF FactorReq
  <2>2. BudgetLocks'
    BY <1>1, <1>2 DEF Inv, FactorInv, BudgetLocks
  <2>3. EnrollmentProved' /\ BackupCodeSingleUse'
    BY <1>1, <1>3 DEF Inv, FactorInv, EnrollmentProved, BackupCodeSingleUse
  <2> QED
    BY <1>1, <1>3, <2>1, <2>2, <2>3 DEF Inv, FactorInv
<1>6. /\ proof' \in [SessionIds -> {"open", "password", "factor"}] /\ spent' \in [Codes -> Nat]
      /\ factor' \in [Users -> FactorRow]
      /\ \A s \in SessionIds : proof'[s] = "password" =>
           proof[s] = "password" /\ enabled'[sessions[s].user]
  BY <1>1, <1>3, <1>4 DEF Inv, TypeOK, AccessInv, RowsOK
<1> QED
  BY <1>1, <1>2, <1>3, <1>4, <1>5, <1>6, FactorStep

\* disable: the user's sign-ins are complete with the password alone from here on.
LEMMA DisableKeeps ==
    ASSUME Inv, NEW r \in Requests, Disable(r)
    PROVE  Inv'
<1>1. /\ req[r].stage = "manage" /\ req[r].user \in Users /\ Goto(r, "forget")
      /\ UNCHANGED <<tokenVars, scenario, rowVars, proved, guesses, spent>>
  BY OtherStages DEF Disable, FactorReq
<1>2. PICK u \in Users : u = req[r].user
  BY <1>1
<1>3. /\ enabled' \in [Users -> BOOLEAN] /\ ~enabled'[u]
      /\ \A v \in Users \ {u} : enabled'[v] = enabled[v]
  BY <1>2 DEF Disable, Inv, TypeOK
<1>4. PICK n \in Request :
             /\ req' = [req EXCEPT ![r] = n] /\ n.snap = req[r].snap /\ ~Holds(n)
             /\ FactorReq(n) /\ AttemptReq(n) /\ AccessReq(n)
             /\ \A q \in Requests : FactorReq(req'[q]) /\ req'[q].snap = req[q].snap
             /\ \A q \in Requests : req[q].stage = "lock" => req'[q] = req[q]
  BY <1>1, ManageOnward
<1>5. PICK row \in FactorRow :
        /\ row = NoFactor /\ row.id = None /\ row.codes = {} /\ row.failed = 0 /\ row.verified = FALSE
  BY NoFactorType
<1>6. /\ factor' \in [Users -> FactorRow] /\ factor'[u] = row
      /\ \A v \in Users \ {u} : factor'[v] = factor[v]
      /\ \A v, w \in Users : v # w =>
           /\ factor'[v].id = None \/ factor'[v].id # factor'[w].id
           /\ factor'[v].codes \cap factor'[w].codes = {}
      /\ \A v \in Users : \A c \in factor'[v].codes : spent'[c] = 0
      /\ BackupCodeSingleUse'
      /\ \A q \in Requests : FactorReq(req[q])'
  <2>1. factor' = [factor EXCEPT ![u] = row]
    BY <1>2, <1>5 DEF Disable
  <2>2. \A q \in Requests : req'[q].snap \in {req[q].snap, NoFactor}
    BY <1>4
  <2>3. /\ row.id \in {None, factor[u].id} /\ \A c \in row.codes : spent[c] = 0
        /\ \A v \in Users \ {u} : row.codes \cap factor[v].codes = {}
    BY <1>5
  <2>4. UNCHANGED <<proved, spent>> /\ \A q \in Requests : FactorReq(req'[q])
    BY <1>1, <1>4
  <2> QED
    BY <2>1, <2>2, <2>3, <2>4, RowReplaced
<1>7. EnrollmentProved'
  BY <1>1, <1>3, <1>5, <1>6 DEF Inv, FactorInv, EnrollmentProved
<1>8. BudgetLocks'
  BY <1>4, <1>5, <1>6, Limits, BudgetFrame
<1>9. FactorInv'
  BY <1>6, <1>7, <1>8 DEF FactorInv
<1>10. /\ proof' \in [SessionIds -> {"open", "password", "factor"}] /\ spent' \in [Codes -> Nat]
       /\ \A s \in SessionIds : proof'[s] = "password" =>
            proof[s] = "password" /\ enabled'[sessions[s].user]
  <2>1. proof' = [s \in SessionIds |-> IF sessions[s].user = u /\ proof[s] = "password"
                                       THEN "open" ELSE proof[s]]
    BY <1>2 DEF Disable
  <2>2. \A s \in SessionIds : proof[s] = "password" => sessions[s].user \in Users /\ enabled[sessions[s].user]
    BY DEF Inv, AccessInv, RowsOK
  <2>3. \A s \in SessionIds : proof[s] \in {"open", "password", "factor"}
    BY DEF Inv, TypeOK
  <2>4. spent' \in [Codes -> Nat]
    BY <1>1 DEF Inv, TypeOK
  <2> QED
    BY <1>3, <2>1, <2>2, <2>3, <2>4
<1> QED
  BY <1>1, <1>3, <1>4, <1>6, <1>9, <1>10, FactorStep

\* The set that was read is replaced by codes nobody has seen.
LEMMA RegenerateKeeps ==
    ASSUME Inv, NEW r \in Requests, RegenerateBackupCodes(r)
    PROVE  Inv'
<1>1. /\ req[r].stage = "reseal" /\ req[r].user \in Users
      /\ UNCHANGED <<tokenVars, scenario, enabled, rowVars, historyVars>>
  BY OtherStages DEF RegenerateBackupCodes, FactorReq
<1>2. PICK u \in Users : u = req[r].user
  BY <1>1
<1>3. CASE Finish(r) /\ UNCHANGED factor
  BY <1>1, <1>3, QuietFinish DEF factorVars
<1>4. ASSUME NEW f \in Draw(FreshFactors), Goto(r, "rotate"),
             factor' = [factor EXCEPT ![u].codes = CodesOf(f)]
      PROVE  Inv'
  <2>1. UNCHANGED <<proof, proved, guesses, spent>>
    BY <1>1 DEF historyVars
  <2>2. /\ f \in FactorIds
        /\ \A v \in Users : factor[v].id # f /\ factor[v].codes \cap CodesOf(f) = {}
        /\ \A c \in CodesOf(f) : spent[c] = 0
    BY FreshFactor
  <2>3. factor[u] \in FactorRow /\ CodesOf(f) \subseteq Codes
    BY <2>2, FactorRowType, CodesType DEF Inv
  <2>4. PICK row \in FactorRow : row = [factor[u] EXCEPT !.codes = CodesOf(f)]
    <3>1. [factor[u] EXCEPT !.codes = CodesOf(f)] \in FactorRow
      BY <2>3 DEF FactorRow
    <3> QED
      BY <3>1
  <2>5. /\ row.id = factor[u].id /\ row.codes = CodesOf(f) /\ row.verified = factor[u].verified
        /\ row.failed = factor[u].failed /\ row.locked = factor[u].locked
    BY <2>3, <2>4 DEF FactorRow
  <2>6. PICK n \in Request :
             /\ req' = [req EXCEPT ![r] = n] /\ n.snap = req[r].snap /\ ~Holds(n)
             /\ FactorReq(n) /\ AttemptReq(n) /\ AccessReq(n)
             /\ \A q \in Requests : FactorReq(req'[q]) /\ req'[q].snap = req[q].snap
             /\ \A q \in Requests : req[q].stage = "lock" => req'[q] = req[q]
    BY <1>1, <1>4, ManageOnward
  <2>7. /\ factor' \in [Users -> FactorRow] /\ factor'[u] = row
        /\ \A v \in Users \ {u} : factor'[v] = factor[v]
        /\ \A v, w \in Users : v # w =>
             /\ factor'[v].id = None \/ factor'[v].id # factor'[w].id
             /\ factor'[v].codes \cap factor'[w].codes = {}
        /\ \A v \in Users : \A c \in factor'[v].codes : spent'[c] = 0
        /\ BackupCodeSingleUse'
        /\ \A q \in Requests : FactorReq(req[q])'
    <3>1. factor' = [factor EXCEPT ![u] = row]
      BY <1>4, <2>4
    <3>2. /\ \A v \in Users \ {u} : row.codes \cap factor[v].codes = {}
          /\ \A c \in row.codes : spent[c] = 0
      BY <2>2, <2>5
    <3>3. \A q \in Requests : req'[q].snap \in {req[q].snap, NoFactor}
      BY <2>6
    <3>4. row.id \in {None, factor[u].id}
      BY <2>5
    <3> QED
      BY <2>1, <2>6, <3>1, <3>2, <3>3, <3>4, RowReplaced
  <2>8. EnrollmentProved'
    BY <1>1, <2>1, <2>5, <2>7 DEF Inv, FactorInv, EnrollmentProved
  <2>9. BudgetLocks'
    BY <2>5, <2>6, <2>7 DEF Inv, FactorInv, BudgetLocks
  <2>10. FactorInv'
    BY <2>7, <2>8, <2>9 DEF FactorInv
  <2>11. /\ proof' \in [SessionIds -> {"open", "password", "factor"}] /\ spent' \in [Codes -> Nat]
         /\ enabled' \in [Users -> BOOLEAN]
         /\ \A s \in SessionIds : proof'[s] = "password" =>
              proof[s] = "password" /\ enabled'[sessions[s].user]
    BY <1>1, <2>1 DEF Inv, TypeOK, AccessInv
  <2> QED
    BY <1>1, <2>1, <2>6, <2>7, <2>10, <2>11, FactorStep
<1> QED
  BY <1>2, <1>3, <1>4 DEF RegenerateBackupCodes


-----------------------------------------------------------------------------
(* Sessions are created, handed out and taken back                         *)

\* What a step on sessions, tokens and devices leaves alone.
SessionFrame ==
    /\ UNCHANGED <<scenario, factorVars, otps, proved, guesses, spent>>
    /\ sessions' \in SessionTables /\ tokens' \in [Tokens -> TokenRow]
    /\ devices' \in [Devices -> DeviceRow]
    /\ proof' \in [SessionIds -> {"open", "password", "factor"}]
    /\ SessionsAge /\ TokensAge
    /\ \A s \in SessionIds : sessions'[s].state # "free" => sessions'[s].user \in Users
    /\ \A s \in SessionIds : proof'[s] = "password" =>
         sessions'[s].state # "free" /\ enabled'[sessions'[s].user]

LEMMA SessionStep ==
    ASSUME Inv, NEW r \in Requests, NEW n \in Request, req' = [req EXCEPT ![r] = n],
           FactorReq(n), AttemptReq(n), ~Holds(n), req[r].stage # "lock", AccessReq(n)',
           SessionFrame, TradeInv', UNCHANGED <<redeem, held, traded, challenge>>
    PROVE  Inv'
<1> USE DEF SessionFrame, factorVars
<1>1. TypeOK'
  <2>1. req' \in [Requests -> Request]
    BY Others DEF Inv
  <2> QED
    BY <2>1 DEF Inv, TypeOK, TokenTypeOK
<1>2. FactorInv'
  <2>1. FactorReq(n)'
    BY DEF FactorReq
  <2> QED
    BY <2>1, FactorFrame
<1>3. AttemptInv'
  BY AttemptFrame
<1>4. AccessInv'
  BY AccessFrame
<1>5. RowsOK'
  BY DEF Inv, RowsOK
<1> QED
  BY <1>1, <1>2, <1>3, <1>4, <1>5 DEF Inv

\* A table in which sessions may have ended.
Aged(tab) ==
    \A s \in SessionIds : /\ tab[s].state = "free" <=> sessions[s].state = "free"
                          /\ tab[s].user = sessions[s].user
                          /\ tab[s].state = "live" => sessions[s].state = "live"

LEMMA RevokeAges ==
    ASSUME TypeOK, NEW S
    PROVE  /\ Revoke(sessions, S) \in SessionTables /\ Aged(Revoke(sessions, S))
           /\ \A s \in SessionIds \cap S : Revoke(sessions, S)[s].state # "live"
<1>1. ASSUME NEW s \in SessionIds
      PROVE  /\ Revoke(sessions, S)[s] \in SessionRow
             /\ Revoke(sessions, S)[s].state = "free" <=> sessions[s].state = "free"
             /\ Revoke(sessions, S)[s].user = sessions[s].user
             /\ Revoke(sessions, S)[s].state = "live" => sessions[s].state = "live"
             /\ s \in S => Revoke(sessions, S)[s].state # "live"
  <2>1. sessions[s] \in SessionRow
    BY DEF TypeOK, TokenTypeOK, SessionTables
  <2>2. Revoke(sessions, S)[s] = IF s \in S /\ sessions[s].state = "live"
                                 THEN [sessions[s] EXCEPT !.state = "revoked"] ELSE sessions[s]
    BY DEF Revoke
  <2> QED
    BY <2>1, <2>2 DEF SessionRow
<1>2. Revoke(sessions, S) = [s \in SessionIds |-> Revoke(sessions, S)[s]]
  BY DEF Revoke
<1> QED
  BY <1>1, <1>2 DEF Aged, SessionTables

LEMMA SameTable ==
    ASSUME TypeOK
    PROVE  sessions \in SessionTables /\ Aged(sessions)
BY DEF TypeOK, TokenTypeOK, Aged

\* A new session, for a user and with a proof that fits the user's flag.
LEMMA SessionAdded ==
    ASSUME Inv, NEW new \in NewSessionId, NEW u \in Users, NEW tab \in SessionTables, Aged(tab),
           sessions' = CreateSession(tab, new, NewSession(u, 0, 1)),
           NEW shown \in {"open", "password", "factor"}, shown = "password" => enabled[u],
           proof' = [proof EXCEPT ![new] = shown],
           UNCHANGED <<tokens, devices, scenario, factorVars, otps, proved, guesses, spent>>
    PROVE  /\ SessionFrame /\ new \in SessionIds
           /\ sessions'[new].state = "live" /\ sessions'[new].user = u /\ proof'[new] = shown
<1> USE DEF Aged
<1>1. new \in SessionIds /\ sessions[new].state = "free" /\ tab[new].state = "free"
  BY Drawn DEF Inv
<1>2. PICK row \in SessionRow : row = NewSession(u, 0, 1) /\ row.state = "live" /\ row.user = u
  BY NewSessionType
<1>3. /\ sessions' \in SessionTables /\ sessions'[new] = row
      /\ \A s \in SessionIds \ {new} : sessions'[s] = tab[s]
  BY <1>1, <1>2 DEF CreateSession, SessionTables
<1>4. /\ proof' \in [SessionIds -> {"open", "password", "factor"}] /\ proof'[new] = shown
      /\ \A s \in SessionIds \ {new} : proof'[s] = proof[s]
  BY <1>1 DEF Inv, TypeOK
<1>5. SessionsAge /\ TokensAge
  BY <1>1, <1>3, <1>4 DEF SessionsAge, TokensAge
<1>6. \A s \in SessionIds : sessions'[s].state # "free" => sessions'[s].user \in Users
  BY <1>2, <1>3 DEF Inv, RowsOK
<1>7. \A s \in SessionIds : proof'[s] = "password" =>
         sessions'[s].state # "free" /\ enabled'[sessions'[s].user]
  <2>1. UNCHANGED enabled
    BY DEF factorVars
  <2> QED
    BY <1>2, <1>3, <1>4, <2>1 DEF Inv, AccessInv
<1>8. tokens' \in [Tokens -> TokenRow] /\ devices' \in [Devices -> DeviceRow]
  BY DEF Inv, TypeOK, TokenTypeOK
<1> QED
  BY <1>1, <1>2, <1>3, <1>4, <1>5, <1>6, <1>7, <1>8 DEF SessionFrame

\* The after-hooks of a sign-in begin with interceptCredentialSignIn, or with the
\* token hook before it.
LEMMA SignInKeeps ==
    ASSUME Inv, NEW r \in Requests, NEW u \in scenario.users, NEW d \in Devices \cup {None},
           SignIn(r, u, d)
    PROVE  Inv'
<1>1. PICK new \in NewSessionId :
        /\ sessions' = CreateSession(sessions, new, NewSession(u, 0, 1))
        /\ NextHook(r, [Idle EXCEPT !.op = "sign-in", !.user = u, !.session = new,
                                    !.cookie = new, !.device = d, !.hooks = HooksOf("sign-in")])
        /\ proof' = [proof EXCEPT ![new] = IF enabled[u] THEN "password" ELSE "open"]
  BY DEF SignIn
<1>2. /\ req[r].stage = "idle" /\ u \in Users /\ new \in SessionIds
      /\ UNCHANGED <<tokens, redeem, held, traded, scenario, factorVars, rowVars, proved, guesses, spent>>
  BY ScenarioType, Drawn DEF SignIn, Inv
<1>3. UNCHANGED <<challenge, otps, devices>>
  BY <1>2 DEF rowVars
<1>4. PICK shown \in {"open", "password", "factor"} :
        /\ shown = IF enabled[u] THEN "password" ELSE "open"
        /\ shown = "password" => enabled[u]
  OBVIOUS
<1>5. /\ SessionFrame /\ sessions'[new].state = "live" /\ sessions'[new].user = u
  <2>1. proof' = [proof EXCEPT ![new] = shown]
    BY <1>1, <1>4
  <2>2. sessions \in SessionTables /\ Aged(sessions)
    BY SameTable DEF Inv
  <2>3. UNCHANGED <<tokens, devices, scenario, factorVars, otps, proved, guesses, spent>>
    BY <1>2, <1>3
  <2>4. sessions' = CreateSession(sessions, new, NewSession(u, 0, 1))
    BY <1>1
  <2> QED
    BY <1>2, <1>4, <2>1, <2>2, <2>3, <2>4, SessionAdded
<1>6. PICK hk \in HooksLeft : hk = scenario.hooks /\ hk # <<>> /\ hk # <<"token">>
  BY ScenarioType DEF HooksLeft, Inv
<1>7. PICK o \in Request : o = [Idle EXCEPT !.op = "sign-in", !.user = u, !.session = new,
                                            !.cookie = new, !.device = d, !.hooks = hk]
  <2>1. hk \in Seq({"token", "factor"})
    <3>1. <<"factor">> \in Seq({"token", "factor"})
      OBVIOUS
    <3>2. <<"token", "factor">> \in Seq({"token", "factor"})
      OBVIOUS
    <3>3. <<"factor", "token">> \in Seq({"token", "factor"})
      OBVIOUS
    <3> QED
      BY <1>6, <3>1, <3>2, <3>3 DEF HooksLeft
  <2>2. [Idle EXCEPT !.op = "sign-in", !.user = u, !.session = new,
                     !.cookie = new, !.device = d, !.hooks = hk] \in Request
    BY <1>2, <2>1, IdleType DEF Request, Ops
  <2> QED
    BY <2>2
<1>8. /\ o.op = "sign-in" /\ o.user = u /\ o.session = new /\ o.cookie = new /\ o.hooks = hk
      /\ o.token = None /\ o.handle = None /\ o.snap = NoFactor
  BY <1>7, IdleType DEF Request
<1>9. NextHook(r, o)
  BY <1>1, <1>6, <1>7 DEF HooksOf
<1>10. PICK n \in Request : req' = [req EXCEPT ![r] = n] /\ Hooked(n, o)
  BY <1>6, <1>8, <1>9, NextHookMoves
<1>11. \/ n.stage = "factor" /\ n.hooks \in {<<>>, <<"token">>}
       \/ n.stage = "token" /\ n.hooks = <<"factor">>
  <2>1. CASE hk = <<"factor">>
    BY <1>8, <1>10, <2>1 DEF Hooked
  <2>2. CASE hk = <<"token", "factor">>
    BY <1>8, <1>10, <2>2 DEF Hooked
  <2>3. CASE hk = <<"factor", "token">>
    BY <1>8, <1>10, <2>3 DEF Hooked
  <2> QED
    BY <1>6, <2>1, <2>2, <2>3 DEF HooksLeft
<1>12. /\ n.op = "sign-in" /\ n.user = u /\ n.session = new /\ n.cookie = new
       /\ n.token = None /\ n.handle = None /\ n.snap = NoFactor
  BY <1>8, <1>10 DEF Hooked
<1>13. FactorReq(n) /\ AttemptReq(n) /\ ~Holds(n)
  BY <1>2, <1>11, <1>12, NoFactorType DEF FactorReq, AttemptReq, Holds, Loaded
<1>14. AccessReq(n)'
  BY <1>2, <1>5, <1>11, <1>12 DEF AccessReq, SignInReq, SignInData, Passed
<1> QED
  BY <1>2, <1>3, <1>5, <1>10, <1>13, <1>14, TradeFrame, SessionStep


LEMMA HooksDiffer == <<>> # <<"factor">> /\ <<"token">> # <<"factor">>
<1>1. <<"token">>[1] = "token" /\ <<"factor">>[1] = "factor"
  OBVIOUS
<1>2. Len(<<"factor">>) = 1
  OBVIOUS
<1>3. Len(<<>>) = 0
  OBVIOUS
<1>4. <<>> # <<"factor">>
  BY <1>2, <1>3
<1> QED
  BY <1>1, <1>4

LEMMA HookedStage ==
    ASSUME NEW n, NEW o, Hooked(n, o)
    PROVE  /\ o.hooks \in {<<>>, <<"token">>} => n.stage \in {"respond", "token"} /\ n.hooks = <<>>
           /\ o.hooks = <<"factor">> => n.stage = "factor" /\ n.hooks = <<>>
<1>1. CASE o.hooks = <<>>
  BY <1>1 DEF Hooked
<1>2. CASE o.hooks = <<"token">>
  BY <1>2 DEF Hooked
<1>3. CASE o.hooks = <<"factor">>
  BY <1>3 DEF Hooked
<1> QED
  BY <1>1, <1>2, <1>3

\* The hook after the token hook, or the response: the token that was attached, if
\* any, opens the session of the response.
LEMMA HookedAccess ==
    ASSUME NEW old \in Request, AccessReq(old)', old.stage = "token",
           NEW o \in Request, o.hooks = old.hooks, o.op = old.op, o.user = old.user,
           o.session = old.session, o.cookie = old.cookie, o.handle = old.handle,
           \/ o.token = old.token
           \/ old.cookie # None /\ tokens'[o.token].state # "free" /\ tokens'[o.token].session = old.cookie,
           NEW n \in Request, Hooked(n, o)
    PROVE  AccessReq(n)'
<1>1. /\ n.op = old.op /\ n.user = old.user /\ n.session = old.session /\ n.cookie = old.cookie
      /\ n.token = o.token /\ n.handle = old.handle
  BY DEF Hooked
<1>2. CASE old.op = "sign-in"
  <2>1. SignInReq(old)'
    BY <1>2 DEF AccessReq
  <2>2. SignInData(n)'
    BY <1>1, <2>1 DEF SignInReq, SignInData
  <2>3. CASE old.hooks = <<"factor">>
    <3>1. n.stage = "factor" /\ n.hooks = <<>>
      BY <2>3, HookedStage
    <3> QED
      BY <1>1, <1>2, <2>2, <3>1 DEF AccessReq, SignInReq, Passed
  <2>4. CASE old.hooks \in {<<>>, <<"token">>}
    <3>1. n.stage \in {"respond", "token"} /\ n.hooks = <<>>
      BY <2>4, HookedStage
    <3>2. old.hooks # <<"factor">>
      BY <2>4, HooksDiffer
    <3>3. Harmless(old.session)'
      BY <2>1, <3>2 DEF SignInReq, Passed
    <3> QED
      BY <1>1, <1>2, <2>2, <3>1, <3>3 DEF AccessReq, SignInReq
  <2> QED
    BY <2>1, <2>3, <2>4 DEF SignInReq
<1>3. CASE old.op # "sign-in"
  <2>1. OtherReq(old)'
    BY <1>3 DEF AccessReq
  <2>2. n.stage \in {"respond", "token"} /\ n.hooks = <<>>
    BY <2>1, HookedStage DEF OtherReq
  <2>3. OtherData(n)'
    BY <1>1, <2>1 DEF OtherReq, OtherData, HarmlessToken
  <2> QED
    BY <1>1, <1>3, <2>2, <2>3 DEF AccessReq, OtherReq
<1> QED
  BY <1>2, <1>3

LEMMA HooksKnown ==
    ASSUME Inv, NEW r \in Requests, req[r].stage # "idle"
    PROVE  req[r].hooks \in HooksLeft
BY DEF Inv, AccessInv, AccessReq, SignInReq, OtherReq, HooksLeft

\* A request between its hooks touches neither a row nor an attempt.
LEMMA HookedOK ==
    ASSUME Inv, NEW r \in Requests, req[r].stage # "idle",
           NEW n, n.user = req[r].user, n.snap = req[r].snap,
           n.stage \in {"respond", "token", "factor", "trust"}
    PROVE  FactorReq(n) /\ AttemptReq(n) /\ ~Holds(n)
BY OtherStages DEF FactorReq, AttemptReq, Holds, Loaded

LEMMA HookedStages ==
    ASSUME NEW n, NEW o, o.hooks \in HooksLeft, Hooked(n, o)
    PROVE  n.stage \in {"respond", "token", "factor"}
<1>1. CASE o.hooks = <<"token", "factor">>
  BY <1>1 DEF Hooked
<1>2. CASE o.hooks = <<"factor", "token">>
  BY <1>2 DEF Hooked
<1> QED
  BY <1>1, <1>2, HookedStage DEF HooksLeft

\* attachHeader seals the session of the response and no other.
LEMMA AttachHeaderKeeps ==
    ASSUME Inv, NEW r \in Requests, AttachHeader(r)
    PROVE  Inv'
<1>1. /\ req[r].stage = "token"
      /\ UNCHANGED <<sessions, redeem, held, traded, scenario, factorVars, rowVars, historyVars>>
  BY DEF AttachHeader
<1>2. PICK old \in Request : old = req[r] /\ AccessReq(old) /\ old.hooks \in HooksLeft
  BY <1>1, OtherStages, HooksKnown
<1>3. ASSUME NEW t \in Tokens, Issue(t, old.cookie), Live(old.cookie),
             NextHook(r, [old EXCEPT !.token = t])
      PROVE  Inv'
  <2>1. tokens[t].state = "free"
    BY <1>3, DrawUnused DEF Issue
  <2>2. /\ tokens' \in [Tokens -> TokenRow] /\ tokens'[t].state = "stored"
        /\ tokens'[t].session = old.cookie
        /\ \A k \in Tokens \ {t} : tokens'[k] = tokens[k]
    BY <1>2, <1>3 DEF Issue, Inv, TypeOK, TokenTypeOK, TokenRow, Request
  <2>3. UNCHANGED <<proof, proved, guesses, spent, challenge, otps, devices>>
    BY <1>1 DEF rowVars, historyVars
  <2>4. SessionsAge /\ TokensAge
    BY <1>1, <2>1, <2>2, <2>3 DEF SessionsAge, TokensAge
  <2>5. SessionFrame
    <3>1. UNCHANGED enabled
      BY <1>1 DEF factorVars
    <3> QED
      BY <1>1, <2>2, <2>3, <2>4, <3>1 DEF SessionFrame, Inv, TypeOK, TokenTypeOK, RowsOK, AccessInv
  <2>6. TradeInv'
    BY <1>1, <2>1, <2>2 DEF Inv, TradeInv
  <2>7. PICK o \in Request : o = [old EXCEPT !.token = t]
    <3>1. [old EXCEPT !.token = t] \in Request
      BY DEF Request
    <3> QED
      BY <3>1
  <2>8. /\ o.hooks = old.hooks /\ o.op = old.op /\ o.user = old.user /\ o.session = old.session
        /\ o.cookie = old.cookie /\ o.handle = old.handle /\ o.token = t /\ o.snap = old.snap
    BY <2>7 DEF Request
  <2>9. PICK n \in Request : req' = [req EXCEPT ![r] = n] /\ Hooked(n, o)
    BY <1>2, <1>3, <2>7, <2>8, NextHookMoves
  <2>10. AccessReq(old)' /\ old.cookie # None
    BY <1>2, <1>3, <2>4, AccessReqStays, NoneDiffers DEF Live
  <2>11. old.cookie # None /\ tokens'[o.token].state # "free" /\ tokens'[o.token].session = old.cookie
    BY <2>2, <2>8, <2>10
  <2>12. AccessReq(n)'
    BY <1>1, <1>2, <2>8, <2>9, <2>10, <2>11, HookedAccess
  <2>13. n.stage \in {"respond", "token", "factor"}
    BY <1>2, <2>8, <2>9, HookedStages
  <2>14. FactorReq(n) /\ AttemptReq(n) /\ ~Holds(n)
    BY <1>1, <1>2, <2>8, <2>9, <2>13, HookedOK DEF Hooked
  <2> QED
    BY <1>1, <2>3, <2>5, <2>6, <2>9, <2>12, <2>14, SessionStep
<1>4. ASSUME NextHook(r, old), UNCHANGED tokens
      PROVE  Inv'
  <2>1. PICK n \in Request : req' = [req EXCEPT ![r] = n] /\ Hooked(n, old)
    BY <1>2, <1>4, NextHookMoves
  <2>2. UNCHANGED <<proof, challenge>>
    BY <1>1 DEF rowVars, historyVars
  <2>3. SessionsAge /\ TokensAge
    BY <1>1, <1>4, <2>2, NothingAges
  <2>4. AccessReq(n)'
    BY <1>1, <1>2, <2>1, <2>3, AccessReqStays, HookedAccess
  <2>5. AccessReq(n)
    BY <1>1, <1>4, <2>2, <2>4 DEF AccessReq, SignInReq, SignInData, OtherReq, OtherData, Passed,
                                  Harmless, HarmlessToken
  <2>6. n.stage \in {"respond", "token", "factor"}
    BY <1>2, <2>1, HookedStages
  <2>7. FactorReq(n) /\ AttemptReq(n) /\ ~Holds(n)
    BY <1>1, <1>2, <2>1, <2>6, HookedOK DEF Hooked
  <2>8. UNCHANGED tokenVars
    BY <1>1, <1>4 DEF tokenVars
  <2> QED
    BY <1>1, <2>1, <2>5, <2>7, <2>8, OtherRows, QuietKeeps
<1> QED
  BY <1>2, <1>3, <1>4 DEF AttachHeader, ResumeSession


\* commitPluginResponse: what a response carries is harmless.
LEMMA DeliverKeeps ==
    ASSUME Inv, NEW r \in Requests, Deliver(r)
    PROVE  Inv'
<1> USE DEF factorVars, rowVars, historyVars
<1>1. /\ req[r].stage = "respond" /\ req' = [req EXCEPT ![r] = Idle]
      /\ UNCHANGED <<sessions, tokens, redeem, traded, scenario, factorVars, rowVars, historyVars>>
      /\ held' = held \cup ({req[r].cookie, req[r].token, req[r].handle, req[r].device} \ {None})
  BY DEF Deliver, Finish
<1>2. /\ req[r].cookie \in SessionIds \cup {None} /\ req[r].token \in Tokens \cup {None}
      /\ req[r].handle \in Handles \cup {None} /\ req[r].device \in Devices \cup {None}
  BY OtherStages DEF Request
<1>3. /\ req[r].cookie # None => Harmless(req[r].cookie)
      /\ req[r].token # None => HarmlessToken(req[r].token)
  <2>1. CASE req[r].op = "sign-in"
    <3>1. SignInReq(req[r])
      BY <1>1, <2>1, OtherStages DEF AccessReq
    <3>2. Harmless(req[r].session) /\ SignInData(req[r])
      BY <1>1, <3>1 DEF SignInReq, Passed
    <3> QED
      BY <3>2 DEF SignInData, HarmlessToken
  <2>2. CASE req[r].op # "sign-in"
    BY <1>1, <2>2, OtherStages DEF AccessReq, OtherReq, OtherData
  <2> QED
    BY <2>1, <2>2
<1>4. TypeOK'
  <2>1. req' \in [Requests -> Request]
    BY <1>1, IdleType, Others DEF Inv
  <2>2. held' \subseteq SessionIds \cup Tokens \cup Handles \cup Devices
    BY <1>1, <1>2 DEF Inv, TypeOK
  <2> QED
    BY <1>1, <2>1, <2>2 DEF Inv, TypeOK, TokenTypeOK
<1>5. FactorInv'
  <2>1. FactorReq(Idle)'
    BY IdleType, NoFactorType DEF FactorReq, Loaded
  <2> QED
    BY <1>1, <2>1, IdleType, FactorFrame
<1>6. AttemptInv'
  BY <1>1, IdleType, IdleOK, AttemptFrame
<1>7. AccessInv'
  <2>1. \A s \in held' \cap SessionIds : Harmless(s)'
    <3>1. \A s \in held' \cap SessionIds : s \in held \/ (s = req[r].cookie /\ s # None)
      BY <1>1, <1>2, ValuesAssumption, NoneDiffers
    <3>2. \A s \in held' \cap SessionIds : Harmless(s)
      BY <1>3, <3>1 DEF Inv, AccessInv
    <3> QED
      BY <1>1, <3>2 DEF Harmless
  <2>2. \A t \in held' \cap Tokens : HarmlessToken(t)'
    <3>1. \A t \in held' \cap Tokens : t \in held \/ (t = req[r].token /\ t # None)
      BY <1>1, <1>2, ValuesAssumption, NoneDiffers
    <3>2. \A t \in held' \cap Tokens : HarmlessToken(t)
      BY <1>3, <3>1 DEF Inv, AccessInv
    <3> QED
      BY <1>1, <3>2 DEF HarmlessToken, Harmless
  <2>3. req'[r] = Idle /\ \A q \in Requests \ {r} : req'[q] = req[q]
    BY <1>1, IdleType, Others DEF Inv
  <2>4. ASSUME NEW q \in Requests PROVE AccessReq(req[q])'
    <3>1. CASE q = r
      BY <2>3, <3>1, IdleType DEF AccessReq
    <3>2. CASE q # r
      BY <1>1, <2>3, <3>2 DEF Inv, AccessInv, AccessReq, SignInReq, SignInData, OtherReq,
                              OtherData, Passed, Harmless, HarmlessToken
    <3> QED
      BY <3>1, <3>2
  <2>5. \A q \in Requests : redeem'[q] # None => Harmless(redeem[q])'
    BY <1>1 DEF Inv, AccessInv, Harmless
  <2>6. \A s \in SessionIds : proof'[s] = "password" =>
          sessions'[s].state # "free" /\ enabled'[sessions'[s].user]
    BY <1>1 DEF Inv, AccessInv
  <2> QED
    BY <2>1, <2>2, <2>4, <2>5, <2>6 DEF AccessInv
<1>8. RowsOK' /\ TradeInv'
  BY <1>1, TradeFrame DEF Inv, RowsOK
<1> QED
  BY <1>4, <1>5, <1>6, <1>7, <1>8 DEF Inv

\* The stages of a sign-in that interceptCredentialSignIn passes through.
LEMMA InterceptedSignIn ==
    ASSUME Inv, NEW r \in Requests,
           req[r].stage \in {"factor", "trusted", "challenge", "retrust"}
    PROVE  /\ req[r].op = "sign-in" /\ SignInReq(req[r]) /\ SignInData(req[r])
           /\ req[r].hooks \in {<<>>, <<"token">>} /\ req[r] \in Request
           /\ req[r].user \in Users /\ req[r].session \in SessionIds
           /\ req[r].stage = "retrust" => Harmless(req[r].session)
BY OtherStages DEF AccessReq, SignInReq, SignInData, OtherReq, FactorReq, Passed

\* interceptCredentialSignIn goes on to its next step.
LEMMA InterceptMoves ==
    ASSUME Inv, NEW r \in Requests, req[r].stage \in {"factor", "trusted"},
           NEW st \in {"trusted", "challenge"}, Goto(r, st)
    PROVE  \E n \in Request : /\ req' = [req EXCEPT ![r] = n]
                              /\ FactorReq(n) /\ AttemptReq(n) /\ AccessReq(n) /\ ~Holds(n)
<1>1. PICK n \in Request : req' = [req EXCEPT ![r] = n] /\ n.stage = st /\ Moved(n, req[r])
  BY GotoMoves DEF Inv, Stages
<1>2. FactorReq(n) /\ AttemptReq(n) /\ ~Holds(n)
  BY <1>1, OtherStages DEF FactorReq, AttemptReq, Holds, Moved, Loaded
<1>3. AccessReq(n)
  BY <1>1, InterceptedSignIn DEF AccessReq, SignInReq, SignInData, Moved, Passed
<1> QED
  BY <1>1, <1>2, <1>3

\* A user without the flag has shown everything with the password.
LEMMA GateKeeps ==
    ASSUME Inv, NEW r \in Requests, Gate(r)
    PROVE  Inv'
<1>1. /\ req[r].stage = "factor"
      /\ UNCHANGED <<tokenVars, scenario, factorVars, rowVars, historyVars>>
  BY DEF Gate
<1>2. CASE enabled[req[r].user]
  <2>1. PICK n \in Request : /\ req' = [req EXCEPT ![r] = n]
                             /\ FactorReq(n) /\ AttemptReq(n) /\ AccessReq(n) /\ ~Holds(n)
    BY <1>1, <1>2, InterceptMoves DEF Gate
  <2> QED
    BY <1>1, <2>1, OtherRows, QuietKeeps
<1>3. CASE ~enabled[req[r].user]
  <2>1. PICK o \in Request : o = [req[r] EXCEPT !.device = None]
    <3>1. req[r] \in Request
      BY OtherStages
    <3>2. [req[r] EXCEPT !.device = None] \in Request
      BY <3>1 DEF Request
    <3> QED
      BY <3>2
  <2>2. /\ o.hooks = req[r].hooks /\ o.op = req[r].op /\ o.user = req[r].user
        /\ o.session = req[r].session /\ o.cookie = req[r].cookie /\ o.handle = req[r].handle
        /\ o.token = req[r].token /\ o.snap = req[r].snap
    BY <2>1, OtherStages DEF Request
  <2>3. PICK n \in Request : req' = [req EXCEPT ![r] = n] /\ Hooked(n, o)
    <3>1. o.hooks \in HooksLeft
      BY <1>1, <2>2, InterceptedSignIn DEF HooksLeft
    <3> QED
      BY <1>3, <2>1, <3>1, NextHookMoves DEF Gate
  <2>4. n.stage \in {"respond", "token"} /\ n.hooks = <<>>
    BY <1>1, <2>2, <2>3, InterceptedSignIn, HookedStage
  <2>5. /\ n.op = "sign-in" /\ n.user = req[r].user /\ n.session = req[r].session
        /\ n.cookie = req[r].cookie /\ n.token = req[r].token /\ n.snap = req[r].snap
    BY <1>1, <2>2, <2>3, InterceptedSignIn DEF Hooked
  <2>6. Harmless(req[r].session)
    BY <1>1, <1>3, InterceptedSignIn DEF SignInData, Harmless, Inv, AccessInv
  <2>7. AccessReq(n)
    BY <1>1, <2>4, <2>5, <2>6, InterceptedSignIn DEF AccessReq, SignInReq, SignInData
  <2>8. FactorReq(n) /\ AttemptReq(n) /\ ~Holds(n)
    BY <1>1, <2>4, <2>5, HookedOK
  <2> QED
    BY <1>1, <2>3, <2>7, <2>8, OtherRows, QuietKeeps
<1> QED
  BY <1>2, <1>3

\* acceptTrustedDevice: a device of this user stands for the second factor.
LEMMA AcceptTrustedDeviceKeeps ==
    ASSUME Inv, NEW r \in Requests, AcceptTrustedDevice(r)
    PROVE  Inv'
<1>1. /\ req[r].stage = "trusted" /\ req[r].user \in Users /\ req[r].session \in SessionIds
      /\ UNCHANGED <<tokenVars, scenario, factorVars, challenge, otps, proved, guesses, spent>>
  BY InterceptedSignIn DEF AcceptTrustedDevice
<1>2. devices' \in [Devices -> DeviceRow] /\ otps' \in [Otps -> OtpRow]
  <2>1. ConsumeDevice(req[r].device) => devices' \in [Devices -> DeviceRow]
    BY DEF ConsumeDevice, Inv, TypeOK, DeviceRow
  <2>2. UNCHANGED devices => devices' \in [Devices -> DeviceRow]
    BY DEF Inv, TypeOK
  <2>3. otps' \in [Otps -> OtpRow]
    BY <1>1 DEF Inv, TypeOK
  <2> QED
    BY <2>1, <2>2, <2>3 DEF AcceptTrustedDevice
<1>3. CASE Finish(r) /\ UNCHANGED <<devices, proof>>
  BY <1>1, <1>3, QuietFinish DEF rowVars, historyVars
<1>4. CASE Goto(r, "challenge") /\ UNCHANGED proof
  <2>1. PICK n \in Request : /\ req' = [req EXCEPT ![r] = n]
                             /\ FactorReq(n) /\ AttemptReq(n) /\ AccessReq(n) /\ ~Holds(n)
    BY <1>1, <1>4, InterceptMoves
  <2>2. UNCHANGED historyVars
    BY <1>1, <1>4 DEF historyVars
  <2> QED
    BY <1>1, <1>2, <2>1, <2>2, QuietKeeps
<1>5. ASSUME Goto(r, "retrust"), DeviceAccepted(req[r].device, req[r].user),
             proof' = [proof EXCEPT ![req[r].session] =
                          IF devices[req[r].device].user = req[r].user THEN "factor" ELSE @]
      PROVE  Inv'
  <2>1. PICK i \in SessionIds : i = req[r].session /\ sessions[i].state # "free"
    BY <1>1, InterceptedSignIn DEF SignInData
  <2>2. proof' = [proof EXCEPT ![i] = "factor"]
    BY <1>5, <2>1 DEF DeviceAccepted
  <2>3. /\ proof' \in [SessionIds -> {"open", "password", "factor"}] /\ proof'[i] = "factor"
        /\ \A s \in SessionIds \ {i} : proof'[s] = proof[s]
    BY <2>2 DEF Inv, TypeOK
  <2>4. SessionsAge /\ TokensAge
    BY <1>1, <2>3 DEF tokenVars, SessionsAge, TokensAge
  <2>5. SessionFrame
    <3>1. UNCHANGED <<sessions, tokens, enabled>>
      BY <1>1 DEF tokenVars, factorVars
    <3> QED
      BY <1>1, <1>2, <2>3, <2>4, <3>1 DEF SessionFrame, Inv, TypeOK, TokenTypeOK, RowsOK, AccessInv
  <2>6. PICK n \in Request : req' = [req EXCEPT ![r] = n] /\ n.stage = "retrust" /\ Moved(n, req[r])
    BY <1>5, GotoMoves DEF Inv, Stages
  <2>7. FactorReq(n) /\ AttemptReq(n) /\ ~Holds(n)
    BY <1>1, <2>6, OtherStages DEF FactorReq, AttemptReq, Holds, Moved, Loaded
  <2>8. UNCHANGED <<sessions, tokens, redeem, held, traded>>
    BY <1>1 DEF tokenVars
  <2>9. AccessReq(n)'
    <3>1. Harmless(i)'
      BY <2>1, <2>3, <2>8 DEF Harmless
    <3>2. /\ n.op = "sign-in" /\ n.session = i /\ n.cookie = req[r].cookie /\ n.token = req[r].token
          /\ n.user = req[r].user /\ n.hooks = req[r].hooks
      BY <1>1, <2>1, <2>6, InterceptedSignIn DEF Moved
    <3>3. SignInData(n)'
      BY <1>1, <2>1, <2>8, <3>2, InterceptedSignIn DEF SignInData
    <3> QED
      BY <1>1, <2>6, <3>1, <3>2, <3>3, InterceptedSignIn DEF AccessReq, SignInReq, Harmless
  <2> QED
    BY <1>1, <2>5, <2>6, <2>7, <2>8, <2>9, TradeFrame, SessionStep
<1> QED
  BY <1>3, <1>4, <1>5 DEF AcceptTrustedDevice


\* A trusted device is added to a response that may pass.
LEMMA CreateTrustedDeviceKeeps ==
    ASSUME Inv, NEW r \in Requests, CreateTrustedDevice(r)
    PROVE  Inv'
<1>1. PICK d \in Devices :
        /\ devices' = [devices EXCEPT ![d] = [state |-> "trusted", user |-> req[r].user]]
        /\ NextHook(r, [req[r] EXCEPT !.device = d])
  BY DrawUnused DEF CreateTrustedDevice
<1>2. /\ req[r].stage \in {"retrust", "trust"} /\ req[r] \in Request
      /\ UNCHANGED <<tokenVars, scenario, factorVars, challenge, otps, historyVars>>
  BY OtherStages DEF CreateTrustedDevice
<1>3. devices' \in [Devices -> DeviceRow] /\ otps' \in [Otps -> OtpRow]
  <2>1. req[r].user \in Users \cup {None}
    BY <1>2 DEF Request
  <2> QED
    BY <1>1, <1>2, <2>1 DEF Inv, TypeOK, DeviceRow
<1>4. PICK o \in Request : o = [req[r] EXCEPT !.device = d]
  <2>1. req[r] \in Request
    BY <1>2
  <2>2. [req[r] EXCEPT !.device = d] \in Request
    BY <2>1 DEF Request
  <2> QED
    BY <2>2
<1>5. /\ o.hooks = req[r].hooks /\ o.op = req[r].op /\ o.user = req[r].user
      /\ o.session = req[r].session /\ o.cookie = req[r].cookie /\ o.handle = req[r].handle
      /\ o.token = req[r].token /\ o.snap = req[r].snap
  BY <1>2, <1>4 DEF Request
<1>6. o.hooks \in {<<>>, <<"token">>}
  BY <1>2, <1>5, OtherStages DEF AccessReq, SignInReq, OtherReq
<1>7. PICK n \in Request : req' = [req EXCEPT ![r] = n] /\ Hooked(n, o)
  BY <1>1, <1>4, <1>6, NextHookMoves DEF HooksLeft
<1>8. n.stage \in {"respond", "token"} /\ n.hooks = <<>>
  BY <1>6, <1>7, HookedStage
<1>9. /\ n.op = req[r].op /\ n.user = req[r].user /\ n.session = req[r].session
      /\ n.cookie = req[r].cookie /\ n.token = req[r].token /\ n.handle = req[r].handle
      /\ n.snap = req[r].snap
  BY <1>5, <1>7 DEF Hooked
<1>10. AccessReq(n)
  <2>1. CASE req[r].op = "sign-in"
    <3>1. SignInReq(req[r])
      BY <1>2, <2>1, OtherStages DEF AccessReq
    <3>2. SignInData(req[r]) /\ Harmless(req[r].session)
      BY <1>2, <3>1 DEF SignInReq, Passed
    <3> QED
      BY <1>8, <1>9, <2>1, <3>2 DEF AccessReq, SignInReq, SignInData
  <2>2. CASE req[r].op # "sign-in"
    BY <1>2, <1>8, <1>9, <2>2, OtherStages DEF AccessReq, OtherReq, OtherData
  <2> QED
    BY <2>1, <2>2
<1>11. FactorReq(n) /\ AttemptReq(n) /\ ~Holds(n)
  BY <1>2, <1>8, <1>9, HookedOK
<1> QED
  BY <1>2, <1>3, <1>7, <1>10, <1>11, QuietKeeps

\* The provisional session is revoked in the transaction that creates the
\* challenge, so the response may pass: its session is dead.
LEMMA BeginChallengeKeeps ==
    ASSUME Inv, NEW r \in Requests, BeginChallenge(r)
    PROVE  Inv'
<1> USE DEF factorVars, historyVars
<1>1. /\ req[r].stage = "challenge" /\ req[r] \in Request
      /\ UNCHANGED <<tokens, redeem, held, traded, scenario, factorVars, otps, devices, historyVars>>
  BY OtherStages DEF BeginChallenge
<1>2. CASE Finish(r) /\ UNCHANGED <<sessions, challenge>>
  BY <1>1, <1>2, QuietFinish DEF tokenVars, rowVars
<1>3. ASSUME NEW h \in Draw({x \in scenario.handles : challenge[x].state = "free"}), TakeBackSession(r),
             challenge' = [challenge EXCEPT ![h] =
                 [state |-> "pending", user |-> req[r].user, armed |-> TRUE,
                  attempts |-> 0, expired |-> FALSE]],
             NextHook(r, [req[r] EXCEPT !.cookie = None, !.device = None, !.handle = h])
      PROVE  Inv'
  <2>1. h \in Handles /\ challenge[h].state = "free"
    BY DrawUnused, ScenarioType DEF Inv
  <2>2. PICK u \in Users : u = req[r].user
    BY <1>1, InterceptedSignIn
  <2>3. /\ challenge' \in [Handles -> ChallengeRow] /\ challenge'[h].state = "pending"
        /\ challenge'[h].user = u /\ challenge'[h].armed = TRUE /\ challenge'[h].attempts = 0
        /\ \A g \in Handles \ {h} : challenge'[g] = challenge[g]
    <3>1. [state |-> "pending", user |-> u, armed |-> TRUE, attempts |-> 0, expired |-> FALSE]
             \in ChallengeRow
      BY DEF ChallengeRow
    <3> QED
      BY <1>3, <2>1, <2>2, <3>1 DEF Inv, TypeOK
  <2>4. PICK i \in SessionIds : i = req[r].session /\ sessions[i].state # "free" /\ sessions[i].user = u
    BY <1>1, <2>2, InterceptedSignIn DEF SignInData
  <2>5. PICK tab \in SessionTables : tab = sessions' /\ Aged(tab) /\ tab[i].state # "live"
    <3>1. sessions' = Revoke(sessions, {i})
      BY <1>3, <2>4 DEF TakeBackSession, RevokeSession
    <3>2. TypeOK
      BY DEF Inv
    <3>3. /\ Revoke(sessions, {i}) \in SessionTables /\ Aged(Revoke(sessions, {i}))
          /\ \A s \in SessionIds \cap {i} : Revoke(sessions, {i})[s].state # "live"
      BY <3>2, RevokeAges
    <3> QED
      BY <3>1, <3>3
  <2>6. /\ \A s \in SessionIds : /\ sessions'[s].state = "free" <=> sessions[s].state = "free"
                                 /\ sessions'[s].user = sessions[s].user
                                 /\ sessions'[s].state = "live" => sessions[s].state = "live"
        /\ sessions'[i].state # "live" /\ sessions' \in SessionTables
    BY <2>5 DEF Aged
  <2>7. SessionsAge /\ TokensAge
    BY <1>1, <2>6 DEF SessionsAge, TokensAge
  <2>8. PICK o \in Request : o = [req[r] EXCEPT !.cookie = None, !.device = None, !.handle = h]
    <3>1. req[r] \in Request
      BY <1>1
    <3>2. [req[r] EXCEPT !.cookie = None, !.device = None, !.handle = h] \in Request
      BY <2>1, <3>1 DEF Request
    <3> QED
      BY <3>2
  <2>9. /\ o.hooks = req[r].hooks /\ o.op = req[r].op /\ o.user = req[r].user
        /\ o.session = req[r].session /\ o.cookie = None /\ o.handle = h
        /\ o.token = req[r].token /\ o.snap = req[r].snap
    BY <1>1, <2>8 DEF Request
  <2>10. o.hooks \in {<<>>, <<"token">>} /\ o.op = "sign-in"
    BY <1>1, <2>9, InterceptedSignIn
  <2>11. PICK n \in Request : req' = [req EXCEPT ![r] = n] /\ Hooked(n, o)
    BY <1>3, <2>8, <2>10, NextHookMoves DEF HooksLeft
  <2>12. n.stage \in {"respond", "token"} /\ n.hooks = <<>>
    BY <2>10, <2>11, HookedStage
  <2>13. /\ n.op = "sign-in" /\ n.user = u /\ n.session = i /\ n.cookie = None
         /\ n.token = req[r].token /\ n.handle = h /\ n.snap = req[r].snap
    BY <2>2, <2>4, <2>9, <2>10, <2>11 DEF Hooked
  <2>14. FactorReq(n) /\ AttemptReq(n) /\ ~Holds(n)
    BY <1>1, <2>2, <2>12, <2>13, HookedOK
  <2>15. AccessReq(n)'
    <3>1. Harmless(i)'
      BY <2>4, <2>6 DEF Harmless
    <3>2. SignInData(n)'
      BY <1>1, <2>4, <2>6, <2>13, InterceptedSignIn DEF SignInData
    <3> QED
      BY <2>12, <2>13, <3>1, <3>2 DEF AccessReq, SignInReq, Harmless
  <2>16. AttemptInv'
    <3>1. AttemptReq(n)'
      BY <2>12 DEF AttemptReq, Holds
    <3>2. \A q \in Requests \ {r} : Holds(req[q]) => req[q].handle # h
      BY <2>1, OtherStages DEF AttemptReq
    <3>3. guesses'[h] = 0 /\ guesses' = guesses
      BY <1>1, <2>1 DEF Inv, AttemptInv
    <3>4. /\ challenge'[h].state # "free" /\ guesses'[h] <= ChallengeMaxAttempts
          /\ challenge'[h].armed =>
               challenge'[h].attempts = guesses'[h] /\ guesses'[h] < ChallengeMaxAttempts
      BY <2>3, <3>3, Limits
    <3>5. \A k \in Handles \ {h} : challenge'[k] = challenge[k] /\ guesses'[k] = guesses[k]
      BY <2>3, <3>3
    <3> QED
      BY <2>1, <2>11, <2>14, <3>1, <3>2, <3>4, <3>5, OneChallenge
  <2>17. TypeOK'
    <3>1. req' \in [Requests -> Request]
      BY <2>11, Others DEF Inv
    <3> QED
      BY <1>1, <2>3, <2>6, <3>1 DEF Inv, TypeOK, TokenTypeOK
  <2>18. FactorInv'
    <3>1. FactorReq(n)'
      BY <1>1, <2>14 DEF FactorReq
    <3> QED
      BY <1>1, <2>11, <3>1, FactorFrame
  <2>19. AccessInv'
    <3>1. \A s \in SessionIds : proof'[s] = "password" =>
            sessions'[s].state # "free" /\ enabled'[sessions'[s].user]
      BY <1>1, <2>6 DEF Inv, AccessInv
    <3> QED
      BY <1>1, <2>7, <2>11, <2>15, <3>1, AccessFrame
  <2>20. RowsOK' /\ TradeInv'
    BY <1>1, <2>3, <2>6, TradeFrame DEF Inv, RowsOK
  <2> QED
    BY <2>16, <2>17, <2>18, <2>19, <2>20 DEF Inv
<1> QED
  BY <1>2, <1>3 DEF BeginChallenge

-----------------------------------------------------------------------------
(* A verified request gets a session                                       *)

LEMMA HooksOfOther ==
    ASSUME TypeOK, NEW op, op # "sign-in"
    PROVE  HooksOf(op) \in {<<>>, <<"token">>}
BY DEF HooksOf

\* The response o of a request other than a sign-in carries the session new.
LEMMA RespondType ==
    ASSUME Inv, NEW r \in Requests, req[r].op # "sign-in", NEW new \in SessionIds
    PROVE  \E o \in Request :
             /\ o = Respond(r, new) /\ o.hooks \in {<<>>, <<"token">>} /\ o.cookie = new
             /\ o.op = req[r].op /\ o.user = req[r].user /\ o.session = req[r].session
             /\ o.handle = req[r].handle /\ o.token = req[r].token /\ o.snap = req[r].snap
<1>1. req[r] \in Request
  BY OtherStages
<1>2. PICK hk \in {<<>>, <<"token">>} : hk = HooksOf(req[r].op)
  BY HooksOfOther DEF Inv
<1>3. hk \in Seq({"token", "factor"})
  <2>1. <<>> \in Seq({"token", "factor"})
    OBVIOUS
  <2>2. <<"token">> \in Seq({"token", "factor"})
    OBVIOUS
  <2> QED
    BY <2>1, <2>2
<1> DEFINE o == [req[r] EXCEPT !.cookie = new, !.hooks = hk]
<1>4. o \in Request
  BY <1>1, <1>3 DEF Request
<1>5. /\ o.hooks = hk /\ o.cookie = new
      /\ o.op = req[r].op /\ o.user = req[r].user /\ o.session = req[r].session
      /\ o.handle = req[r].handle /\ o.token = req[r].token /\ o.snap = req[r].snap
  BY <1>1 DEF Request
<1>6. o = Respond(r, new)
  BY <1>2 DEF Respond
<1> QED
  BY <1>4, <1>5, <1>6

\* The request of a verification or of the management answers with a new session
\* that has shown more than the password.
LEMMA AnswerKeeps ==
    ASSUME Inv, NEW r \in Requests, req[r].stage \in {"issue", "rotate"}, NEW new \in SessionIds,
           SessionFrame, Harmless(new)', UNCHANGED <<redeem, held, traded, tokens, challenge>>,
           NextHook(r, Respond(r, new))
             \/ req' = [req EXCEPT ![r] = [Respond(r, new) EXCEPT !.stage = "trust"]]
    PROVE  Inv'
<1>1. PICK old \in Request : old = req[r] /\ old.op # "sign-in" /\ OtherReq(old)
  BY OtherStages, OpKnown
<1>2. AccessReq(old)'
  BY <1>1, AccessReqStays DEF AccessReq, SessionFrame
<1>3. OtherReq(old)'
  BY <1>1, <1>2 DEF AccessReq
<1>4. PICK o \in Request :
        /\ o = Respond(r, new) /\ o.hooks \in {<<>>, <<"token">>} /\ o.cookie = new
        /\ o.op = old.op /\ o.user = old.user /\ o.session = old.session
        /\ o.handle = old.handle /\ o.token = old.token /\ o.snap = old.snap
  BY <1>1, RespondType
<1>5. PICK n \in Request :
        /\ req' = [req EXCEPT ![r] = n] /\ n.stage \in {"respond", "token", "trust"}
        /\ n.hooks \in {<<>>, <<"token">>} /\ n.cookie = new /\ n.op = old.op /\ n.user = old.user
        /\ n.session = old.session /\ n.handle = old.handle /\ n.token = old.token /\ n.snap = old.snap
  <2>1. CASE NextHook(r, Respond(r, new))
    <3>1. PICK n \in Request : req' = [req EXCEPT ![r] = n] /\ Hooked(n, o)
      BY <1>4, <2>1, NextHookMoves DEF HooksLeft
    <3>2. n.stage \in {"respond", "token"} /\ n.hooks = <<>>
      BY <1>4, <3>1, HookedStage
    <3>3. /\ n.cookie = new /\ n.op = old.op /\ n.user = old.user /\ n.session = old.session
          /\ n.handle = old.handle /\ n.token = old.token /\ n.snap = old.snap
      BY <1>4, <3>1 DEF Hooked
    <3> QED
      BY <3>1, <3>2, <3>3
  <2>2. CASE req' = [req EXCEPT ![r] = [Respond(r, new) EXCEPT !.stage = "trust"]]
    <3> DEFINE n == [o EXCEPT !.stage = "trust"]
    <3>1. n \in Request
      BY DEF Request, Stages
    <3>2. /\ n.stage = "trust" /\ n.hooks = o.hooks /\ n.cookie = o.cookie /\ n.op = o.op
          /\ n.user = o.user /\ n.session = o.session /\ n.handle = o.handle /\ n.token = o.token
          /\ n.snap = o.snap
      BY DEF Request
    <3> QED
      BY <1>4, <2>2, <3>1, <3>2
  <2> QED
    BY <2>1, <2>2
<1>6. AccessReq(n)'
  <2>1. OtherData(n)'
    BY <1>3, <1>5 DEF OtherReq, OtherData, Harmless
  <2> QED
    BY <1>1, <1>5, <2>1 DEF AccessReq, OtherReq
<1>7. FactorReq(n) /\ AttemptReq(n) /\ ~Holds(n)
  BY <1>1, <1>5, HookedOK
<1> QED
  BY <1>5, <1>6, <1>7, TradeFrame, SessionStep

LEMMA IssueSessionKeeps ==
    ASSUME Inv, NEW r \in Requests, IssueSession(r)
    PROVE  Inv'
<1>1. PICK new \in NewSessionId :
        /\ sessions' = CreateSession(sessions, new, NewSession(req[r].user, 0, 1))
        /\ proof' = [proof EXCEPT ![new] = "factor"]
        /\ \/ NextHook(r, Respond(r, new))
           \/ req' = [req EXCEPT ![r] = [Respond(r, new) EXCEPT !.stage = "trust"]]
  BY DEF IssueSession
<1>2. /\ req[r].stage = "issue"
      /\ UNCHANGED <<tokens, redeem, held, traded, scenario, factorVars, rowVars, proved, guesses, spent>>
  BY DEF IssueSession
<1>3. PICK u \in Users : u = req[r].user
  BY <1>2, OtherStages DEF FactorReq
<1>4. UNCHANGED <<challenge, otps, devices>>
  BY <1>2 DEF rowVars
<1>5. /\ SessionFrame /\ new \in SessionIds /\ sessions'[new].state = "live" /\ proof'[new] = "factor"
  BY <1>1, <1>2, <1>3, <1>4, SameTable, SessionAdded DEF Inv
<1>6. Harmless(new)'
  BY <1>5 DEF Harmless
<1> QED
  BY <1>1, <1>2, <1>4, <1>5, <1>6, AnswerKeeps

\* A rotation hands on what the presented session has shown.
LEMMA RotateKeeps ==
    ASSUME Inv, NEW r \in Requests, RotateAuthenticatedSession(r)
    PROVE  Inv'
<1>1. PICK new \in NewSessionId :
        /\ sessions' = IF Live(req[r].session)
                       THEN RotateSession(sessions, req[r].session, new, NewSession(req[r].user, 0, 1))
                       ELSE CreateSession(sessions, new, NewSession(req[r].user, 0, 1))
        /\ proof' = [proof EXCEPT ![new] = proof[req[r].session]]
        /\ NextHook(r, Respond(r, new))
  BY DEF RotateAuthenticatedSession
<1>2. /\ req[r].stage = "rotate"
      /\ UNCHANGED <<tokens, redeem, held, traded, scenario, factorVars, rowVars, proved, guesses, spent>>
  BY DEF RotateAuthenticatedSession
<1>3. PICK u \in Users, i \in SessionIds :
        u = req[r].user /\ i = req[r].session /\ proof[i] # "password"
  <2>1. OtherReq(req[r]) /\ req[r] \in Request
    BY <1>2, OpKnown, OtherStages
  <2>2. req[r].session \in SessionIds
    BY <1>2, <2>1 DEF OtherReq, Request
  <2> QED
    BY <1>2, <2>1, <2>2, OtherStages, NoneDiffers DEF FactorReq, OtherReq, OtherData
<1>4. UNCHANGED <<challenge, otps, devices>>
  BY <1>2 DEF rowVars
<1>5. PICK shown \in {"open", "password", "factor"} : shown = proof[i]
  BY DEF Inv, TypeOK
<1>6. PICK tab \in SessionTables : Aged(tab) /\ sessions' = CreateSession(tab, new, NewSession(u, 0, 1))
  <2>1. TypeOK
    BY DEF Inv
  <2>2. CASE Live(i)
    <3>1. sessions' = CreateSession(Revoke(sessions, {i}), new, NewSession(u, 0, 1))
      BY <1>1, <1>3, <2>2 DEF RotateSession
    <3> QED
      BY <2>1, <3>1, RevokeAges
  <2>3. CASE ~Live(i)
    <3>1. sessions' = CreateSession(sessions, new, NewSession(u, 0, 1))
      BY <1>1, <1>3, <2>3
    <3> QED
      BY <2>1, <3>1, SameTable
  <2> QED
    BY <2>2, <2>3
<1>7. /\ SessionFrame /\ new \in SessionIds /\ sessions'[new].state = "live" /\ proof'[new] = shown
  <2>1. proof' = [proof EXCEPT ![new] = shown] /\ shown # "password"
    BY <1>1, <1>3, <1>5
  <2> QED
    BY <1>2, <1>4, <1>6, <2>1, SessionAdded
<1>8. Harmless(new)'
  BY <1>3, <1>5, <1>7 DEF Harmless
<1> QED
  BY <1>1, <1>2, <1>4, <1>7, <1>8, AnswerKeeps


-----------------------------------------------------------------------------
(* One-time tokens and revocations                                         *)

LEMMA RequestsAge ==
    ASSUME Inv, UNCHANGED req, SessionsAge, TokensAge
    PROVE  \A q \in Requests : AccessReq(req[q])'
<1> SUFFICES ASSUME NEW q \in Requests PROVE AccessReq(req[q])'
  OBVIOUS
<1>1. PICK o \in Request : o = req[q] /\ o = req'[q] /\ AccessReq(o)
  BY OtherStages
<1>2. AccessReq(o)'
  BY <1>1, AccessReqStays
<1> QED
  BY <1>1, <1>2 DEF AccessReq, SignInReq, SignInData, OtherReq, OtherData, Passed, Harmless, HarmlessToken

\* Steps of the token plugin: what they open and hand out is harmless.
LEMMA TokenFrame ==
    ASSUME Inv, UNCHANGED OutsideTokens, UNCHANGED sessions, TokensAge,
           tokens' \in [Tokens -> TokenRow], redeem' \in [Requests -> SessionIds \cup {None}],
           traded' \in [Tokens -> Nat], TradeInv',
           held' \subseteq SessionIds \cup Tokens \cup Handles \cup Devices,
           \A s \in held' \cap SessionIds : Harmless(s),
           \A t \in held' \cap Tokens : HarmlessToken(t)',
           \A q \in Requests : redeem'[q] # None => Harmless(redeem'[q])
    PROVE  Inv'
<1> USE DEF OutsideTokens, factorVars, rowVars, historyVars
<1>1. TypeOK' /\ RowsOK'
  BY DEF Inv, TypeOK, TokenTypeOK, RowsOK
<1>2. FactorInv'
  BY DEF Inv, FactorInv, FactorReq, BackupCodeSingleUse, EnrollmentProved, BudgetLocks
<1>3. AttemptInv'
  BY DEF Inv, AttemptInv, AttemptReq, Holds, AttemptsBounded
<1>4. SessionsAge
  BY DEF SessionsAge
<1>5. \A q \in Requests : AccessReq(req[q])'
  BY <1>4, RequestsAge
<1>6. \A s \in held' \cap SessionIds : Harmless(s)'
  BY DEF Harmless
<1>7. \A q \in Requests : redeem'[q] # None => Harmless(redeem[q])'
  BY DEF Harmless
<1>8. AccessInv'
  BY <1>5, <1>6, <1>7 DEF Inv, AccessInv
<1> QED
  BY <1>1, <1>2, <1>3, <1>8 DEF Inv

LEMMA GenerateKeeps ==
    ASSUME Inv, NEW t \in Tokens, Generate(t), UNCHANGED OutsideTokens
    PROVE  Inv'
<1>1. PICK s \in held : Live(s) /\ Issue(t, s)
  BY DEF Generate
<1>2. /\ UNCHANGED <<sessions, redeem, traded>> /\ held' = held \cup {t} /\ UNCHANGED proof
  BY DEF Generate, OutsideTokens, historyVars
<1>3. s \in SessionIds /\ Harmless(s) /\ tokens[t].state = "free"
  BY <1>1, DrawUnused DEF Live, Issue, Inv, AccessInv
<1>4. /\ tokens' \in [Tokens -> TokenRow] /\ tokens'[t].state = "stored" /\ tokens'[t].session = s
      /\ \A k \in Tokens \ {t} : tokens'[k] = tokens[k]
  BY <1>1, <1>3 DEF Issue, Inv, TypeOK, TokenTypeOK, TokenRow
<1>5. TokensAge /\ SessionsAge
  BY <1>2, <1>3, <1>4 DEF TokensAge, SessionsAge
<1>6. TradeInv'
  BY <1>2, <1>3, <1>4 DEF Inv, TradeInv
<1>7. HarmlessToken(t)'
  BY <1>2, <1>3, <1>4 DEF HarmlessToken, Harmless
<1>8. \A k \in held' \cap Tokens : HarmlessToken(k)'
  BY <1>2, <1>5, <1>7, HarmlessTokenStays DEF Inv, AccessInv
<1>9. \A k \in held' \cap SessionIds : Harmless(k)
  BY <1>2, ValuesAssumption DEF Inv, AccessInv
<1>10. /\ redeem' \in [Requests -> SessionIds \cup {None}] /\ traded' \in [Tokens -> Nat]
       /\ held' \subseteq SessionIds \cup Tokens \cup Handles \cup Devices
       /\ \A q \in Requests : redeem'[q] # None => Harmless(redeem'[q])
  BY <1>2 DEF Inv, TypeOK, TokenTypeOK, AccessInv
<1> QED
  BY <1>2, <1>4, <1>5, <1>6, <1>8, <1>9, <1>10, TokenFrame

\* Deleting the row, by a trade or when it expires.
LEMMA TokenGone ==
    ASSUME Inv, NEW t \in Tokens, tokens[t].state = "stored",
           tokens' = [tokens EXCEPT ![t].state = "gone"], UNCHANGED <<sessions, proof>>
    PROVE  /\ tokens' \in [Tokens -> TokenRow] /\ tokens'[t].state = "gone"
           /\ \A k \in Tokens \ {t} : tokens'[k] = tokens[k]
           /\ TokensAge /\ SessionsAge
<1>1. /\ tokens' \in [Tokens -> TokenRow] /\ tokens'[t].state = "gone"
      /\ tokens'[t].session = tokens[t].session
      /\ \A k \in Tokens \ {t} : tokens'[k] = tokens[k]
  BY DEF Inv, TypeOK, TokenTypeOK, TokenRow
<1>2. TokensAge /\ SessionsAge
  BY <1>1 DEF TokensAge, SessionsAge
<1> QED
  BY <1>1, <1>2

LEMMA ConsumeTokenKeeps ==
    ASSUME Inv, NEW r \in Requests, NEW t \in held \cap Tokens, ConsumeToken(r, t),
           UNCHANGED OutsideTokens
    PROVE  Inv'
<1>1. /\ UNCHANGED <<sessions, held>> /\ UNCHANGED proof /\ tokens[t].state = "stored"
      /\ tokens' = [tokens EXCEPT ![t].state = "gone"]
      /\ redeem' = [redeem EXCEPT ![r] = tokens[t].session]
      /\ traded' = [traded EXCEPT ![t] = @ + 1]
  BY DEF ConsumeToken, OpenSession, OutsideTokens, historyVars
<1>2. /\ tokens' \in [Tokens -> TokenRow] /\ tokens'[t].state = "gone"
      /\ \A k \in Tokens \ {t} : tokens'[k] = tokens[k]
      /\ TokensAge /\ SessionsAge
  BY <1>1, TokenGone
<1>3. PICK s \in SessionIds : s = tokens[t].session /\ Harmless(s)
  BY DEF Inv, AccessInv, HarmlessToken, Harmless
<1>4. /\ redeem' \in [Requests -> SessionIds \cup {None}]
      /\ \A q \in Requests : redeem'[q] # None => Harmless(redeem'[q])
  BY <1>1, <1>3 DEF Inv, TypeOK, TokenTypeOK, AccessInv
<1>5. traded' \in [Tokens -> Nat] /\ TradeInv'
  <2>1. traded \in [Tokens -> Nat] /\ traded[t] = 0
    BY <1>1 DEF Inv, TypeOK, TokenTypeOK, TradeInv
  <2>2. traded' \in [Tokens -> Nat] /\ traded'[t] = 1 /\ \A k \in Tokens \ {t} : traded'[k] = traded[k]
    BY <1>1, <2>1
  <2> QED
    BY <1>2, <2>2 DEF Inv, TradeInv
<1>6. \A k \in held' \cap Tokens : HarmlessToken(k)'
  BY <1>1, <1>2, HarmlessTokenStays DEF Inv, AccessInv
<1>7. /\ held' \subseteq SessionIds \cup Tokens \cup Handles \cup Devices
      /\ \A k \in held' \cap SessionIds : Harmless(k)
  BY <1>1 DEF Inv, TypeOK, AccessInv
<1> QED
  BY <1>1, <1>2, <1>4, <1>5, <1>6, <1>7, TokenFrame

LEMMA ExpireTokenKeeps ==
    ASSUME Inv, NEW t \in Tokens, ExpireToken(t), UNCHANGED OutsideTokens
    PROVE  Inv'
<1>1. /\ UNCHANGED <<sessions, redeem, held, traded>> /\ UNCHANGED proof
      /\ tokens[t].state = "stored" /\ tokens' = [tokens EXCEPT ![t].state = "gone"]
  BY DEF ExpireToken, OutsideTokens, historyVars
<1>2. /\ tokens' \in [Tokens -> TokenRow] /\ tokens'[t].state = "gone"
      /\ \A k \in Tokens \ {t} : tokens'[k] = tokens[k]
      /\ TokensAge /\ SessionsAge
  BY <1>1, TokenGone
<1>3. TradeInv'
  BY <1>1, <1>2 DEF Inv, TradeInv
<1>4. \A k \in held' \cap Tokens : HarmlessToken(k)'
  BY <1>1, <1>2, HarmlessTokenStays DEF Inv, AccessInv
<1>5. /\ held' \subseteq SessionIds \cup Tokens \cup Handles \cup Devices
      /\ \A k \in held' \cap SessionIds : Harmless(k)
      /\ redeem' \in [Requests -> SessionIds \cup {None}] /\ traded' \in [Tokens -> Nat]
      /\ \A q \in Requests : redeem'[q] # None => Harmless(redeem'[q])
  BY <1>1 DEF Inv, TypeOK, TokenTypeOK, AccessInv
<1> QED
  BY <1>1, <1>2, <1>3, <1>4, <1>5, TokenFrame

\* Trading a token hands out the session it opens, if that still resumes.
LEMMA VerifyKeeps ==
    ASSUME Inv, NEW r \in Requests, Verify(r), UNCHANGED OutsideTokens
    PROVE  Inv'
<1>1. /\ UNCHANGED <<sessions, tokens, traded>> /\ UNCHANGED proof /\ redeem[r] # None
      /\ held' \subseteq held \cup {redeem[r]} /\ redeem' = [redeem EXCEPT ![r] = None]
  BY DEF Verify, OutsideTokens, historyVars
<1>2. Harmless(redeem[r]) /\ redeem[r] \in SessionIds
  BY <1>1 DEF Inv, AccessInv, Harmless
<1>3. /\ held' \subseteq SessionIds \cup Tokens \cup Handles \cup Devices
      /\ \A k \in held' \cap SessionIds : Harmless(k)
  BY <1>1, <1>2 DEF Inv, TypeOK, AccessInv
<1>4. SessionsAge /\ TokensAge
  BY <1>1, NothingAges
<1>5. \A k \in held' \cap Tokens : HarmlessToken(k)'
  <2>1. \A k \in held' \cap Tokens : HarmlessToken(k)
    BY <1>1, <1>2, ValuesAssumption DEF Inv, AccessInv
  <2> QED
    BY <1>4, <2>1, HarmlessTokenStays
<1>6. /\ redeem' \in [Requests -> SessionIds \cup {None}] /\ traded' \in [Tokens -> Nat]
      /\ tokens' \in [Tokens -> TokenRow]
      /\ \A q \in Requests : redeem'[q] # None => Harmless(redeem'[q])
  BY <1>1 DEF Inv, TypeOK, TokenTypeOK, AccessInv
<1> QED
  BY <1>1, <1>3, <1>4, <1>5, <1>6, TradeFrame, TokenFrame

LEMMA TokenStepKeeps ==
    ASSUME Inv, TokenStep
    PROVE  Inv'
BY GenerateKeeps, ConsumeTokenKeeps, ExpireTokenKeeps, VerifyKeeps DEF TokenStep

LEMMA RevokeUserKeeps ==
    ASSUME Inv, NEW u \in Users, RevokeUser(u)
    PROVE  Inv'
<1> USE DEF factorVars, rowVars, historyVars
<1>1. /\ UNCHANGED <<tokens, redeem, held, traded, scenario, factorVars, rowVars, req, historyVars>>
      /\ sessions' = Revoke(sessions, LiveRows(sessions, u))
  BY DEF RevokeUser, RevokeUserSessions
<1>2. sessions' \in SessionTables
      /\ \A s \in SessionIds : /\ sessions'[s].state = "free" <=> sessions[s].state = "free"
                               /\ sessions'[s].user = sessions[s].user
                               /\ sessions'[s].state = "live" => sessions[s].state = "live"
  <2>1. TypeOK
    BY DEF Inv
  <2> QED
    BY <1>1, <2>1, RevokeAges DEF Aged
<1>3. SessionsAge /\ TokensAge
  BY <1>1, <1>2 DEF SessionsAge, TokensAge
<1>4. TypeOK' /\ RowsOK' /\ TradeInv'
  BY <1>1, <1>2, TradeFrame DEF Inv, TypeOK, TokenTypeOK, RowsOK
<1>5. FactorInv'
  BY <1>1 DEF Inv, FactorInv, FactorReq, BackupCodeSingleUse, EnrollmentProved, BudgetLocks
<1>6. AttemptInv'
  BY <1>1 DEF Inv, AttemptInv, AttemptReq, Holds, AttemptsBounded
<1>7. AccessInv'
  <2>1. \A s \in SessionIds : proof'[s] = "password" =>
          sessions'[s].state # "free" /\ enabled'[sessions'[s].user]
    BY <1>1, <1>2 DEF Inv, AccessInv
  <2> QED
    BY <1>1, <1>3, <2>1, RequestsStay
<1> QED
  BY <1>4, <1>5, <1>6, <1>7 DEF Inv


-----------------------------------------------------------------------------
(* The first state                                                         *)

LEMMA CodesDisjoint ==
    ASSUME NEW f, NEW g, f # g
    PROVE  CodesOf(f) \cap CodesOf(g) = {}
BY DEF CodesOf

LEMMA FreeRowType == FreeRow \in SessionRow /\ FreeRow.state = "free"
BY DEF FreeRow, SessionRow

LEMMA InitInv == Init => Inv
<1> SUFFICES ASSUME Init PROVE Inv
  OBVIOUS
<1>1. /\ tokens = [t \in Tokens |-> [state |-> "free", session |-> None]]
      /\ redeem = [r \in Requests |-> None] /\ traded = [t \in Tokens |-> 0]
      /\ scenario \in Scenarios /\ enabled = [u \in Users |-> u \in scenario.enrolled]
      /\ otps = [o \in Otps |-> [state |-> "free", key |-> None]]
      /\ devices = [d \in Devices |-> [state |-> "free", user |-> None]]
      /\ req = [r \in Requests |-> Idle] /\ proof = [i \in SessionIds |-> "open"]
      /\ guesses = [h \in Handles |-> 0] /\ spent = [c \in Codes |-> 0]
  BY DEF Init, TokenInit
<1>2. /\ scenario.users \subseteq Users /\ scenario.enrolled \subseteq scenario.users
      /\ scenario.sessions \subseteq SessionIds
  BY <1>1, TwoFactorAssumption DEF Scenario
<1>3. /\ challenge \in [Handles -> ChallengeRow]
      /\ \A h \in Handles : challenge[h].state = "free" /\ challenge[h].armed = FALSE
  BY DEF Init, ChallengeRow
<1>4. PICK first \in Draw(Injection(scenario.users, scenario.sessions)),
           f \in Draw(Injection(scenario.users, FactorIds)) :
        /\ sessions = [i \in SessionIds |->
               IF \E u \in scenario.users : first[u] = i
               THEN NewSession(CHOOSE u \in scenario.users : first[u] = i, 0, 1) ELSE FreeRow]
        /\ factor = [u \in Users |->
               IF u \in scenario.enrolled THEN NewFactor(f[u], TRUE) ELSE NoFactor]
        /\ held = {first[u] : u \in scenario.users}
        /\ proved = {f[u] : u \in scenario.enrolled}
  BY DEF Init
<1>5. /\ \A u \in scenario.users : first[u] \in SessionIds /\ f[u] \in FactorIds
      /\ \A u, v \in scenario.users : u # v => f[u] # f[v]
  <2>1. /\ first \in Injection(scenario.users, scenario.sessions)
        /\ f \in Injection(scenario.users, FactorIds)
    BY DrawUnused
  <2> QED
    BY <1>2, <2>1 DEF Injection, IsInjective
<1>6. ASSUME NEW i \in SessionIds
      PROVE  /\ sessions[i] \in SessionRow /\ (sessions[i].state # "free" => sessions[i].user \in Users)
             /\ (\E u \in scenario.users : first[u] = i) => sessions[i].state # "free"
  <2>1. CASE \E u \in scenario.users : first[u] = i
    <3>1. PICK w \in scenario.users : w = CHOOSE u \in scenario.users : first[u] = i
      BY <2>1
    <3>2. sessions[i] = NewSession(w, 0, 1)
      BY <1>4, <2>1, <3>1
    <3> QED
      BY <1>2, <3>2, NewSessionType
  <2>2. CASE ~\E u \in scenario.users : first[u] = i
    BY <1>4, <2>2, FreeRowType
  <2> QED
    BY <2>1, <2>2
<1>7. ASSUME NEW u \in Users
      PROVE  /\ factor[u] \in FactorRow /\ factor[u].failed = 0
             /\ u \in scenario.enrolled => /\ factor[u].id = f[u] /\ factor[u].verified
                                           /\ factor[u].codes = CodesOf(f[u])
             /\ u \notin scenario.enrolled => /\ factor[u].id = None /\ ~factor[u].verified
                                              /\ factor[u].codes = {}
  <2>1. CASE u \in scenario.enrolled
    <3>1. factor[u] = NewFactor(f[u], TRUE) /\ f[u] \in FactorIds
      BY <1>2, <1>4, <1>5, <2>1
    <3> QED
      BY <2>1, <3>1, NewFactorType
  <2>2. CASE u \notin scenario.enrolled
    <3>1. factor[u] = NoFactor
      BY <1>4, <2>2
    <3> QED
      BY <2>2, <3>1, NoFactorType
  <2> QED
    BY <2>1, <2>2
<1>8. TypeOK
  <2>1. sessions \in SessionTables
    BY <1>4, <1>6 DEF SessionTables
  <2>2. tokens \in [Tokens -> TokenRow] /\ redeem \in [Requests -> SessionIds \cup {None}]
        /\ traded \in [Tokens -> Nat]
    BY <1>1 DEF TokenRow
  <2>3. factor \in [Users -> FactorRow]
    BY <1>4, <1>7
  <2>4. /\ otps \in [Otps -> OtpRow] /\ devices \in [Devices -> DeviceRow]
        /\ enabled \in [Users -> BOOLEAN]
    BY <1>1 DEF OtpRow, DeviceRow
  <2>5. req \in [Requests -> Request]
    BY <1>1, IdleType
  <2>6. /\ held \subseteq SessionIds \cup Tokens \cup Handles \cup Devices /\ proved \subseteq FactorIds
    BY <1>2, <1>4, <1>5
  <2>7. /\ proof \in [SessionIds -> {"open", "password", "factor"}]
        /\ guesses \in [Handles -> Nat] /\ spent \in [Codes -> Nat]
    BY <1>1
  <2> QED
    BY <1>1, <1>3, <2>1, <2>2, <2>3, <2>4, <2>5, <2>6, <2>7 DEF TypeOK, TokenTypeOK
<1>9. RowsOK
  BY <1>3, <1>6 DEF RowsOK
<1>10. FactorInv
  <2>1. ASSUME NEW u \in Users, NEW v \in Users, u # v
        PROVE  /\ factor[u].id = None \/ factor[u].id # factor[v].id
               /\ factor[u].codes \cap factor[v].codes = {}
    <3>1. CASE u \in scenario.enrolled /\ v \in scenario.enrolled
      <4>1. f[u] # f[v]
        BY <1>2, <1>5, <2>1, <3>1
      <4>2. CodesOf(f[u]) \cap CodesOf(f[v]) = {}
        BY <4>1, CodesDisjoint
      <4> QED
        BY <1>7, <3>1, <4>1, <4>2
    <3>2. CASE u \notin scenario.enrolled
      BY <1>7, <3>2
    <3>3. CASE u \in scenario.enrolled /\ v \notin scenario.enrolled
      <4>1. f[u] \in FactorIds
        BY <1>2, <1>5, <3>3
      <4> QED
        BY <1>7, <3>3, <4>1, NoneDiffers
    <3> QED
      BY <3>1, <3>2, <3>3
  <2>2. \A u \in Users : \A c \in factor[u].codes : spent[c] = 0
    BY <1>1, <1>8, FactorRowType
  <2>3. \A r \in Requests : FactorReq(req[r])
    BY <1>1, IdleOK
  <2>4. BackupCodeSingleUse
    BY <1>1 DEF BackupCodeSingleUse
  <2>5. EnrollmentProved
    BY <1>1, <1>4, <1>7 DEF EnrollmentProved
  <2>6. BudgetLocks
    BY <1>7, Limits DEF BudgetLocks
  <2> QED
    BY <2>1, <2>2, <2>3, <2>4, <2>5, <2>6 DEF FactorInv
<1>11. AttemptInv
  <2>1. \A r \in Requests : AttemptReq(req[r]) /\ ~Holds(req[r])
    BY <1>1, IdleOK
  <2>2. AttemptsBounded
    BY <1>1, Limits DEF AttemptsBounded
  <2> QED
    BY <1>1, <1>3, <2>1, <2>2 DEF AttemptInv
<1>12. AccessInv
  <2>1. \A s \in SessionIds : proof[s] # "password"
    BY <1>1
  <2>2. \A s \in held \cap SessionIds : Harmless(s)
    BY <1>4, <1>6, <2>1 DEF Harmless
  <2>3. held \cap Tokens = {}
    BY <1>4, <1>5, ValuesAssumption
  <2>4. \A r \in Requests : redeem[r] = None
    BY <1>1
  <2>5. \A r \in Requests : AccessReq(req[r])
    BY <1>1, IdleOK
  <2> QED
    BY <2>1, <2>2, <2>3, <2>4, <2>5 DEF AccessInv
<1>13. TradeInv
  BY <1>1 DEF TradeInv
<1> QED
  BY <1>8, <1>9, <1>10, <1>11, <1>12, <1>13 DEF Inv

-----------------------------------------------------------------------------
(* The theorems                                                            *)

LEMMA NextKeeps == Inv /\ [Next]_vars => Inv'
<1> SUFFICES ASSUME Inv, [Next]_vars PROVE Inv'
  OBVIOUS
<1>1. ASSUME NEW r \in Requests, NEW u \in scenario.users, NEW d \in (held \cap Devices) \cup {None},
             SignIn(r, u, d)
      PROVE  Inv'
  BY <1>1, SignInKeeps
<1>2. ASSUME NEW r \in Requests, AttachHeader(r) \/ Deliver(r) \/ Gate(r)
      PROVE  Inv'
  BY <1>2, AttachHeaderKeeps, DeliverKeeps, GateKeeps
<1>3. ASSUME NEW r \in Requests,
             AcceptTrustedDevice(r) \/ CreateTrustedDevice(r) \/ BeginChallenge(r)
      PROVE  Inv'
  BY <1>3, AcceptTrustedDeviceKeeps, CreateTrustedDeviceKeeps, BeginChallengeKeeps
<1>4. ASSUME NEW r \in Requests, NEW op \in Verifications \cup {"send-otp"}, Arrive(r, op)
      PROVE  Inv'
  BY <1>4, ArriveKeeps
<1>5. ASSUME NEW r \in Requests, BeginAttempt(r) \/ LoadFactor(r) \/ AssertNotLocked(r)
      PROVE  Inv'
  BY <1>5, BeginAttemptKeeps, LoadFactorKeeps, AssertNotLockedKeeps
<1>6. ASSUME NEW r \in Requests, JudgeTOTP(r) \/ JudgeBackupCode(r) \/ JudgeOTP(r) \/ Refile(r)
      PROVE  Inv'
  BY <1>6, JudgeTOTPKeeps, JudgeBackupCodeKeeps, JudgeOTPKeeps, RefileKeeps
<1>7. ASSUME NEW r \in Requests, SpendBackupCode(r) \/ CompleteEnrollment(r) \/ FailedFactor(r)
      PROVE  Inv'
  BY <1>7, SpendKeeps, CompleteEnrollmentKeeps, FailedFactorKeeps
<1>8. ASSUME NEW r \in Requests, RecordFailure(r) \/ LockAccount(r) \/ CompleteVerification(r)
      PROVE  Inv'
  BY <1>8, RecordFailureKeeps, LockAccountKeeps, CompleteVerificationKeeps
<1>9. ASSUME NEW r \in Requests, ResetFailures(r) \/ IssueSession(r) \/ ClearOtps(r) \/ SendOTP(r)
      PROVE  Inv'
  BY <1>9, ResetFailuresKeeps, IssueSessionKeeps, ClearOtpsKeeps, SendKeeps
<1>10. ASSUME NEW r \in Requests, NEW op \in Management, BeginManagement(r, op)
       PROVE  Inv'
  BY <1>10, BeginManagementKeeps
<1>11. ASSUME NEW r \in Requests, Enable(r) \/ EnableOTP(r) \/ Disable(r) \/ ForgetDevice(r)
       PROVE  Inv'
  BY <1>11, EnableKeeps, EnableOTPKeeps, DisableKeeps, ForgetKeeps
<1>12. ASSUME NEW r \in Requests,
              BeginRegenerate(r) \/ RegenerateBackupCodes(r) \/ RotateAuthenticatedSession(r)
       PROVE  Inv'
  BY <1>12, BeginRegenerateKeeps, RegenerateKeeps, RotateKeeps
<1>13. ASSUME NEW h \in Handles, ExpireChallenge(h)
       PROVE  Inv'
  BY <1>13, ExpireChallengeKeeps
<1>14. ASSUME NEW u \in Users, LockoutEnds(u) \/ RevokeUser(u)
       PROVE  Inv'
  BY <1>14, LockoutEndsKeeps, RevokeUserKeeps
<1>15. CASE TokenStep
  BY <1>15, TokenStepKeeps
<1>16. CASE UNCHANGED vars
  <2>1. /\ UNCHANGED <<sessions, tokens, redeem, held, traded, scenario, enabled, factor>>
        /\ UNCHANGED <<challenge, otps, devices, req, proof, proved, guesses, spent>>
    BY <1>16 DEF vars, historyVars
  <2>2. TypeOK' /\ RowsOK' /\ TradeInv'
    BY <2>1 DEF Inv, TypeOK, TokenTypeOK, RowsOK, TradeInv
  <2>3. FactorInv'
    BY <2>1 DEF Inv, FactorInv, FactorReq, BackupCodeSingleUse, EnrollmentProved, BudgetLocks
  <2>4. AttemptInv'
    BY <2>1 DEF Inv, AttemptInv, AttemptReq, Holds, AttemptsBounded
  <2>5. AccessInv'
    <3>1. SessionsAge /\ TokensAge
      BY <2>1, NothingAges
    <3>2. \A s \in SessionIds : proof'[s] = "password" =>
            sessions'[s].state # "free" /\ enabled'[sessions'[s].user]
      BY <2>1 DEF Inv, AccessInv
    <3> QED
      BY <2>1, <3>1, <3>2, RequestsStay
  <2> QED
    BY <2>2, <2>3, <2>4, <2>5 DEF Inv
<1> QED
  BY <1>1, <1>2, <1>3, <1>4, <1>5, <1>6, <1>7, <1>8, <1>9, <1>10, <1>11, <1>12, <1>13, <1>14,
     <1>15, <1>16 DEF Next

\* Every reachable state satisfies the inductive invariant.
THEOREM InvHolds == Spec => []Inv
BY InitInv, NextKeeps, PTL DEF Spec

\* A session that has shown the password only, while the user's second factor was
\* on, is never a live session that a client holds: neither a sign-in response nor
\* a one-time token carries it out, whatever the order of the after-hooks
\* (interceptCredentialSignIn, attachHeader).
THEOREM NoHalfSignIn == Spec => []SecondFactorProved
<1>1. Inv => SecondFactorProved
  BY DEF Inv, AccessInv, SecondFactorProved, Harmless, Live
<1> QED
  BY <1>1, InvHolds, PTL

\* No challenge is guessed at more often than challengeMaxAttempts, however many
\* requests present its cookie at once (beginAttempt, failedFactor).
THEOREM GuessesBounded == Spec => []AttemptsBounded
<1>1. Inv => AttemptsBounded
  BY DEF Inv, AttemptInv
<1> QED
  BY <1>1, InvHolds, PTL

\* No backup code is accepted twice (verifyBackupCode, regenerateBackupCodes).
THEOREM BackupCodesSingleUse == Spec => []BackupCodeSingleUse
<1>1. Inv => BackupCodeSingleUse
  BY DEF Inv, FactorInv
<1> QED
  BY <1>1, InvHolds, PTL

\* A factor is verified by a code for its own secret, and a user with the flag has
\* something to answer with (verifyTOTP, completeEnrollment, enable, disable).
THEOREM FactorsProved == Spec => []EnrollmentProved
<1>1. Inv => EnrollmentProved
  BY DEF Inv, FactorInv
<1> QED
  BY <1>1, InvHolds, PTL

\* A row whose failures reach the account budget is locked, or about to be by the
\* request that counted them (recordFailure).
THEOREM BudgetIsEnforced == Spec => []BudgetLocks
<1>1. Inv => BudgetLocks
  BY DEF Inv, FactorInv
<1> QED
  BY <1>1, InvHolds, PTL

\* A one-time token is traded at most once (onetimetoken's verify).
THEOREM TokensTradedOnce == Spec => []TokenSingleUse
<1>1. Inv => TokenSingleUse
  BY DEF Inv, TradeInv, TokenSingleUse
<1> QED
  BY <1>1, InvHolds, PTL

=============================================================================

---------------------------- MODULE MCTwoFactor -----------------------------
(* Instances of TwoFactor for TLC. *)
EXTENDS TwoFactor, TLC

CONSTANTS alice, bob, r1, r2, s1, s2, s3, s4, s5, f1, f2, f3, f4, h1, h2, d1, d2, o1, o2, t1

MCUsers == {alice, bob}
MCRequests == {r1, r2}
MCSessionIds == {s1, s2, s3, s4, s5}
MCFactorIds == {f1, f2, f3, f4}
MCHandles == {h1, h2}
MCDevices == {d1, d2}
MCOtps == {o1, o2}
MCTokens == {t1}

\* What the scenarios below have in common.
Base ==
    [users |-> {alice}, sessions |-> {s1, s2, s3, s4}, handles |-> {h1}, hooks |-> <<"factor">>,
     otp |-> FALSE, skip |-> FALSE, enrolled |-> {alice}, ops |-> {}]

\* Sign-in with both orders of the hooks and one-time tokens.
Tokening ==
    {[Base EXCEPT !.ops = {"sign-in", "token", "disable", "revoke"}, !.hooks = hooks] :
        hooks \in {<<"token", "factor">>, <<"factor", "token">>}}

\* Trusted devices of two users.
Trusting ==
    {[Base EXCEPT !.ops = {"sign-in", "totp", "disable"},
                  !.users = {alice, bob}, !.sessions = SessionIds, !.enrolled = {alice, bob}]}

\* Guessing on two challenges at once, until the account is locked and after.
Guessing == {[Base EXCEPT !.ops = {"sign-in", "totp"}, !.handles = {h1, h2}]}

\* Backup codes, spent and regenerated.
Recovering ==
    {[Base EXCEPT !.ops = ops] : ops \in {{"sign-in", "backup"}, {"backup", "regenerate"}}}

\* Delivered codes.
Delivering == {[Base EXCEPT !.ops = {"sign-in", "otp", "send-otp"}, !.otp = TRUE]}

\* Users whose only method is the delivered code.
OtpOnly ==
    {[Base EXCEPT !.ops = {"sign-in", "otp", "send-otp", "enable-otp"}, !.otp = TRUE,
                  !.enrolled = {}]}

\* Enrollment, with and without SkipVerificationOnEnable.
Managing ==
    {[Base EXCEPT !.ops = {"enable", "disable", "totp"}, !.skip = skip, !.enrolled = {}] :
        skip \in BOOLEAN}

MCScenarios ==
    UNION {Tokening, Trusting, Guessing, Recovering, Delivering, OtpOnly, Managing}

\* Everything else is drawn canonically.
Symmetry == Permutations(Requests)

=============================================================================

--------------------------- MODULE MCCredentials ----------------------------
(* Instances of Credentials for TLC. *)
EXTENDS Credentials, TLC

CONSTANTS alice, r1, r2, s1, s2, s3, old, new, t1

MCUsers == {alice}
MCRequests == {r1, r2}
MCSessionIds == {s1, s2, s3}
MCPasswords == {old, new}
MCResetTokens == {t1}
ResetWorkload == {"sign-in", "refresh", "forgot", "reset"}
ChangeWorkload == {"sign-in", "change", "set"}
MCWorkloads == {ResetWorkload, ChangeWorkload}
JustReset == {ResetWorkload}

\* Requests and session ids are interchangeable.
Symmetry == Permutations(Requests) \cup Permutations(SessionIds)

=============================================================================

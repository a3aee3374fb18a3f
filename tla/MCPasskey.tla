----------------------------- MODULE MCPasskey ------------------------------
(* An instance of Passkey for TLC. *)
EXTENDS Passkey, TLC

CONSTANTS alice, bob, c1, c2, c3, h1, h2, h3, x1, x2, x3, r1, r2

MCUsers == {alice, bob}
MCCredentials == {c1, c2, c3}
MCCounterless == {c3}
MCChallenges == {h1, h2, h3}
MCUserHandles == {x1, x2, x3}
MCRequests == {r1, r2}

\* Challenges and user handles are drawn canonically.
Symmetry == UNION {Permutations(S) : S \in {Requests, Users, {c1, c2}}}

=============================================================================

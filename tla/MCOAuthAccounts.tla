-------------------------- MODULE MCOAuthAccounts ---------------------------
(* Instances of OAuthAccounts for TLC. *)
EXTENDS OAuthAccounts, TLC

CONSTANTS alice, bob, e1, e2, google, microsoft, g1, sub, oid, a1, a2, a3, s1, s2, r1, r2

MCUsers == {alice, bob}
MCEmails == {e1, e2}
MCProviders == {google, microsoft}
MCIdentities == {g1, sub, oid}
MCAccountIds == {a1, a2, a3}
MCOAuthStates == {s1, s2}
MCRequests == {r1, r2}

\* A Microsoft account was stored by "sub" before the provider sent "oid".
MCProviderOf == [i \in MCIdentities |-> IF i = g1 THEN google ELSE microsoft]
MCEmailOf == [i \in MCIdentities |-> IF i = g1 THEN e1 ELSE e2]
MCPrevious == [i \in MCIdentities |-> IF i = oid THEN sub ELSE None]
MCTrusted == {microsoft}

\* Who may mix with whom: explicit links and deletions, sign-ins of users whose
\* address changes, and unlinking and token refreshes.
LinkWorkload == {"sign-up", "link", "callback", "delete"}
SignInWorkload == {"sign-up", "authorize", "callback", "change-email"}
AccountWorkload == {"authorize", "callback", "unlink", "token", "change-email"}
MCWorkloads == {LinkWorkload, SignInWorkload, AccountWorkload}

\* The members of each set are interchangeable.
Symmetry == Permutations(Users) \cup Permutations(OAuthStates) \cup Permutations(Requests)

=============================================================================

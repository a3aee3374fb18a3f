------------------------------- MODULE MCSso --------------------------------
(* Instances of Sso for TLC. *)
EXTENDS Sso, TLC

CONSTANTS
    alice, bob, acme, corp, oidc, saml, d1, d2, x1, x2, t1, t2, s1, s2, a1, a2, r1, r2

MCUsers == {alice, bob}
MCProviderIds == {acme, corp}
MCIdps == {oidc, saml}
MCSamlIdps == {saml}
MCDomains == {d1, d2}
MCSubjects == {x1, x2}
MCDomainOf == (x1 :> d1) @@ (x2 :> d2)
MCTokens == {t1, t2}
MCStates == {s1, s2}
MCAssertionIds == {a1, a2}
MCRequests == {r1, r2}

Row(id, owner, idp, domains, verified) ==
    [id |-> id, owner |-> owner, idp |-> idp, domains |-> domains, verified |-> verified]

Scenario(endpoints, verification, idpInitiated, noSignUp, rowsOf) ==
    {[endpoints |-> endpoints, domainVerification |-> verification,
     offers |-> [idp: {saml}, domains: {{d1}, {d2}}],
     allowIDPInitiated |-> idpInitiated, disableImplicitSignUp |-> noSignUp,
     providers |-> [p \in ProviderIds |-> IF p \in DOMAIN rowsOf THEN rowsOf[p] ELSE NoRow]]}

\* One provider changes hands while its requests are in flight.
Managing ==
    Scenario({"update", "delete", "register"}, FALSE, FALSE, FALSE,
             acme :> Row(1, alice, saml, {d1}, TRUE))

\* Domain tokens are requested, published and verified while the provider changes.
Verifying ==
    Scenario({"request", "verify", "delete", "register"}, TRUE, FALSE, FALSE,
             acme :> Row(1, alice, saml, {d1}, FALSE))

Reconfiguring ==
    Scenario({"verify", "request", "update"}, TRUE, FALSE, FALSE,
             acme :> Row(1, alice, saml, {d1}, FALSE))

\* A default OIDC provider and a registered SAML provider.
Both == (acme :> Row(1, None, oidc, {d1}, TRUE)) @@ (corp :> Row(2, alice, saml, {d1}, TRUE))

SigningIn == Scenario({"sign-in"}, FALSE, FALSE, TRUE, Both)

IdpInitiated == Scenario({"sign-in"}, FALSE, TRUE, FALSE, corp :> Row(1, alice, saml, {d1}, TRUE))

LoggingOut == Scenario({"sign-in", "logout"}, FALSE, FALSE, FALSE, corp :> Row(1, alice, saml, {d1}, TRUE))

MCScenarios == UNION {Managing, Verifying, Reconfiguring, SigningIn, IdpInitiated, LoggingOut}

Symmetry == Permutations(Requests)

=============================================================================

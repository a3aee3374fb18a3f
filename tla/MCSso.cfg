CONSTANTS
    alice = alice
    bob = bob
    acme = acme
    corp = corp
    oidc = oidc
    saml = saml
    d1 = d1
    d2 = d2
    x1 = x1
    x2 = x2
    t1 = t1
    t2 = t2
    s1 = s1
    s2 = s2
    a1 = a1
    a2 = a2
    r1 = r1
    r2 = r2
    None = None
    Users <- MCUsers
    ProviderIds <- MCProviderIds
    Idps <- MCIdps
    SamlIdps <- MCSamlIdps
    Domains <- MCDomains
    Subjects <- MCSubjects
    DomainOf <- MCDomainOf
    Tokens <- MCTokens
    States <- MCStates
    AssertionIds <- MCAssertionIds
    Requests <- MCRequests
    MaxRows = 2
    ProvidersLimit = 1
    Scenarios <- MCScenarios
SPECIFICATION Spec
SYMMETRY Symmetry
INVARIANTS
    OneSignInPerState
    AssertionOnce
    AnswerOfThisCeremony
    OwnerWrites
CHECK_DEADLOCK FALSE

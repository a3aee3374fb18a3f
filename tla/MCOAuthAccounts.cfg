CONSTANTS
    alice = alice
    bob = bob
    e1 = e1
    e2 = e2
    google = google
    microsoft = microsoft
    g1 = g1
    sub = sub
    oid = oid
    a1 = a1
    a2 = a2
    a3 = a3
    s1 = s1
    s2 = s2
    r1 = r1
    r2 = r2
    None = None
    Users <- MCUsers
    Emails <- MCEmails
    Providers <- MCProviders
    Identities <- MCIdentities
    AccountIds <- MCAccountIds
    OAuthStates <- MCOAuthStates
    Requests <- MCRequests
    ProviderOf <- MCProviderOf
    EmailOf <- MCEmailOf
    Previous <- MCPrevious
    TrustedProviders <- MCTrusted
    Placeholders = {e2}
    Workloads <- MCWorkloads
    AllowImplicitLink = TRUE
    RequireLocalEmailVerified = TRUE
    AllowLinkingDifferentEmails = FALSE
    AllowUnlinkingAll = FALSE
    UpdateAccountOnSignIn = TRUE
    AllowSignUp = TRUE
    MaxTokens = 3
SPECIFICATION Spec
SYMMETRY Symmetry
INVARIANTS
    LinkedByStarter
    ImplicitLinkProved
    VerifiedByEvidence
    TokensBelong

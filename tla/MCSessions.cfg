CONSTANTS
    alice = alice
    bob = bob
    r1 = r1
    r2 = r2
    s1 = s1
    s2 = s2
    s3 = s3
    s4 = s4
    None = None
    Users <- MCUsers
    Requests <- MCRequests
    SessionIds <- MCSessionIds
    Endpoints <- MCEndpoints
    ScimUsers <- MCScimUsers
    AdminSelectionConfigured = TRUE
    Admins <- MCAdmins
    Authorizer <- MCAuthorizer
    AllowImpersonatingAdmins = FALSE
    SessionDuration = 2
    ImpersonationDuration = 1
    ShortDuration = 2
    SessionFreshAge = 0
    MaxTime = 1
SPECIFICATION MCSpec
SYMMETRY Symmetry
INVARIANTS
    ImpersonationAudited
    StopIsFinal
    OneLivePerChain
PROPERTIES
    DeadChainStaysDead

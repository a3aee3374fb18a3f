CONSTANTS
    alice = alice
    bob = bob
    r1 = r1
    r2 = r2
    s1 = s1
    s2 = s2
    s3 = s3
    s4 = s4
    s5 = s5
    f1 = f1
    f2 = f2
    f3 = f3
    f4 = f4
    h1 = h1
    h2 = h2
    d1 = d1
    d2 = d2
    o1 = o1
    o2 = o2
    t1 = t1
    None = None
    Users <- MCUsers
    Requests <- MCRequests
    SessionIds <- MCSessionIds
    FactorIds <- MCFactorIds
    Handles <- MCHandles
    Devices <- MCDevices
    Otps <- MCOtps
    Tokens <- MCTokens
    Scenarios <- MCScenarios
    ChallengeMaxAttempts = 2
    AccountMaxFailedAttempts = 2
    BackupCodeCount = 1
SPECIFICATION Spec
SYMMETRY Symmetry
INVARIANTS
    SecondFactorProved
    AttemptsBounded
    BackupCodeSingleUse
    EnrollmentProved
    BudgetLocks
    TokenSingleUse
CHECK_DEADLOCK FALSE

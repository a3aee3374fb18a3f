CONSTANTS
    alice = alice
    r1 = r1
    r2 = r2
    s1 = s1
    s2 = s2
    s3 = s3
    old = old
    new = new
    t1 = t1
    None = None
    Users <- MCUsers
    Requests <- MCRequests
    SessionIds <- MCSessionIds
    Passwords <- MCPasswords
    InitialPassword = old
    ResetTokens <- MCResetTokens
    Workloads <- MCWorkloads
    MaxSalt = 2
    RevokeSessionsOnPasswordReset = TRUE
    HasResetCallback = TRUE
SPECIFICATION Spec
SYMMETRY Symmetry
INVARIANTS
    LastChoiceWins
    NoLostPasswordChange
    RevokedDevicesStayOut

CONSTANTS
    u1 = u1
    u2 = u2
    e1 = e1
    e2 = e2
    x1 = x1
    x2 = x2
    c1 = c1
    c2 = c2
    org = org
    b1 = b1
    b2 = b2
    b3 = b3
    r1 = r1
    r2 = r2
    None = None
    Users <- MCUsers
    Emails <- MCEmails
    Externals <- MCExternals
    Connections <- MCConnections
    OrgConnections <- MCOrgConnections
    BindingIds <- MCBindingIds
    MaxRows = 3
    ProviderLimit = 3
    Requests <- MCRequests
    Scenarios <- MCScenarios
SPECIFICATION Spec
SYMMETRY Symmetry
INVARIANTS
    AccountHoldersKept
CHECK_DEADLOCK FALSE

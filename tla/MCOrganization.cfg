CONSTANTS
    o1 = o1
    o2 = o2
    alice = alice
    bob = bob
    carol = carol
    m1 = m1
    m2 = m2
    m3 = m3
    t1 = t1
    s1 = s1
    s2 = s2
    s3 = s3
    r1 = r1
    r2 = r2
    auditor = auditor
    None = None
    Orgs <- MCOrgs
    Users <- MCUsers
    MemberIds <- MCMemberIds
    Teams <- MCTeams
    Sessions <- MCSessions
    Requests <- MCRequests
    DynamicRoles <- MCDynamicRoles
    PermissionInputs <- MCPermissionInputs
    Verified <- MCUsers
    MaxOrganizationsPerUser = 2
    MaxMembersPerOrganization = 3
    MaxInvitationsPerOrganization = 2
    MaxTeamsPerOrganization = 1
    MaxRolesPerOrganization = 1
    InvitationTTL = 1
    Horizon = 1
    Workloads <- MCWorkloads
SPECIFICATION Spec
CHECK_DEADLOCK FALSE
SYMMETRY Symmetry
INVARIANTS
    OwnerRemains
    TeamMembersBelong
    ActiveStateValid
    InvitationSingleWinner
PROPERTIES
    OwnerRoleGuarded

CONSTANTS
    alice = alice
    bob = bob
    e1 = e1
    e2 = e2
    t1 = t1
    t2 = t2
    t3 = t3
    r1 = r1
    r2 = r2
    None = None
    Users <- MCUsers
    Emails <- MCEmails
    Tokens <- MCTokens
    Requests <- MCRequests
    Configs <- MCConfigs
SPECIFICATION Spec
SYMMETRY Symmetry
INVARIANTS
    VerifiedMeansProved
    OneWorkingChangeLink
    DeletionProved

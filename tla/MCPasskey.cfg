CONSTANTS
    alice = alice
    bob = bob
    c1 = c1
    c2 = c2
    c3 = c3
    h1 = h1
    h2 = h2
    h3 = h3
    x1 = x1
    x2 = x2
    x3 = x3
    r1 = r1
    r2 = r2
    None = None
    Users <- MCUsers
    Credentials <- MCCredentials
    Counterless <- MCCounterless
    Challenges <- MCChallenges
    UserHandles <- MCUserHandles
    Requests <- MCRequests
    MaxCredentials = 2
    MaxCounter = 2
    Retarget = TRUE
SPECIFICATION Spec
SYMMETRY Symmetry
INVARIANTS
    OneSessionPerChallenge
    OwnerSignsIn
    OneHandlePerUser
PROPERTIES
    CounterNeverGoesBack
CHECK_DEADLOCK FALSE

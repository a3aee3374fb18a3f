CONSTANTS
    c1 = c1
    c2 = c2
    c3 = c3
    Callers <- MCCallers
    Limit = 1
    Dialect = "sqlite"
SPECIFICATION RequestSpec
INVARIANTS
    OwnCancellation
PROPERTIES
    Contract
    EveryRequestAnswered
CHECK_DEADLOCK FALSE

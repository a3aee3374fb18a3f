CONSTANTS
    c1 = c1
    c2 = c2
    c3 = c3
    Callers <- MCCallers
    Limit = 1
    Dialect = "postgresql"
SPECIFICATION Spec
INVARIANTS
    OneWinner
CHECK_DEADLOCK FALSE

CONSTANTS
    d1 = d1
    d2 = d2
    Dispatchers <- MCDispatchers
    BatchSize = 2
    MaxEvents = 3
    Times <- MCTimes
    MaxFailures = 2
SPECIFICATION Spec
INVARIANTS
    PublishedWasHandled
    NoOvertaking
PROPERTIES
    EventuallyPublished

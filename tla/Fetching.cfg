CONSTANTS
    Words = 6
    ibusLatency = 2
    irQueueSize = 2
    MaxInFlight = 3
    Targets = {0}
    None = None
SPECIFICATION Spec
INVARIANTS
    PrefetchInOrder
PROPERTIES
    FetchesRight
    Fetches

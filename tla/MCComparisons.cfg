\* Three runs, two comparisons and two workers; a claim ends after two batches.
CONSTANTS
    w1 = w1  w2 = w2
    Runs = {1, 2, 3}
    Comparisons <- Chain
    Workers = {w1, w2}
    Free = Free  Api = Api
    NoComparison = NoComparison  NotCounted = NotCounted
    ResourceBatches = 1
    ItemBatches = 1
    FindingBatches = 1
    Quantum = 2
    MaxAttempts = 2
    ApiCap = 1
    AutomaticCap = 2
    MaxFaults = 1
    MaxRequests = 1
SPECIFICATION Spec
SYMMETRY Symmetry
INVARIANTS
    PublishedWhole
    AuthorityHolds
    CoverageTruthful
PROPERTIES
    LastAdvances
    CapacityHolds
CHECK_DEADLOCK FALSE

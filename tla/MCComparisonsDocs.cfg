\* What the documentation says of resumed work, against the code.
CONSTANTS
    w1 = w1  w2 = w2
    Runs = {1, 2}
    Comparisons <- First
    Workers = {w1}
    Free = Free  Api = Api
    NoComparison = NoComparison  NotCounted = NotCounted
    ResourceBatches = 1
    ItemBatches = 2
    FindingBatches = 1
    Quantum = 2
    MaxAttempts = 3
    ApiCap = 1
    AutomaticCap = 1
    MaxFaults = 0
    MaxRequests = 0
SPECIFICATION FairSpec
PROPERTIES NeverReplays
CHECK_DEADLOCK FALSE

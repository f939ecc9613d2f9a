\* One comparison, two workers, faults and an operator's requests, fairly scheduled; a
\* claim's quantum covers the item history and the findings.  The rows it may write are
\* those of two subjects of a resource with at most one access entry each, the contexts
\* those of two identities, two targets and three scopes.
CONSTANTS
    w1 = w1  w2 = w2
    Runs = {1, 2}
    Comparisons <- First
    Workers = {w1, w2}
    Free = Free  Api = Api
    NoComparison = NoComparison  NotCounted = NotCounted
    ResourceBatches = 2
    ItemBatches = 1
    FindingBatches = 2
    Quantum = 3
    MaxAttempts = 2
    ApiCap = 1
    AutomaticCap = 1
    MaxFaults = 2
    MaxRequests = 2
    h1 = h1  s1 = s1  s2 = s2
    Entries <- OneOfEachProvider
    Heads = {h1}
    NoHead = NoHead
    Null = Null
    Subjects = {s1, s2}
    Unobserved = Unobserved
    Values = {0, 1}
    alice = alice  bob = bob  here = here  there = there  deep = deep  shallow = shallow
    every = every  named = named
    Who = {alice, bob}
    Sites = {here, there}
    Everywhere = Everywhere
    Enumerations <- Scopes
    Missing = Missing
    id1 = id1  id2 = id2
    NoId = NoId
    Resources <- AFewResources
    DiffLimits = {1, 2}
SPECIFICATION FairSpec
INVARIANTS ConclusionsHold RowsAreFaithful AutomaticWithinRequested PreviewIsExact
PROPERTIES ComparisonsSettle FindingsSettle
CHECK_DEADLOCK FALSE

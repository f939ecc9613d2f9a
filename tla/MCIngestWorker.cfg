\* Two workers on one run: redelivered and lost messages, a replacement, a fault.
CONSTANTS
    r1 = r1  w1 = w1  w2 = w2  m1 = m1
    Runs = {r1}
    Workers = {w1, w2}
    Messages = {m1}
    RunOf <- OneNamesR1
    NoRun = NoRun  NoMessage = NoMessage  Free = Free  Api = Api
    ArtifactLines = 3
    ProgressEvery = 2
    MaxRetries = 1
    MaxUploads = 2
    MaxFaults = 1
    Nothing = Nothing
    Formats = {"sharepoint", "smb_compact", "names"}
    OutcomeLimit = 1
    MaxObservations = 3
    a1 = a1  a2 = a2
    Atoms = {a1, a2}
    BadQuery = BadQuery
    MaxTokens = 5
    MaxClauses = 3
    ProviderNames = {smb, nfs}
    Unset = Unset
    Keysets <- Directions
    RowTimes <- Times
    PageLimits = {1, 2, 3}
    Reads = 3
SPECIFICATION FairSpec
INVARIANTS
    RowsMatchArtifact
    CompleteIsWhole
    SessionOwnsRow
    RetryBudget
    RecordsHold
    InventoryAnswers
PROPERTIES
    ImplementsFairContract

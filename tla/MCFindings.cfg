\* Two runs, an automatic and a backward comparison, one analyst, one fault and one request.
CONSTANTS
    a = a  c = c
    Runs = {1, 2}
    Comparisons <- Pairs
    StateFindings = {a}
    ChangeFindings = {c}
    Policies = {1}
    PolicyOf <- OnePolicy
    Snapshots <- Evidence
    Changes <- OneChange
    Analysts = {"analyst"}
    Limit = 1
    MaxAttempts = 2
    MaxFaults = 1
    MaxRequests = 1
SPECIFICATION FairSpec
INVARIANTS
    IInv EditsSeeTheRow
PROPERTIES
    DecisionsStand
    AbsenceHolds
    EvidenceAdvances EvaluationsSettle AcceptanceEnds
CHECK_DEADLOCK FALSE

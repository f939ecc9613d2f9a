\* Two runs whose ingests interleave: the newer one's stops between two batches.
CONSTANTS
    a = a  c = c
    Runs = {1, 2}
    Comparisons = {}
    StateFindings = {a}
    ChangeFindings = {}
    Policies = {1}
    PolicyOf <- OnePolicy
    Snapshots <- Evidence
    Changes <- OneChange
    Analysts = {"analyst"}
    Limit = 1
    MaxAttempts = 2
    MaxFaults = 1
    MaxRequests = 1
SPECIFICATION Spec
PROPERTIES ResolvedByReplacement
CHECK_DEADLOCK FALSE

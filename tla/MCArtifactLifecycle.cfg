\* Two uploads and a deletion of one run, a project deletion, the reconciler.
CONSTANTS
    r1 = r1  u1 = u1  u2 = u2  d1 = d1
    Runs = {r1}
    Uploads = {u1, u2}
    Deletes = {d1}
    RunOf <- OneRunTwoUploads
    DeleteOf <- OneDelete
    NoKey = NoKey
SPECIFICATION Spec
SYMMETRY Symmetry
\* Every request may be over.
CHECK_DEADLOCK FALSE
INVARIANTS
    NoDanglingArtifact
    IngestReadsStoredArtifact
PROPERTY ReclaimedOnlyGarbage

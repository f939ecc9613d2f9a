------------------------ MODULE ChangeClassification ------------------------
(***************************************************************************)
(* What a comparison says of a resource, and of an item in it, that two    *)
(* runs saw or one of them did not: the planes it looks at, the states it  *)
(* records, the row it writes, the summary and the finding that follow.    *)
(***************************************************************************)
EXTENDS PermissionEvidence

CONSTANTS
    Unobserved,   \* every capability is "not_tested"
    Values        \* the values a compared field may take

ASSUME ClassificationAssumption == Null \notin Values \cup {0}

\* The planes a comparison may interpret, as its compatibility says.
Planes == [structural: BOOLEAN, content: BOOLEAN, capability: BOOLEAN, direct: BOOLEAN]

\* The side of a run that has no row of the resource or item.
NoSide == [absent |-> TRUE]

Flag(test, name) == IF test THEN {name} ELSE {}

\* ------------------------------------------------------------------ resources

\* permission_rollup; "perm" is a summary of PermissionEvidence.
\* Mutant of RollupComparable: the quality of the evidence is not compared.
RollupAnyQuality(b, c) ==
    /\ b.perm.available /\ c.perm.available /\ b.perm.comparable /\ c.perm.comparable
    /\ b.perm.evidence # Null /\ c.perm.evidence # Null
RollupComparable(b, c) ==
    /\ b.perm.available /\ c.perm.available /\ b.perm.comparable /\ c.perm.comparable
    /\ b.perm.quality # Null /\ b.perm.quality = c.perm.quality
    /\ b.perm.evidence # Null /\ c.perm.evidence # Null
EvidencePresent(b, c) == b.perm.available \/ c.perm.available
EvidenceDiffers(b, c) ==
    b.perm.available /\ c.perm.available /\ b.perm.evidence # c.perm.evidence
QualityDiffers(b, c) ==
    \/ b.perm.available # c.perm.available
    \/ b.perm.comparable # c.perm.comparable
    \/ b.perm.quality # c.perm.quality

DirectComparable(ok, b, c) == ok.direct /\ RollupComparable(b, c)

\* "valid": the probe ended, was not degraded and names the identity it assessed.
CapabilityComparable(ok, b, c) ==
    /\ ok.capability
    /\ b.caps # Unobserved /\ c.caps # Unobserved
    /\ b.valid /\ c.valid /\ b.identity = c.identity

\* classified, for a resource both runs have
LocationChanged(ok, b, c) == ok.structural /\ b.location # c.location
LocationIndeterminate(ok, b, c) == ~ok.structural /\ b.location # c.location
AccessChanged(ok, b, c) ==
    CapabilityComparable(ok, b, c) /\ (b.level # c.level \/ b.caps # c.caps)
PermissionsChanged(ok, b, c) == DirectComparable(ok, b, c) /\ EvidenceDiffers(b, c)
ItemCountChanged(ok, b, c) == ok.content /\ b.listed /\ c.listed /\ b.items # c.items
\* Mutant of AccessIndeterminate: the probe's validity is not looked at.
AccessIndeterminateAnyProbe(ok, b, c) ==
    /\ b.caps # Unobserved \/ c.caps # Unobserved
    /\ \/ ~ok.capability
       \/ (b.caps = Unobserved) # (c.caps = Unobserved)
       \/ b.identity # c.identity
AccessIndeterminate(ok, b, c) ==
    /\ b.caps # Unobserved \/ c.caps # Unobserved
    /\ \/ ~ok.capability
       \/ (b.caps = Unobserved) # (c.caps = Unobserved)
       \/ ~b.valid \/ ~c.valid \/ b.identity # c.identity
ExposureIndeterminate(b, c) == b.exposure # c.exposure
PermissionsIndeterminate(provider, ok, b, c) ==
    \/ EvidencePresent(b, c) /\ ~DirectComparable(ok, b, c)
    \/ ok.direct /\ provider \in {"smb", "sharepoint"} /\ ~EvidencePresent(b, c)
    \/ QualityDiffers(b, c)
    \/ ~DirectComparable(ok, b, c) /\ EvidenceDiffers(b, c)
ContentIndeterminate(ok, b, c) ==
    b.items # c.items /\ (~ok.content \/ ~b.listed \/ ~c.listed)

Categories(provider, ok, b, c) ==
    IF b = NoSide \/ c = NoSide THEN {} ELSE UNION {
        Flag(LocationChanged(ok, b, c), "location"),
        Flag(LocationIndeterminate(ok, b, c), "structure_not_comparable"),
        Flag(AccessChanged(ok, b, c), "access"),
        Flag(PermissionsChanged(ok, b, c), "permission_evidence"),
        Flag(ItemCountChanged(ok, b, c), "item_count"),
        Flag(AccessIndeterminate(ok, b, c), "access_not_comparable"),
        Flag(ExposureIndeterminate(b, c), "exposure_not_comparable"),
        Flag(PermissionsIndeterminate(provider, ok, b, c), "permission_evidence_not_comparable"),
        Flag(ContentIndeterminate(ok, b, c), "item_count_not_comparable")}

Definite == {"location", "access", "permission_evidence", "item_count"}
Presence(ok, word) == IF ok.structural THEN word ELSE "indeterminate"

\* shaped: "none" is NULL, and no row is written.
ChangeType(provider, ok, b, c) ==
    LET said == Categories(provider, ok, b, c) IN
    CASE b = NoSide -> Presence(ok, "appeared")
      [] c = NoSide -> Presence(ok, "disappeared")
      [] said \cap Definite # {} -> "changed"
      [] said # {} /\ said \cap Definite = {} -> "indeterminate"
      [] OTHER -> "none"

StructuralState(ok, b, c) ==
    IF b = NoSide THEN Presence(ok, "appeared")
    ELSE IF c = NoSide THEN Presence(ok, "disappeared")
    ELSE IF LocationChanged(ok, b, c) THEN "changed"
    ELSE IF LocationIndeterminate(ok, b, c) THEN "indeterminate"
    ELSE "unchanged"

AccessState(provider, ok, b, c) ==
    LET said == Categories(provider, ok, b, c) IN
    IF b = NoSide \/ c = NoSide THEN "not_comparable"
    ELSE IF said \cap {"access", "permission_evidence"} # {} THEN "changed"
    ELSE IF said \cap {"access_not_comparable", "exposure_not_comparable",
                       "permission_evidence_not_comparable"} # {} THEN "not_comparable"
    ELSE IF DirectComparable(ok, b, c) \/ CapabilityComparable(ok, b, c) THEN "unchanged"
    ELSE IF ~EvidencePresent(b, c) /\ b.caps = Unobserved /\ c.caps = Unobserved
         THEN "not_assessed"
    ELSE "not_comparable"

\* access_interpretation, up to its wording
Interpretation(provider, ok, b, c) ==
    LET said == Categories(provider, ok, b, c) IN
    IF "permission_evidence" \in said
    THEN IF b.perm.exact /\ c.perm.exact THEN "scope_complete_changed" ELSE "observed_changed"
    ELSE IF "access" \in said THEN "capability_changed"
    ELSE IF said \cap {"permission_evidence_not_comparable", "exposure_not_comparable"} # {}
         THEN "no_negative_conclusion"
    ELSE IF b = NoSide \/ c = NoSide THEN "not_assessed_or_not_comparable"
    ELSE IF DirectComparable(ok, b, c) THEN "direct_unchanged"
    ELSE IF CapabilityComparable(ok, b, c) THEN "capability_unchanged"
    ELSE "not_assessed_or_not_comparable"

ImpactRank(provider, ok, b, c) ==
    LET said == Categories(provider, ok, b, c) IN
    IF c = NoSide /\ ok.structural THEN 100
    ELSE IF b = NoSide /\ ok.structural THEN 90
    ELSE IF said \cap {"access", "permission_evidence"} # {} THEN 80
    ELSE IF ChangeType(provider, ok, b, c) = "indeterminate" THEN 70
    ELSE IF "item_count" \in said THEN 50
    ELSE IF "location" \in said THEN 40
    ELSE 10

\* "strength" is the identity strength of the current endpoint, else of the baseline's.
MatchQuality(provider, hasId, identityExact, strength) ==
    IF ~hasId THEN "weak"
    ELSE IF provider # "smb" \/ (identityExact /\ strength = "strong") THEN "strong"
    ELSE IF strength = "moderate" THEN "moderate" ELSE "weak"

\* evaluate_comparison_findings: the policy a row is observed under.
Policy(type, structural, access, categories) ==
    IF type = "appeared" /\ structural = "appeared" THEN "resource.appeared"
    ELSE IF type = "disappeared" /\ structural = "disappeared" THEN "resource.disappeared"
    ELSE IF /\ categories \cap {"access", "permission_evidence"} # {}
            /\ type # "indeterminate" /\ access = "changed"
         THEN "permission.evidence_changed"
    ELSE IF type = "indeterminate" \/ access = "indeterminate" THEN "comparison.indeterminate"
    ELSE "none"
ResourcePolicy(provider, ok, b, c) ==
    Policy(ChangeType(provider, ok, b, c), StructuralState(ok, b, c),
           AccessState(provider, ok, b, c), Categories(provider, ok, b, c))

\* ---------------------------------------------------------------------- items

\* "known": the provider named the item, so that its path is not its identity.
Moved(b, c)       == b.known /\ (b.parent # c.parent \/ (b.path # c.path /\ b.name = c.name))
Renamed(b, c)     == b.known /\ b.name # c.name
PathChanged(b, c) == b.known /\ b.path # c.path
MetadataChanged(b, c) == b.metadata # c.metadata
ItemPermissionChanged(direct, b, c) ==
    direct /\ RollupComparable(b, c) /\ b.perm.evidence # c.perm.evidence
ItemPermissionIndeterminate(direct, b, c) ==
    /\ EvidencePresent(b, c)
    /\ \/ ~direct \/ ~b.perm.comparable \/ ~c.perm.comparable
       \/ b.perm.evidence = Null \/ c.perm.evidence = Null
       \/ b.perm.quality # c.perm.quality
    /\ b.perm # c.perm

ItemCategories(direct, b, c) ==
    IF b = NoSide THEN {"added"} ELSE IF c = NoSide THEN {"removed"} ELSE UNION {
        Flag(Moved(b, c), "moved"), Flag(Renamed(b, c), "renamed"),
        Flag(PathChanged(b, c), "path"), Flag(MetadataChanged(b, c), "metadata"),
        Flag(ItemPermissionChanged(direct, b, c), "permission"),
        Flag(ItemPermissionIndeterminate(direct, b, c), "permission_not_comparable")}

ItemChangeType(direct, b, c) ==
    LET said == ItemCategories(direct, b, c) IN
    IF b = NoSide THEN "added" ELSE IF c = NoSide THEN "removed"
    ELSE IF "moved" \in said THEN "moved" ELSE IF "renamed" \in said THEN "renamed"
    ELSE IF "permission" \in said THEN "permission_changed"
    ELSE IF "metadata" \in said THEN "metadata_changed"
    ELSE IF "permission_not_comparable" \in said THEN "indeterminate"
    ELSE "none"

ItemEvidence(direct, b, c) ==
    IF "permission_not_comparable" \in ItemCategories(direct, b, c) THEN "indeterminate"
    ELSE IF (IF c = NoSide THEN b ELSE c).known THEN "exact" ELSE "bounded"

\* _finalize_item_candidate_resources: the row of an unchanged resource whose items were
\* compared; it is dropped again when none of them changed.
CandidateRow(itemTypes, ambiguous) ==
    IF ambiguous THEN "indeterminate"
    ELSE IF itemTypes \subseteq {"none"} THEN "none" ELSE "changed"

\* _item_change_summary: "rows" are [type, evidence] of the item changes.
ItemSummaryExact(computed, limited, rows) ==
    computed /\ ~limited /\ \A r \in rows : r.evidence = "exact" /\ r.type # "indeterminate"

-----------------------------------------------------------------------------
\* Hosts: what was there when a run looked, and what the run came to store of it.

\* A resource on a host: the access list of each subject; what a run stores of it is the
\* assessment of some of its subjects.
Observed(provider) ==
    UNION {{[acl |-> acl, row |-> a] : a \in Assessments(provider, acl) \cup {NoSide}} :
           acl \in AccessLists(provider)}
Stored(provider, seen) ==
    LET assessed == {s \in Subjects : seen[s].row # NoSide}
    IN  Summary(provider, [s \in assessed |-> seen[s].row])

\* Nothing but the permissions of the resource may differ.
WithPermissions(perm) ==
    [location |-> 0, level |-> 0, caps |-> Unobserved, valid |-> FALSE, identity |-> 0,
     exposure |-> 0, listed |-> FALSE, items |-> 0, perm |-> perm]

\* ----------------------------------------------------------------- properties

\* One run: the access lists when it looked, the subjects it assessed, what it stored.
Witnessed(provider, seen) ==
    [acl      |-> [s \in Subjects |-> seen[s].acl],
     assessed |-> {s \in Subjects : seen[s].row # NoSide},
     perm     |-> Stored(provider, seen)]

\* Every plane may be interpreted, but for the direct permissions when "direct" says no.
Interpreted(direct) == [structural |-> TRUE, content |-> TRUE, capability |-> TRUE, direct |-> direct]

\* What a comparison of "before" and "after" says of permissions is so on the hosts.
ConclusionTrue(provider, before, after, direct) ==
    LET b == WithPermissions(before.perm)
        c == WithPermissions(after.perm)
    IN  /\ Interpretation(provider, Interpreted(direct), b, c)
               \in {"scope_complete_changed", "observed_changed"} =>
             \E s \in before.assessed \cap after.assessed : before.acl[s] # after.acl[s]
        /\ AccessState(provider, Interpreted(direct), b, c) = "unchanged" =>
             /\ before.assessed = after.assessed
             /\ \A s \in before.assessed : before.acl[s] = after.acl[s]

\* A conclusion on permissions is true of the hosts, not only of what was stored: evidence
\* is reported as changed when an assessed list did change, and access as unchanged when
\* none did, whatever each run failed to read and whatever was lost of its artifact.
EveryConclusionIsTrue ==
    \A provider \in Providers :
        LET Histories == {Witnessed(provider, seen) : seen \in [Subjects -> Observed(provider)]}
        IN  \A before \in Histories : \A after \in Histories : \A direct \in BOOLEAN :
                ConclusionTrue(provider, before, after, direct)

\* Two rows of one resource in which what a run may find on the host differs or does not.
Permissions(evidence, quality) ==
    {NoSummary} \cup
    [available: {TRUE}, comparable: BOOLEAN, exact: {FALSE}, evidence: evidence, quality: quality]
Baselines ==
    [location: {0}, level: {0}, caps: {Unobserved, 0}, valid: BOOLEAN, identity: {0},
     exposure: {0}, listed: {TRUE}, items: {0}, perm: Permissions({0}, {0})]
Currents ==
    [location: {0}, level: Values, caps: Values \cup {Unobserved}, valid: BOOLEAN,
     identity: Values, exposure: {0}, listed: {TRUE}, items: {0},
     perm: Permissions(Values, Values)]
Elsewhere(side) ==
    {[side EXCEPT !.location = q[1], !.exposure = q[2], !.items = q[3], !.listed = q[4]] :
        q \in Values \X Values \X Values \X BOOLEAN}
Pairs ==
    (Baselines \X Currents)
      \cup (Elsewhere(WithPermissions(NoSummary)) \X Elsewhere(WithPermissions(NoSummary)))

\* A plane that differs is named by a category, as changed or as not comparable.
PlanesAreNamed(provider, ok, b, c) ==
    LET said == Categories(provider, ok, b, c)
        Says(plane, names) == plane => said \cap names # {}
    IN  /\ Says(b.location # c.location, {"location", "structure_not_comparable"})
        /\ Says(b.items # c.items, {"item_count", "item_count_not_comparable"})
        /\ Says(b.exposure # c.exposure, {"exposure_not_comparable"})
        /\ Says(b.caps # c.caps, {"access", "access_not_comparable"})
        /\ Says(b.perm # c.perm, {"permission_evidence", "permission_evidence_not_comparable"})
        /\ said # {} <=> ChangeType(provider, ok, b, c) # "none"

\* Access is "unchanged" when every plane that a run observed could be compared, and is equal.
UnchangedIsEarned(provider, ok, b, c) ==
    AccessState(provider, ok, b, c) = "unchanged" =>
        /\ b.exposure = c.exposure
        /\ (b.caps # Unobserved \/ c.caps # Unobserved) =>
              CapabilityComparable(ok, b, c) /\ b.caps = c.caps /\ b.level = c.level
        /\ EvidencePresent(b, c) => DirectComparable(ok, b, c) /\ ~EvidenceDiffers(b, c)

\* The baseline and the current run are told apart by appearance and disappearance alone.
Mirror(word) ==
    IF word = "appeared" THEN "disappeared" ELSE IF word = "disappeared" THEN "appeared" ELSE word
Mirrored(provider, ok, b, c) ==
    /\ Categories(provider, ok, c, b) = Categories(provider, ok, b, c)
    /\ ChangeType(provider, ok, c, b) = Mirror(ChangeType(provider, ok, b, c))
    /\ StructuralState(ok, c, b) = Mirror(StructuralState(ok, b, c))
    /\ AccessState(provider, ok, c, b) = AccessState(provider, ok, b, c)

\* Two versions of an item: without a provider's name for it, its path is what the runs share.
Versions(known) ==
    [known: {known}, parent: Values, path: Values, name: Values, metadata: Values,
     perm: Permissions(Values, Values)]
Originals(known) ==
    [known: {known}, parent: {0}, path: {0}, name: {0}, metadata: {0}, perm: Permissions({0}, {0})]
ItemPairs ==
    UNION {{p \in Originals(known) \X Versions(known) :
               known \/ (p[1].path = p[2].path /\ p[1].name = p[2].name /\ p[1].parent = p[2].parent)} :
           known \in BOOLEAN}

\* What differs of an item is named by a category, and a row is written exactly then.
ItemsAreNamed(direct, b, c) ==
    LET said == ItemCategories(direct, b, c)
        Says(aspect, names) == aspect => said \cap names # {}
    IN  /\ Says(b.name # c.name, {"renamed"})
        /\ Says(b.parent # c.parent, {"moved"})
        /\ Says(b.path # c.path, {"moved", "renamed"})
        /\ Says(b.metadata # c.metadata, {"metadata"})
        /\ Says(b.perm # c.perm, {"permission", "permission_not_comparable"})
        /\ said # {} <=> ItemChangeType(direct, b, c) # "none"
        /\ ItemCategories(direct, c, b) = said
        /\ ItemChangeType(direct, c, b) = ItemChangeType(direct, b, c)

\* A row a finding is made of is ranked above every row that none is made of.
FindingsComeFirst(provider, ok, b, c) ==
    ResourcePolicy(provider, ok, b, c) # "none" <=> ImpactRank(provider, ok, b, c) >= 70

\* No difference between two runs is silent, "unchanged" is never said of evidence that was
\* not compared, what is said does not depend on which run is the baseline, and findings are
\* made of the rows that are ranked first.
ResourceRowsAreFaithful ==
    \A provider \in {"smb", "sharepoint", "nfs"} : \A ok \in Planes : \A p \in Pairs :
        /\ PlanesAreNamed(provider, ok, p[1], p[2])
        /\ UnchangedIsEarned(provider, ok, p[1], p[2])
        /\ Mirrored(provider, ok, p[1], p[2])
        /\ Mirrored(provider, ok, p[1], NoSide)
        /\ FindingsComeFirst(provider, ok, p[1], p[2])
        /\ FindingsComeFirst(provider, ok, p[1], NoSide)
        /\ FindingsComeFirst(provider, ok, NoSide, p[2])
ItemRowsAreFaithful ==
    \A direct \in BOOLEAN : \A p \in ItemPairs : ItemsAreNamed(direct, p[1], p[2])
=============================================================================

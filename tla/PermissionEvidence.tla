------------------------- MODULE PermissionEvidence -------------------------
(***************************************************************************)
(* From an access list on a host to the permission summary of a resource:  *)
(* what a collector claims of the list it read, what the worker keeps of   *)
(* the claim when entries of the artifact are lost on the way, and what it *)
(* then tells a comparison.  Hashes are the values they are taken of.      *)
(***************************************************************************)
EXTENDS Naturals, FiniteSets

CONSTANTS
    Entries,   \* access entries: a kind, whether a principal could be read, a right
    Heads,     \* owner, group and control flags of a Windows descriptor
    NoHead,    \* a descriptor that was not read; Graph has none
    Null,
    Subjects   \* objects of a resource that may be assessed

Kinds     == {"ace", "identity_grant", "link", "invitation"}
Providers == {"smb", "sharepoint"}

ASSUME EvidenceAssumption ==
    /\ Entries \subseteq [kind: Kinds, principal: BOOLEAN, right: Nat]
    /\ Null \notin (Heads \cup {NoHead}) \X SUBSET Entries

EntriesOf(provider) == {e \in Entries : e.kind = "ace" <=> provider = "smb"}
\* The access list of an object: for Graph, the permissions alone.
AccessLists(provider) ==
    [head: IF provider = "smb" THEN Heads ELSE {NoHead},
     entries: {s \in SUBSET EntriesOf(provider) : IsFiniteSet(s)}]

\* ---------------------------------------------------------------- collectors

Unread(head) ==
    [head |-> head, state |-> "failed", retrieval |-> "failed", hashed |-> FALSE,
     negative |-> FALSE, exhaustive |-> TRUE,
     observed |-> 0, emitted |-> 0, omitted |-> 0, unknown |-> 0]

\* The Windows descriptor is read in one call; "kept" are the entries under the
\* descriptor's and the share's limits, "vague" those not fully interpreted.
SmbClaim(acl, kept, vague, fault, root) ==
    LET omitted == Cardinality(acl.entries) - Cardinality(kept)
        unknown == Cardinality(vague \cup {e \in acl.entries : ~e.principal})
        partial == omitted > 0 \/ unknown > 0 \/ fault = "errors"
        grade   == IF partial THEN "partial" ELSE "complete"
    IN  IF fault \in {"query", "parse"} THEN [Unread(NoHead) EXCEPT !.exhaustive = root]
        ELSE [head |-> acl.head, state |-> grade, retrieval |-> grade, hashed |-> TRUE,
              negative |-> ~partial, exhaustive |-> root,
              observed |-> Cardinality(acl.entries), emitted |-> Cardinality(kept),
              omitted |-> omitted, unknown |-> unknown]

\* Mutant of GraphClaim: the pages read before a request failed pass for the whole answer.
GraphClaimAnyPages(seen, kept, unknown, fault, paged) ==
    LET omitted  == Cardinality(seen) - Cardinality(kept)
        complete == paged /\ unknown = 0 /\ omitted = 0
    IN  [head |-> NoHead,
         state |-> IF complete THEN "complete" ELSE IF ~paged THEN "failed" ELSE "partial",
         retrieval |-> IF paged THEN "complete" ELSE "failed",
         hashed |-> paged /\ omitted = 0, negative |-> FALSE, exhaustive |-> TRUE,
         observed |-> Cardinality(seen), emitted |-> Cardinality(kept),
         omitted |-> omitted, unknown |-> unknown]
\* Graph answers in pages, of which a failed request leaves the first ones; "kept" are
\* the entries under the run's entry budget.
GraphClaim(seen, kept, unknown, fault, paged) ==
    LET omitted  == Cardinality(seen) - Cardinality(kept)
        complete == ~fault /\ unknown = 0 /\ omitted = 0
    IN  [head |-> NoHead,
         state |-> IF complete THEN "complete" ELSE IF fault /\ ~paged THEN "failed" ELSE "partial",
         retrieval |-> IF ~fault THEN "complete" ELSE IF paged THEN "partial" ELSE "failed",
         hashed |-> ~fault /\ omitted = 0, negative |-> FALSE, exhaustive |-> TRUE,
         observed |-> Cardinality(seen), emitted |-> Cardinality(kept),
         omitted |-> omitted, unknown |-> unknown]

\* What a collector that reads the list may claim, with the entries it puts in the artifact.
SmbReadings(acl) ==
    {[claim |-> SmbClaim(acl, p[1], p[2], p[3], p[4]),
      kept  |-> IF p[3] \in {"query", "parse"} THEN {} ELSE p[1]] :
        p \in (SUBSET acl.entries) \X (SUBSET acl.entries)
                  \X {"none", "query", "parse", "errors"} \X BOOLEAN}

\* An entry Graph returned and the collector did not see was counted as unknown, unless
\* a request failed.
GraphReadings(acl) ==
    {[claim |-> GraphClaim(p[1], p[2], p[3], p[4], p[5]), kept |-> p[2]] :
        p \in {q \in (SUBSET acl.entries) \X (SUBSET acl.entries)
                         \X (0 .. Cardinality(acl.entries)) \X BOOLEAN \X BOOLEAN :
                   /\ q[2] \subseteq q[1]
                   /\ q[4] \/ q[1] = acl.entries \/ q[3] > 0
                   /\ q[5] \/ (q[4] /\ q[1] = {})}}

Readings(provider, acl) == IF provider = "smb" THEN SmbReadings(acl) ELSE GraphReadings(acl)

\* -------------------------------------------------------------------- worker

\* classified_entries
UnresolvedPrincipal(provider, e) ==
    ~e.principal /\ ~(provider = "sharepoint" /\ e.kind \in {"link", "invitation"})
InvalidEntryKind(provider, e) ==
    \/ provider = "smb" /\ e.kind # "ace"
    \/ provider = "sharepoint" /\ e.kind = "ace"
Noncomparable(provider, stored) ==
    {e \in stored : UnresolvedPrincipal(provider, e) \/ InvalidEntryKind(provider, e)}

CountsMatch(claim, stored) == Cardinality(stored) = claim.emitted

HashEligible(provider, claim, stored) ==
    /\ claim.hashed /\ claim.state = "complete" /\ claim.retrieval = "complete"
    /\ CountsMatch(claim, stored)
    /\ claim.observed = claim.emitted /\ claim.omitted = 0 /\ claim.unknown = 0
    /\ Noncomparable(provider, stored) = {}

\* reconcile_permission_evidence_integrity: the assessment after its entries were counted.
Reconcile(provider, claim, stored) ==
    LET bad       == Noncomparable(provider, stored)
        broken    == ~CountsMatch(claim, stored) \/ bad # {}
        Lower(s)  == IF broken /\ s = "complete" THEN "partial" ELSE s
        eligible  == HashEligible(provider, claim, stored)
    IN  [hash       |-> IF eligible THEN <<claim.head, stored>> ELSE Null,
         state      |-> Lower(claim.state),
         retrieval  |-> Lower(claim.retrieval),
         negative   |-> claim.negative /\ eligible /\ provider = "smb",
         exhaustive |-> claim.exhaustive,
         observed   |-> claim.observed,
         emitted    |-> claim.emitted,
         omitted    |-> claim.omitted,
         unknown    |-> IF Cardinality(bad) > claim.unknown THEN Cardinality(bad)
                        ELSE claim.unknown,
         stored     |-> stored]

\* The rows an object's reading leaves: any of its entries may be missing.
Assessments(provider, acl) ==
    {Reconcile(provider, p[1].claim, p[2]) :
        p \in UNION {{r} \X SUBSET r.kept : r \in Readings(provider, acl)}}

Comparable(provider, a) ==
    /\ a.state = "complete" /\ a.retrieval = "complete" /\ a.hash # Null
    /\ a.observed = a.emitted /\ Cardinality(a.stored) = a.emitted
    /\ Noncomparable(provider, a.stored) = {}
    /\ a.omitted = 0 /\ a.unknown = 0

NoSummary == [available |-> FALSE, comparable |-> FALSE, exact |-> FALSE,
              evidence |-> Null, quality |-> Null]

Quality(a) == <<a.state, a.exhaustive, a.retrieval, a.omitted, a.unknown>>

\* reconcile_permission_summaries: "rows" has the assessment of each assessed subject.
Summary(provider, rows) ==
    IF DOMAIN rows = {} THEN NoSummary ELSE
    [available  |-> TRUE,
     comparable |-> \A s \in DOMAIN rows : Comparable(provider, rows[s]),
     exact      |-> \A s \in DOMAIN rows : rows[s].negative /\ rows[s].exhaustive,
     evidence   |-> [s \in DOMAIN rows |-> <<rows[s].hash, rows[s].emitted>>],
     quality    |-> [s \in DOMAIN rows |-> Quality(rows[s])]]

\* ------------------------------------------------------- what a run may claim

\* _inventory_collection_integrity: how many records of each kind the collector says it
\* wrote, how many rows there are, and how many records were rejected.
StructureVerified(produced, persisted, rejected) ==
    /\ produced # Null
    /\ rejected.structural = 0 /\ rejected.unclassified = 0
    /\ \A kind \in {"endpoints", "resources"} : produced[kind] = persisted[kind]
ContentVerified(produced, persisted, rejected) ==
    /\ StructureVerified(produced, persisted, rejected)
    /\ rejected.content = 0 /\ produced["items"] = persisted["items"]
InventoryClaims(declared, produced, persisted, rejected) ==
    [structural |-> declared.structural /\ StructureVerified(produced, persisted, rejected),
     content    |-> declared.content /\ ContentVerified(produced, persisted, rejected)]

\* _permission_collection_integrity; "rows" has the assessment of each <<resource, subject>>,
\* "inventory" the resources that need one; a collector may declare how many there are.
Incomplete(a) ==
    \/ a.state # "complete" \/ a.retrieval # "complete" \/ a.hash = Null
    \/ a.observed # a.emitted \/ a.omitted # 0 \/ a.unknown # 0
PermissionsComplete(declared, expected, inventory, rejected, rows) ==
    /\ declared /\ rejected = 0
    /\ \A p \in DOMAIN rows : ~Incomplete(rows[p])
    /\ Cardinality(inventory) <= Cardinality({p[1] : p \in DOMAIN rows})
    /\ expected = Null \/ Cardinality(DOMAIN rows) = expected

-----------------------------------------------------------------------------
\* Evidence that a comparison may use is the whole list that was on the host, whatever
\* the collector left out and whatever the artifact or the worker lost on the way.
EvidenceIsTruth ==
    \A provider \in Providers : \A acl \in AccessLists(provider) :
        \A a \in Assessments(provider, acl) :
            Comparable(provider, a) => a.hash = <<acl.head, acl.entries>>
=============================================================================

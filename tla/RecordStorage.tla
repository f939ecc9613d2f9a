--------------------------- MODULE RecordStorage ---------------------------
(***************************************************************************)
(* How the worker stores one record of an artifact: endpoints, resources   *)
(* and items are looked up, inserted or merged into the row they name,     *)
(* observations of a share's access are joined, and access assessments     *)
(* find the row they are about.  Lines are replayed after a crash, so what *)
(* a line does must be harmless the second time.  Each column is merged    *)
(* from its own old and new value, so the merges are stated one by one:    *)
(* identities of rows, capabilities, summaries, access levels, exposure.   *)
(***************************************************************************)
EXTENDS Naturals, Sequences, FiniteSets, SequencesExt

CONSTANTS
    Nothing,        \* an absent value
    Formats,        \* formats of the artifacts whose rows are compared with the shares
    OutcomeLimit,   \* ACCESS_CAPABILITY_OUTCOME_LIMITS
    MaxObservations \* bound: records merged into one row, or lines of an artifact

ASSUME RecordAssumption ==
    /\ OutcomeLimit \in Nat \ {0} /\ MaxObservations \in Nat \ {0}
    /\ Nothing \notin Nat /\ Nothing \notin BOOLEAN /\ Nothing # "multiple_outcomes"

SequencesUpTo(S) == UNION {[1..n -> S] : n \in 1..MaxObservations}

\* What the records of a sequence leave of a row, one merged into it after the other.
MergedInto(Merge(_, _), row, said) ==
    LET after[n \in 0..Len(said)] == IF n = 0 THEN row ELSE Merge(after[n - 1], said[n])
    IN  after[Len(said)]
\* The first of them makes the row.
Folded(Merge(_, _), said) == MergedInto(Merge, Head(said), Tail(said))

(***************************************************************************)
(* A capability: a conclusion, how often it was seen, and one evidence     *)
(* text (reason_code; protocol_status, method and scope are merged alike). *)
(***************************************************************************)
Outcomes    == {"allowed", "denied", "inconclusive"}
Conclusions == Outcomes \cup {"mixed", "not_tested"}

Strongest(conclusions) ==
    IF "mixed" \in conclusions \/ {"allowed", "denied"} \subseteq conclusions THEN "mixed"
    ELSE LET order == <<"allowed", "denied", "inconclusive", "not_tested">> IN
         order[Min({n \in 1..4 : order[n] \in conclusions})]

\* Counted outcomes decide; without any, the conclusion that was reported does.
Concluded(reported, counts) ==
    LET counted == {o \in Outcomes : counts[o] > 0} IN
    IF counted = {} THEN reported ELSE Strongest(counted)

\* Mutant of Limited: the outcomes share one budget, the later ones get what is left.
LimitedTogether(counts) ==
    LET budget == 3 * OutcomeLimit
        allowed == Min({counts["allowed"], budget})
        denied  == Min({counts["denied"], budget - allowed}) IN
    [o \in Outcomes |-> CASE o = "allowed" -> allowed
                           [] o = "denied"  -> denied
                           [] OTHER         -> Min({counts[o], budget - allowed - denied})]

\* Each outcome has a limit of its own.
Limited(counts) == [o \in Outcomes |-> Min({counts[o], OutcomeLimit})]

Capability(raw) ==
    [conclusion |-> Concluded(raw.conclusion, Limited(raw.counts)),
     counts |-> Limited(raw.counts), reason |-> raw.reason]

Rank(conclusion) ==
    CASE conclusion = "not_tested"   -> 0
      [] conclusion = "inconclusive" -> 1
      [] conclusion = "mixed"        -> 3
      [] OTHER                       -> 2

\* The evidence of the stronger conclusion; equal ones that differ are named as several.
Evidence(current, incoming) ==
    LET said == {current.reason, incoming.reason} \ {Nothing} IN
    IF Rank(incoming.conclusion) > Rank(current.conclusion) THEN incoming.reason
    ELSE IF Rank(current.conclusion) > Rank(incoming.conclusion) THEN current.reason
    ELSE IF said = {} THEN Nothing
    ELSE IF Cardinality(said) = 1 THEN CHOOSE r \in said : TRUE
    ELSE "multiple_outcomes"

MergeCapability(current, incoming) ==
    LET counts == Limited([o \in Outcomes |-> Max({current.counts[o], incoming.counts[o]})]) IN
    [conclusion |-> Concluded(Strongest({current.conclusion, incoming.conclusion}), counts),
     counts |-> counts, reason |-> Evidence(current, incoming)]

Observed(capability) == capability.conclusion \in {"allowed", "mixed"}

(***************************************************************************)
(* The summary of a share's assessment: whether it is complete and final,  *)
(* one text and one flag.                                                  *)
(***************************************************************************)
\* Mutant of Authority: a complete summary is preferred, a final one is not.
AuthorityComplete(current, incoming) ==
    IF current.complete = incoming.complete THEN {}
    ELSE {s \in {current, incoming} : s.complete}

\* The summary that is believed where the two differ.
Authority(current, incoming) ==
    IF current.finalized # incoming.finalized THEN {s \in {current, incoming} : s.finalized}
    ELSE IF current.complete # incoming.complete THEN {s \in {current, incoming} : s.complete}
    ELSE {}

MergeSummary(current, incoming) ==
    LET believed(field) == {s[field] : s \in Authority(current, incoming)} \ {Nothing}
        texts == {current.text, incoming.text} \ {Nothing}
        flags == {current.flag, incoming.flag} \ {Nothing} IN
    [complete  |-> current.complete \/ incoming.complete,
     finalized |-> current.finalized \/ incoming.finalized,
     text |-> IF believed("text") # {} THEN CHOOSE t \in believed("text") : TRUE
              ELSE IF texts = {} THEN Nothing ELSE Min(texts),
     flag |-> IF believed("flag") # {} THEN CHOOSE f \in believed("flag") : TRUE
              ELSE IF flags = {} THEN Nothing ELSE TRUE \in flags]

(***************************************************************************)
(* The access level of a share, and the exposure of a row.                 *)
(***************************************************************************)
Levels == <<"unknown", "no_access", "list_only", "readable">>
LevelRank(level)  == CHOOSE n \in 1..4 : Levels[n] = level
Stronger(a, b)    == IF LevelRank(b) > LevelRank(a) THEN b ELSE a
LevelSet          == {Levels[n] : n \in 1..4}

\* Mutant of Reconciled: only listing and reading are looked at.
ReconciledListing(level, observed) ==
    IF "read_file" \in observed THEN Stronger(level, "readable")
    ELSE IF "list" \in observed THEN Stronger(level, "list_only") ELSE level

\* What was observed raises the level; a tree that could be connected to, or a right of
\* writing, only disproves no_access.
Reconciled(level, observed) ==
    IF "read_file" \in observed THEN Stronger(level, "readable")
    ELSE IF "list" \in observed THEN Stronger(level, "list_only")
    ELSE IF observed # {} /\ level = "no_access" THEN "unknown" ELSE level

Access(raw) == [level |-> Reconciled(raw.level, raw.observed), observed |-> raw.observed]

MergeAccess(current, incoming) ==
    LET observed == current.observed \cup incoming.observed IN
    [level |-> Reconciled(Stronger(current.level, incoming.level), observed),
     observed |-> observed]

Unsaid == {Nothing, "UNKNOWN"}

MergeExposure(current, incoming) ==
    IF incoming \in Unsaid /\ current \notin Unsaid THEN current
    ELSE IF incoming = Nothing THEN current ELSE incoming

MergeItemExposure(current, incoming) == IF incoming \in Unsaid THEN current ELSE incoming

(***************************************************************************)
(* An endpoint: its provider identity, the provenance of that identity,    *)
(* and one column that is merely completed.                                *)
(***************************************************************************)
Placeholder == [id |-> Nothing, proof |-> Nothing, detail |-> Nothing, failed |-> FALSE]

\* Provenance without an identity is dropped.
Identified(record) == IF record.id = Nothing THEN [record EXCEPT !.proof = Nothing] ELSE record

\* Mutant of Conflicts: the provenance of an identity may be replaced.
ConflictsById(current, incoming) ==
    current.id # Nothing /\ incoming.id \notin {Nothing, current.id}

Conflicts(current, incoming) ==
    /\ current.id # Nothing
    /\ \/ incoming.id \notin {Nothing, current.id}
       \/ current.proof # Nothing /\ incoming.proof \notin {Nothing, current.proof}

\* A record that contradicts the row fails the run; every other one completes it.
UpsertEndpoint(current, record) ==
    LET incoming == Identified(record)
        Completed(f) == IF incoming[f] = Nothing THEN current[f] ELSE incoming[f] IN
    IF current.failed \/ Conflicts(current, incoming) THEN [current EXCEPT !.failed = TRUE]
    ELSE [current EXCEPT !.id = Completed("id"), !.proof = Completed("proof"),
                         !.detail = Completed("detail")]

(***************************************************************************)
(* The rows of one endpoint: resources in the order of their ids, items,   *)
(* the subjects assessments were stored for and the assessments that were  *)
(* refused, with the cache of resource ids the worker keeps.               *)
(***************************************************************************)
Key(id, name) == IF id # Nothing THEN <<"provider", id>> ELSE <<"name", name>>

NothingStored == [resources |-> <<>>, items |-> {}, assessed |-> {}, refused |-> {}, cache |-> <<>>]
Rows(store)   == [f \in {"resources", "items", "assessed", "refused"} |-> store[f]]

ById(resources, id)     == {n \in DOMAIN resources : resources[n].id = id}
ByName(resources, name) == {n \in ById(resources, Nothing) : resources[n].name = name}

\* Mutant of Found: a resource without the identifier is taken for any other of its name.
FoundAnyName(resources, record) ==
    IF record.id # Nothing /\ ById(resources, record.id) # {} THEN ById(resources, record.id)
    ELSE {n \in DOMAIN resources : resources[n].name = record.name}

\* The row an identifier names, else the row of that name that has none.
Found(resources, record) ==
    IF record.id # Nothing /\ ById(resources, record.id) # {} THEN ById(resources, record.id)
    ELSE ByName(resources, record.name)

\* The resources with the row of the record, and its row id.
UpsertResource(resources, record) ==
    LET found == Found(resources, record) IN
    IF found = {} THEN [at |-> Len(resources) + 1,
                        resources |-> Append(resources, [id |-> record.id, name |-> record.name])]
    ELSE LET n == CHOOSE n \in found : TRUE
             id == IF record.id = Nothing THEN resources[n].id ELSE record.id IN
         [at |-> n, resources |-> [resources EXCEPT ![n] = [id |-> id, name |-> record.name]]]

Remember(cache, record, at) ==
    [k \in DOMAIN cache \cup {Key(record.id, record.name)} |->
        IF k = Key(record.id, record.name) THEN at ELSE cache[k]]

\* A tombstone keeps the place of the item it removes.
UpsertItem(items, at, record) ==
    LET same == {i \in items : /\ i.resource = at /\ i.item = record.item
                               /\ record.item = Nothing => i.path = record.path}
        path == IF record.deleted THEN {i.path : i \in same} ELSE {} IN
    (items \ same) \cup
        {[resource |-> at, item |-> record.item, deleted |-> record.deleted,
          path |-> IF path = {} THEN record.path ELSE CHOOSE p \in path : TRUE]}

StoreResource(store, record) ==
    LET stored == UpsertResource(store.resources, record) IN
    [store EXCEPT !.resources = stored.resources,
                  !.cache = Remember(@, record, stored.at)]

\* An item of a resource the worker does not remember creates or touches its resource.
StoreItem(store, record) ==
    LET key  == Key(record.id, record.name)
        kept == IF key \in DOMAIN store.cache THEN store ELSE StoreResource(store, record) IN
    [kept EXCEPT !.items = UpsertItem(@, kept.cache[key], record)]

\* The rows an assessment may be about: <<resource, item>> or <<resource, Nothing>>.
Subjects(store, record) ==
    LET key == Key(record.id, record.name)
        resources == IF key \in DOMAIN store.cache THEN {store.cache[key]}
                     ELSE IF record.id # Nothing THEN ById(store.resources, record.id)
                     ELSE ByName(store.resources, record.name)
        IsSubject(i) ==
            /\ i.resource \in resources
            /\ IF record.item # Nothing THEN i.item = record.item ELSE i.path = record.path IN
    IF record.path = Nothing THEN {<<n, Nothing>> : n \in resources}
    ELSE {<<i.resource, IF i.item # Nothing THEN i.item ELSE i.path>> :
             i \in {j \in store.items : IsSubject(j)}}

\* An assessment of something that is not there becomes an ingest error.
StoreAssessment(store, record) ==
    LET found == Subjects(store, record) IN
    IF found = {} THEN [store EXCEPT !.refused = @ \cup {record}]
    ELSE [store EXCEPT !.assessed = @ \cup {CHOOSE f \in found : TRUE}]

Store(store, record) ==
    CASE record.kind = "resource"   -> StoreResource(store, record)
      [] record.kind = "item"       -> StoreItem(store, record)
      [] record.kind = "assessment" -> StoreAssessment(store, record)

\* The cache a worker starts with: what the rows say.
Resumed(store) ==
    LET at(key) == {n \in DOMAIN store.resources :
                      Key(store.resources[n].id, store.resources[n].name) = key} IN
    [store EXCEPT !.cache =
        [key \in {Key(r.id, r.name) : r \in ToSet(store.resources)} |-> Min(at(key))]]

\* Lines stored one after the other, by a worker whose cache holds everything or nothing.
StoreLine(store, line, remembers) ==
    IF remembers THEN Store(store, line) ELSE [Store(store, line) EXCEPT !.cache = <<>>]
StoreAll(store, lines, remembers) ==
    LET after[n \in 0..Len(lines)] ==
            IF n = 0 THEN store ELSE StoreLine(after[n - 1], lines[n], remembers)
    IN  after[Len(lines)]

(***************************************************************************)
(* What collectors write: the resource, the items and the assessments of   *)
(* shares that have identifiers.  The stream of the SMB collector gives    *)
(* them on resources and assessments and not on items; compact documents   *)
(* nest items in their share; SharePoint items have identifiers as well;   *)
(* older producers give no identifiers at all.                             *)
(***************************************************************************)
AllFormats == {"sharepoint", "smb_compact", "smb_stream", "names"}

Shares(format) ==
    {[id |-> 1, name |-> "A"], [id |-> 2, name |-> IF format = "sharepoint" THEN "A" ELSE "B"]}

Places == {[item |-> 1, path |-> 1, deleted |-> FALSE], [item |-> 1, path |-> 2, deleted |-> FALSE],
           [item |-> 1, path |-> 2, deleted |-> TRUE]}
ASSUME PlaceAssumption == Nothing \notin Places

\* How a format names the share, and an item, on a line of a kind.
ShareId(format, kind, share) ==
    IF format = "names" \/ (format = "smb_stream" /\ kind = "item") THEN Nothing ELSE share.id
ItemId(format, place) == IF format = "sharepoint" THEN place.item ELSE Nothing

Line(format, kind, share, place) ==
    [kind |-> kind, id |-> ShareId(format, kind, share), name |-> share.name, share |-> share.id,
     item |-> IF place = Nothing THEN Nothing ELSE ItemId(format, place),
     path |-> IF place = Nothing THEN Nothing ELSE place.path,
     deleted |-> place # Nothing /\ place.deleted]

LinesOf(format) ==
    {Line(format, kind, share, Nothing) :
        kind \in {"resource", "assessment"}, share \in Shares(format)}
    \cup {Line(format, "item", share, place) : share \in Shares(format), place \in Places}
    \cup {Line(format, "assessment", share, place) :
              share \in Shares(format), place \in {p \in Places : ~p.deleted}}

\* A share's resource precedes its items; subjects precede what is said of them.
ResourcesFirst(lines) ==
    \A n \in DOMAIN lines : lines[n].kind = "item" =>
        \E k \in 1..(n - 1) : lines[k].kind = "resource" /\ lines[k].share = lines[n].share
SubjectsFirst(lines) ==
    \A n \in DOMAIN lines : lines[n].kind = "assessment" =>
        \E k \in 1..(n - 1) :
            /\ lines[k].share = lines[n].share
            /\ IF lines[n].path = Nothing THEN lines[k].kind = "resource"
               ELSE /\ lines[k].kind = "item"
                    /\ IF lines[n].item # Nothing THEN lines[k].item = lines[n].item
                       ELSE lines[k].path = lines[n].path

\* The artifacts replays are asked about; only the stream, whose items and resources name a
\* share differently, depends on resources being written first, as its collector does.
Artifacts(format) ==
    {lines \in SequencesUpTo(LinesOf(format)) :
        SubjectsFirst(lines) /\ (format = "smb_stream" => ResourcesFirst(lines))}

(***************************************************************************)
(* Properties                                                              *)
(***************************************************************************)
\* Whatever was stored, storing the lines again from any of them on, or stopping anywhere
\* and going on from an earlier line with the cache of a new worker, leaves what one pass
\* leaves (the worker's checkpoints are behind the rows it commits).
Harmless(Merge(_, _), said) ==
    \A n \in DOMAIN said : MergedInto(Merge, Folded(Merge, said), SubSeq(said, n, Len(said)))
                           = Folded(Merge, said)
RowsSurviveReplays ==
    \A format \in AllFormats : \A lines \in Artifacts(format) :
        LET once == Rows(StoreAll(NothingStored, lines, TRUE)) IN
        \A crash \in DOMAIN lines, checkpoint \in 0..(MaxObservations - 1), remembers \in BOOLEAN :
            checkpoint < crash =>
                LET left == StoreAll(NothingStored, SubSeq(lines, 1, crash), remembers) IN
                once = Rows(StoreAll(Resumed(left), SubSeq(lines, checkpoint + 1, Len(lines)),
                                     remembers))

\* Each share the lines tell of has one row, its items are under it, and no assessment of
\* what was told is refused.
StoredAsTold(format, lines, store) ==
    LET told == {Key(ShareId(format, "resource", s), s.name) :
                    s \in {t \in Shares(format) : \E n \in DOMAIN lines : lines[n].share = t.id}}
        RowKey(n) == Key(store.resources[n].id, store.resources[n].name) IN
    /\ Len(store.resources) = Cardinality(told)
    /\ {RowKey(n) : n \in DOMAIN store.resources} = told
    /\ \A n \in DOMAIN lines : lines[n].kind = "item" =>
          \E i \in store.items :
              /\ RowKey(i.resource) = Key(lines[n].id, lines[n].name)
              /\ IF lines[n].item # Nothing THEN i.item = lines[n].item ELSE i.path = lines[n].path
    /\ store.refused = {}

SharesAreKeptApart ==
    \A format \in Formats : \A lines \in Artifacts(format), remembers \in BOOLEAN :
        StoredAsTold(format, lines, StoreAll(NothingStored, lines, remembers))

\* A placeholder that items made is taken over by the resource that follows them.
PlaceholdersAreUpgraded ==
    \A share \in Shares("smb_stream"), place \in Places :
        LET lines == <<Line("smb_stream", "item", share, place),
                       Line("smb_stream", "resource", share, Nothing)>>
            store == StoreAll(NothingStored, lines, TRUE) IN
        store.resources = <<[id |-> share.id, name |-> share.name]>> /\ Cardinality(store.items) = 1

\* What collectors report: the conclusion of what they counted, above the limit included.
Capabilities ==
    {Capability([conclusion |-> Concluded("not_tested", counts), counts |-> counts,
                 reason |-> text]) :
        counts \in [Outcomes -> 0..(OutcomeLimit + 1)], text \in {Nothing, "granted", "refused"}}

\* What is concluded from all observations of a capability is the strongest of what each of
\* them concluded, whatever their order, and the counts are those of the largest sample.
ObservationsJoin ==
    \A said \in SequencesUpTo(Capabilities) :
        LET merged == Folded(MergeCapability, said) IN
        /\ Harmless(MergeCapability, said)
        /\ merged.counts = [o \in Outcomes |-> Max({s.counts[o] : s \in ToSet(said)})]
        /\ merged.conclusion = Strongest({s.conclusion : s \in ToSet(said)})
        /\ Observed(merged) <=> \E s \in ToSet(said) : Observed(s)

Summaries == [complete : BOOLEAN, finalized : BOOLEAN, text : {Nothing, 1, 2},
              flag : {Nothing, TRUE, FALSE}]

\* The summary of the last record of a share, the only final one, wins over those written
\* while it was being read, whichever of them is stored last.
FinalSummaryWins ==
    \A said \in SequencesUpTo(Summaries) :
        LET merged == Folded(MergeSummary, said)
            final == {s \in ToSet(said) : s.finalized} IN
        /\ Harmless(MergeSummary, said)
        /\ (/\ Cardinality(final) = 1
            /\ \A s \in ToSet(said) \ final : ~s.complete) =>
              \A s \in final : /\ s.text # Nothing => merged.text = s.text
                               /\ s.flag # Nothing => merged.flag = s.flag

\* Whatever the order: a share is readable or listable when it was said or seen to be, and
\* without access only when that was said and nothing at all was seen to be allowed;
\* exposure that is known is never lost.
AccessJoins ==
    /\ \A said \in SequencesUpTo({Access(raw) : raw \in [level : LevelSet,
                        observed : SUBSET {"read_file", "list", "tree_connect"}]}) :
          LET reported == {s.level : s \in ToSet(said)}
              observed == UNION {s.observed : s \in ToSet(said)} IN
          /\ Harmless(MergeAccess, said)
          /\ Folded(MergeAccess, said).level =
                IF "readable" \in reported \/ "read_file" \in observed THEN "readable"
                ELSE IF "list_only" \in reported \/ "list" \in observed THEN "list_only"
                ELSE IF "no_access" \in reported /\ observed = {} THEN "no_access" ELSE "unknown"
    /\ \A said \in SequencesUpTo({Nothing, "UNKNOWN", "PRIVATE", "PUBLIC"}) :
          /\ Harmless(MergeExposure, said) /\ Harmless(MergeItemExposure, said)
          /\ \A n \in DOMAIN said : said[n] \notin Unsaid =>
                /\ Folded(MergeExposure, said) \notin Unsaid
                /\ Folded(MergeItemExposure, said) \notin Unsaid

\* An endpoint that has an identity keeps it and its provenance; what contradicts them
\* fails the run; and records that do not may be stored again.
EndpointsKeepIdentity ==
    \A said \in SequencesUpTo([id : {Nothing, 1, 2}, proof : {Nothing, 1, 2},
                               detail : {Nothing, 1}]) :
        LET After(n) == MergedInto(UpsertEndpoint, Placeholder, SubSeq(said, 1, n))
            merged == After(Len(said)) IN
        /\ \A n \in 1..Len(said), m \in 1..Len(said) : n <= m /\ After(n).id # Nothing =>
              /\ After(m).id = After(n).id
              /\ After(n).proof # Nothing => After(m).proof = After(n).proof
        /\ Cardinality({s.id : s \in ToSet(said)} \ {Nothing}) > 1 => merged.failed
        /\ ~merged.failed => \A n \in DOMAIN said :
              MergedInto(UpsertEndpoint, merged, SubSeq(said, n, Len(said))) = merged

\* An artifact's lines may be stored again and again: the rows are those of one pass.
StorageHolds ==
    /\ RowsSurviveReplays /\ SharesAreKeptApart /\ PlaceholdersAreUpgraded
    /\ ObservationsJoin /\ FinalSummaryWins /\ AccessJoins /\ EndpointsKeepIdentity
=============================================================================

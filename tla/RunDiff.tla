------------------------------ MODULE RunDiff -------------------------------
(***************************************************************************)
(* The preview of what changed between two complete runs: the rows of both *)
(* runs stream out of the database in the order of their resources'        *)
(* normalised keys, are gathered into one record per resource, and the two *)
(* streams are merged in one pass that counts everything and lists a       *)
(* bounded part of it.  A resource is its normalised key, numbered here in *)
(* the order both the database and the merge sort by, and the spelling it  *)
(* was stored under; a provider's own identifier has one spelling.         *)
(***************************************************************************)
EXTENDS Naturals, FiniteSets, Sequences, SequencesExt, OrderedRows

CONSTANTS
    Resources,  \* resources a run may have stored, see below
    NoId,       \* an item its provider gives no identifier
    DiffLimits  \* detail_limit

\* A resource is [key, spelling, level, content]; its content are items [path, id] whose
\* paths are positive.  All or none of them have identifiers, and each is told from the
\* others by that, or by its path.
ASSUME RunDiffAssumption ==
    /\ IsFiniteSet(Resources)
    /\ \A r \in Resources :
          /\ r.key \in Nat /\ IsFiniteSet(r.content)
          /\ \A i \in r.content : i.path \in Nat \ {0}
          /\ \A i, k \in r.content : i.id = k.id /\ (i.id # NoId \/ i.path = k.path) => i = k
          /\ \A i, k \in r.content : (i.id = NoId) = (k.id = NoId)
    /\ DiffLimits \subseteq Nat \ {0}

NoPath == 0
Nameless == [path |-> NoPath, id |-> NoId]

\* The rows of a run in the order of the statement: a resource without items has one row.
RowsOf(r) == {[key |-> r.key, spelling |-> r.spelling, level |-> r.level, item |-> i] :
                 i \in IF r.content = {} THEN {Nameless} ELSE r.content}
Sooner(x, y) == x.key < y.key \/ (x.key = y.key /\ x.item.path < y.item.path)
Rows(stored) ==
    LET rows == UNION {RowsOf(r) : r \in stored} IN
    Arranged(rows, {p \in rows \X rows : Sooner(p[1], p[2])})

\* A row of the resource that is being gathered adds an item to it, any other begins one.
ItemOf(row) == IF row.item.path = NoPath THEN {} ELSE {row.item}
Gathered(seen, row) ==
    IF seen # <<>> /\ Last(seen).key = row.key /\ Last(seen).spelling = row.spelling
    THEN [seen EXCEPT ![Len(seen)].content = @ \cup ItemOf(row)]
    ELSE Append(seen, [key |-> row.key, spelling |-> row.spelling, level |-> row.level,
                       content |-> ItemOf(row)])
\* _iter_run_diff_resources
Records(stored) ==
    LET rows == Rows(stored)
        gathered[n \in 0..Len(rows)] ==
            IF n = 0 THEN <<>> ELSE Gathered(gathered[n - 1], rows[n])
    IN  gathered[Len(rows)]

\* Mutant of Identities: an item is its path, whatever its provider calls it.
IdentitiesByPath(record) == [x \in {<<"path", i.path>> : i \in record.content} |-> x[2]]

\* _item_identity_map: an item is its provider's identifier, or its path.
Identities(record) ==
    LET withId    == {i \in record.content : i.id # NoId}
        withoutId == {i.path : i \in record.content} \ {i.path : i \in withId}
    IN  [x \in {<<"provider", i.id>> : i \in withId} \cup {<<"path", p>> : p \in withoutId} |->
            IF x[1] = "path" THEN x[2] ELSE (CHOOSE i \in withId : i.id = x[2]).path]

Churn(current, earlier) ==
    LET c == Identities(current)
        b == Identities(earlier)
    IN  [key     |-> current.key,
         access  |-> current.level # earlier.level,
         added   |-> Cardinality(DOMAIN c \ DOMAIN b),
         removed |-> Cardinality(DOMAIN b \ DOMAIN c),
         moved   |-> Cardinality({x \in DOMAIN c \cap DOMAIN b : x[1] = "provider" /\ c[x] # b[x]})]
Weight(churn)  == churn.added + churn.removed + churn.moved
Changed(churn) == churn.access \/ Weight(churn) > 0

\* Mutant of SameResource: a share listed in another spelling is another share.
SameSpelling(c, b) == c.key = b.key /\ c.spelling = b.spelling
\* What the merge takes for the same resource in both runs.
SameResource(c, b) == c.key = b.key

\* append_bounded
Bounded(list, key, limit) == IF Len(list) < limit THEN Append(list, key) ELSE list

\* The places of the pass in both streams, what it lists and what it has counted.
NothingMerged == [i |-> 1, k |-> 1, new |-> <<>>, gone |-> <<>>, churn |-> <<>>,
                  newCount |-> 0, goneCount |-> 0, added |-> 0, removed |-> 0, moved |-> 0]
PassNew(d, record, limit) ==
    [d EXCEPT !.i = @ + 1, !.newCount = @ + 1, !.new = Bounded(@, record.key, limit)]
PassGone(d, record, limit) ==
    [d EXCEPT !.k = @ + 1, !.goneCount = @ + 1, !.gone = Bounded(@, record.key, limit)]
PassBoth(d, churn) ==
    LET past == [d EXCEPT !.i = @ + 1, !.k = @ + 1] IN
    IF ~Changed(churn) THEN past
    ELSE [past EXCEPT !.churn = Append(@, churn), !.added = @ + churn.added,
                      !.removed = @ + churn.removed, !.moved = @ + churn.moved]
\* One turn of the loop of iter_item_churn.
Pass(current, earlier, limit, d) ==
    CASE d.i > Len(current) /\ d.k > Len(earlier) -> d
      [] d.i <= Len(current) /\ d.k > Len(earlier) -> PassNew(d, current[d.i], limit)
      [] d.i > Len(current) /\ d.k <= Len(earlier) -> PassGone(d, earlier[d.k], limit)
      [] OTHER ->
            IF SameResource(current[d.i], earlier[d.k])
            THEN PassBoth(d, Churn(current[d.i], earlier[d.k]))
            ELSE IF current[d.i].key < earlier[d.k].key THEN PassNew(d, current[d.i], limit)
            ELSE PassGone(d, earlier[d.k], limit)
Merge(current, earlier, limit) ==
    LET turns == Len(current) + Len(earlier)
        merged[n \in 0..turns] ==
            IF n = 0 THEN NothingMerged ELSE Pass(current, earlier, limit, merged[n - 1])
    IN  merged[turns]

\* churn_sort_key, and the first of the churn in that order.
Heavier(x, y) == Weight(x) > Weight(y) \/ (Weight(x) = Weight(y) /\ x.key < y.key)
Heaviest(churn, limit) ==
    LET places == DOMAIN churn
        order  == Ordered(places, {p \in places \X places : Heavier(churn[p[1]], churn[p[2]])})
    IN  [n \in 1..Min({limit, Len(churn)}) |-> churn[order[n]]]

\* _build_run_diff_from_iters, of what the pass over both streams found.
Preview(d, limit) ==
    LET listed == Heaviest(d.churn, limit) IN
    [new |-> d.newCount, gone |-> d.goneCount, changed |-> Len(d.churn),
     added |-> d.added, removed |-> d.removed, moved |-> d.moved,
     listedNew |-> d.new, listedGone |-> d.gone, listedChurn |-> listed,
     truncated |-> \/ d.newCount > Len(d.new) \/ d.goneCount > Len(d.gone)
                   \/ Len(d.churn) > Len(listed)]
PreviewOf(current, earlier, limit) ==
    Preview(Merge(Records(current), Records(earlier), limit), limit)

-----------------------------------------------------------------------------

\* Runs whose resources' names differ by more than their case.
Distinct(stored) == \A r, t \in stored : r.key = t.key => r = t
StoredRuns == {stored \in SUBSET Resources : Distinct(stored)}

KeysOf(stored) == {r.key : r \in stored}
Of(stored, key) == CHOOSE r \in stored : r.key = key
\* The items of one resource that have no counterpart in the other: the same identifier,
\* or the same path when the provider gives none.
Counterpart(i, k) == i.id = k.id /\ (i.id = NoId => i.path = k.path)
Without(r, t) == {i \in r.content : \A k \in t.content : ~Counterpart(i, k)}
Shifted(r, t) == {i \in r.content : \E k \in t.content : Counterpart(i, k) /\ i.path # k.path}

\* What comparing the two runs resource by resource and item by item finds.
Difference(current, earlier) ==
    LET shared     == KeysOf(current) \cap KeysOf(earlier)
        Added(n)   == Without(Of(current, n), Of(earlier, n))
        Removed(n) == Without(Of(earlier, n), Of(current, n))
        Moves(n)   == Shifted(Of(current, n), Of(earlier, n))
        weighs     == [n \in shared |-> Cardinality(Added(n)) + Cardinality(Removed(n))
                                        + Cardinality(Moves(n))]
    IN  [new     |-> KeysOf(current) \ KeysOf(earlier),
         gone    |-> KeysOf(earlier) \ KeysOf(current),
         added   |-> UNION {{n} \X Added(n) : n \in shared},
         removed |-> UNION {{n} \X Removed(n) : n \in shared},
         moved   |-> UNION {{n} \X Moves(n) : n \in shared},
         weighs  |-> weighs,
         changed |-> {n \in shared : weighs[n] > 0 \/ Of(current, n).level # Of(earlier, n).level}]

\* The merge of the two ordered streams counts exactly that: no resource is reported new and
\* gone when both runs have it, a moved item is not reported added and removed, and the
\* counts do not depend on how much is listed.
CountedExactly(p, d) ==
    /\ p.new = Cardinality(d.new) /\ p.gone = Cardinality(d.gone)
    /\ p.changed = Cardinality(d.changed)
    /\ p.added = Cardinality(d.added) /\ p.removed = Cardinality(d.removed)
    /\ p.moved = Cardinality(d.moved)
CountsAreExact ==
    \A current \in StoredRuns : \A earlier \in StoredRuns : \A limit \in DiffLimits :
        CountedExactly(PreviewOf(current, earlier, limit), Difference(current, earlier))

\* What is listed are that many of the resources counted, the most changed first, and a
\* list is cut only when the preview says so.
ListedExactly(p, d, limit) ==
    LET listed == {p.listedChurn[n].key : n \in DOMAIN p.listedChurn} IN
    /\ ToSet(p.listedNew) \subseteq d.new /\ ToSet(p.listedGone) \subseteq d.gone
    /\ listed \subseteq d.changed
    /\ Cardinality(ToSet(p.listedNew)) = Min({limit, p.new})
    /\ Cardinality(ToSet(p.listedGone)) = Min({limit, p.gone})
    /\ Cardinality(listed) = Min({limit, p.changed})
    /\ \A n \in listed, m \in d.changed \ listed : d.weighs[n] >= d.weighs[m]
    /\ p.truncated = (\E n \in {d.new, d.gone, d.changed} : Cardinality(n) > limit)
ListsAreExact ==
    \A current \in StoredRuns : \A earlier \in StoredRuns : \A limit \in DiffLimits :
        ListedExactly(PreviewOf(current, earlier, limit), Difference(current, earlier), limit)
=============================================================================

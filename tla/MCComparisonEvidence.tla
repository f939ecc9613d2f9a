------------------------ MODULE MCComparisonEvidence ------------------------
\* One comparison of two runs, what its compatibility may say of two contexts, and what
\* its rows may say of two subjects of a resource with at most one access entry each; and
\* the preview of two such runs.
EXTENDS MCComparisons, ComparisonAnswers

CONSTANTS h1, s1, s2, alice, bob, here, there, deep, shallow, every, named, id1, id2

OneOfEachProvider ==
    {[kind |-> "ace", principal |-> TRUE, right |-> 1],
     [kind |-> "identity_grant", principal |-> TRUE, right |-> 1]}

Scopes ==
    {[shares |-> every, tree |-> deep], [shares |-> every, tree |-> shallow],
     [shares |-> named, tree |-> deep]}

\* A share in two spellings, a library whose items have identifiers and may trade places,
\* and a share that has items or none.
Share(key, spelling, level, paths) ==
    [key |-> key, spelling |-> spelling, level |-> level,
     content |-> {[path |-> p, id |-> NoId] : p \in paths}]
Library(level, places) == [key |-> 2, spelling |-> "drive", level |-> level, content |-> places]
Place(id, path) == [path |-> path, id |-> id]
AFewResources ==
    {Share(1, "Data", "readable", {1}), Share(1, "DATA", "readable", {1, 2}),
     Share(1, "DATA", "readable", {2}), Share(1, "Data", "no_access", {}),
     Library("readable", {Place(id1, 1), Place(id2, 2)}),
     Library("readable", {Place(id1, 2), Place(id2, 1)}),
     Library("list_only", {Place(id1, 1), Place(id2, 1)}), Library("readable", {Place(id1, 1)}),
     Share(3, "Home", "readable", {}), Share(3, "Home", "list_only", {1})}
=============================================================================

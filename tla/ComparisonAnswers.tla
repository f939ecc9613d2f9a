-------------------------- MODULE ComparisonAnswers -------------------------
(***************************************************************************)
(* What a reader may be told of a project's runs, at the times it may be   *)
(* told: what their comparisons conclude, and what two complete ones       *)
(* differ in.                                                              *)
(***************************************************************************)
EXTENDS ComparisonEvidence, RunDiff

Readable == {r \in Runs : run[r] = "COMPLETE"}

\* The preview of two complete runs is their difference, cut to the limit.
PreviewIsExact == Cardinality(Readable) > 1 => CountsAreExact /\ ListsAreExact
=============================================================================

----------------------------- MODULE OrderedRows ----------------------------
(***************************************************************************)
(* The rows a statement finds, in the order of its ORDER BY.  The order is *)
(* given as the set of the pairs <<x, y>> of which x comes first.          *)
(***************************************************************************)
EXTENDS Naturals, FiniteSets, Sequences, SequencesExt

\* The row at place k is the one k - 1 rows come before.
Ordered(found, ahead) ==
    [k \in 1..Cardinality(found) |->
        CHOOSE x \in found : Cardinality({y \in found : <<y, x>> \in ahead}) = k - 1]
\* Rows of which neither comes first are listed in any order.
Arranged(found, ahead) ==
    LET any   == SetToSeq(found)
        later == {p \in (DOMAIN any) \X (DOMAIN any) :
                     \/ <<any[p[1]], any[p[2]]>> \in ahead
                     \/ <<any[p[2]], any[p[1]]>> \notin ahead /\ p[1] < p[2]}
    IN  [k \in DOMAIN any |-> any[Ordered(DOMAIN any, later)[k]]]
=============================================================================

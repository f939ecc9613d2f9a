----------------------------- MODULE MCFindings -----------------------------
\* Successive runs of one source that show one, both or none of two findings.
EXTENDS Findings

CONSTANTS a, c

OnePolicy == [f \in {a} |-> 1]
Pairs     == {<<1, 2>>, <<2, 1>>}
OneChange == [k \in Comparisons |-> <<{c}>>]

\* Two resources of one identity, in batches of their own.
Present  == [batches |-> <<{a}, {a}>>, whole |-> {1}]
Nothing  == [batches |-> <<>>, whole |-> {1}]
Partial  == [batches |-> <<>>, whole |-> {}]
Evidence == {Present, Nothing, Partial}
=============================================================================

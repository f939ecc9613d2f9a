--------------------------- MODULE MCComparisons ----------------------------
\* Comparisons of three successive runs of one source.
EXTENDS Comparisons, TLC

CONSTANTS w1, w2

Chain == {<<1, 2>>, <<2, 3>>}
First == {<<1, 2>>}

Symmetry == Permutations({w1, w2})
=============================================================================

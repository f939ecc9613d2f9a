-------------------------- MODULE MCIngestWorker --------------------------
\* A small instance of IngestedInventory: one run, and the queries, pages and exports its
\* inventory is read by.
EXTENDS IngestedInventory, TLC

CONSTANTS r1, w1, w2, m1, a1, a2

OneNamesR1 == m1 :> r1

Times      == <<1, 2, 1, 2>>
Directions == {<<"asc">>, <<"desc">>, <<"desc", "desc">>, <<"asc", "asc">>}
=============================================================================

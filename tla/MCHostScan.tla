----------------------------- MODULE MCHostScan -----------------------------
EXTENDS HostScan, TLC

CONSTANTS h1, h2, h3, a, b, x, d, f, top

SharesAre  == h1 :> {a, b} @@ h2 :> {} @@ h3 :> {}
ExportsAre == h1 :> {} @@ h2 :> {x} @@ h3 :> {}
ParentIs   == d :> top @@ f :> d

\* One thread and a deep listing with permissions; both protocols with two threads; named
\* shares, one of which a host does not have; and a listing its cap cuts.
Smb    == [types |-> {"smb"}, disabled |-> FALSE, named |-> Nothing, workers |-> 1,
           depth |-> 2, cap |-> 2, permissions |-> TRUE, upload |-> TRUE]
Both   == [Smb EXCEPT !.types = {"smb", "nfs"}, !.depth = 1, !.permissions = FALSE]
RunSet == {Smb, Both, [Both EXCEPT !.disabled = TRUE, !.workers = 2],
           [Smb EXCEPT !.cap = 1, !.upload = FALSE],
           [Smb EXCEPT !.named = {a}, !.depth = 1, !.permissions = FALSE]}
=============================================================================

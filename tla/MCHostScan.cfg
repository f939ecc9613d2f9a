SPECIFICATION FairSpec
CONSTANTS
    h1 = h1
    h2 = h2
    h3 = h3
    a = a
    b = b
    x = x
    d = d
    f = f
    top = top
    Nothing = Nothing
    Hosts = {h1, h2, h3}
    Shares = {a, b}
    Exports = {x}
    Entries = {d, f}
    Folders = {d}
    Root = top
    SharesOf <- SharesAre
    ExportsOf <- ExportsAre
    ParentOf <- ParentIs
    Runs <- RunSet
    MaxFaults = 2
INVARIANTS
    ClaimsHold
    DeliveredOrKept
PROPERTY
    ScanEnds

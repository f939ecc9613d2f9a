-------------------------- MODULE HostScanProofs ---------------------------
(***************************************************************************)
(* What the network collector claims and delivers, for any hosts, shares,  *)
(* exports and directory trees, any number of threads, and wherever a      *)
(* host, the disk, the network or the operator interferes.                 *)
(***************************************************************************)
EXTENDS HostScan, FiniteSetTheorems, FunctionTheorems, TLAPS

-----------------------------------------------------------------------------
(* The invariant                                                           *)

Scanning == main.at \in {"submit", "wait", "drain"} \/ (main.at = "consume" /\ main.then # "report")
Scanned  == main.at \in {"report", "close", "upload", "end"} \/ (main.at = "consume" /\ main.then = "report")
Calm     == ~Interrupted /\ ~broken

\* Where the main thread is, and what it waits for.
MainFits ==
    /\ main.at # "consume" => main.then = main.at
    /\ main.at = "consume" => main.then \in {"submit", "drain", "report"}
    /\ batch \subseteq pending \cap Ended
    /\ main.at = "submit" => Cardinality(pending) < 2 * run.workers
    /\ main.at = "consume" /\ main.then = "submit" => Cardinality(pending \ batch) < 2 * run.workers
    /\ main.at = "consume" /\ main.then = "report" => pending = batch
    /\ main.at \in {"report", "close", "upload"} => pending = {}
    /\ ~cancel /\ main.then \notin {"submit", "wait", "end"} => remaining = {}
    /\ ~cancel /\ main.then \notin {"submit", "wait", "drain", "end"} => pending = {}
    /\ Cardinality(pending) <= 2 * run.workers
    /\ pending \cap remaining = {}
Stopped ==
    /\ Interrupted => ~Scanning /\ cancel
    /\ cancel => Interrupted \/ broken
    /\ run.disabled => stats.gaps
Counting ==
    /\ Uncounted >= 0
    /\ Scanning \/ (~cancel /\ main.at # "end") =>
          Uncounted = 0 /\ tally.submitted = Cardinality(Hosts) - Cardinality(remaining)
    /\ main.at # "end" => Uncounted <= (IF Interrupted \/ broken THEN 1 ELSE 0)
    /\ ~cancel => tally.cancelled = 0
HostsFit ==
    /\ Cardinality(Running) <= run.workers
    /\ \A h \in Hosts :
          /\ h \in remaining <=> scan[h].at = "unsubmitted"
          /\ Scanned => scan[h].at \in {"unsubmitted", "ended"}
          /\ scan[h].at = "ended" <=> scan[h].result # Nothing
          /\ ~cancel => scan[h].result # "cancelled"
          /\ ~cancel /\ tally.failures = 0 /\ main.at # "end" /\ h \notin remaining \cup pending =>
                scan[h].result = "ok"
Handed ==
    /\ main.at = "upload" => artifact # Nothing /\ ~broken /\ delivery = [upload |-> "none", kept |-> TRUE]
    /\ artifact # Nothing => main.at \in {"upload", "end"}
    /\ main.at # "end" => delivery.upload = "none"

\* What the threads have seen.
Before  == {"unsubmitted", "queued", "connect", "greet"}
Serving == {"tree", "walk", "probe", "acl"}
Shown(h, s) == {e \in Entries : <<h, s, e>> \in buffer.items}

\* What a host will be asked for has left no record yet.
Unseen(h) ==
    LET x == scan[h] IN
    /\ x.at \in Before => x.found = {} /\ <<h, "smb">> \notin buffer.endpoints
    /\ x.at \in Before \cup {"list_shares"} =>
          \A s \in Shares : <<h, s>> \notin buffer.resources /\ Shown(h, s) = {}
    /\ x.at \notin {"exports", "nfs_done", "ended"} => <<h, "nfs">> \notin buffer.endpoints
    /\ x.at \notin {"nfs_done", "ended"} => \A e \in Exports : <<h, e>> \notin buffer.resources
    /\ x.at \in {"next_share"} \cup Serving =>
          \A s \in x.left : <<h, s>> \notin buffer.resources /\ Shown(h, s) = {}
    /\ x.at \in Serving => x.share \in Shares \ x.left
    /\ x.at = "tree" => x.todo = {Root} /\ x.seen = 0
    /\ x.at \in {"tree", "walk"} =>
          /\ Root \in x.todo => x.todo = {Root} /\ Shown(h, x.share) = {}
          /\ \A e \in Shown(h, x.share) : ParentOf[e] \notin x.todo
          /\ ~broken => x.seen = Cardinality(Shown(h, x.share))
    /\ x.at \in {"nfs", "exports", "nfs_done"} => "nfs" \in Active
    /\ x.at = "exports" => x.found \subseteq Exports

Totals ==
    ~broken => /\ stats.endpoints = Cardinality(buffer.endpoints)
               /\ stats.resources = Cardinality(buffer.resources)
               /\ stats.items     = Cardinality(buffer.items)

SmbWhole(h) == /\ <<h, "smb">> \in buffer.endpoints
               /\ \A s \in Due(h) : <<h, s>> \in buffer.resources
NfsWhole(h) == /\ <<h, "nfs">> \in buffer.endpoints
               /\ \A e \in ExportsOf[h] : <<h, e>> \in buffer.resources

\* Where no gap is known, there is none up to where the thread is.
Structure(h) ==
    LET x == scan[h] IN
    Calm /\ ~stats.gaps =>
    /\ x.at = "list_shares" => x.found = {}
    /\ x.at \in {"list_shares", "next_share"} \cup Serving => <<h, "smb">> \in buffer.endpoints
    /\ x.at \in {"next_share"} \cup Serving => \A s \in Due(h) : s \in x.left \/ <<h, s>> \in buffer.resources
    /\ x.at = "smb_done" /\ x.ok => SmbWhole(h)
    /\ x.at \in {"nfs", "exports", "nfs_done"} /\ "smb" \in Active => SmbWhole(h)
    /\ x.at = "exports" => <<h, "nfs">> \in buffer.endpoints /\ x.found = ExportsOf[h]
    /\ x.at = "nfs_done" /\ x.found # {} => NfsWhole(h)
    /\ x.at = "ended" /\ x.result = "ok" =>
          /\ "smb" \in Active => SmbWhole(h)
          /\ "nfs" \in Active => NfsWhole(h)

\* Where no list is known to be missing, every share that was left has its list.
ListsKept(h) ==
    LET x == scan[h] IN
    Calm /\ ~stats.gaps /\ ~stats.incomplete /\ run.permissions =>
    \A s \in Shares : <<h, s>> \in buffer.resources =>
        \/ <<h, s>> \in buffer.lists
        \/ x.at \in Serving /\ x.share = s
        \/ x.at = "smb_done" /\ ~x.ok
        \/ x.at = "ended" /\ x.result # "ok"

\* Where no error is known, nothing was left out of the shares that were listed.
Listed(h, s) == Reach(run.depth) \subseteq Shown(h, s)
Contents(h) ==
    LET x == scan[h] IN
    Calm /\ ~stats.errors /\ "nfs" \notin Requested =>
    /\ x.at = "list_shares" => x.found = {}
    /\ x.at \in {"next_share"} \cup Serving =>
          \A s \in Due(h) : s \in x.left \/ Listed(h, s) \/ (s = x.share /\ x.at \in {"tree", "walk"})
    /\ x.at = "walk" /\ x.share \in SharesOf[h] =>
          /\ \A e \in Reach(run.depth) \ Shown(h, x.share) : ParentOf[e] \in x.todo \/ Root \in x.todo
          /\ x.seen = run.cap => x.todo = {}
    /\ x.at = "smb_done" /\ x.ok => \A s \in Due(h) : Listed(h, s)
    /\ x.at = "ended" /\ x.result = "ok" => \A s \in Due(h) : Listed(h, s)

\* A run nothing happened to has no gap, and no error either if the shares it finds fit.
Untouched == faults = 0 /\ ~Interrupted
Unfailing ==
    Untouched =>
    /\ ~broken /\ tally.failures = 0
    /\ ~run.disabled => ~stats.gaps
    /\ ~run.disabled /\ run.named = Nothing /\ "nfs" \notin Requested /\ Roomy => ~stats.errors
Smooth(h) ==
    LET x == scan[h] IN
    Untouched =>
    /\ x.result \in {Nothing, "ok"}
    /\ x.at = "list_shares" => x.found = {}
    /\ x.at = "smb_done" => x.ok
    /\ x.at = "nfs_done" => x.found # {}
    /\ x.at \in Serving \ {"tree"} /\ run.named = Nothing => x.tree
    /\ x.at \in {"next_share"} \cup Serving /\ run.named = Nothing => x.left \subseteq SharesOf[h]
    /\ x.at \in Serving /\ run.named = Nothing => x.share \in SharesOf[h]

Facts(h) == Unseen(h) /\ Structure(h) /\ ListsKept(h) /\ Contents(h) /\ Smooth(h)

IInv == /\ TypeOK /\ MainFits /\ Stopped /\ Counting /\ HostsFit /\ Handed /\ Totals /\ Unfailing /\ ArtifactTrue
        /\ DeliveredOrKept
        /\ \A h \in Hosts : Facts(h)

-----------------------------------------------------------------------------
(* Types                                                                   *)

\* What the constants say of a run.
LEMMA RunIs ==
    ASSUME TypeOK
    PROVE  /\ run.cap \in Nat \ {0} /\ run.workers \in Nat \ {0} /\ run.depth \in Nat \ {0}
           /\ run.types \subseteq {"smb", "nfs"} /\ run.types # {} /\ Active \subseteq Requested
           /\ run.disabled \in BOOLEAN /\ run.permissions \in BOOLEAN /\ run.upload \in BOOLEAN
           /\ run.named # Nothing => run.named \subseteq Shares
           /\ run.disabled => run.types = {"smb", "nfs"}
<1>1. run \in [types: (SUBSET {"smb", "nfs"}) \ {{}}, disabled: BOOLEAN,
                named: {Nothing} \cup ((SUBSET Shares) \ {{}}), workers: Nat \ {0},
                depth: Nat \ {0}, cap: Nat \ {0}, permissions: BOOLEAN, upload: BOOLEAN]
    BY HostScanAssumption DEF TypeOK
<1>2. run.disabled => run.types = {"smb", "nfs"}
    BY HostScanAssumption DEF TypeOK
<1>3. run.named \in {Nothing} \cup ((SUBSET Shares) \ {{}})
    BY <1>1
<1>4. run.named # Nothing => run.named \subseteq Shares
    BY <1>3
<1>5. /\ run.cap \in Nat \ {0} /\ run.workers \in Nat \ {0} /\ run.depth \in Nat \ {0}
      /\ run.types \subseteq {"smb", "nfs"} /\ run.types # {}
      /\ run.disabled \in BOOLEAN /\ run.permissions \in BOOLEAN /\ run.upload \in BOOLEAN
    BY <1>1
<1>6. Active \subseteq Requested
    BY DEF Active, Requested
<1> QED BY <1>2, <1>4, <1>5, <1>6

LEMMA AtIs ==
    ASSUME NEW place \in Places, NEW ok \in BOOLEAN, NEW result \in Result
    PROVE  /\ At(place, ok, result) \in Scan /\ At(place, ok, result).seen = 0
BY DEF At, Scan, Result

\* What a thread counts.
Stats == [errors: BOOLEAN, incomplete: BOOLEAN, assessed: BOOLEAN, gaps: BOOLEAN,
          endpoints: Nat, resources: Nat, items: Nat]
LEMMA CountedIs ==
    ASSUME stats \in Stats, NEW n \in Nat
    PROVE  /\ \A kind \in {"endpoints", "resources", "items"} : Counted(kind, n) \in Stats
           /\ \A kind \in {"endpoints", "resources", "items"} :
                 LET c == Counted(kind, n) IN
                 /\ c.errors = stats.errors /\ c.incomplete = stats.incomplete
                 /\ c.assessed = stats.assessed /\ c.gaps = stats.gaps
                 /\ c.endpoints = stats.endpoints + (IF kind = "endpoints" THEN n ELSE 0)
                 /\ c.resources = stats.resources + (IF kind = "resources" THEN n ELSE 0)
                 /\ c.items = stats.items + (IF kind = "items" THEN n ELSE 0)
BY DEF Counted, Stats

\* What a record adds to the buffer.
LEMMA EmitsEndpoint ==
    ASSUME TypeOK, NEW h \in Hosts, NEW t \in {"smb", "nfs"}, Emit("endpoints", {<<h, t>>})
    PROVE  /\ buffer' \in Records
           /\ buffer'.endpoints = IF broken THEN buffer.endpoints ELSE buffer.endpoints \cup {<<h, t>>}
           /\ buffer'.resources = buffer.resources /\ buffer'.items = buffer.items
           /\ buffer'.lists = buffer.lists
BY DEF Emit, TypeOK, Records

LEMMA EmitsResources ==
    ASSUME TypeOK, NEW new \in SUBSET (Hosts \X (Shares \cup Exports)), Emit("resources", new)
    PROVE  /\ buffer' \in Records
           /\ buffer'.resources = IF broken THEN buffer.resources ELSE buffer.resources \cup new
           /\ buffer'.endpoints = buffer.endpoints /\ buffer'.items = buffer.items
           /\ buffer'.lists = buffer.lists
BY DEF Emit, TypeOK, Records

LEMMA EmitsItems ==
    ASSUME TypeOK, NEW new \in SUBSET (Hosts \X Shares \X Entries), Emit("items", new)
    PROVE  /\ buffer' \in Records
           /\ buffer'.items = IF broken THEN buffer.items ELSE buffer.items \cup new
           /\ buffer'.endpoints = buffer.endpoints /\ buffer'.resources = buffer.resources
           /\ buffer'.lists = buffer.lists
BY DEF Emit, TypeOK, Records

LEMMA EmitsLists ==
    ASSUME TypeOK, NEW new \in SUBSET (Hosts \X Shares), Emit("lists", new)
    PROVE  /\ buffer' \in Records
           /\ buffer'.lists = IF broken THEN buffer.lists ELSE buffer.lists \cup new
           /\ buffer'.endpoints = buffer.endpoints /\ buffer'.resources = buffer.resources
           /\ buffer'.items = buffer.items
BY DEF Emit, TypeOK, Records

\* A step of the thread of h changes what that thread does; the fields of its record follow.
Moved(h) == /\ scan' \in [Hosts -> Scan] /\ \A g \in Hosts : scan'[g].seen <= run.cap
            /\ \A g \in Hosts \ {h} : scan'[g] = scan[g]

LEMMA Puts ==
    ASSUME TypeOK, NEW h \in Hosts, NEW x \in Scan, x.seen <= run.cap, scan' = [scan EXCEPT ![h] = x]
    PROVE  Moved(h) /\ scan'[h] = x
BY DEF TypeOK, Moved

LEMMA ScanIs ==
    ASSUME TypeOK, NEW h \in Hosts
    PROVE  scan \in [Hosts -> Scan] /\ scan[h] \in Scan /\ scan[h].seen \in Nat /\ scan[h].seen <= run.cap
BY DEF TypeOK, Scan

LEMMA Ends ==
    ASSUME TypeOK, NEW h \in Hosts, NEW result \in Result \ {Nothing}, End(h, result)
    PROVE  Moved(h) /\ scan'[h] = At("ended", FALSE, result)
<1> DEFINE x == At("ended", FALSE, result)
<1>1. x \in Scan /\ x.seen = 0
    BY AtIs DEF Places
<1>2. scan' = [scan EXCEPT ![h] = x]
    BY DEF End
<1> HIDE DEF x
<1>3. x.seen <= run.cap
    BY <1>1, RunIs
<1>4. Moved(h) /\ scan'[h] = x
    BY <1>1, <1>2, <1>3, Puts
<1> QED BY <1>4 DEF x

LEMMA Returns ==
    ASSUME TypeOK, NEW h \in Hosts, NEW ok \in BOOLEAN, Return(h, ok)
    PROVE  Moved(h) /\ scan'[h] = At("smb_done", ok, Nothing)
<1> DEFINE x == At("smb_done", ok, Nothing)
<1>1. x \in Scan /\ x.seen = 0
    BY AtIs DEF Places, Result
<1>2. scan' = [scan EXCEPT ![h] = x]
    BY DEF Return
<1> HIDE DEF x
<1>3. x.seen <= run.cap
    BY <1>1, RunIs
<1>4. Moved(h) /\ scan'[h] = x
    BY <1>1, <1>2, <1>3, Puts
<1> QED BY <1>4 DEF x

LEMMA Goes ==
    ASSUME TypeOK, NEW h \in Hosts, NEW at \in Places,
           To(h, at)
    PROVE  /\ Moved(h)
           /\ scan'[h].at = at /\ scan'[h].left = scan[h].left /\ scan'[h].share = scan[h].share
           /\ scan'[h].todo = scan[h].todo /\ scan'[h].seen = scan[h].seen
           /\ scan'[h].tree = scan[h].tree /\ scan'[h].ok = scan[h].ok
           /\ scan'[h].found = scan[h].found /\ scan'[h].result = scan[h].result
<1> DEFINE x == [scan[h] EXCEPT !.at = at]
<1>1. scan[h] \in Scan /\ scan[h].seen <= run.cap
    BY ScanIs
<1>2. /\ x \in Scan /\ x.seen <= run.cap
      /\ x.at = at /\ x.left = scan[h].left /\ x.share = scan[h].share /\ x.todo = scan[h].todo
      /\ x.seen = scan[h].seen /\ x.tree = scan[h].tree /\ x.ok = scan[h].ok
      /\ x.found = scan[h].found /\ x.result = scan[h].result
    BY <1>1 DEF Scan, Places
<1>3. scan' = [scan EXCEPT ![h] = x]
    BY ScanIs DEF To
<1> HIDE DEF x
<1> QED BY <1>2, <1>3, Puts

LEMMA GoesFinding ==
    ASSUME TypeOK, NEW h \in Hosts, NEW at \in Places,
           NEW found \in SUBSET (Exports \cup {"guest", "nfs"}),
           Find(h, at, found)
    PROVE  /\ Moved(h)
           /\ scan'[h].at = at /\ scan'[h].left = scan[h].left /\ scan'[h].share = scan[h].share
           /\ scan'[h].todo = scan[h].todo /\ scan'[h].seen = scan[h].seen
           /\ scan'[h].tree = scan[h].tree /\ scan'[h].ok = scan[h].ok /\ scan'[h].found = found
           /\ scan'[h].result = scan[h].result
<1> DEFINE x == [scan[h] EXCEPT !.at = at, !.found = found]
<1>1. scan[h] \in Scan /\ scan[h].seen <= run.cap
    BY ScanIs
<1>2. /\ x \in Scan /\ x.seen <= run.cap
      /\ x.at = at /\ x.left = scan[h].left /\ x.share = scan[h].share /\ x.todo = scan[h].todo
      /\ x.seen = scan[h].seen /\ x.tree = scan[h].tree /\ x.ok = scan[h].ok /\ x.found = found
      /\ x.result = scan[h].result
    BY <1>1 DEF Scan, Places
<1>3. scan' = [scan EXCEPT ![h] = x]
    BY ScanIs DEF Find
<1> HIDE DEF x
<1> QED BY <1>2, <1>3, Puts

LEMMA GoesListing ==
    ASSUME TypeOK, NEW h \in Hosts, NEW left \in SUBSET Shares,
           scan' = [scan EXCEPT ![h].at = "next_share", ![h].left = left]
    PROVE  /\ Moved(h)
           /\ scan'[h].at = "next_share" /\ scan'[h].left = left
           /\ scan'[h].share = scan[h].share /\ scan'[h].todo = scan[h].todo
           /\ scan'[h].seen = scan[h].seen /\ scan'[h].tree = scan[h].tree
           /\ scan'[h].ok = scan[h].ok /\ scan'[h].found = scan[h].found
           /\ scan'[h].result = scan[h].result
<1> DEFINE x == [scan[h] EXCEPT !.at = "next_share", !.left = left]
<1>1. scan[h] \in Scan /\ scan[h].seen <= run.cap
    BY ScanIs
<1>2. /\ x \in Scan /\ x.seen <= run.cap
      /\ x.at = "next_share" /\ x.left = left /\ x.share = scan[h].share
      /\ x.todo = scan[h].todo /\ x.seen = scan[h].seen /\ x.tree = scan[h].tree
      /\ x.ok = scan[h].ok /\ x.found = scan[h].found /\ x.result = scan[h].result
    BY <1>1 DEF Scan, Places
<1>3. scan' = [scan EXCEPT ![h] = x]
    BY ScanIs
<1> HIDE DEF x
<1> QED BY <1>2, <1>3, Puts

LEMMA GoesInto ==
    ASSUME TypeOK, NEW h \in Hosts, NEW s \in scan[h].left,
           Into(h, s)
    PROVE  /\ Moved(h)
           /\ scan'[h].at = "tree" /\ scan'[h].left = scan[h].left \ {s} /\ scan'[h].share = s
           /\ scan'[h].todo = {Root} /\ scan'[h].seen = 0 /\ scan'[h].tree = scan[h].tree
           /\ scan'[h].ok = scan[h].ok /\ scan'[h].found = scan[h].found
           /\ scan'[h].result = scan[h].result
           /\ s \in Shares
<1> DEFINE x == [scan[h] EXCEPT !.at = "tree", !.share = s, !.left = @ \ {s}, !.todo = {Root}, !.seen = 0]
<1>1. scan[h] \in Scan /\ scan[h].seen <= run.cap
    BY ScanIs
<1>2. scan[h].left \subseteq Shares
    BY <1>1 DEF Scan
<1>3. s \in Shares
    BY <1>2
<1>4. 0 <= run.cap
    BY RunIs
<1>5. /\ x \in Scan /\ x.seen <= run.cap
      /\ x.at = "tree" /\ x.left = scan[h].left \ {s} /\ x.share = s /\ x.todo = {Root}
      /\ x.seen = 0 /\ x.tree = scan[h].tree /\ x.ok = scan[h].ok /\ x.found = scan[h].found
      /\ x.result = scan[h].result
    BY <1>1, <1>2, <1>3, <1>4 DEF Scan, Places
<1>6. scan' = [scan EXCEPT ![h] = x]
    BY ScanIs DEF Into
<1> HIDE DEF x
<1> QED BY <1>5, <1>6, <1>3, Puts

LEMMA GoesOpen ==
    ASSUME TypeOK, NEW h \in Hosts, NEW at \in Places, NEW open \in BOOLEAN,
           Serve(h, open, at)
    PROVE  /\ Moved(h)
           /\ scan'[h].at = at /\ scan'[h].left = scan[h].left /\ scan'[h].share = scan[h].share
           /\ scan'[h].todo = scan[h].todo /\ scan'[h].seen = scan[h].seen
           /\ scan'[h].tree = open /\ scan'[h].ok = scan[h].ok /\ scan'[h].found = scan[h].found
           /\ scan'[h].result = scan[h].result
<1> DEFINE x == [scan[h] EXCEPT !.tree = open, !.at = at]
<1>1. scan[h] \in Scan /\ scan[h].seen <= run.cap
    BY ScanIs
<1>2. /\ x \in Scan /\ x.seen <= run.cap
      /\ x.at = at /\ x.left = scan[h].left /\ x.share = scan[h].share /\ x.todo = scan[h].todo
      /\ x.seen = scan[h].seen /\ x.tree = open /\ x.ok = scan[h].ok /\ x.found = scan[h].found
      /\ x.result = scan[h].result
    BY <1>1 DEF Scan, Places
<1>3. scan' = [scan EXCEPT ![h] = x]
    BY ScanIs DEF Serve
<1> HIDE DEF x
<1> QED BY <1>2, <1>3, Puts

LEMMA GoesOn ==
    ASSUME TypeOK, NEW h \in Hosts, NEW todo \in SUBSET (Folders \cup {Root}), NEW n \in Nat,
           scan[h].seen + n <= run.cap,
           NEW took, n = Cardinality(took), Take(h, took, todo)
    PROVE  /\ Moved(h)
           /\ scan'[h].at = scan[h].at /\ scan'[h].left = scan[h].left
           /\ scan'[h].share = scan[h].share /\ scan'[h].todo = todo
           /\ scan'[h].seen = scan[h].seen + n /\ scan'[h].tree = scan[h].tree
           /\ scan'[h].ok = scan[h].ok /\ scan'[h].found = scan[h].found
           /\ scan'[h].result = scan[h].result
<1> DEFINE x == [scan[h] EXCEPT !.todo = todo, !.seen = @ + n]
<1>1. scan[h] \in Scan /\ scan[h].seen <= run.cap
    BY ScanIs
<1>2. scan[h].seen + n \in Nat
    BY ScanIs
<1>3. /\ x \in Scan /\ x.seen <= run.cap
      /\ x.at = scan[h].at /\ x.left = scan[h].left /\ x.share = scan[h].share /\ x.todo = todo
      /\ x.seen = scan[h].seen + n /\ x.tree = scan[h].tree /\ x.ok = scan[h].ok
      /\ x.found = scan[h].found /\ x.result = scan[h].result
    BY <1>1, <1>2 DEF Scan, Places
<1>4. scan' = [scan EXCEPT ![h] = x]
    BY ScanIs DEF Take
<1> HIDE DEF x
<1> QED BY <1>3, <1>4, Puts

\* A listing that failed in one folder, or at all.
LEMMA GoesShort ==
    ASSUME TypeOK, NEW h \in Hosts, NEW folder,
           scan' = [scan EXCEPT ![h].todo = @ \ {folder}]
    PROVE  /\ Moved(h)
           /\ scan'[h].at = scan[h].at /\ scan'[h].left = scan[h].left
           /\ scan'[h].share = scan[h].share /\ scan'[h].todo = scan[h].todo \ {folder}
           /\ scan'[h].seen = scan[h].seen /\ scan'[h].tree = scan[h].tree
           /\ scan'[h].ok = scan[h].ok /\ scan'[h].found = scan[h].found
           /\ scan'[h].result = scan[h].result
<1> DEFINE x == [scan[h] EXCEPT !.todo = @ \ {folder}]
<1>1. scan[h] \in Scan /\ scan[h].seen <= run.cap
    BY ScanIs
<1>2. /\ x \in Scan /\ x.seen <= run.cap
      /\ x.at = scan[h].at /\ x.left = scan[h].left /\ x.share = scan[h].share
      /\ x.todo = scan[h].todo \ {folder} /\ x.seen = scan[h].seen /\ x.tree = scan[h].tree
      /\ x.ok = scan[h].ok /\ x.found = scan[h].found /\ x.result = scan[h].result
    BY <1>1 DEF Scan, Places
<1>3. scan' = [scan EXCEPT ![h] = x]
    BY ScanIs
<1> HIDE DEF x
<1> QED BY <1>2, <1>3, Puts

LEMMA GoesNowhere ==
    ASSUME TypeOK, NEW h \in Hosts,
           scan' = [scan EXCEPT ![h].todo = {}]
    PROVE  /\ Moved(h)
           /\ scan'[h].at = scan[h].at /\ scan'[h].left = scan[h].left
           /\ scan'[h].share = scan[h].share /\ scan'[h].todo = {}
           /\ scan'[h].seen = scan[h].seen /\ scan'[h].tree = scan[h].tree
           /\ scan'[h].ok = scan[h].ok /\ scan'[h].found = scan[h].found
           /\ scan'[h].result = scan[h].result
<1> DEFINE x == [scan[h] EXCEPT !.todo = {}]
<1>1. scan[h] \in Scan /\ scan[h].seen <= run.cap
    BY ScanIs
<1>2. /\ x \in Scan /\ x.seen <= run.cap
      /\ x.at = scan[h].at /\ x.left = scan[h].left /\ x.share = scan[h].share /\ x.todo = {}
      /\ x.seen = scan[h].seen /\ x.tree = scan[h].tree /\ x.ok = scan[h].ok
      /\ x.found = scan[h].found /\ x.result = scan[h].result
    BY <1>1 DEF Scan, Places
<1>3. scan' = [scan EXCEPT ![h] = x]
    BY ScanIs
<1> HIDE DEF x
<1> QED BY <1>2, <1>3, Puts

LEMMA GoesLost ==
    ASSUME TypeOK, NEW h \in Hosts,
           scan' = [scan EXCEPT ![h].todo = {}, ![h].tree = FALSE]
    PROVE  /\ Moved(h)
           /\ scan'[h].at = scan[h].at /\ scan'[h].left = scan[h].left
           /\ scan'[h].share = scan[h].share /\ scan'[h].todo = {}
           /\ scan'[h].seen = scan[h].seen /\ scan'[h].tree = FALSE /\ scan'[h].ok = scan[h].ok
           /\ scan'[h].found = scan[h].found /\ scan'[h].result = scan[h].result
<1> DEFINE x == [scan[h] EXCEPT !.todo = {}, !.tree = FALSE]
<1>1. scan[h] \in Scan /\ scan[h].seen <= run.cap
    BY ScanIs
<1>2. /\ x \in Scan /\ x.seen <= run.cap
      /\ x.at = scan[h].at /\ x.left = scan[h].left /\ x.share = scan[h].share /\ x.todo = {}
      /\ x.seen = scan[h].seen /\ x.tree = FALSE /\ x.ok = scan[h].ok /\ x.found = scan[h].found
      /\ x.result = scan[h].result
    BY <1>1 DEF Scan, Places
<1>3. scan' = [scan EXCEPT ![h] = x]
    BY ScanIs
<1> HIDE DEF x
<1> QED BY <1>2, <1>3, Puts

LEMMA GoesAway ==
    ASSUME TypeOK, NEW h \in Hosts,
           scan' = [scan EXCEPT ![h].todo = {}, ![h].at = "acl"]
    PROVE  /\ Moved(h)
           /\ scan'[h].at = "acl" /\ scan'[h].left = scan[h].left
           /\ scan'[h].share = scan[h].share /\ scan'[h].todo = {}
           /\ scan'[h].seen = scan[h].seen /\ scan'[h].tree = scan[h].tree
           /\ scan'[h].ok = scan[h].ok /\ scan'[h].found = scan[h].found
           /\ scan'[h].result = scan[h].result
<1> DEFINE x == [scan[h] EXCEPT !.todo = {}, !.at = "acl"]
<1>1. scan[h] \in Scan /\ scan[h].seen <= run.cap
    BY ScanIs
<1>2. /\ x \in Scan /\ x.seen <= run.cap
      /\ x.at = "acl" /\ x.left = scan[h].left /\ x.share = scan[h].share /\ x.todo = {}
      /\ x.seen = scan[h].seen /\ x.tree = scan[h].tree /\ x.ok = scan[h].ok
      /\ x.found = scan[h].found /\ x.result = scan[h].result
    BY <1>1 DEF Scan, Places
<1>3. scan' = [scan EXCEPT ![h] = x]
    BY ScanIs
<1> HIDE DEF x
<1> QED BY <1>2, <1>3, Puts

-----------------------------------------------------------------------------
(* One step of a thread                                                    *)

\* What the threads share changes in one direction, and only for the host of the step.
Weakens == /\ cancel' = cancel /\ UNCHANGED mainVars
           /\ stats.errors => stats'.errors
           /\ stats.gaps => stats'.gaps
           /\ stats.incomplete => stats'.incomplete
           /\ broken => broken'
           /\ faults' = 0 => faults = 0
OnlyOf(h) == \A g \in Hosts \ {h} :
    /\ \A t : <<g, t>> \in buffer'.endpoints <=> <<g, t>> \in buffer.endpoints
    /\ \A t : <<g, t>> \in buffer'.resources <=> <<g, t>> \in buffer.resources
    /\ \A s : <<g, s>> \in buffer'.lists <=> <<g, s>> \in buffer.lists
    /\ \A s : Shown(g, s)' = Shown(g, s)
Books(h) == /\ Weakens /\ OnlyOf(h) /\ Totals' /\ Unfailing'
            /\ stats' \in Stats /\ buffer' \in Records /\ broken' \in BOOLEAN /\ faults' \in 0 .. MaxFaults
StepFits(h) ==
    /\ Moved(h) /\ Books(h) /\ Facts(h)'
    /\ scan[h].at \notin {"unsubmitted", "ended"} /\ scan'[h].at \notin {"unsubmitted", "queued"}
    /\ scan[h].at = "queued" => Cardinality(Running) < run.workers
    /\ scan'[h].at = "ended" <=> scan'[h].result # Nothing
    /\ ~cancel => scan'[h].result # "cancelled"
Ready(h) == /\ TypeOK /\ Stopped /\ Totals /\ Unfailing /\ Facts(h)
            /\ scan[h].at = "ended" <=> scan[h].result # Nothing

LEMMA ReadyIs ==
    ASSUME NEW h \in Hosts, Ready(h)
    PROVE  /\ TypeOK /\ Totals /\ Unfailing
           /\ Unseen(h) /\ Structure(h) /\ ListsKept(h) /\ Contents(h) /\ Smooth(h)
           /\ Calm => ~cancel
           /\ Untouched => ~cancel /\ ~broken /\ Calm
           /\ scan[h].at # "ended" => scan[h].result = Nothing
           /\ scan[h] \in Scan
BY ScanIs DEF Ready, Facts, Stopped, Calm, Untouched, Unfailing

LEMMA FaultIs ==
    ASSUME TypeOK, Fault
    PROVE  faults' \in 0 .. MaxFaults /\ faults' # 0
BY HostScanAssumption DEF TypeOK, Fault

LEMMA TypesNow ==
    ASSUME TypeOK
    PROVE  /\ stats \in Stats /\ buffer \in Records /\ cancel \in BOOLEAN
           /\ broken \in BOOLEAN /\ faults \in 0 .. MaxFaults
BY HostScanAssumption DEF TypeOK, Stats

LEMMA TroubleIs ==
    ASSUME stats \in Stats, NEW gap \in BOOLEAN, Trouble(gap)
    PROVE  /\ stats' \in Stats /\ stats'.errors = TRUE /\ stats'.gaps = (stats.gaps \/ gap)
           /\ stats'.incomplete = stats.incomplete /\ stats'.endpoints = stats.endpoints
           /\ stats'.resources = stats.resources /\ stats'.items = stats.items
BY DEF Trouble, Stats

\* A guard on what is known holds after a step only if it held before.
LEMMA MainStays ==
    ASSUME UNCHANGED mainVars
    PROVE  /\ Interrupted' = Interrupted /\ Active' = Active /\ Requested' = Requested
           /\ run' = run /\ tally' = tally
           /\ \A h : Due(h)' = Due(h)
           /\ Roomy' = Roomy
BY DEF mainVars, Interrupted, Active, Requested, Due, Roomy

LEMMA QuietBooks ==
    ASSUME NEW h \in Hosts, Ready(h), Others, UNCHANGED <<buffer, stats>>, UNCHANGED faults \/ Fault
    PROVE  Books(h)
<1>1. Weakens
    BY TypesNow, FaultIs, ReadyIs DEF Others, Weakens
<1>2. OnlyOf(h)
    BY DEF OnlyOf, Shown
<1>3. Totals'
    BY ReadyIs DEF Totals, Others
<1>4. Unfailing'
    BY ReadyIs, MainStays, <1>1 DEF Unfailing, Others, Untouched, Weakens
<1>5. faults' \in 0 .. MaxFaults
    BY FaultIs, TypesNow, ReadyIs
<1> QED BY <1>1, <1>2, <1>3, <1>4, <1>5, TypesNow, ReadyIs DEF Books, Others

LEMMA TroubledBooks ==
    ASSUME NEW h \in Hosts, Ready(h), Others, UNCHANGED buffer, UNCHANGED faults \/ Fault,
           NEW gap \in BOOLEAN, Trouble(gap),
           Untouched' => ~gap /\ (run.disabled \/ run.named # Nothing)
    PROVE  Books(h)
<1>1. /\ stats' \in Stats /\ stats'.errors = TRUE /\ stats'.gaps = (stats.gaps \/ gap)
      /\ stats'.incomplete = stats.incomplete /\ stats'.endpoints = stats.endpoints
      /\ stats'.resources = stats.resources /\ stats'.items = stats.items
    BY TroubleIs, ReadyIs, TypesNow
<1>2. Weakens
    BY <1>1, TypesNow, FaultIs, ReadyIs DEF Others, Weakens
<1>3. OnlyOf(h)
    BY DEF OnlyOf, Shown
<1>4. Totals'
    BY <1>1, ReadyIs DEF Totals, Others
<1>5. Unfailing'
    BY <1>1, <1>2, ReadyIs, MainStays DEF Unfailing, Others, Untouched, Weakens
<1>6. faults' \in 0 .. MaxFaults
    BY FaultIs, TypesNow, ReadyIs
<1> QED BY <1>1, <1>2, <1>3, <1>4, <1>5, <1>6, TypesNow, ReadyIs DEF Books, Others

\* Guards of the facts about a host, after a step.
LEMMA Guards ==
    ASSUME NEW h \in Hosts, Ready(h), Books(h)
    PROVE  /\ Calm' => Calm /\ ~cancel
           /\ ~stats'.gaps => ~stats.gaps
           /\ ~stats'.errors => ~stats.errors
           /\ ~stats'.incomplete => ~stats.incomplete
           /\ Untouched' => Untouched /\ ~cancel
           /\ Active' = Active /\ Requested' = Requested /\ run' = run /\ Due(h)' = Due(h)
BY ReadyIs, MainStays DEF Books, Weakens, Calm, Untouched

\* What is known of a host whose thread does nothing stays so while less is known of the run.
LEMMA FactsKeep ==
    ASSUME NEW g \in Hosts, Facts(g), scan'[g] = scan[g],
           \A t : <<g, t>> \in buffer'.endpoints <=> <<g, t>> \in buffer.endpoints,
           \A t : <<g, t>> \in buffer'.resources <=> <<g, t>> \in buffer.resources,
           \A s : <<g, s>> \in buffer'.lists <=> <<g, s>> \in buffer.lists,
           \A s : Shown(g, s)' = Shown(g, s),
           Calm' => Calm, ~stats'.gaps => ~stats.gaps, ~stats'.errors => ~stats.errors,
           ~stats'.incomplete => ~stats.incomplete, ~broken' => ~broken, Untouched' => Untouched,
           run' = run
    PROVE  Facts(g)'
<1>1. Active' = Active /\ Requested' = Requested /\ Due(g)' = Due(g)
    BY DEF Active, Requested, Due
<1>2. Unseen(g)'
    BY <1>1 DEF Facts, Unseen
<1>3. Structure(g)'
    BY <1>1 DEF Facts, Structure, SmbWhole, NfsWhole
<1>4. ListsKept(g)'
    BY DEF Facts, ListsKept
<1>5. Contents(g)'
    BY <1>1 DEF Facts, Contents, Listed, Reach
<1>6. Smooth(g)'
    BY DEF Facts, Smooth
<1> QED BY <1>2, <1>3, <1>4, <1>5, <1>6 DEF Facts

\* The other hosts are as they were.
LEMMA OthersKeep ==
    ASSUME NEW h \in Hosts, NEW g \in Hosts \ {h}, Ready(g), Moved(h), Books(h)
    PROVE  Facts(g)'
<1>1. scan'[g] = scan[g] /\ Facts(g)
    BY DEF Moved, Ready
<1>2. /\ \A t : <<g, t>> \in buffer'.endpoints <=> <<g, t>> \in buffer.endpoints
      /\ \A t : <<g, t>> \in buffer'.resources <=> <<g, t>> \in buffer.resources
      /\ \A s : <<g, s>> \in buffer'.lists <=> <<g, s>> \in buffer.lists
      /\ \A s : Shown(g, s)' = Shown(g, s)
    BY DEF Books, OnlyOf
<1>3. /\ Calm' => Calm
      /\ ~stats'.gaps => ~stats.gaps
      /\ ~stats'.errors => ~stats.errors
      /\ ~stats'.incomplete => ~stats.incomplete
      /\ ~broken' => ~broken
      /\ Untouched' => Untouched
      /\ run' = run
    BY MainStays DEF Books, Weakens, Calm, Untouched
<1> QED BY <1>1, <1>2, <1>3, FactsKeep

\* A thread that ends without an answer.
LEMMA EndsShort ==
    ASSUME NEW h \in Hosts, Ready(h), Books(h), NEW result \in {"failed", "error", "cancelled"},
           End(h, result), result = "cancelled" => cancel, ~Untouched',
           scan[h].at \notin {"unsubmitted", "ended"},
           scan[h].at = "queued" => Cardinality(Running) < run.workers
    PROVE  StepFits(h)
<1>1. Moved(h) /\ scan'[h] = At("ended", FALSE, result) /\ result # Nothing
    BY Ends, ReadyIs, HostScanAssumption DEF Result
<1>2. scan'[h].at = "ended" /\ scan'[h].result = result
    BY <1>1 DEF At
<1>3. Unseen(h)'
    BY <1>2 DEF Unseen, Before, Serving
<1>4. Structure(h)'
    BY <1>2 DEF Structure, Serving
<1>5. ListsKept(h)'
    BY <1>2 DEF ListsKept
<1>6. Contents(h)'
    BY <1>2 DEF Contents, Serving
<1>7. Smooth(h)'
    BY DEF Smooth
<1> QED BY <1>1, <1>2, <1>3, <1>4, <1>5, <1>6, <1>7 DEF StepFits, Facts

\* scan_host_smb fails.
LEMMA ReturnsFailed ==
    ASSUME NEW h \in Hosts, Ready(h), Books(h), UNCHANGED buffer, Return(h, FALSE), ~Untouched',
           scan[h].at \in {"connect", "greet", "list_shares", "next_share"} \cup Serving
    PROVE  StepFits(h)
<1>1. Moved(h) /\ scan'[h] = At("smb_done", FALSE, Nothing)
    BY Returns, ReadyIs
<1>2. scan'[h].at = "smb_done" /\ scan'[h].result = Nothing /\ scan'[h].ok = FALSE
    BY <1>1 DEF At
<1>3. Unseen(h)'
    BY <1>2, ReadyIs DEF Unseen, Before, Serving
<1>4. Structure(h)'
    BY <1>2 DEF Structure, Serving
<1>5. ListsKept(h)'
    BY <1>2 DEF ListsKept
<1>6. Contents(h)'
    BY <1>2 DEF Contents, Serving
<1>7. Smooth(h)'
    BY DEF Smooth
<1>8. scan[h].at \notin {"unsubmitted", "queued", "ended"} /\ Nothing # "cancelled"
    BY HostScanAssumption DEF Serving
<1> QED BY <1>1, <1>2, <1>3, <1>4, <1>5, <1>6, <1>7, <1>8 DEF StepFits, Facts

LEMMA RefusedFits ==
    ASSUME NEW h \in Hosts, Ready(h), Refused(h), Others,
           scan[h].at \in {"connect", "greet", "list_shares", "next_share"} \cup Serving
    PROVE  StepFits(h)
<1>1. ~Untouched'
    BY FaultIs, ReadyIs DEF Refused, Untouched
<1>2. Books(h)
    BY <1>1, TroubledBooks DEF Refused
<1> QED BY <1>1, <1>2, ReturnsFailed DEF Refused

LEMMA BeginFits ==
    ASSUME NEW h \in Hosts, Ready(h), Begin(h)
    PROVE  StepFits(h)
<1>1. Books(h)
    BY QuietBooks DEF Begin, Quiet
<1>2. CASE cancel /\ End(h, "cancelled")
    BY <1>1, <1>2, EndsShort, Guards DEF Begin
<1>3. ASSUME ~cancel, NEW at \in {"connect", "nfs"}, To(h, at), at = "nfs" => "smb" \notin Active
      PROVE  StepFits(h)
    <2>1. Moved(h) /\ scan'[h].at = at /\ scan'[h].found = scan[h].found /\ scan'[h].result = scan[h].result
        BY <1>3, Goes, ReadyIs DEF Places
    <2>2. buffer' = buffer /\ scan[h].at = "queued" /\ scan'[h].result = Nothing
        BY <2>1, ReadyIs DEF Begin, Quiet
    <2>3. "nfs" \in Active \/ "smb" \in Active
        BY RunIs, ReadyIs DEF Active
    <2>4. Unseen(h)'
        BY <2>1, <2>2, <2>3, <1>3, ReadyIs, Guards, <1>1 DEF Unseen, Before, Serving, Shown
    <2>5. Structure(h)'
        BY <2>1, <1>3, Guards, <1>1 DEF Structure, Serving
    <2>6. ListsKept(h)'
        BY <2>1, <2>2, ReadyIs DEF ListsKept, Unseen, Before
    <2>7. Contents(h)'
        BY <2>1 DEF Contents, Serving
    <2>8. Smooth(h)'
        BY <2>1, <2>2 DEF Smooth, Serving
    <2> QED BY <1>1, <2>1, <2>2, <2>4, <2>5, <2>6, <2>7, <2>8, HostScanAssumption DEF StepFits, Facts, Begin
<1> QED BY <1>2, <1>3 DEF Begin

LEMMA ConnectFits ==
    ASSUME NEW h \in Hosts, Ready(h), Connect(h)
    PROVE  StepFits(h)
<1>1. CASE cancel /\ Return(h, FALSE) /\ Quiet /\ UNCHANGED faults
    <2>1. Books(h)
        BY <1>1, QuietBooks DEF Connect, Quiet
    <2> QED BY <1>1, <2>1, ReturnsFailed, Guards DEF Connect, Quiet
<1>2. CASE ~cancel /\ To(h, "greet") /\ Quiet /\ UNCHANGED faults
    <2>1. Books(h)
        BY <1>2, QuietBooks DEF Connect, Quiet
    <2>2. /\ Moved(h) /\ scan'[h].at = "greet" /\ scan'[h].found = scan[h].found
          /\ scan'[h].result = scan[h].result
        BY <1>2, Goes, ReadyIs DEF Places
    <2>3. buffer' = buffer /\ scan[h].at = "connect" /\ scan'[h].result = Nothing
        BY <1>2, <2>2, ReadyIs DEF Connect, Quiet
    <2>4. Unseen(h)'
        BY <2>2, <2>3, ReadyIs DEF Unseen, Before, Serving, Shown
    <2>5. Structure(h)'
        BY <2>2 DEF Structure, Serving
    <2>6. ListsKept(h)'
        BY <2>2, <2>3, ReadyIs DEF ListsKept, Unseen, Before
    <2>7. Contents(h)'
        BY <2>2 DEF Contents, Serving
    <2>8. Smooth(h)'
        BY <2>2, <2>3 DEF Smooth, Serving
    <2> QED BY <2>1, <2>2, <2>3, <2>4, <2>5, <2>6, <2>7, <2>8, HostScanAssumption DEF StepFits, Facts
<1>3. CASE ~cancel /\ Refused(h)
    BY <1>3, RefusedFits DEF Connect
<1> QED BY <1>1, <1>2, <1>3 DEF Connect

\* The session is recorded, and nothing else.
LEMMA GreetBooks ==
    ASSUME NEW h \in Hosts, Ready(h), Others, NEW t \in {"smb", "nfs"},
           <<h, t>> \notin buffer.endpoints, Emit("endpoints", {<<h, t>>}),
           \/ Fault /\ stats'.errors /\ stats'.gaps
           \/ UNCHANGED faults /\ stats'.errors = stats.errors /\ stats'.gaps = stats.gaps,
           stats' \in Stats, stats'.incomplete = stats.incomplete, stats'.endpoints = stats.endpoints + 1,
           stats'.resources = stats.resources, stats'.items = stats.items
    PROVE  /\ Books(h)
           /\ buffer'.resources = buffer.resources /\ buffer'.lists = buffer.lists
           /\ \A s : Shown(h, s)' = Shown(h, s)
           /\ Calm' => <<h, t>> \in buffer'.endpoints
           /\ \A u : u # t => (<<h, u>> \in buffer'.endpoints <=> <<h, u>> \in buffer.endpoints)
<1>1. /\ buffer' \in Records
      /\ buffer'.endpoints = IF broken THEN buffer.endpoints ELSE buffer.endpoints \cup {<<h, t>>}
      /\ buffer'.resources = buffer.resources /\ buffer'.items = buffer.items
      /\ buffer'.lists = buffer.lists
    BY EmitsEndpoint, ReadyIs
<1>2. Weakens
    BY TypesNow, FaultIs, ReadyIs DEF Others, Weakens
<1>3. OnlyOf(h)
    BY <1>1 DEF OnlyOf, Shown
<1>4. Totals'
    <2>1. IsFiniteSet(buffer.endpoints)
        <3>1. IsFiniteSet({"smb", "nfs"})
            <4>1. IsFiniteSet({"smb"}) /\ {"smb", "nfs"} = {"smb"} \cup {"nfs"}
                BY FS_Singleton
            <4> QED BY <4>1, FS_AddElement
        <3>2. IsFiniteSet(Hosts \X {"smb", "nfs"})
            BY <3>1, FS_Product, HostScanAssumption
        <3>3. buffer.endpoints \subseteq Hosts \X {"smb", "nfs"}
            BY TypesNow, ReadyIs DEF Records
        <3> QED BY <3>2, <3>3, FS_Subset
    <2>2. Cardinality(buffer.endpoints \cup {<<h, t>>}) = Cardinality(buffer.endpoints) + 1
        BY <2>1, FS_AddElement
    <2> QED BY <1>1, <2>2, ReadyIs DEF Totals, Others
<1>5. Unfailing'
    BY <1>2, FaultIs, ReadyIs, MainStays DEF Unfailing, Others, Untouched, Weakens
<1>6. faults' \in 0 .. MaxFaults
    BY FaultIs, TypesNow, ReadyIs
<1>7. Books(h)
    BY <1>1, <1>2, <1>3, <1>4, <1>5, <1>6, TypesNow, ReadyIs DEF Books, Others
<1>8. Calm' => <<h, t>> \in buffer'.endpoints
    BY <1>1, <1>7, Guards DEF Calm
<1> QED BY <1>1, <1>7, <1>8 DEF Shown

LEMMA GreetFits ==
    ASSUME NEW h \in Hosts, Ready(h), Greet(h)
    PROVE  StepFits(h)
<1>1. scan[h].at = "greet" /\ Others
    BY DEF Greet
<1>2. CASE cancel /\ Return(h, FALSE) /\ Quiet /\ UNCHANGED faults
    <2>1. Books(h)
        BY <1>1, <1>2, QuietBooks DEF Quiet
    <2> QED BY <1>1, <1>2, <2>1, ReturnsFailed, Guards DEF Quiet
<1>3. ASSUME Emit("endpoints", {<<h, "smb">>}), 
             \/ Fault /\ stats'.errors /\ stats'.gaps
             \/ /\ UNCHANGED faults /\ stats'.errors = stats.errors /\ stats'.gaps = stats.gaps
                /\ scan'[h].found = scan[h].found,
             stats' \in Stats, stats'.incomplete = stats.incomplete, stats'.endpoints = stats.endpoints + 1,
             stats'.resources = stats.resources, stats'.items = stats.items,
             Moved(h), scan'[h].at = "list_shares", scan'[h].result = scan[h].result
      PROVE  StepFits(h)
    <2>1. <<h, "smb">> \notin buffer.endpoints /\ scan[h].found = {}
        BY <1>1, ReadyIs DEF Unseen, Before
    <2>2. /\ Books(h)
          /\ buffer'.resources = buffer.resources /\ buffer'.lists = buffer.lists
          /\ \A s : Shown(h, s)' = Shown(h, s)
          /\ Calm' => <<h, "smb">> \in buffer'.endpoints
          /\ <<h, "nfs">> \in buffer'.endpoints <=> <<h, "nfs">> \in buffer.endpoints
        BY <1>1, <1>3, <2>1, GreetBooks
    <2>3. Unseen(h)'
        BY <1>1, <1>3, <2>2, ReadyIs DEF Unseen, Before, Serving
    <2>4. Structure(h)'
        BY <1>3, <2>1, <2>2 DEF Structure, Serving
    <2>5. ListsKept(h)'
        BY <1>1, <1>3, <2>2, ReadyIs DEF ListsKept, Unseen, Before
    <2>6. Contents(h)'
        BY <1>3, <2>1 DEF Contents, Serving
    <2>7. Smooth(h)'
        BY <1>1, <1>3, <2>1, FaultIs, ReadyIs DEF Smooth, Serving, Untouched
    <2> QED BY <1>1, <1>3, <2>2, <2>3, <2>4, <2>5, <2>6, <2>7, ReadyIs, HostScanAssumption
        DEF StepFits, Facts
<1> DEFINE c == Counted("endpoints", 1)
<1>4. /\ c \in Stats /\ c.errors = stats.errors /\ c.gaps = stats.gaps
      /\ c.incomplete = stats.incomplete /\ c.endpoints = stats.endpoints + 1
      /\ c.resources = stats.resources /\ c.items = stats.items
    BY CountedIs, TypesNow, ReadyIs DEF Stats
<1>5. CASE /\ Emit("endpoints", {<<h, "smb">>})
           /\ stats' = c /\ To(h, "list_shares") /\ UNCHANGED faults
    <2>1. /\ Moved(h) /\ scan'[h].at = "list_shares" /\ scan'[h].result = scan[h].result
          /\ scan'[h].found = scan[h].found
        BY <1>5, Goes, ReadyIs DEF Places
    <2> HIDE DEF c
    <2> QED BY <1>3, <1>4, <1>5, <2>1
<1>6. CASE /\ Emit("endpoints", {<<h, "smb">>})
           /\ Fault /\ stats' = [c EXCEPT !.errors = TRUE, !.gaps = TRUE]
           /\ Find(h, "list_shares", {"guest"})
    <2>1. /\ Moved(h) /\ scan'[h].at = "list_shares" /\ scan'[h].result = scan[h].result
        <3>1. Find(h, "list_shares", {"guest"})
            BY <1>6
        <3>2. TypeOK /\ "list_shares" \in Places /\ {"guest"} \in SUBSET (Exports \cup {"guest", "nfs"})
            BY ReadyIs DEF Places
        <3> QED BY <3>1, <3>2, GoesFinding
    <2> HIDE DEF c
    <2>2. /\ stats' \in Stats /\ stats'.errors = TRUE /\ stats'.gaps = TRUE
          /\ stats'.incomplete = stats.incomplete /\ stats'.endpoints = stats.endpoints + 1
          /\ stats'.resources = stats.resources /\ stats'.items = stats.items
        BY <1>4, <1>6 DEF Stats
    <2> QED BY <1>3, <1>6, <2>1, <2>2
<1> QED BY <1>2, <1>5, <1>6 DEF Greet

LEMMA ListSharesFits ==
    ASSUME NEW h \in Hosts, Ready(h), ListShares(h)
    PROVE  StepFits(h)
<1>1. scan[h].at = "list_shares" /\ Others /\ UNCHANGED buffer
    BY DEF ListShares
\* The shares are asked for, or all of them are known.
<1>2. ASSUME UNCHANGED <<stats, faults>>, NEW left \in SUBSET Shares, run.named = Nothing => left \subseteq SharesOf[h],
             scan' = [scan EXCEPT ![h].at = "next_share", ![h].left = left],
             scan[h].found = {} => Due(h) \subseteq left
      PROVE  StepFits(h)
    <2>1. Books(h)
        BY <1>1, <1>2, QuietBooks
    <2>2. /\ Moved(h) /\ scan'[h].at = "next_share" /\ scan'[h].left = left
          /\ scan'[h].result = scan[h].result
        BY <1>2, GoesListing, ReadyIs
    <2>3. Unseen(h)'
        BY <1>1, <2>2, ReadyIs DEF Unseen, Before, Serving, Shown
    <2>4. Structure(h)'
        BY <1>1, <1>2, <2>1, <2>2, ReadyIs, Guards DEF Structure, Serving
    <2>5. ListsKept(h)'
        BY <1>1, <2>2, ReadyIs DEF ListsKept, Unseen
    <2>6. Contents(h)'
        BY <1>1, <1>2, <2>1, <2>2, ReadyIs, Guards DEF Contents, Serving
    <2>7. Smooth(h)'
        BY <1>1, <1>2, <2>1, <2>2, ReadyIs, Guards DEF Smooth, Serving
    <2> QED BY <1>1, <2>1, <2>2, <2>3, <2>4, <2>5, <2>6, <2>7, ReadyIs, HostScanAssumption
        DEF StepFits, Facts
<1>3. CASE /\ run.named # Nothing /\ UNCHANGED <<stats, faults>>
           /\ scan' = [scan EXCEPT ![h].at = "next_share", ![h].left = run.named]
    <2>1. run.named \in SUBSET Shares /\ Due(h) \subseteq run.named
        BY <1>3, RunIs, ReadyIs DEF Due
    <2> QED BY <1>2, <1>3, <2>1
<1>4. ASSUME run.named = Nothing, UNCHANGED <<stats, faults>>, NEW shown \in SUBSET SharesOf[h],
             scan[h].found = {} => shown = SharesOf[h],
             scan' = [scan EXCEPT ![h].at = "next_share", ![h].left = shown]
      PROVE  StepFits(h)
    <2>1. shown \in SUBSET Shares
        BY HostScanAssumption
    <2>2. scan[h].found = {} => Due(h) \subseteq shown
        BY <1>4 DEF Due
    <2> QED BY <1>2, <1>4, <2>1, <2>2
<1>5. CASE run.named = Nothing /\ Fault /\ Trouble(TRUE) /\ Return(h, TRUE)
    <2>1. ~Untouched'
        BY <1>5, FaultIs, ReadyIs DEF Untouched
    <2>2. Books(h) /\ stats'.errors = TRUE /\ stats'.gaps
        BY <1>1, <1>5, <2>1, TroubledBooks, TroubleIs, TypesNow, ReadyIs
    <2>3. Moved(h) /\ scan'[h] = At("smb_done", TRUE, Nothing)
        BY <1>5, Returns, ReadyIs
    <2>4. scan'[h].at = "smb_done" /\ scan'[h].result = Nothing
        BY <2>3 DEF At
    <2>5. Unseen(h)'
        BY <1>1, <2>4, ReadyIs DEF Unseen, Before, Serving
    <2>6. Structure(h)' /\ ListsKept(h)' /\ Contents(h)' /\ Smooth(h)'
        BY <2>1, <2>2 DEF Structure, ListsKept, Contents, Smooth
    <2> QED BY <1>1, <2>2, <2>3, <2>4, <2>5, <2>6, HostScanAssumption DEF StepFits, Facts
<1>6. CASE run.named = Nothing /\ Refused(h)
    BY <1>1, <1>6, RefusedFits
<1> QED BY <1>3, <1>4, <1>5, <1>6 DEF ListShares

\* A new record of a share or an export is counted once.
LEMMA ResourceBooks ==
    ASSUME NEW h \in Hosts, Ready(h), Others, UNCHANGED faults,
           NEW told \in SUBSET (Shares \cup Exports), \A r \in told : <<h, r>> \notin buffer.resources,
           Emit("resources", {<<h, r>> : r \in told}), stats' = Counted("resources", Cardinality(told))
    PROVE  /\ Books(h)
           /\ stats'.errors = stats.errors /\ stats'.gaps = stats.gaps
           /\ stats'.incomplete = stats.incomplete
           /\ buffer'.endpoints = buffer.endpoints /\ buffer'.lists = buffer.lists
           /\ \A s : Shown(h, s)' = Shown(h, s)
           /\ buffer'.resources = IF broken THEN buffer.resources
                                  ELSE buffer.resources \cup {<<h, r>> : r \in told}
<1> DEFINE new == {<<h, r>> : r \in told}
<1>1. new \in SUBSET (Hosts \X (Shares \cup Exports))
    OBVIOUS
<1>2. /\ buffer' \in Records
      /\ buffer'.resources = IF broken THEN buffer.resources ELSE buffer.resources \cup new
      /\ buffer'.endpoints = buffer.endpoints /\ buffer'.items = buffer.items
      /\ buffer'.lists = buffer.lists
    BY <1>1, EmitsResources, ReadyIs
<1>3. IsFiniteSet(Shares \cup Exports)
    BY FS_Union, HostScanAssumption
<1>4. IsFiniteSet(told) /\ Cardinality(told) \in Nat
    BY <1>3, FS_Subset, FS_CardinalityType
<1>5. IsFiniteSet(new) /\ Cardinality(new) = Cardinality(told)
    <2> DEFINE pair == [r \in told |-> <<h, r>>]
    <2>1. pair \in Bijection(told, new)
        <3>1. pair \in [told -> new]
            OBVIOUS
        <3>2. \A p, q \in told : pair[p] = pair[q] => p = q
            OBVIOUS
        <3>3. \A y \in new : \E r \in told : pair[r] = y
            OBVIOUS
        <3> HIDE DEF pair, new
        <3> QED BY <3>1, <3>2, <3>3, Fun_IsBij
    <2>2. ExistsBijection(told, new)
        BY <2>1 DEF ExistsBijection
    <2> QED BY <1>4, <2>2, FS_Bijection
<1>6. /\ stats' \in Stats /\ stats'.errors = stats.errors /\ stats'.gaps = stats.gaps
      /\ stats'.incomplete = stats.incomplete /\ stats'.endpoints = stats.endpoints
      /\ stats'.resources = stats.resources + Cardinality(told) /\ stats'.items = stats.items
    <2> DEFINE n == Cardinality(told)
               c == Counted("resources", n)
    <2>1. n \in Nat /\ stats' = c
        BY <1>4
    <2> HIDE DEF n
    <2>2. /\ c \in Stats /\ c.errors = stats.errors /\ c.gaps = stats.gaps
          /\ c.incomplete = stats.incomplete /\ c.endpoints = stats.endpoints + 0
          /\ c.resources = stats.resources + n /\ c.items = stats.items + 0
        BY <2>1, CountedIs, TypesNow, ReadyIs
    <2>3. stats.endpoints \in Nat /\ stats.items \in Nat
        BY TypesNow, ReadyIs DEF Stats
    <2> HIDE DEF c
    <2> QED BY <2>1, <2>2, <2>3 DEF n
<1>7. Weakens
    BY <1>6, TypesNow, ReadyIs DEF Others, Weakens
<1>8. OnlyOf(h)
    BY <1>2 DEF OnlyOf, Shown
<1>9. Totals'
    <2>1. IsFiniteSet(buffer.resources)
        <3>1. IsFiniteSet(Hosts \X (Shares \cup Exports))
            BY <1>3, FS_Product, HostScanAssumption
        <3>2. buffer.resources \subseteq Hosts \X (Shares \cup Exports)
            BY TypesNow, ReadyIs DEF Records
        <3> QED BY <3>1, <3>2, FS_Subset
    <2>2. buffer.resources \cap new = {}
        OBVIOUS
    <2>3. Cardinality(buffer.resources \cup new) = Cardinality(buffer.resources) + Cardinality(new)
        <3> HIDE DEF new
        <3>1. Cardinality(buffer.resources \cup new) =
                  Cardinality(buffer.resources) + Cardinality(new) - Cardinality(buffer.resources \cap new)
            BY <2>1, <1>5, FS_Union
        <3>2. Cardinality(buffer.resources \cap new) = 0
            BY <2>2, FS_EmptySet
        <3>3. Cardinality(buffer.resources) \in Nat /\ Cardinality(new) \in Nat
            BY <2>1, <1>5, FS_CardinalityType
        <3> QED BY <3>1, <3>2, <3>3
    <2> HIDE DEF new
    <2> QED BY <1>2, <1>5, <1>6, <2>3, ReadyIs DEF Totals, Others
<1>10. Unfailing'
    BY <1>6, <1>7, ReadyIs, MainStays DEF Unfailing, Others, Untouched, Weakens
<1>11. Books(h)
    BY <1>2, <1>6, <1>7, <1>8, <1>9, <1>10, TypesNow, ReadyIs DEF Books, Others
<1> QED BY <1>2, <1>6, <1>11 DEF Shown

LEMMA NextShareFits ==
    ASSUME NEW h \in Hosts, Ready(h), NextShare(h)
    PROVE  StepFits(h)
<1>1. scan[h].at = "next_share" /\ Others /\ UNCHANGED faults
    BY DEF NextShare
<1>2. CASE (scan[h].left = {} \/ cancel) /\ Return(h, TRUE) /\ Quiet
    <2>1. Books(h) /\ UNCHANGED buffer
        BY <1>1, <1>2, QuietBooks DEF Quiet
    <2>2. Moved(h) /\ scan'[h] = At("smb_done", TRUE, Nothing)
        BY <1>2, Returns, ReadyIs
    <2>3. scan'[h].at = "smb_done" /\ scan'[h].result = Nothing /\ scan'[h].ok
        BY <2>2 DEF At
    <2>4. Unseen(h)'
        BY <1>1, <2>1, <2>3, ReadyIs DEF Unseen, Before, Serving
    <2>5. Structure(h)'
        BY <1>1, <1>2, <2>1, <2>3, ReadyIs, Guards DEF Structure, Serving, SmbWhole
    <2>6. ListsKept(h)'
        BY <1>1, <1>2, <2>1, <2>3, ReadyIs, Guards DEF ListsKept, Serving
    <2>7. Contents(h)'
        BY <1>1, <1>2, <2>1, <2>3, ReadyIs, Guards DEF Contents, Serving, Listed, Reach, Shown
    <2>8. Smooth(h)'
        BY <2>3 DEF Smooth, Serving
    <2> QED BY <1>1, <2>1, <2>2, <2>3, <2>4, <2>5, <2>6, <2>7, <2>8, HostScanAssumption DEF StepFits, Facts
<1>3. ASSUME NEW s \in scan[h].left,
             Into(h, s), Emit("resources", {<<h, s>>}), stats' = Counted("resources", 1)
      PROVE  StepFits(h)
    <2>1. /\ Moved(h) /\ scan'[h].at = "tree" /\ scan'[h].share = s /\ scan'[h].left = scan[h].left \ {s}
          /\ scan'[h].todo = {Root} /\ scan'[h].seen = 0 /\ scan'[h].result = scan[h].result
          /\ s \in Shares
        BY <1>3, GoesInto, ReadyIs
    <2>2. /\ \A t \in scan[h].left : <<h, t>> \notin buffer.resources /\ Shown(h, t) = {}
          /\ \A e \in Exports : <<h, e>> \notin buffer.resources
          /\ <<h, "nfs">> \notin buffer.endpoints
        BY <1>1, ReadyIs DEF Unseen
    <2>3. {<<h, r>> : r \in {s}} = {<<h, s>>} /\ Cardinality({s}) = 1
        <3>1. {<<h, r>> : r \in {s}} = {<<h, s>>}
            OBVIOUS
        <3> QED BY <3>1, FS_Singleton
    <2>4. /\ Books(h)
          /\ stats'.errors = stats.errors /\ stats'.gaps = stats.gaps
          /\ stats'.incomplete = stats.incomplete
          /\ buffer'.endpoints = buffer.endpoints /\ buffer'.lists = buffer.lists
          /\ \A t : Shown(h, t)' = Shown(h, t)
          /\ buffer'.resources = IF broken THEN buffer.resources ELSE buffer.resources \cup {<<h, s>>}
        <3>1. Emit("resources", {<<h, r>> : r \in {s}}) /\ stats' = Counted("resources", Cardinality({s}))
            BY <1>3, <2>3
        <3>2. {s} \in SUBSET (Shares \cup Exports) /\ \A r \in {s} : <<h, r>> \notin buffer.resources
            BY <2>1, <2>2
        <3> QED BY <1>1, <2>3, <3>1, <3>2, ResourceBooks
    <2>5. Unseen(h)'
        <3>1. \A e \in Exports : <<h, e>> \notin buffer'.resources
            BY <2>1, <2>2, <2>4, HostScanAssumption
        <3>2. <<h, "nfs">> \notin buffer'.endpoints
            BY <2>2, <2>4
        <3>3. \A t \in scan[h].left \ {s} : <<h, t>> \notin buffer'.resources
            BY <2>2, <2>4
        <3>4. \A t \in scan[h].left \ {s} : Shown(h, t)' = {}
            BY <2>2, <2>4
        <3>5. Shown(h, s)' = {} /\ Cardinality({}) = 0
            BY <2>2, <2>4, FS_EmptySet
        <3> QED BY <2>1, <3>1, <3>2, <3>3, <3>4, <3>5 DEF Unseen, Before, Serving
    <2>6. Structure(h)'
        <3>1. SUFFICES ASSUME Calm', ~stats'.gaps
                       PROVE  /\ <<h, "smb">> \in buffer'.endpoints
                              /\ \A t \in Due(h) : t \in scan[h].left \ {s} \/ <<h, t>> \in buffer'.resources
            BY <2>1, <2>4, Guards, ReadyIs DEF Structure, Serving
        <3>2. /\ <<h, "smb">> \in buffer.endpoints
              /\ \A t \in Due(h) : t \in scan[h].left \/ <<h, t>> \in buffer.resources
            BY <1>1, <2>4, <3>1, Guards, ReadyIs DEF Structure
        <3>3. buffer'.resources = buffer.resources \cup {<<h, s>>}
            BY <2>4, <3>1, Guards DEF Calm
        <3> QED BY <2>4, <3>2, <3>3
    <2>7. ListsKept(h)'
        BY <1>1, <2>1, <2>4, ReadyIs, Guards DEF ListsKept, Serving
    <2>8. Contents(h)'
        BY <1>1, <2>1, <2>4, ReadyIs, Guards DEF Contents, Serving, Listed, Reach
    <2>9. Smooth(h)'
        BY <1>1, <2>1, <2>4, ReadyIs, Guards DEF Smooth, Serving
    <2> QED BY <1>1, <2>1, <2>4, <2>5, <2>6, <2>7, <2>8, <2>9, ReadyIs, HostScanAssumption DEF StepFits, Facts
<1> QED BY <1>2, <1>3 DEF NextShare

\* Within a share nothing is recorded but entries, and what is left to list gets less.
LEMMA Serves ==
    ASSUME NEW h \in Hosts, Ready(h), Moved(h), Books(h), UNCHANGED buffer,
           scan[h].at \in Serving, scan'[h].at \in Serving \ {"tree"},
           scan'[h].left = scan[h].left, scan'[h].share = scan[h].share, scan'[h].result = scan[h].result,
           scan'[h].at = "walk" => /\ scan[h].at \in {"tree", "walk"} /\ scan'[h].seen = scan[h].seen
                                   /\ scan'[h].todo \subseteq scan[h].todo,
           Untouched' /\ run.named = Nothing => scan'[h].tree,
           Contents(h)'
    PROVE  StepFits(h)
<1>1. /\ <<h, "nfs">> \notin buffer.endpoints
      /\ \A e \in Exports : <<h, e>> \notin buffer.resources
      /\ \A s \in scan[h].left : <<h, s>> \notin buffer.resources /\ Shown(h, s) = {}
      /\ scan[h].share \in Shares \ scan[h].left
      /\ scan[h].at \in {"tree", "walk"} =>
             /\ Root \in scan[h].todo => scan[h].todo = {Root} /\ Shown(h, scan[h].share) = {}
             /\ \A e \in Shown(h, scan[h].share) : ParentOf[e] \notin scan[h].todo
             /\ ~broken => scan[h].seen = Cardinality(Shown(h, scan[h].share))
    BY ReadyIs DEF Unseen, Serving
<1>2. \A s : Shown(h, s)' = Shown(h, s)
    BY DEF Shown
<1>3. broken => broken'
    BY DEF Books, Weakens
<1>4. Unseen(h)'
    BY <1>1, <1>2, <1>3 DEF Unseen, Before, Serving
<1>5. Structure(h)'
    BY ReadyIs, Guards DEF Structure, Serving
<1>6. ListsKept(h)'
    BY ReadyIs, Guards DEF ListsKept, Serving
<1>7. Smooth(h)'
    BY ReadyIs, Guards DEF Smooth, Serving
<1>8. scan[h].at \notin {"unsubmitted", "queued", "ended"} /\ scan'[h].at \notin {"unsubmitted", "queued", "ended"}
    BY DEF Serving
<1> QED BY <1>4, <1>5, <1>6, <1>7, <1>8, ReadyIs, HostScanAssumption DEF StepFits, Facts

LEMMA TreeFits ==
    ASSUME NEW h \in Hosts, Ready(h), Tree(h)
    PROVE  StepFits(h)
<1>1. scan[h].at = "tree" /\ Others /\ UNCHANGED buffer /\ scan[h].at \in Serving
    BY DEF Tree, Serving
<1>2. /\ Root \in scan[h].todo /\ scan[h].seen # run.cap
      /\ Untouched /\ run.named = Nothing => scan[h].share \in SharesOf[h]
    <2>1. scan[h].todo = {Root} /\ scan[h].seen = 0 /\ run.cap \in Nat \ {0}
        BY <1>1, ReadyIs, RunIs DEF Unseen
    <2>2. Untouched /\ run.named = Nothing => scan[h].share \in SharesOf[h]
        BY <1>1, ReadyIs DEF Smooth
    <2> QED BY <2>1, <2>2
<1>3. ASSUME NEW open \in BOOLEAN, Serve(h, open, "walk"), Books(h),
             Untouched' /\ run.named = Nothing => open
      PROVE  StepFits(h)
    <2>1. /\ Moved(h) /\ scan'[h].at = "walk" /\ scan'[h].tree = open
          /\ scan'[h].left = scan[h].left /\ scan'[h].share = scan[h].share
          /\ scan'[h].todo = scan[h].todo /\ scan'[h].seen = scan[h].seen
          /\ scan'[h].result = scan[h].result
        BY <1>3, GoesOpen, ReadyIs DEF Places
    <2>2. Contents(h)'
        BY <1>1, <1>2, <1>3, <2>1, ReadyIs, Guards DEF Contents, Serving, Listed, Reach, Shown
    <2> QED BY <1>1, <1>3, <2>1, <2>2, Serves DEF Serving
<1>4. CASE cancel /\ Serve(h, FALSE, "walk") /\ UNCHANGED <<stats, faults>>
    <2>1. Books(h)
        BY <1>1, <1>4, QuietBooks
    <2> QED BY <1>3, <1>4, <2>1, Guards
<1>5. CASE scan[h].share \in SharesOf[h] /\ Serve(h, TRUE, "walk") /\ UNCHANGED <<stats, faults>>
    <2>1. Books(h)
        BY <1>1, <1>5, QuietBooks
    <2> QED BY <1>3, <1>5, <2>1
<1>6. CASE scan[h].share \notin SharesOf[h] /\ Serve(h, FALSE, "walk") /\ Trouble(FALSE) /\ UNCHANGED faults
    <2>1. Untouched' => Untouched
        BY <1>1, <1>6, MainStays DEF Untouched, Others
    <2>2. Books(h)
        BY <1>1, <1>2, <1>6, <2>1, TroubledBooks
    <2> QED BY <1>2, <1>3, <1>6, <2>1, <2>2
<1>7. CASE Fault /\ Serve(h, FALSE, "walk") /\ (Trouble(FALSE) \/ UNCHANGED stats)
    <2>1. ~Untouched'
        BY <1>7, FaultIs, ReadyIs DEF Untouched
    <2>2. Books(h)
        BY <1>1, <1>7, <2>1, TroubledBooks, QuietBooks
    <2> QED BY <1>3, <1>7, <2>1, <2>2
<1>8. ASSUME Fault, Trouble(FALSE), NEW open \in BOOLEAN, Serve(h, open, "acl")
      PROVE  StepFits(h)
    <2>1. ~Untouched'
        BY <1>8, FaultIs, ReadyIs DEF Untouched
    <2>2. Books(h) /\ stats'.errors = TRUE
        BY <1>1, <1>8, <2>1, TroubledBooks, TroubleIs, ReadyIs, TypesNow
    <2>3. /\ Moved(h) /\ scan'[h].at = "acl" /\ scan'[h].left = scan[h].left
          /\ scan'[h].share = scan[h].share /\ scan'[h].result = scan[h].result
        BY <1>8, GoesOpen, ReadyIs DEF Places
    <2>4. Contents(h)'
        BY <2>2 DEF Contents
    <2> QED BY <1>1, <2>1, <2>2, <2>3, <2>4, Serves DEF Serving
<1> QED BY <1>4, <1>5, <1>6, <1>7, <1>8 DEF Tree

LEMMA ProbeFits ==
    ASSUME NEW h \in Hosts, Ready(h), Probe(h)
    PROVE  StepFits(h)
<1>1. scan[h].at = "probe" /\ Others /\ UNCHANGED buffer /\ scan[h].at \in Serving
    BY DEF Probe, Serving
<1>2. CASE To(h, "acl") /\ UNCHANGED <<stats, faults>>
    <2>1. Books(h)
        BY <1>1, <1>2, QuietBooks
    <2>2. /\ Moved(h) /\ scan'[h].at = "acl" /\ scan'[h].left = scan[h].left
          /\ scan'[h].share = scan[h].share /\ scan'[h].result = scan[h].result
          /\ scan'[h].tree = scan[h].tree
        BY <1>2, Goes, ReadyIs DEF Places
    <2>3. Contents(h)'
        BY <1>1, <2>1, <2>2, ReadyIs, Guards DEF Contents, Serving, Listed, Reach, Shown
    <2>4. Untouched' /\ run.named = Nothing => scan'[h].tree
        BY <1>1, <2>1, <2>2, ReadyIs, Guards DEF Smooth, Serving
    <2> QED BY <1>1, <2>1, <2>2, <2>3, <2>4, Serves DEF Serving
<1>3. ASSUME Fault, NEW open \in BOOLEAN, Serve(h, open, "acl"), Trouble(FALSE) \/ UNCHANGED stats
      PROVE  StepFits(h)
    <2>1. ~Untouched'
        BY <1>3, FaultIs, ReadyIs DEF Untouched
    <2>2. Books(h)
        BY <1>1, <1>3, <2>1, TroubledBooks, QuietBooks
    <2>3. /\ Moved(h) /\ scan'[h].at = "acl" /\ scan'[h].left = scan[h].left
          /\ scan'[h].share = scan[h].share /\ scan'[h].result = scan[h].result
        BY <1>3, GoesOpen, ReadyIs DEF Places
    <2>4. Contents(h)'
        BY <1>1, <2>2, <2>3, ReadyIs, Guards DEF Contents, Serving, Listed, Reach, Shown
    <2> QED BY <1>1, <2>1, <2>2, <2>3, <2>4, Serves DEF Serving
<1> QED BY <1>2, <1>3 DEF Probe


\* The descriptors of a share, which close its record.
LEMMA DescriptorsFit ==
    ASSUME NEW h \in Hosts, Ready(h), Others, scan[h].at = "acl", run.permissions,
           NEW whole \in BOOLEAN, Descriptors(h, whole),
           \/ Fault
           \/ UNCHANGED faults /\ (Untouched /\ run.named = Nothing => whole)
    PROVE  StepFits(h)
<1>1. /\ Moved(h) /\ scan'[h].at = "next_share" /\ scan'[h].left = scan[h].left
      /\ scan'[h].share = scan[h].share /\ scan'[h].result = scan[h].result
    BY Goes, ReadyIs DEF Descriptors, Places
<1>2. scan[h].share \in Shares
    BY ReadyIs DEF Unseen, Serving
<1>3. /\ buffer' \in Records
      /\ buffer'.lists = IF broken \/ ~whole THEN buffer.lists ELSE buffer.lists \cup {<<h, scan[h].share>>}
      /\ buffer'.endpoints = buffer.endpoints /\ buffer'.resources = buffer.resources
      /\ buffer'.items = buffer.items
    <2>1. CASE whole
        <3>1. {<<h, scan[h].share>>} \in SUBSET (Hosts \X Shares)
            BY <1>2
        <3>2. Emit("lists", {<<h, scan[h].share>>})
            BY <2>1 DEF Descriptors
        <3> QED BY <2>1, <3>1, <3>2, EmitsLists, ReadyIs
    <2>2. CASE ~whole
        <3>1. Emit("lists", {})
            BY <2>2 DEF Descriptors
        <3>2. {} \in SUBSET (Hosts \X Shares)
            OBVIOUS
        <3> QED BY <2>2, <3>1, <3>2, EmitsLists, ReadyIs
    <2> QED BY <2>1, <2>2
<1>4. /\ stats' \in Stats /\ stats'.gaps = stats.gaps
      /\ stats'.errors = (stats.errors \/ ~whole) /\ stats'.incomplete = (stats.incomplete \/ ~whole)
      /\ stats'.endpoints = stats.endpoints /\ stats'.resources = stats.resources
      /\ stats'.items = stats.items
    BY TypesNow, ReadyIs DEF Descriptors, Stats
<1>5. Weakens
    BY <1>4, TypesNow, FaultIs, ReadyIs DEF Others, Weakens
<1>6. Books(h)
    <2>1. OnlyOf(h)
        BY <1>3 DEF OnlyOf, Shown
    <2>2. Totals'
        BY <1>3, <1>4, ReadyIs DEF Totals, Others
    <2>3. Unfailing'
        BY <1>4, <1>5, FaultIs, ReadyIs, MainStays DEF Unfailing, Others, Untouched, Weakens
    <2>4. faults' \in 0 .. MaxFaults
        BY FaultIs, TypesNow, ReadyIs
    <2> QED BY <1>3, <1>4, <1>5, <2>1, <2>2, <2>3, <2>4, TypesNow, ReadyIs DEF Books, Others
<1>7. \A s : Shown(h, s)' = Shown(h, s)
    BY <1>3 DEF Shown
<1>8. Unseen(h)'
    <2>1. /\ \A s \in scan[h].left : <<h, s>> \notin buffer.resources /\ Shown(h, s) = {}
          /\ \A e \in Exports : <<h, e>> \notin buffer.resources
          /\ <<h, "nfs">> \notin buffer.endpoints
        BY ReadyIs DEF Unseen, Serving
    <2>2. \A s \in scan[h].left : <<h, s>> \notin buffer'.resources /\ Shown(h, s)' = {}
        BY <1>3, <1>7, <2>1
    <2>3. <<h, "nfs">> \notin buffer'.endpoints /\ \A e \in Exports : <<h, e>> \notin buffer'.resources
        BY <1>3, <2>1
    <2> QED BY <1>1, <2>2, <2>3 DEF Unseen, Before, Serving
<1>9. Structure(h)'
    BY <1>1, <1>3, <1>6, ReadyIs, Guards DEF Structure, Serving
<1>10. ListsKept(h)'
    BY <1>1, <1>3, <1>4, <1>6, ReadyIs, Guards DEF ListsKept, Serving, Calm
<1>11. Contents(h)'
    BY <1>1, <1>6, <1>7, ReadyIs, Guards DEF Contents, Serving, Listed, Reach
<1>12. Smooth(h)'
    BY <1>1, <1>6, ReadyIs, Guards DEF Smooth, Serving
<1> QED BY <1>1, <1>6, <1>8, <1>9, <1>10, <1>11, <1>12, ReadyIs, HostScanAssumption DEF StepFits, Facts

LEMMA AclFits ==
    ASSUME NEW h \in Hosts, Ready(h), Acl(h)
    PROVE  StepFits(h)
<1>1. scan[h].at = "acl" /\ Others
    BY DEF Acl
<1>2. CASE ~run.permissions /\ To(h, "next_share") /\ Quiet /\ UNCHANGED faults
    <2>1. Books(h) /\ UNCHANGED buffer
        BY <1>1, <1>2, QuietBooks DEF Quiet
    <2>2. /\ Moved(h) /\ scan'[h].at = "next_share" /\ scan'[h].left = scan[h].left
          /\ scan'[h].share = scan[h].share /\ scan'[h].result = scan[h].result
        BY <1>2, Goes, ReadyIs DEF Places
    <2>3. Unseen(h)'
        BY <1>1, <2>1, <2>2, ReadyIs DEF Unseen, Before, Serving, Shown
    <2>4. Structure(h)'
        BY <1>1, <2>1, <2>2, ReadyIs, Guards DEF Structure, Serving
    <2>5. ListsKept(h)'
        BY <1>2, <2>1, Guards DEF ListsKept
    <2>6. Contents(h)'
        BY <1>1, <2>1, <2>2, ReadyIs, Guards DEF Contents, Serving, Listed, Reach, Shown
    <2>7. Smooth(h)'
        BY <1>1, <2>1, <2>2, ReadyIs, Guards DEF Smooth, Serving
    <2> QED BY <1>1, <2>1, <2>2, <2>3, <2>4, <2>5, <2>6, <2>7, ReadyIs, HostScanAssumption
        DEF StepFits, Facts
<1>3. CASE run.permissions /\ Descriptors(h, scan[h].tree /\ ~cancel) /\ UNCHANGED faults
    <2>1. scan[h].tree \in BOOLEAN
        BY ReadyIs DEF Scan
    <2>2. Untouched /\ run.named = Nothing => scan[h].tree /\ ~cancel
        BY <1>1, ReadyIs DEF Smooth, Serving
    <2> DEFINE whole == scan[h].tree /\ ~cancel
    <2>3. whole \in BOOLEAN /\ Descriptors(h, whole) /\ (Untouched /\ run.named = Nothing => whole)
        BY <1>3, <2>1, <2>2
    <2> HIDE DEF whole
    <2> QED BY <1>1, <1>3, <2>3, DescriptorsFit
<1>4. CASE run.permissions /\ Fault /\ Descriptors(h, FALSE)
    BY <1>1, <1>4, DescriptorsFit
<1>5. CASE Refused(h)
    BY <1>1, <1>5, RefusedFits DEF Serving
<1>6. CASE Fault /\ End(h, "error") /\ Quiet
    <2>1. ~Untouched'
        BY <1>6, FaultIs, ReadyIs DEF Untouched
    <2>2. Books(h)
        BY <1>1, <1>6, QuietBooks DEF Quiet
    <2> QED BY <1>1, <1>6, <2>1, <2>2, EndsShort
<1> QED BY <1>2, <1>3, <1>4, <1>5, <1>6 DEF Acl

\* A thread that ends with what it found.
LEMMA EndsWith ==
    ASSUME NEW h \in Hosts, Ready(h), Books(h), NEW result \in {"ok", "failed"}, End(h, result),
           Untouched' => result = "ok",
           scan[h].at \notin {"unsubmitted", "queued", "ended"},
           result = "ok" => Structure(h)' /\ ListsKept(h)' /\ Contents(h)'
    PROVE  StepFits(h)
<1>1. Moved(h) /\ scan'[h] = At("ended", FALSE, result) /\ result # Nothing /\ Nothing # "cancelled"
    BY Ends, ReadyIs, HostScanAssumption DEF Result
<1>2. scan'[h].at = "ended" /\ scan'[h].result = result
    BY <1>1 DEF At
<1>3. Unseen(h)'
    BY <1>2 DEF Unseen, Before, Serving
<1>4. result = "failed" => Structure(h)' /\ ListsKept(h)' /\ Contents(h)'
    BY <1>2 DEF Structure, ListsKept, Contents, Serving
<1>5. Smooth(h)'
    BY <1>2 DEF Smooth, Serving
<1> QED BY <1>1, <1>2, <1>3, <1>4, <1>5 DEF StepFits, Facts

\* The gaps a thread reports when it is through with a protocol.
LEMMA GapBooks ==
    ASSUME NEW h \in Hosts, Ready(h), Others, UNCHANGED <<buffer, faults>>, NEW gap \in BOOLEAN,
           stats' = [stats EXCEPT !.gaps = @ \/ gap], Untouched => ~gap
    PROVE  /\ Books(h) /\ stats'.gaps = (stats.gaps \/ gap)
           /\ stats'.errors = stats.errors /\ stats'.incomplete = stats.incomplete
<1>1. /\ stats' \in Stats /\ stats'.gaps = (stats.gaps \/ gap)
      /\ stats'.errors = stats.errors /\ stats'.incomplete = stats.incomplete
      /\ stats'.endpoints = stats.endpoints /\ stats'.resources = stats.resources
      /\ stats'.items = stats.items
    BY TypesNow, ReadyIs DEF Stats
<1>2. Weakens
    BY <1>1, TypesNow, ReadyIs DEF Others, Weakens
<1>3. OnlyOf(h)
    BY DEF OnlyOf, Shown
<1>4. Totals'
    BY <1>1, ReadyIs DEF Totals, Others
<1>5. Unfailing'
    BY <1>1, <1>2, ReadyIs, MainStays DEF Unfailing, Others, Untouched, Weakens
<1> QED BY <1>1, <1>2, <1>3, <1>4, <1>5, TypesNow, ReadyIs DEF Books, Others

LEMMA SmbDoneFits ==
    ASSUME NEW h \in Hosts, Ready(h), SmbDone(h)
    PROVE  StepFits(h)
<1>1. scan[h].at = "smb_done" /\ Others /\ UNCHANGED <<buffer, faults>>
    BY DEF SmbDone
<1>2. CASE cancel /\ End(h, "cancelled") /\ UNCHANGED stats
    <2>1. Books(h)
        BY <1>1, <1>2, QuietBooks
    <2> QED BY <1>1, <1>2, <2>1, EndsShort, Guards
<1>3. ASSUME ~cancel, stats' = [stats EXCEPT !.gaps = @ \/ ~scan[h].ok]
      PROVE  /\ Books(h) /\ stats'.gaps = (stats.gaps \/ ~scan[h].ok)
             /\ stats'.errors = stats.errors /\ stats'.incomplete = stats.incomplete
    <2> DEFINE gap == ~scan[h].ok
    <2>1. gap \in BOOLEAN /\ (Untouched => ~gap)
        BY <1>1, ReadyIs DEF Scan, Smooth
    <2>2. stats' = [stats EXCEPT !.gaps = @ \/ gap]
        BY <1>3
    <2> HIDE DEF gap
    <2>3. /\ Books(h) /\ stats'.gaps = (stats.gaps \/ gap)
          /\ stats'.errors = stats.errors /\ stats'.incomplete = stats.incomplete
        BY <1>1, <2>1, <2>2, GapBooks
    <2> QED BY <2>3 DEF gap
<1>4. CASE ~cancel /\ stats' = [stats EXCEPT !.gaps = @ \/ ~scan[h].ok] /\ "nfs" \in Active /\ To(h, "nfs")
    <2>1. /\ Moved(h) /\ scan'[h].at = "nfs" /\ scan'[h].result = scan[h].result
        BY <1>4, Goes, ReadyIs DEF Places
    <2>2. Unseen(h)'
        BY <1>1, <1>3, <1>4, <2>1, ReadyIs, Guards DEF Unseen, Before, Serving
    <2>3. Structure(h)'
        BY <1>1, <1>3, <1>4, <2>1, ReadyIs, Guards DEF Structure, Serving, SmbWhole
    <2>4. ListsKept(h)'
        BY <1>1, <1>3, <1>4, <2>1, ReadyIs, Guards DEF ListsKept, Serving
    <2>5. Contents(h)'
        BY <2>1 DEF Contents, Serving
    <2>6. Smooth(h)'
        BY <1>1, <1>3, <1>4, <2>1, ReadyIs, Guards DEF Smooth, Serving
    <2> QED BY <1>1, <1>3, <1>4, <2>1, <2>2, <2>3, <2>4, <2>5, <2>6, ReadyIs, HostScanAssumption
        DEF StepFits, Facts
<1>5. CASE /\ ~cancel /\ stats' = [stats EXCEPT !.gaps = @ \/ ~scan[h].ok] /\ "nfs" \notin Active
           /\ End(h, IF scan[h].ok THEN "ok" ELSE "failed")
    <2>1. CASE ~scan[h].ok
        <3>1. End(h, "failed") /\ ~Untouched'
            BY <1>1, <1>3, <1>5, <2>1, ReadyIs, Guards DEF Smooth
        <3> QED BY <1>1, <1>3, <1>5, <3>1, EndsWith
    <2>2. CASE scan[h].ok
        <3>1. End(h, "ok")
            BY <1>5, <2>2
        <3>2. scan'[h] = At("ended", FALSE, "ok")
            BY <3>1, Ends, ReadyIs, HostScanAssumption DEF Result
        <3>3. scan'[h].at = "ended" /\ scan'[h].result = "ok"
            BY <3>2 DEF At
        <3>4. Structure(h)'
            BY <1>1, <1>3, <1>5, <2>2, <3>3, ReadyIs, Guards DEF Structure, Serving, SmbWhole
        <3>5. ListsKept(h)'
            BY <1>1, <1>3, <1>5, <2>2, <3>3, ReadyIs, Guards DEF ListsKept, Serving
        <3>6. Contents(h)'
            BY <1>1, <1>3, <1>5, <2>2, <3>3, ReadyIs, Guards DEF Contents, Serving, Listed, Reach, Shown
        <3> QED BY <1>1, <1>3, <1>5, <3>1, <3>4, <3>5, <3>6, EndsWith
    <2> QED BY <2>1, <2>2
<1> QED BY <1>2, <1>4, <1>5 DEF SmbDone

LEMMA NfsFits ==
    ASSUME NEW h \in Hosts, Ready(h), Nfs(h)
    PROVE  StepFits(h)
<1>1. /\ scan[h].at = "nfs" /\ Others /\ "nfs" \in Active /\ "nfs" \in Requested
      /\ <<h, "nfs">> \notin buffer.endpoints /\ \A e \in Exports : <<h, e>> \notin buffer.resources
    BY ReadyIs, RunIs DEF Nfs, Unseen
<1>2. CASE /\ cancel /\ Quiet /\ UNCHANGED faults
           /\ End(h, IF scan[h].ok THEN "ok" ELSE "failed")
    <2>1. Books(h)
        BY <1>1, <1>2, QuietBooks DEF Quiet
    <2>2. ~Calm' /\ ~Untouched'
        BY <1>2, <2>1, Guards
    <2>3. Structure(h)' /\ ListsKept(h)' /\ Contents(h)'
        BY <2>2 DEF Structure, ListsKept, Contents
    <2>4. CASE scan[h].ok
        BY <1>1, <1>2, <2>1, <2>2, <2>3, <2>4, EndsWith
    <2>5. CASE ~scan[h].ok
        BY <1>1, <1>2, <2>1, <2>2, <2>5, EndsWith
    <2> QED BY <2>4, <2>5
\* The server does not answer, or is not asked any more.
<1>3. ASSUME Find(h, "nfs_done", {}), Books(h), UNCHANGED buffer, ~Untouched'
      PROVE  StepFits(h)
    <2>1. Moved(h) /\ scan'[h].at = "nfs_done" /\ scan'[h].found = {} /\ scan'[h].result = scan[h].result
        BY <1>3, GoesFinding, ReadyIs DEF Places
    <2>2. Unseen(h)'
        BY <1>1, <1>3, <2>1, Guards DEF Unseen, Before, Serving
    <2>3. Structure(h)'
        BY <1>1, <1>3, <2>1, ReadyIs, Guards DEF Structure, Serving, SmbWhole
    <2>4. ListsKept(h)'
        BY <1>1, <1>3, <2>1, ReadyIs, Guards DEF ListsKept, Serving
    <2>5. Contents(h)'
        BY <2>1 DEF Contents, Serving
    <2>6. Smooth(h)'
        BY <1>3 DEF Smooth
    <2> QED BY <1>1, <1>3, <2>1, <2>2, <2>3, <2>4, <2>5, <2>6, ReadyIs, HostScanAssumption
        DEF StepFits, Facts
<1>4. CASE cancel /\ Find(h, "nfs_done", {}) /\ Quiet /\ UNCHANGED faults
    <2>1. Books(h)
        BY <1>1, <1>4, QuietBooks DEF Quiet
    <2> QED BY <1>3, <1>4, <2>1, Guards DEF Quiet
<1>5. CASE Fault /\ Find(h, "nfs_done", {}) /\ Trouble(FALSE) /\ UNCHANGED buffer
    <2>1. ~Untouched'
        BY <1>5, FaultIs, ReadyIs DEF Untouched
    <2>2. Books(h)
        BY <1>1, <1>5, <2>1, TroubledBooks
    <2> QED BY <1>3, <1>5, <2>1, <2>2
\* It does.
<1>6. ASSUME Emit("endpoints", {<<h, "nfs">>}), NEW e \in SUBSET ExportsOf[h], Find(h, "exports", e),
             \/ Fault /\ stats'.errors /\ stats'.gaps
             \/ /\ UNCHANGED faults /\ stats'.errors = stats.errors /\ stats'.gaps = stats.gaps
                /\ e = ExportsOf[h],
             stats' \in Stats, stats'.incomplete = stats.incomplete, stats'.endpoints = stats.endpoints + 1,
             stats'.resources = stats.resources, stats'.items = stats.items
      PROVE  StepFits(h)
    <2>1. e \subseteq Exports
        BY HostScanAssumption
    <2>2. /\ Books(h)
          /\ buffer'.resources = buffer.resources /\ buffer'.lists = buffer.lists
          /\ \A s : Shown(h, s)' = Shown(h, s)
          /\ Calm' => <<h, "nfs">> \in buffer'.endpoints
          /\ <<h, "smb">> \in buffer'.endpoints <=> <<h, "smb">> \in buffer.endpoints
        BY <1>1, <1>6, GreetBooks
    <2>3. Moved(h) /\ scan'[h].at = "exports" /\ scan'[h].found = e /\ scan'[h].result = scan[h].result
        BY <1>6, <2>1, GoesFinding, ReadyIs DEF Places
    <2>4. Unseen(h)'
        BY <1>1, <2>1, <2>2, <2>3, Guards DEF Unseen, Before, Serving
    <2>5. Structure(h)'
        BY <1>1, <1>6, <2>2, <2>3, ReadyIs, Guards DEF Structure, Serving, SmbWhole
    <2>6. ListsKept(h)'
        BY <1>1, <2>2, <2>3, ReadyIs, Guards DEF ListsKept, Serving
    <2>7. Contents(h)'
        BY <2>3 DEF Contents, Serving
    <2>8. Smooth(h)'
        BY <2>3, <1>1, <2>2, ReadyIs, Guards DEF Smooth, Serving
    <2> QED BY <1>1, <2>2, <2>3, <2>4, <2>5, <2>6, <2>7, <2>8, ReadyIs, HostScanAssumption
        DEF StepFits, Facts
<1> DEFINE c == Counted("endpoints", 1)
<1>7. /\ c \in Stats /\ c.errors = stats.errors /\ c.gaps = stats.gaps
      /\ c.incomplete = stats.incomplete /\ c.endpoints = stats.endpoints + 1
      /\ c.resources = stats.resources /\ c.items = stats.items
    BY CountedIs, TypesNow, ReadyIs DEF Stats
<1>8. CASE Emit("endpoints", {<<h, "nfs">>}) /\ Find(h, "exports", ExportsOf[h]) /\ UNCHANGED faults /\ stats' = c
    <2> HIDE DEF c
    <2> QED BY <1>6, <1>7, <1>8
<1>9. ASSUME Emit("endpoints", {<<h, "nfs">>}), Fault, NEW e \in SUBSET ExportsOf[h], Find(h, "exports", e),
             stats' = [c EXCEPT !.errors = TRUE, !.gaps = TRUE]
      PROVE  StepFits(h)
    <2> HIDE DEF c
    <2>1. /\ stats' \in Stats /\ stats'.errors = TRUE /\ stats'.gaps = TRUE
          /\ stats'.incomplete = stats.incomplete /\ stats'.endpoints = stats.endpoints + 1
          /\ stats'.resources = stats.resources /\ stats'.items = stats.items
        BY <1>7, <1>9 DEF Stats
    <2> QED BY <1>6, <1>9, <2>1
<1> QED BY <1>2, <1>4, <1>5, <1>8, <1>9 DEF Nfs

LEMMA ListExportsFits ==
    ASSUME NEW h \in Hosts, Ready(h), ListExports(h)
    PROVE  StepFits(h)
<1> DEFINE told == IF cancel THEN {} ELSE scan[h].found
<1>1. /\ scan[h].at = "exports" /\ Others /\ UNCHANGED faults /\ Find(h, "nfs_done", {"nfs"})
      /\ Emit("resources", {<<h, e>> : e \in told}) /\ stats' = Counted("resources", Cardinality(told))
    BY DEF ListExports
<1>2. /\ \A e \in Exports : <<h, e>> \notin buffer.resources
      /\ scan[h].found \subseteq Exports /\ "nfs" \in Active
    BY <1>1, ReadyIs DEF Unseen
<1>3. told \subseteq Exports /\ (~cancel => told = scan[h].found)
    BY <1>2
<1> HIDE DEF told
<1>4. /\ Books(h)
      /\ stats'.errors = stats.errors /\ stats'.gaps = stats.gaps
      /\ stats'.incomplete = stats.incomplete
      /\ buffer'.endpoints = buffer.endpoints /\ buffer'.lists = buffer.lists
      /\ \A s : Shown(h, s)' = Shown(h, s)
      /\ buffer'.resources = IF broken THEN buffer.resources
                             ELSE buffer.resources \cup {<<h, e>> : e \in told}
    <2>1. told \in SUBSET (Shares \cup Exports) /\ \A r \in told : <<h, r>> \notin buffer.resources
        BY <1>2, <1>3
    <2> QED BY <1>1, <2>1, ResourceBooks
<1>5. Moved(h) /\ scan'[h].at = "nfs_done" /\ scan'[h].found = {"nfs"} /\ scan'[h].result = scan[h].result
    <2>1. TypeOK /\ "nfs_done" \in Places /\ {"nfs"} \in SUBSET (Exports \cup {"guest", "nfs"})
        BY ReadyIs DEF Places
    <2> QED BY <1>1, <2>1, GoesFinding
<1>6. Unseen(h)'
    BY <1>2, <1>4, <1>5, Guards DEF Unseen, Before, Serving
<1>7. Structure(h)'
    <2>1. ASSUME Calm', ~stats'.gaps
          PROVE  /\ NfsWhole(h)'
                 /\ "smb" \in Active => SmbWhole(h)'
        <3>1. /\ ~cancel /\ ~broken /\ Calm /\ ~stats.gaps
              /\ <<h, "nfs">> \in buffer.endpoints /\ scan[h].found = ExportsOf[h]
              /\ "smb" \in Active => SmbWhole(h)
            BY <1>1, <1>4, <2>1, ReadyIs, Guards DEF Structure, Calm
        <3>2. \A e \in ExportsOf[h] : <<h, e>> \in buffer'.resources
            BY <1>3, <1>4, <3>1
        <3>3. NfsWhole(h)'
            BY <1>4, <3>1, <3>2 DEF NfsWhole
        <3> QED BY <1>4, <3>1, <3>3, Guards DEF SmbWhole
    <2> QED BY <1>4, <1>5, <2>1, Guards DEF Structure, Serving
<1>8. ListsKept(h)'
    <2>1. \A s \in Shares : <<h, s>> \in buffer'.resources => <<h, s>> \in buffer.resources
        BY <1>3, <1>4, HostScanAssumption
    <2> QED BY <1>1, <1>4, <1>5, <2>1, ReadyIs, Guards DEF ListsKept, Serving
<1>9. Contents(h)'
    BY <1>5 DEF Contents, Serving
<1>10. Smooth(h)'
    BY <1>1, <1>4, <1>5, ReadyIs, Guards DEF Smooth, Serving
<1> QED BY <1>1, <1>4, <1>5, <1>6, <1>7, <1>8, <1>9, <1>10, ReadyIs, HostScanAssumption DEF StepFits, Facts

LEMMA NfsDoneFits ==
    ASSUME NEW h \in Hosts, Ready(h), NfsDone(h)
    PROVE  StepFits(h)
<1>1. /\ scan[h].at = "nfs_done" /\ Others /\ UNCHANGED <<buffer, faults>>
      /\ "nfs" \in Active /\ "nfs" \in Requested
    BY ReadyIs, RunIs DEF NfsDone, Unseen
<1>2. CASE cancel /\ End(h, "cancelled") /\ UNCHANGED stats
    <2>1. Books(h)
        BY <1>1, <1>2, QuietBooks
    <2> QED BY <1>1, <1>2, <2>1, EndsShort, Guards
<1>3. CASE /\ ~cancel /\ stats' = [stats EXCEPT !.gaps = @ \/ scan[h].found = {}]
           /\ End(h, IF scan[h].ok \/ scan[h].found # {} THEN "ok" ELSE "failed")
    <2> DEFINE gap == scan[h].found = {}
    <2>1. gap \in BOOLEAN /\ (Untouched => ~gap) /\ stats' = [stats EXCEPT !.gaps = @ \/ gap]
        BY <1>1, <1>3, ReadyIs DEF Smooth
    <2>2. /\ Books(h) /\ stats'.gaps = (stats.gaps \/ gap)
          /\ stats'.errors = stats.errors /\ stats'.incomplete = stats.incomplete
        <3> HIDE DEF gap
        <3> QED BY <1>1, <2>1, GapBooks
    <2>3. CASE ~scan[h].ok /\ gap
        <3>1. End(h, "failed") /\ ~Untouched'
            BY <1>3, <2>1, <2>2, <2>3, Guards
        <3> QED BY <1>1, <2>2, <3>1, EndsWith
    <2>4. CASE scan[h].ok \/ ~gap
        <3>1. End(h, "ok")
            BY <1>3, <2>4
        <3>2. scan'[h] = At("ended", FALSE, "ok")
            BY <3>1, Ends, ReadyIs, HostScanAssumption DEF Result
        <3>3. scan'[h].at = "ended" /\ scan'[h].result = "ok"
            BY <3>2 DEF At
        <3>4. Structure(h)'
            BY <1>1, <2>2, <3>3, ReadyIs, Guards DEF Structure, Serving, SmbWhole, NfsWhole
        <3>5. ListsKept(h)'
            BY <1>1, <2>2, <3>3, ReadyIs, Guards DEF ListsKept, Serving
        <3>6. Contents(h)'
            BY <1>1, <2>2, Guards DEF Contents
        <3> QED BY <1>1, <2>2, <3>1, <3>4, <3>5, <3>6, EndsWith
    <2> QED BY <2>3, <2>4
<1> QED BY <1>2, <1>3 DEF NfsDone

LEMMA WriteFailsFits ==
    ASSUME NEW h \in Hosts, Ready(h), WriteFails(h)
    PROVE  StepFits(h)
<1>1. /\ scan[h].at \notin {"unsubmitted", "queued", "ended"} /\ Fault /\ broken' = TRUE
      /\ End(h, "error") /\ UNCHANGED <<stats, buffer, cancel>> /\ UNCHANGED mainVars
    BY DEF WriteFails, Idle
<1>2. ~Untouched'
    BY <1>1, FaultIs, ReadyIs DEF Untouched
<1>3. Weakens
    BY <1>1, TypesNow, FaultIs, ReadyIs DEF Weakens
<1>4. OnlyOf(h)
    BY <1>1 DEF OnlyOf, Shown
<1>5. Totals' /\ Unfailing'
    BY <1>1, <1>2 DEF Totals, Unfailing
<1>6. faults' \in 0 .. MaxFaults
    BY <1>1, FaultIs, ReadyIs
<1>7. Books(h)
    BY <1>1, <1>3, <1>4, <1>5, <1>6, TypesNow, ReadyIs DEF Books
<1> QED BY <1>1, <1>2, <1>7, EndsShort

\* The entries of a share that are in the buffer, and those a thread is about to add.
LEMMA ShownIs ==
    ASSUME NEW h, NEW s
    PROVE  /\ Shown(h, s) \subseteq Entries
           /\ IsFiniteSet(Shown(h, s)) /\ Cardinality(Shown(h, s)) \in Nat
<1>1. Shown(h, s) \subseteq Entries
    BY DEF Shown
<1>2. IsFiniteSet(Shown(h, s))
    BY <1>1, FS_Subset, HostScanAssumption
<1> QED BY <1>1, <1>2, FS_CardinalityType

LEMMA TookIs ==
    ASSUME TypeOK, NEW h \in Hosts, NEW folder, NEW took \in Cut(h, folder)
    PROVE  /\ took \subseteq Inside(folder) /\ Inside(folder) \subseteq Entries
           /\ IsFiniteSet(took) /\ Cardinality(took) \in Nat
           /\ scan[h].seen + Cardinality(took) <= run.cap
           /\ took # Inside(folder) => scan[h].seen + Cardinality(took) = run.cap
<1>1. took \subseteq Inside(folder) /\ Inside(folder) \subseteq Entries
    BY DEF Cut, Inside
<1>2. IsFiniteSet(took)
    BY <1>1, FS_Subset, HostScanAssumption
<1>3. Cardinality(took) \in Nat
    BY <1>2, FS_CardinalityType
<1>4. /\ scan[h].seen + Cardinality(took) <= run.cap
      /\ took # Inside(folder) => scan[h].seen + Cardinality(took) = run.cap
    BY <1>1, <1>3, RunIs, ScanIs DEF Cut
<1> QED BY <1>1, <1>2, <1>3, <1>4

\* The entries of a folder that waits are not in the buffer yet.
LEMMA WaitingIsUnseen ==
    ASSUME NEW h \in Hosts, Ready(h), scan[h].at = "walk",
           NEW folder \in scan[h].todo, NEW took \in SUBSET Inside(folder)
    PROVE  /\ took \cap Shown(h, scan[h].share) = {}
           /\ folder \in Folders \cup {Root} /\ scan[h].todo \subseteq Folders \cup {Root}
           /\ Root \in scan[h].todo => scan[h].todo = {Root} /\ Shown(h, scan[h].share) = {}
           /\ \A e \in Shown(h, scan[h].share) : ParentOf[e] \notin scan[h].todo
           /\ ~broken => scan[h].seen = Cardinality(Shown(h, scan[h].share))
           /\ scan[h].share \in Shares \ scan[h].left
<1>1. /\ \A e \in Shown(h, scan[h].share) : ParentOf[e] \notin scan[h].todo
      /\ Root \in scan[h].todo => scan[h].todo = {Root} /\ Shown(h, scan[h].share) = {}
      /\ ~broken => scan[h].seen = Cardinality(Shown(h, scan[h].share))
      /\ scan[h].share \in Shares \ scan[h].left
    BY ReadyIs DEF Unseen, Serving
<1>2. took \cap Shown(h, scan[h].share) = {}
    BY <1>1 DEF Inside
<1>3. scan[h].todo \subseteq Folders \cup {Root}
    BY ReadyIs DEF Scan
<1> QED BY <1>1, <1>2, <1>3

\* A listing that has room for every entry does not end at its cap.
LEMMA RoomSuffices ==
    ASSUME NEW h \in Hosts, Ready(h), scan[h].at = "walk", ~broken, Roomy,
           NEW folder \in scan[h].todo, NEW took \in Cut(h, folder)
    PROVE  ~Capped(h, folder, took, (scan[h].todo \ {folder}) \cup Deeper(folder, took))
<1> DEFINE shown   == Shown(h, scan[h].share)
           waiting == (scan[h].todo \ {folder}) \cup Deeper(folder, took)
<1>1. /\ took \subseteq Inside(folder) /\ Inside(folder) \subseteq Entries
      /\ IsFiniteSet(took) /\ Cardinality(took) \in Nat
    BY TookIs, ReadyIs
<1>2. /\ took \cap shown = {}
      /\ folder \in Folders \cup {Root} /\ scan[h].todo \subseteq Folders \cup {Root}
      /\ Root \in scan[h].todo => scan[h].todo = {Root} /\ shown = {}
      /\ \A e \in shown : ParentOf[e] \notin scan[h].todo
      /\ scan[h].seen = Cardinality(shown)
    BY <1>1, WaitingIsUnseen
<1>3. shown \subseteq Entries /\ IsFiniteSet(shown) /\ Cardinality(shown) \in Nat
    BY ShownIs
<1>4. SUFFICES ASSUME scan[h].seen + Cardinality(took) = run.cap
               PROVE  took = Inside(folder) /\ waiting = {}
    BY DEF Capped
<1>5. shown \cup took = Entries /\ \A f \in Folders : Inside(f) # {}
    <2> HIDE DEF shown
    <2>1. Cardinality(shown \cup took) = run.cap /\ IsFiniteSet(shown \cup took)
        <3>1. Cardinality(shown \cap took) = 0
            <4>1. shown \cap took = {}
                BY <1>2
            <4> QED BY <4>1, FS_EmptySet
        <3>2. Cardinality(shown \cup took) = Cardinality(shown) + Cardinality(took) - Cardinality(shown \cap took)
            BY <1>1, <1>3, FS_Union
        <3>3. IsFiniteSet(shown \cup took)
            BY <1>1, <1>3, FS_Union
        <3>4. Cardinality(shown \cup took) = scan[h].seen + Cardinality(took)
            BY <1>1, <1>2, <1>3, <3>1, <3>2
        <3> QED BY <1>4, <3>3, <3>4
    <2>2. shown \cup took \subseteq Entries /\ IsFiniteSet(Entries)
        BY <1>1, <1>3, HostScanAssumption
    <2>3. Cardinality(shown \cup took) <= Cardinality(Entries)
        BY <2>2, FS_Subset
    <2>4. run.cap \in Nat /\ Cardinality(Entries) \in Nat
        BY <2>2, RunIs, ReadyIs, FS_CardinalityType
    <2>5. Cardinality(Entries) = run.cap /\ \A f \in Folders : Inside(f) # {}
        BY <2>1, <2>3, <2>4 DEF Roomy
    <2>6. shown \cup took = Entries
        BY <2>1, <2>2, <2>5, FS_Subset
    <2> QED BY <2>5, <2>6
<1>6. Inside(folder) \subseteq took
    BY <1>1, <1>2, <1>5 DEF Inside
<1>7. ASSUME NEW f \in scan[h].todo \ {folder}
      PROVE  FALSE
    <2>1. f \in Folders
        BY <1>2
    <2>2. PICK e \in Inside(f) : TRUE
        BY <1>5, <2>1
    <2> QED BY <1>1, <1>2, <1>5, <2>2 DEF Inside
<1>8. ASSUME NEW f \in Deeper(folder, took)
      PROVE  FALSE
    <2>1. folder = Root /\ f \in Folders /\ f # Root
        BY HostScanAssumption DEF Deeper
    <2>2. PICK e \in Inside(f) : TRUE
        BY <1>5, <2>1
    <2> QED BY <1>1, <1>2, <1>5, <2>1, <2>2 DEF Inside
<1> QED BY <1>1, <1>6, <1>7, <1>8

\* What a listing counts.
Tallied(took, capped) ==
    /\ stats' \in Stats /\ stats'.errors = (stats.errors \/ capped) /\ stats'.gaps = stats.gaps
    /\ stats'.incomplete = stats.incomplete /\ stats'.endpoints = stats.endpoints
    /\ stats'.resources = stats.resources /\ stats'.items = stats.items + Cardinality(took)
LEMMA ItemsCounted ==
    ASSUME TypeOK, NEW took, Cardinality(took) \in Nat, NEW capped \in BOOLEAN,
           NEW items, items = Counted("items", Cardinality(took)),
           stats' = [items EXCEPT !.errors = @ \/ capped]
    PROVE  Tallied(took, capped)
<1> DEFINE n == Cardinality(took)
<1>1. n \in Nat /\ items = Counted("items", n)
    OBVIOUS
<1> HIDE DEF n
<1>2. /\ items \in Stats /\ items.errors = stats.errors /\ items.gaps = stats.gaps
      /\ items.incomplete = stats.incomplete /\ items.endpoints = stats.endpoints + 0
      /\ items.resources = stats.resources + 0 /\ items.items = stats.items + n
    BY <1>1, CountedIs, TypesNow
<1>3. stats.endpoints \in Nat /\ stats.resources \in Nat
    BY TypesNow DEF Stats
<1>4. /\ stats' \in Stats /\ stats'.errors = (items.errors \/ capped) /\ stats'.gaps = items.gaps
      /\ stats'.incomplete = items.incomplete /\ stats'.endpoints = items.endpoints
      /\ stats'.resources = items.resources /\ stats'.items = items.items
    BY <1>2 DEF Stats
<1> QED BY <1>2, <1>3, <1>4 DEF n, Tallied

\* New records of entries are counted once.
Adds(h, s, took, capped) ==
    /\ Ready(h) /\ Others /\ UNCHANGED faults /\ s \in Shares /\ took \subseteq Entries
    /\ \A e \in took : e \notin Shown(h, s)
    /\ Untouched /\ Roomy => ~capped
    /\ Emit("items", {<<h, s, e>> : e \in took}) /\ Tallied(took, capped)
Added(h, s, took) ==
    /\ buffer'.endpoints = buffer.endpoints /\ buffer'.resources = buffer.resources
    /\ buffer'.lists = buffer.lists
    /\ \A r : r # s => Shown(h, r)' = Shown(h, r)
    /\ Shown(h, s)' = IF broken THEN Shown(h, s) ELSE Shown(h, s) \cup took
LEMMA ItemBooks ==
    ASSUME NEW h \in Hosts, NEW s, NEW took, NEW capped \in BOOLEAN, Adds(h, s, took, capped)
    PROVE  Books(h) /\ Added(h, s, took)
<1> DEFINE new == {<<h, s, e>> : e \in took}
<1>1. /\ Ready(h) /\ Others /\ UNCHANGED faults /\ s \in Shares /\ took \subseteq Entries
      /\ \A e \in took : e \notin Shown(h, s)
      /\ Untouched /\ Roomy => ~capped
      /\ Emit("items", new) /\ Tallied(took, capped)
    BY DEF Adds
<1>2. new \in SUBSET (Hosts \X Shares \X Entries)
    BY <1>1
<1>3. /\ buffer' \in Records
      /\ buffer'.items = IF broken THEN buffer.items ELSE buffer.items \cup new
      /\ buffer'.endpoints = buffer.endpoints /\ buffer'.resources = buffer.resources
      /\ buffer'.lists = buffer.lists
    BY <1>1, <1>2, EmitsItems, ReadyIs
<1>4. IsFiniteSet(took) /\ Cardinality(took) \in Nat
    BY <1>1, FS_Subset, FS_CardinalityType, HostScanAssumption
<1>5. IsFiniteSet(new) /\ Cardinality(new) = Cardinality(took)
    <2> DEFINE item == [e \in took |-> <<h, s, e>>]
    <2>1. item \in Bijection(took, new)
        <3>1. item \in [took -> new]
            OBVIOUS
        <3>2. \A p, q \in took : item[p] = item[q] => p = q
            OBVIOUS
        <3>3. \A y \in new : \E e \in took : item[e] = y
            OBVIOUS
        <3> HIDE DEF item, new
        <3> QED BY <3>1, <3>2, <3>3, Fun_IsBij
    <2>2. ExistsBijection(took, new)
        BY <2>1 DEF ExistsBijection
    <2> QED BY <1>4, <2>2, FS_Bijection
<1>6. Weakens
    BY <1>1, TypesNow, ReadyIs DEF Others, Weakens, Tallied
<1>7. OnlyOf(h)
    <2>1. \A g \in Hosts \ {h} : \A r, e : <<g, r, e>> \in buffer'.items <=> <<g, r, e>> \in buffer.items
        BY <1>3
    <2> QED BY <1>3, <2>1 DEF OnlyOf, Shown
<1>8. Totals'
    <2>1. IsFiniteSet(buffer.items)
        <3>1. IsFiniteSet(Hosts \X Shares \X Entries)
            <4> DEFINE pairs  == (Hosts \X Shares) \X Entries
                       triple == [p \in pairs |-> <<p[1][1], p[1][2], p[2]>>]
            <4>1. IsFiniteSet(pairs)
                <5>1. IsFiniteSet(Hosts \X Shares)
                    BY FS_Product, HostScanAssumption
                <5> QED BY <5>1, FS_Product, HostScanAssumption
            <4>2. triple \in Surjection(pairs, Hosts \X Shares \X Entries)
                <5>1. triple \in [pairs -> Hosts \X Shares \X Entries]
                    OBVIOUS
                <5>2. ASSUME NEW t \in Hosts \X Shares \X Entries
                      PROVE  \E p \in pairs : triple[p] = t
                    <6>1. <<<<t[1], t[2]>>, t[3]>> \in pairs /\ t = <<t[1], t[2], t[3]>>
                        OBVIOUS
                    <6>2. triple[<<<<t[1], t[2]>>, t[3]>>] = t
                        BY <6>1
                    <6> QED BY <6>1, <6>2
                <5> HIDE DEF pairs, triple
                <5> QED BY <5>1, <5>2, Fun_IsSurj
            <4> HIDE DEF pairs, triple
            <4> QED BY <4>1, <4>2, FS_Surjection
        <3>2. buffer.items \subseteq Hosts \X Shares \X Entries
            BY <1>1, TypesNow, ReadyIs DEF Records
        <3> QED BY <3>1, <3>2, FS_Subset
    <2>2. buffer.items \cap new = {}
        BY <1>1 DEF Shown
    <2>3. Cardinality(buffer.items \cup new) = Cardinality(buffer.items) + Cardinality(new)
        <3> HIDE DEF new
        <3>1. Cardinality(buffer.items \cup new) =
                  Cardinality(buffer.items) + Cardinality(new) - Cardinality(buffer.items \cap new)
            BY <2>1, <1>5, FS_Union
        <3>2. Cardinality(buffer.items \cap new) = 0
            BY <2>2, FS_EmptySet
        <3>3. Cardinality(buffer.items) \in Nat /\ Cardinality(new) \in Nat
            BY <2>1, <1>5, FS_CardinalityType
        <3> QED BY <3>1, <3>2, <3>3
    <2> HIDE DEF new
    <2> QED BY <1>3, <1>5, <2>3, <1>1, ReadyIs DEF Totals, Others, Tallied
<1>9. Unfailing'
    BY <1>1, <1>6, ReadyIs, MainStays DEF Unfailing, Others, Untouched, Weakens, Tallied
<1>10. Books(h)
    BY <1>3, <1>6, <1>7, <1>8, <1>9, <1>1, TypesNow, ReadyIs DEF Books, Others, Tallied
<1>11. \A r : r # s => Shown(h, r)' = Shown(h, r)
    BY <1>3 DEF Shown
<1>12. Shown(h, s)' = IF broken THEN Shown(h, s) ELSE Shown(h, s) \cup took
    BY <1>1, <1>3 DEF Shown
<1> QED BY <1>3, <1>10, <1>11, <1>12 DEF Added

\* A folder is listed.
LEMMA FolderFits ==
    ASSUME NEW h \in Hosts, Ready(h), Others, UNCHANGED faults,
           scan[h].at = "walk", ~cancel, NEW s \in Shares, s = scan[h].share, s \in SharesOf[h],
           NEW folder \in scan[h].todo, NEW took \in Cut(h, folder),
           NEW waiting, waiting = (scan[h].todo \ {folder}) \cup Deeper(folder, took),
           Take(h, took, waiting),
           Emit("items", {<<h, scan[h].share, e>> : e \in took}),
           NEW items, items = Counted("items", Cardinality(took)),
           stats' = [items EXCEPT !.errors = @ \/ Capped(h, folder, took, waiting)]
    PROVE  StepFits(h)
<1> DEFINE shown  == Shown(h, s)
           capped == Capped(h, folder, took, waiting)
<1>1. /\ took \subseteq Inside(folder) /\ Inside(folder) \subseteq Entries
      /\ IsFiniteSet(took) /\ Cardinality(took) \in Nat
      /\ scan[h].seen + Cardinality(took) <= run.cap
      /\ took # Inside(folder) => scan[h].seen + Cardinality(took) = run.cap
    BY TookIs, ReadyIs
<1>2. /\ took \cap shown = {}
      /\ folder \in Folders \cup {Root} /\ scan[h].todo \subseteq Folders \cup {Root}
      /\ Root \in scan[h].todo => scan[h].todo = {Root} /\ shown = {}
      /\ \A e \in shown : ParentOf[e] \notin scan[h].todo
      /\ ~broken => scan[h].seen = Cardinality(shown)
      /\ s \in Shares \ scan[h].left
    BY <1>1, WaitingIsUnseen
<1>3. Deeper(folder, took) \subseteq Folders /\ (folder # Root => Deeper(folder, took) = {})
    BY DEF Deeper
<1>4. /\ waiting \subseteq Folders /\ Root \notin waiting
      /\ waiting \in SUBSET (Folders \cup {Root})
    BY <1>2, <1>3, HostScanAssumption
<1>5. Untouched /\ Roomy => ~capped
    BY RoomSuffices, ReadyIs
<1>6. /\ Books(h)
      /\ stats'.errors = (stats.errors \/ capped) /\ stats'.gaps = stats.gaps
      /\ stats'.incomplete = stats.incomplete
      /\ buffer'.endpoints = buffer.endpoints /\ buffer'.resources = buffer.resources
      /\ buffer'.lists = buffer.lists
      /\ \A r : r # s => Shown(h, r)' = Shown(h, r)
      /\ Shown(h, s)' = IF broken THEN shown ELSE shown \cup took
    <2>1. capped \in BOOLEAN
        BY DEF Capped
    <2>2. took \in SUBSET Entries /\ s \in Shares
        BY <1>1, <1>2
    <2>3. stats' = [items EXCEPT !.errors = @ \/ capped]
        OBVIOUS
    <2>4. \A e \in took : e \notin Shown(h, s)
        BY <1>2
    <2>5. Emit("items", {<<h, s, e>> : e \in took})
        OBVIOUS
    <2> HIDE DEF capped
    <2>6. Tallied(took, capped)
        BY <1>1, <2>1, <2>3, ItemsCounted, ReadyIs
    <2>7. Adds(h, s, took, capped)
        BY <1>5, <2>2, <2>4, <2>5, <2>6 DEF Adds
    <2>8. Books(h) /\ Added(h, s, took)
        BY <2>1, <2>7, ItemBooks
    <2> QED BY <2>6, <2>8 DEF Tallied, Added
<1>7. /\ Moved(h) /\ scan'[h].at = "walk" /\ scan'[h].left = scan[h].left
      /\ scan'[h].share = s /\ scan'[h].todo = waiting
      /\ scan'[h].seen = scan[h].seen + Cardinality(took) /\ scan'[h].tree = scan[h].tree
      /\ scan'[h].result = scan[h].result
    BY <1>1, <1>4, GoesOn, ReadyIs
<1>8. Unseen(h)'
    <2>1. \A e \in Shown(h, s)' : ParentOf[e] \notin waiting
        <3>1. \A e \in shown : ParentOf[e] \notin waiting
            BY <1>2, <1>3
        <3>2. \A e \in took : ParentOf[e] = folder /\ folder \notin Deeper(folder, took)
            BY <1>1, HostScanAssumption DEF Inside, Deeper
        <3> QED BY <1>6, <3>1, <3>2
    <2>2. ~broken => scan[h].seen + Cardinality(took) = Cardinality(shown \cup took)
        <3>1. IsFiniteSet(shown) /\ Cardinality(shown) \in Nat
            BY ShownIs
        <3> HIDE DEF shown
        <3>2. Cardinality(shown \cap took) = 0
            <4>1. shown \cap took = {}
                BY <1>2
            <4> QED BY <4>1, FS_EmptySet
        <3>3. Cardinality(shown \cup took) = Cardinality(shown) + Cardinality(took) - Cardinality(shown \cap took)
            BY <1>1, <3>1, FS_Union
        <3> QED BY <1>1, <1>2, <3>1, <3>2, <3>3
    <2>3. ~broken' => scan'[h].seen = Cardinality(Shown(h, s)')
        BY <1>6, <1>7, <2>2 DEF Others
    <2>4. /\ <<h, "nfs">> \notin buffer'.endpoints
          /\ \A e \in Exports : <<h, e>> \notin buffer'.resources
          /\ \A r \in scan[h].left : <<h, r>> \notin buffer'.resources /\ Shown(h, r)' = {}
        <3>1. /\ <<h, "nfs">> \notin buffer.endpoints
              /\ \A e \in Exports : <<h, e>> \notin buffer.resources
              /\ \A r \in scan[h].left : <<h, r>> \notin buffer.resources /\ Shown(h, r) = {}
            BY ReadyIs DEF Unseen, Serving
        <3>2. \A r \in scan[h].left : Shown(h, r)' = Shown(h, r)
            BY <1>2, <1>6
        <3> QED BY <1>6, <3>1, <3>2
    <2> QED BY <1>2, <1>4, <1>7, <2>1, <2>3, <2>4 DEF Unseen, Before, Serving
<1>9. Structure(h)'
    BY <1>6, <1>7, ReadyIs, Guards DEF Structure, Serving
<1>10. ListsKept(h)'
    BY <1>6, <1>7, ReadyIs, Guards DEF ListsKept, Serving
<1>11. Contents(h)'
    <2>1. SUFFICES ASSUME Calm', ~stats'.errors, "nfs" \notin Requested
                   PROVE  /\ \A r \in Due(h) : r \in scan[h].left \/ Listed(h, r)' \/ r = s
                          /\ \A e \in Reach(run.depth) \ Shown(h, s)' : ParentOf[e] \in waiting
                          /\ scan[h].seen + Cardinality(took) = run.cap => waiting = {}
        BY <1>6, <1>7, Guards DEF Contents, Serving, Reach
    <2>2. /\ Calm /\ ~broken /\ ~stats.errors /\ ~capped
          /\ \A r \in Due(h) : r \in scan[h].left \/ Listed(h, r) \/ r = s
          /\ \A e \in Reach(run.depth) \ shown : ParentOf[e] \in scan[h].todo \/ Root \in scan[h].todo
        BY <1>6, <2>1, ReadyIs, Guards DEF Contents, Serving, Calm
    <2>3. took = Inside(folder) /\ (scan[h].seen + Cardinality(took) = run.cap => waiting = {})
        BY <1>1, <2>2 DEF Capped
    <2>4. \A r \in Due(h) : r \in scan[h].left \/ Listed(h, r)' \/ r = s
        BY <1>6, <2>2, Guards DEF Listed, Reach
    <2>5. ASSUME NEW e \in Reach(run.depth) \ Shown(h, s)'
          PROVE  ParentOf[e] \in waiting
        <3>1. e \in Entries /\ e \notin shown /\ e \notin took
            BY <1>6, <2>2, <2>5 DEF Reach
        <3>2. ParentOf[e] # folder
            BY <2>3, <3>1 DEF Inside
        <3>3. CASE ParentOf[e] \in scan[h].todo
            BY <3>2, <3>3
        <3>4. CASE Root \in scan[h].todo
            <4>1. folder = Root /\ ParentOf[e] # Root
                BY <1>2, <3>2, <3>4
            <4>2. run.depth > 1
                BY <4>1 DEF Reach
            <4>3. ParentOf[e] \in Folders /\ ParentOf[ParentOf[e]] = Root
                BY <3>1, <4>1, HostScanAssumption
            <4>4. ParentOf[e] \in took
                BY <2>3, <4>1, <4>3, HostScanAssumption DEF Inside
            <4> QED BY <4>1, <4>2, <4>3, <4>4 DEF Deeper
        <3> QED BY <2>2, <3>1, <3>3, <3>4
    <2> QED BY <2>3, <2>4, <2>5
<1>12. Smooth(h)'
    BY <1>6, <1>7, ReadyIs, Guards DEF Smooth, Serving
<1> QED BY <1>6, <1>7, <1>8, <1>9, <1>10, <1>11, <1>12, ReadyIs, HostScanAssumption DEF StepFits, Facts

LEMMA WalkFits ==
    ASSUME NEW h \in Hosts, Ready(h), Walk(h)
    PROVE  StepFits(h)
<1> DEFINE Stop == scan[h].todo = {} \/ scan[h].seen = run.cap \/ cancel
<1>1. scan[h].at = "walk" /\ Others /\ scan[h].at \in Serving
    BY DEF Walk, Serving
<1>2. CASE Stop /\ To(h, "probe") /\ Quiet /\ UNCHANGED faults
    <2>1. Books(h) /\ UNCHANGED buffer
        BY <1>1, <1>2, QuietBooks DEF Quiet
    <2>2. /\ Moved(h) /\ scan'[h].at = "probe" /\ scan'[h].left = scan[h].left
          /\ scan'[h].share = scan[h].share /\ scan'[h].result = scan[h].result
          /\ scan'[h].tree = scan[h].tree
        BY <1>2, Goes, ReadyIs DEF Places
    <2>3. Contents(h)'
        <3>1. SUFFICES ASSUME Calm', ~stats'.errors, "nfs" \notin Requested
                       PROVE  \A r \in Due(h) : r \in scan[h].left \/ Listed(h, r)'
            BY <2>1, <2>2, Guards DEF Contents, Serving
        <3>2. /\ ~cancel
              /\ \A r \in Due(h) : r \in scan[h].left \/ Listed(h, r) \/ r = scan[h].share
              /\ scan[h].share \in SharesOf[h] =>
                    /\ \A e \in Reach(run.depth) \ Shown(h, scan[h].share) :
                          ParentOf[e] \in scan[h].todo \/ Root \in scan[h].todo
                    /\ scan[h].seen = run.cap => scan[h].todo = {}
            BY <1>1, <2>1, <3>1, ReadyIs, Guards DEF Contents, Serving
        <3>3. scan[h].share \in Due(h) => Listed(h, scan[h].share)
            BY <1>2, <3>2 DEF Due, Listed
        <3> QED BY <2>1, <3>2, <3>3, Guards DEF Listed, Reach, Shown
    <2>4. Untouched' /\ run.named = Nothing => scan'[h].tree
        BY <1>1, <2>1, <2>2, ReadyIs, Guards DEF Smooth, Serving
    <2> QED BY <1>1, <2>1, <2>2, <2>3, <2>4, Serves DEF Serving
<1>3. ASSUME ~Stop, scan[h].share \in SharesOf[h], UNCHANGED faults,
             NEW folder \in scan[h].todo, NEW took \in Cut(h, folder),
             LET waiting == (scan[h].todo \ {folder}) \cup Deeper(folder, took)
                 items   == Counted("items", Cardinality(took))
             IN  /\ Take(h, took, waiting)
                 /\ Emit("items", {<<h, scan[h].share, e>> : e \in took})
                 /\ stats' = [items EXCEPT !.errors = @ \/ Capped(h, folder, took, waiting)]
      PROVE  StepFits(h)
    <2> DEFINE waiting == (scan[h].todo \ {folder}) \cup Deeper(folder, took)
               items   == Counted("items", Cardinality(took))
    <2>1. /\ Take(h, took, waiting)
          /\ Emit("items", {<<h, scan[h].share, e>> : e \in took})
          /\ stats' = [items EXCEPT !.errors = @ \/ Capped(h, folder, took, waiting)]
        BY <1>3
    <2>2. /\ waiting = (scan[h].todo \ {folder}) \cup Deeper(folder, took)
          /\ items = Counted("items", Cardinality(took))
        OBVIOUS
    <2> HIDE DEF waiting, items
    <2>3. PICK s \in Shares : s = scan[h].share
        BY <1>3, HostScanAssumption
    <2> QED BY <1>1, <1>3, <2>1, <2>2, <2>3, FolderFits
\* The share is not there, or it fails while it is listed.
<1>4. ASSUME Trouble(FALSE), UNCHANGED buffer, UNCHANGED faults \/ Fault, Untouched' => run.named # Nothing,
             Moved(h), scan'[h].at \in {"walk", "acl"}, scan'[h].left = scan[h].left,
             scan'[h].share = scan[h].share, scan'[h].result = scan[h].result,
             scan'[h].at = "walk" => scan'[h].seen = scan[h].seen /\ scan'[h].todo \subseteq scan[h].todo
      PROVE  StepFits(h)
    <2>1. Books(h)
        BY <1>1, <1>4, TroubledBooks
    <2>2. Contents(h)'
        BY <1>4, TroubleIs, TypesNow, ReadyIs DEF Contents
    <2> QED BY <1>1, <1>4, <2>1, <2>2, Serves DEF Serving
<1>5. CASE /\ scan[h].share \notin SharesOf[h] /\ UNCHANGED <<faults, buffer>>
           /\ Trouble(FALSE) /\ scan' = [scan EXCEPT ![h].todo = {}]
    <2>1. /\ Moved(h) /\ scan'[h].at = scan[h].at /\ scan'[h].left = scan[h].left
          /\ scan'[h].share = scan[h].share /\ scan'[h].todo = {} /\ scan'[h].seen = scan[h].seen
          /\ scan'[h].result = scan[h].result
        BY <1>5, GoesNowhere, ReadyIs
    <2>2. Untouched' => Untouched /\ run.named # Nothing
        BY <1>1, <1>5, MainStays, ReadyIs DEF Untouched, Others, Smooth
    <2> QED BY <1>1, <1>4, <1>5, <2>1, <2>2
<1>6. CASE Fault /\ Trouble(FALSE) /\ UNCHANGED buffer /\ Miss(h)
    <2>1. ~Untouched'
        BY <1>6, FaultIs, ReadyIs DEF Untouched
    <2>2. ASSUME NEW folder \in scan[h].todo, scan' = [scan EXCEPT ![h].todo = @ \ {folder}]
          PROVE  StepFits(h)
        <3>1. /\ Moved(h) /\ scan'[h].at = scan[h].at /\ scan'[h].left = scan[h].left
              /\ scan'[h].share = scan[h].share /\ scan'[h].todo = scan[h].todo \ {folder}
              /\ scan'[h].seen = scan[h].seen /\ scan'[h].result = scan[h].result
            BY <2>2, GoesShort, ReadyIs
        <3> QED BY <1>1, <1>4, <1>6, <2>1, <3>1
    <2>3. CASE scan' = [scan EXCEPT ![h].todo = {}, ![h].tree = FALSE]
        <3>1. /\ Moved(h) /\ scan'[h].at = scan[h].at /\ scan'[h].left = scan[h].left
              /\ scan'[h].share = scan[h].share /\ scan'[h].todo = {}
              /\ scan'[h].seen = scan[h].seen /\ scan'[h].result = scan[h].result
            BY <2>3, GoesLost, ReadyIs
        <3> QED BY <1>1, <1>4, <1>6, <2>1, <3>1
    <2>4. CASE scan' = [scan EXCEPT ![h].todo = {}, ![h].at = "acl"]
        <3>1. /\ Moved(h) /\ scan'[h].at = "acl" /\ scan'[h].left = scan[h].left
              /\ scan'[h].share = scan[h].share /\ scan'[h].result = scan[h].result
            BY <2>4, GoesAway, ReadyIs
        <3> QED BY <1>4, <1>6, <2>1, <3>1
    <2> QED BY <1>6, <2>2, <2>3, <2>4 DEF Miss
<1> QED BY <1>2, <1>3, <1>5, <1>6 DEF Walk

\* Every step of a thread.
LEMMA ThreadFits ==
    ASSUME NEW h \in Hosts, Ready(h), Thread(h)
    PROVE  StepFits(h)
BY BeginFits, ConnectFits, GreetFits, ListSharesFits, NextShareFits, TreeFits, WalkFits, ProbeFits,
   AclFits, SmbDoneFits, NfsFits, ListExportsFits, NfsDoneFits, WriteFailsFits DEF Thread

-----------------------------------------------------------------------------
(* Sets of hosts and what the main thread counts of them                   *)

LEMMA HostSets ==
    ASSUME NEW S, S \subseteq Hosts
    PROVE  /\ IsFiniteSet(S) /\ Cardinality(S) \in Nat
           /\ S = {} => Cardinality(S) = 0
           /\ \A T : T \subseteq S => Cardinality(T) <= Cardinality(S)
           /\ \A T : T \subseteq S /\ T # S => Cardinality(T) < Cardinality(S)
           /\ \A h \in S : Cardinality(S \ {h}) = Cardinality(S) - 1
           /\ \A h : h \notin S => Cardinality(S \cup {h}) = Cardinality(S) + 1
<1>1. IsFiniteSet(S)
    BY FS_Subset, HostScanAssumption
<1>2. Cardinality(S) \in Nat
    BY <1>1, FS_CardinalityType
<1>3. S = {} => Cardinality(S) = 0
    BY FS_EmptySet
<1>4. ASSUME NEW T, T \subseteq S
      PROVE  Cardinality(T) <= Cardinality(S) /\ (T # S => Cardinality(T) < Cardinality(S))
    <2>1. Cardinality(T) <= Cardinality(S) /\ (Cardinality(T) = Cardinality(S) => T = S)
        BY <1>1, <1>4, FS_Subset
    <2>2. Cardinality(T) \in Nat
        BY <1>1, <1>4, FS_Subset, FS_CardinalityType
    <2> QED BY <1>2, <2>1, <2>2
<1>5. \A h \in S : Cardinality(S \ {h}) = Cardinality(S) - 1
    BY <1>1, FS_RemoveElement
<1>6. \A h : h \notin S => Cardinality(S \cup {h}) = Cardinality(S) + 1
    BY <1>1, FS_AddElement
<1> QED BY <1>1, <1>2, <1>3, <1>4, <1>5, <1>6

\* The invariant, taken apart.
LEMMA Parts ==
    ASSUME IInv
    PROVE  /\ TypeOK /\ MainFits /\ Stopped /\ Counting /\ HostsFit /\ Handed /\ Totals /\ Unfailing
           /\ ArtifactTrue /\ DeliveredOrKept
           /\ \A h \in Hosts : Facts(h) /\ Ready(h)
BY DEF IInv, Ready, HostsFit

LEMMA TallyIs ==
    ASSUME TypeOK
    PROVE  /\ tally.submitted \in Nat /\ tally.completed \in Nat
           /\ tally.cancelled \in Nat /\ tally.failures \in Nat
           /\ Cardinality(pending) \in Nat /\ Uncounted \in Int
           /\ Cardinality(Running) \in Nat
           /\ pending \subseteq Hosts /\ remaining \subseteq Hosts /\ batch \subseteq pending
<1>1. /\ tally.submitted \in Nat /\ tally.completed \in Nat
      /\ tally.cancelled \in Nat /\ tally.failures \in Nat
      /\ pending \subseteq Hosts /\ remaining \subseteq Hosts /\ batch \subseteq pending
    BY HostScanAssumption DEF TypeOK
<1>2. Cardinality(pending) \in Nat
    BY <1>1, HostSets
<1>3. Cardinality(Running) \in Nat
    <2>1. Running \subseteq Hosts
        BY DEF Running
    <2> QED BY <2>1, HostSets
<1> QED BY <1>1, <1>2, <1>3 DEF Uncounted

\* Before the artifact is closed there is none, and nothing was handed on.
LEMMA NothingYet ==
    ASSUME IInv, main.at \notin {"upload", "end"}, UNCHANGED <<artifact, delivery>>, main'.at # "upload"
    PROVE  Handed' /\ ArtifactTrue' /\ DeliveredOrKept'
<1>1. artifact' = Nothing /\ delivery'.upload = "none"
    BY DEF IInv, Handed
<1> QED BY <1>1 DEF Handed, ArtifactTrue, DeliveredOrKept

-----------------------------------------------------------------------------
(* Steps of the threads                                                    *)

LEMMA ThreadKeeps ==
    ASSUME IInv, NEW h \in Hosts, Thread(h)
    PROVE  IInv'
<1>1. /\ TypeOK /\ MainFits /\ Stopped /\ Counting /\ HostsFit /\ Handed /\ Totals /\ Unfailing
      /\ ArtifactTrue /\ DeliveredOrKept
      /\ \A g \in Hosts : Facts(g) /\ Ready(g)
    BY Parts
<1>2. StepFits(h)
    BY <1>1, ThreadFits
<1>3. Moved(h) /\ Books(h) /\ Facts(h)' /\ Weakens
    BY <1>2 DEF StepFits, Books
<1>4. /\ cancel' = cancel /\ UNCHANGED mainVars /\ (broken => broken')
      /\ \A g \in Hosts \ {h} : scan'[g] = scan[g]
    BY <1>3 DEF Weakens, Moved
<1>5. /\ run' = run /\ remaining' = remaining /\ pending' = pending /\ batch' = batch /\ main' = main
      /\ tally' = tally /\ artifact' = artifact /\ delivery' = delivery /\ interrupts' = interrupts
    BY <1>4 DEF mainVars
<1>6. TypeOK'
    BY <1>1, <1>3, <1>4, <1>5 DEF TypeOK, Moved, Books, Stats
\* The thread is at work, so the main thread is not past the scan.
<1>7. /\ scan[h].at \notin {"unsubmitted", "ended"} /\ scan'[h].at \notin {"unsubmitted", "queued"}
      /\ ~Scanned /\ main.at \notin {"upload", "end"}
    <2>1. scan[h].at \notin {"unsubmitted", "ended"} /\ scan'[h].at \notin {"unsubmitted", "queued"}
        BY <1>2 DEF StepFits
    <2>2. ~Scanned
        BY <1>1, <2>1 DEF HostsFit
    <2> QED BY <2>1, <2>2 DEF Scanned
<1>8. MainFits'
    <2>1. Ended \subseteq Ended'
        BY <1>4, <1>7 DEF Ended
    <2> QED BY <1>1, <1>4, <1>5, <2>1 DEF MainFits
<1>9. Stopped'
    BY <1>1, <1>3, <1>4, <1>5 DEF Stopped, Scanning, Interrupted, Weakens
<1>10. Counting'
    <2>1. Uncounted' = Uncounted
        BY <1>5 DEF Uncounted
    <2> QED BY <1>1, <1>4, <1>5, <2>1, TallyIs DEF Counting, Scanning, Interrupted
<1>11. HostsFit'
    <2>1. Cardinality(Running') <= run.workers
        <3>1. CASE scan[h].at = "queued"
            <4>1. Running' \subseteq Running \cup {h} /\ h \notin Running /\ Running \subseteq Hosts
                BY <1>4, <3>1 DEF Running, Idle
            <4>2. Cardinality(Running \cup {h}) = Cardinality(Running) + 1
                BY <4>1, HostSets
            <4>3. Cardinality(Running') <= Cardinality(Running \cup {h})
                BY <4>1, HostSets
            <4>4. Cardinality(Running) < run.workers
                BY <1>2, <3>1 DEF StepFits
            <4>5. Cardinality(Running) \in Nat /\ Cardinality(Running') \in Nat /\ run.workers \in Nat
                <5>1. Running' \subseteq Hosts
                    BY DEF Running
                <5> QED BY <1>1, <5>1, HostSets, RunIs, TallyIs
            <4> QED BY <4>2, <4>3, <4>4, <4>5
        <3>2. CASE scan[h].at # "queued"
            <4>1. Running' \subseteq Running /\ Running \subseteq Hosts /\ Running' \subseteq Hosts
                BY <1>4, <1>7, <3>2 DEF Running, Idle
            <4>2. Cardinality(Running') <= Cardinality(Running)
                BY <4>1, HostSets
            <4>3. Cardinality(Running) <= run.workers
                BY <1>1 DEF HostsFit
            <4>4. Cardinality(Running) \in Nat /\ Cardinality(Running') \in Nat /\ run.workers \in Nat
                BY <1>1, <4>1, HostSets, RunIs
            <4> QED BY <4>2, <4>3, <4>4
        <3> QED BY <3>1, <3>2
    <2>2. /\ h \notin remaining
          /\ scan'[h].at = "ended" <=> scan'[h].result # Nothing
          /\ ~cancel => scan'[h].result # "cancelled"
        BY <1>1, <1>2, <1>7 DEF HostsFit, StepFits
    <2>3. ~(~cancel /\ tally.failures = 0 /\ main.at # "end" /\ h \notin remaining \cup pending)
        BY <1>1, <1>7, HostScanAssumption DEF HostsFit
    <2>4. ~Scanned'
        BY <1>5, <1>7 DEF Scanned
    <2>5. ASSUME NEW g \in Hosts
          PROVE  /\ g \in remaining' <=> scan'[g].at = "unsubmitted"
                 /\ scan'[g].at = "ended" <=> scan'[g].result # Nothing
                 /\ ~cancel' => scan'[g].result # "cancelled"
                 /\ ~cancel' /\ tally'.failures = 0 /\ main'.at # "end" /\ g \notin remaining' \cup pending' =>
                       scan'[g].result = "ok"
        <3>1. CASE g = h
            BY <1>4, <1>5, <1>7, <2>2, <2>3, <3>1
        <3>2. CASE g # h
            BY <1>1, <1>4, <1>5, <3>2 DEF HostsFit
        <3> QED BY <3>1, <3>2
    <2> QED BY <1>5, <2>1, <2>4, <2>5 DEF HostsFit
<1>12. Handed' /\ ArtifactTrue' /\ DeliveredOrKept'
    BY <1>5, <1>7, NothingYet
<1>13. Totals' /\ Unfailing'
    BY <1>3 DEF Books
<1>14. \A g \in Hosts : Facts(g)'
    BY <1>1, <1>3, OthersKeep
<1> QED BY <1>6, <1>8, <1>9, <1>10, <1>11, <1>12, <1>13, <1>14 DEF IInv

-----------------------------------------------------------------------------
(* Steps of the main thread                                                *)

\* A host is handed to the pool.
LEMMA QueuedFits ==
    ASSUME NEW h \in Hosts, Ready(h), scan[h].at = "unsubmitted", To(h, "queued"),
           UNCHANGED <<run, stats, buffer, broken, faults>>, Untouched' => Untouched
    PROVE  Moved(h) /\ scan'[h].at = "queued" /\ scan'[h].result = Nothing /\ Facts(h)'
<1>1. /\ Moved(h) /\ scan'[h].at = "queued" /\ scan'[h].found = scan[h].found
      /\ scan'[h].result = scan[h].result /\ scan[h].result = Nothing
    BY Goes, ReadyIs DEF Places
<1>2. Unseen(h)'
    BY <1>1, ReadyIs DEF Unseen, Before, Serving, Shown
<1>3. Structure(h)'
    BY <1>1 DEF Structure, Serving
<1>4. ListsKept(h)'
    BY <1>1, ReadyIs DEF ListsKept, Unseen, Before
<1>5. Contents(h)'
    BY <1>1 DEF Contents, Serving
<1>6. Smooth(h)'
    BY <1>1 DEF Smooth, Serving
<1> QED BY <1>1, <1>2, <1>3, <1>4, <1>5, <1>6 DEF Facts

\* The other hosts, when only the main thread did something.
LEMMA HostsKeep ==
    ASSUME IInv, NEW g \in Hosts, scan'[g] = scan[g], UNCHANGED <<run, buffer>>,
           interrupts \subseteq interrupts', broken => broken', faults' = 0 => faults = 0,
           stats.gaps => stats'.gaps, stats.errors => stats'.errors, stats.incomplete => stats'.incomplete
    PROVE  Facts(g)'
<1>1. Facts(g)
    BY Parts
<1>2. /\ Calm' => Calm
      /\ Untouched' => Untouched
    BY DEF Calm, Untouched, Interrupted
<1>3. \A s : Shown(g, s)' = Shown(g, s)
    BY DEF Shown
<1> QED BY <1>1, <1>2, <1>3, FactsKeep

\* Nothing of what the threads count, or of the run, is touched.
LEMMA SubmitKeeps ==
    ASSUME IInv, Submit
    PROVE  IInv'
<1>1. /\ TypeOK /\ MainFits /\ Stopped /\ Counting /\ HostsFit /\ Handed /\ Totals /\ Unfailing
      /\ ArtifactTrue /\ DeliveredOrKept
      /\ \A g \in Hosts : Facts(g) /\ Ready(g)
    BY Parts
<1>2. /\ main.at = "submit" /\ main.then = "submit" /\ Scanning /\ ~Interrupted
      /\ UNCHANGED <<run, batch, cancel, stats, buffer, broken, artifact, delivery, interrupts, faults>>
    BY <1>1 DEF Submit, MainFits, Scanning, Stopped
<1>3. Totals' /\ Unfailing'
    <2>1. tally'.failures = tally.failures
        BY <1>1 DEF Submit, TypeOK
    <2> QED BY <1>1, <1>2, <2>1 DEF Totals, Unfailing, Untouched, Interrupted, Roomy, Requested
<1>4. CASE (remaining = {} \/ cancel) /\ MainAt("drain") /\ UNCHANGED <<remaining, pending, tally, scan>>
    <2>1. main' = [at |-> "drain", then |-> "drain"]
        BY <1>4 DEF MainAt
    <2>2. TypeOK'
        BY <1>1, <1>2, <1>4, <2>1 DEF TypeOK, MainPlaces
    <2>3. MainFits'
        BY <1>1, <1>2, <1>4, <2>1 DEF MainFits, Ended
    <2>4. Stopped'
        BY <1>1, <1>2, <2>1 DEF Stopped, Scanning, Interrupted
    <2>5. Counting'
        BY <1>1, <1>2, <1>4, <2>1 DEF Counting, Scanning, Interrupted, Uncounted
    <2>6. HostsFit'
        BY <1>1, <1>2, <1>4, <2>1 DEF HostsFit, Scanned, Running
    <2>7. Handed' /\ ArtifactTrue' /\ DeliveredOrKept'
        BY <1>2, <2>1, NothingYet
    <2>8. \A g \in Hosts : Facts(g)'
        BY <1>2, <1>4, HostsKeep
    <2> QED BY <1>3, <2>2, <2>3, <2>4, <2>5, <2>6, <2>7, <2>8 DEF IInv
<1>5. ASSUME ~cancel, NEW h \in remaining,
             remaining' = remaining \ {h}, pending' = pending \cup {h}, To(h, "queued"),
             tally' = [tally EXCEPT !.submitted = @ + 1],
             MainAt(IF Cardinality(pending') < 2 * run.workers THEN "submit" ELSE "wait")
      PROVE  IInv'
    <2>1. /\ h \in Hosts /\ scan[h].at = "unsubmitted" /\ h \notin pending
          /\ pending \subseteq Hosts /\ remaining \subseteq Hosts /\ batch \subseteq pending
        BY <1>1, TallyIs DEF HostsFit, MainFits
    <2>2. Moved(h) /\ scan'[h].at = "queued" /\ scan'[h].result = Nothing /\ Facts(h)'
        BY <1>1, <1>2, <1>5, <2>1, QueuedFits DEF Untouched, Interrupted
    <2>3. scan' \in [Hosts -> Scan] /\ \A g \in Hosts \ {h} : scan'[g] = scan[g]
        BY <2>2 DEF Moved
    <2>4. /\ main' \in [at: MainPlaces, then: MainPlaces]
          /\ main'.at \in {"submit", "wait"} /\ main'.then = main'.at
          /\ main'.at = "submit" => Cardinality(pending') < 2 * run.workers
        BY <1>5 DEF MainAt, MainPlaces
    <2>5. /\ tally' \in [submitted: Nat, completed: Nat, cancelled: Nat, failures: Nat]
          /\ tally'.submitted = tally.submitted + 1 /\ tally'.completed = tally.completed
          /\ tally'.cancelled = tally.cancelled /\ tally'.failures = tally.failures
        BY <1>1, <1>5 DEF TypeOK
    <2>6. Cardinality(pending') = Cardinality(pending) + 1 /\ Cardinality(remaining') = Cardinality(remaining) - 1
        BY <1>5, <2>1, HostSets
    <2>7. TypeOK'
        BY <1>1, <1>2, <1>5, <2>1, <2>2, <2>3, <2>4, <2>5 DEF TypeOK, Moved
    <2>8. MainFits'
        <3>1. batch \subseteq pending' \cap Ended'
            BY <1>1, <1>5, <2>1, <2>3 DEF MainFits, Ended
        <3>2. Cardinality(pending') <= 2 * run.workers
            <4>1. Cardinality(pending) < 2 * run.workers /\ run.workers \in Nat /\ Cardinality(pending) \in Nat
                BY <1>1, <1>2, RunIs, TallyIs DEF MainFits
            <4> QED BY <2>6, <4>1
        <3>3. pending' \cap remaining' = {}
            BY <1>1, <1>5 DEF MainFits
        <3> QED BY <1>1, <1>2, <2>4, <3>1, <3>2, <3>3 DEF MainFits
    <2>9. Stopped'
        BY <1>1, <1>2, <2>4 DEF Stopped, Scanning, Interrupted
    <2>10. Counting'
        <3>1. Uncounted' = Uncounted
            BY <1>1, <2>5, <2>6, TallyIs DEF Uncounted
        <3>2. /\ Uncounted = 0 /\ tally.submitted = Cardinality(Hosts) - Cardinality(remaining)
              /\ Cardinality(Hosts) \in Nat /\ Cardinality(remaining) \in Nat
            BY <1>1, <1>2, <2>1, HostSets DEF Counting
        <3>3. tally'.submitted = Cardinality(Hosts) - Cardinality(remaining')
            BY <2>5, <2>6, <3>2
        <3> QED BY <1>1, <1>2, <2>5, <3>1, <3>2, <3>3 DEF Counting, Interrupted
    <2>11. HostsFit'
        <3>1. Running' = Running
            BY <2>1, <2>2, <2>3 DEF Running, Idle
        <3>2. ~Scanned'
            BY <2>4 DEF Scanned
        <3>3. ASSUME NEW g \in Hosts
              PROVE  /\ g \in remaining' <=> scan'[g].at = "unsubmitted"
                     /\ scan'[g].at = "ended" <=> scan'[g].result # Nothing
                     /\ ~cancel' => scan'[g].result # "cancelled"
                     /\ ~cancel' /\ tally'.failures = 0 /\ main'.at # "end" /\ g \notin remaining' \cup pending' =>
                           scan'[g].result = "ok"
            <4>1. CASE g = h
                BY <1>5, <2>2, <4>1, HostScanAssumption
            <4>2. CASE g # h
                BY <1>1, <1>2, <1>5, <2>3, <2>5, <4>2 DEF HostsFit
            <4> QED BY <4>1, <4>2
        <3> QED BY <1>1, <1>2, <3>1, <3>2, <3>3 DEF HostsFit
    <2>12. Handed' /\ ArtifactTrue' /\ DeliveredOrKept'
        BY <1>2, <2>4, NothingYet
    <2>13. \A g \in Hosts : Facts(g)'
        BY <1>2, <2>2, <2>3, HostsKeep
    <2> QED BY <1>3, <2>7, <2>8, <2>9, <2>10, <2>11, <2>12, <2>13 DEF IInv
<1> QED BY <1>4, <1>5 DEF Submit, To

LEMMA WaitKeeps ==
    ASSUME IInv, Wait
    PROVE  IInv'
<1>1. /\ TypeOK /\ MainFits /\ Stopped /\ Counting /\ HostsFit /\ Handed /\ Totals /\ Unfailing
      /\ ArtifactTrue /\ DeliveredOrKept
      /\ \A g \in Hosts : Facts(g) /\ Ready(g)
    BY Parts
<1>2. /\ main.at \in {"wait", "drain"} /\ main.then = main.at /\ Scanning /\ ~Interrupted
      /\ UNCHANGED <<run, remaining, pending, tally, cancel, broken, artifact, delivery, interrupts, faults>>
      /\ UNCHANGED <<scan, stats, buffer>>
    BY <1>1 DEF Wait, MainFits, Scanning, Stopped, Threads, threadVars
<1>3. \/ /\ main.at = "drain" /\ pending = {} /\ batch' = batch
         /\ main' = [at |-> "shutdown", then |-> "shutdown"]
      \/ /\ Finished # {} /\ batch' = Finished
         /\ main' = [at |-> "consume", then |-> IF main.at = "wait" THEN "submit" ELSE "drain"]
    BY DEF Wait, MainAt
<1>4. /\ main' \in [at: MainPlaces, then: MainPlaces] /\ main'.at \in {"shutdown", "consume"}
      /\ main'.at = "consume" => main'.then \in {"submit", "drain"}
    BY <1>3 DEF MainPlaces
<1>5. TypeOK'
    <2>1. batch' \subseteq pending
        BY <1>1, <1>3, TallyIs DEF Finished
    <2> QED BY <1>1, <1>2, <1>4, <2>1 DEF TypeOK
<1>6. MainFits'
    <2>1. CASE main.at = "drain" /\ pending = {} /\ batch' = batch
               /\ main' = [at |-> "shutdown", then |-> "shutdown"]
        BY <1>1, <1>2, <2>1 DEF MainFits, Ended
    <2>2. CASE Finished # {} /\ batch' = Finished
               /\ main' = [at |-> "consume", then |-> IF main.at = "wait" THEN "submit" ELSE "drain"]
        <3>1. Cardinality(pending \ batch') < 2 * run.workers
            <4>1. pending \ batch' \subseteq pending /\ pending \ batch' # pending
                BY <2>2 DEF Finished
            <4>2. Cardinality(pending \ batch') < Cardinality(pending)
                BY <1>1, <4>1, TallyIs, HostSets
            <4>3. /\ Cardinality(pending) <= 2 * run.workers /\ run.workers \in Nat
                  /\ Cardinality(pending) \in Nat /\ Cardinality(pending \ batch') \in Nat
                BY <1>1, <4>1, TallyIs, HostSets, RunIs DEF MainFits
            <4> QED BY <4>2, <4>3
        <3>2. batch' \subseteq pending' \cap Ended'
            BY <1>2, <2>2 DEF Finished, Ended
        <3>3. /\ main'.at = "consume" /\ main'.then \in {"submit", "drain"}
              /\ main'.then = "drain" => main.at = "drain"
            BY <1>2, <2>2
        <3> QED BY <1>1, <1>2, <3>1, <3>2, <3>3 DEF MainFits
    <2> QED BY <1>3, <2>1, <2>2
<1>7. Stopped'
    BY <1>1, <1>2, <1>4 DEF Stopped, Interrupted
<1>8. Counting'
    BY <1>1, <1>2, <1>4 DEF Counting, Uncounted, Interrupted
<1>9. HostsFit'
    BY <1>1, <1>2, <1>4 DEF HostsFit, Scanned, Running
<1>10. Handed' /\ ArtifactTrue' /\ DeliveredOrKept'
    BY <1>2, <1>4, NothingYet
<1>11. Totals' /\ Unfailing'
    BY <1>1, <1>2 DEF Totals, Unfailing, Untouched, Interrupted, Roomy, Requested
<1>12. \A g \in Hosts : Facts(g)'
    BY <1>2, HostsKeep
<1> QED BY <1>5, <1>6, <1>7, <1>8, <1>9, <1>10, <1>11, <1>12 DEF IInv

\* What the main thread counts of a host.
LEMMA Counts ==
    ASSUME TypeOK, NEW result \in {"ok", "failed", "error", "cancelled"}, tally' = CountResult(result)
    PROVE  /\ tally' \in [submitted: Nat, completed: Nat, cancelled: Nat, failures: Nat]
           /\ tally'.submitted = tally.submitted
           /\ tally'.completed + tally'.cancelled = tally.completed + tally.cancelled + 1
           /\ result # "cancelled" => tally'.cancelled = tally.cancelled
           /\ tally'.failures >= tally.failures
           /\ tally'.failures = 0 => tally.failures = 0 /\ result \in {"ok", "cancelled"}
           /\ result = "ok" => tally'.failures = tally.failures
<1>1. tally \in [submitted: Nat, completed: Nat, cancelled: Nat, failures: Nat]
    BY DEF TypeOK
<1> DEFINE c == IF result = "cancelled" THEN 1 ELSE 0
           d == IF result = "cancelled" THEN 0 ELSE 1
           f == IF result \in {"failed", "error"} THEN 1 ELSE 0
<1>2. tally' = [tally EXCEPT !.cancelled = @ + c, !.completed = @ + d, !.failures = @ + f]
    BY DEF CountResult
<1>3. /\ c \in Nat /\ d \in Nat /\ f \in Nat /\ c + d = 1
      /\ result # "cancelled" => c = 0
      /\ f = 0 => result \in {"ok", "cancelled"}
      /\ result = "ok" => f = 0
    OBVIOUS
<1> HIDE DEF c, d, f
<1>4. /\ tally.submitted \in Nat /\ tally.completed \in Nat
      /\ tally.cancelled \in Nat /\ tally.failures \in Nat
    BY <1>1
<1>5. tally' = [submitted |-> tally.submitted, completed |-> tally.completed + d,
                cancelled |-> tally.cancelled + c, failures |-> tally.failures + f]
    BY <1>1, <1>2
<1>6. tally' \in [submitted: Nat, completed: Nat, cancelled: Nat, failures: Nat]
    BY <1>3, <1>4, <1>5
<1>7. /\ tally'.submitted = tally.submitted /\ tally'.completed = tally.completed + d
      /\ tally'.cancelled = tally.cancelled + c /\ tally'.failures = tally.failures + f
    BY <1>5
<1> QED BY <1>3, <1>4, <1>6, <1>7

LEMMA ConsumeKeeps ==
    ASSUME IInv, NEW h \in Hosts, Consume(h)
    PROVE  IInv'
<1>1. /\ TypeOK /\ MainFits /\ Stopped /\ Counting /\ HostsFit /\ Handed /\ Totals /\ Unfailing
      /\ ArtifactTrue /\ DeliveredOrKept
      /\ \A g \in Hosts : Facts(g) /\ Ready(g)
    BY Parts
<1>2. /\ main.at = "consume" /\ main.then \in {"submit", "drain", "report"} /\ h \in batch
      /\ batch' = batch \ {h} /\ pending' = pending \ {h} /\ tally' = CountResult(scan[h].result)
      /\ stats' = [stats EXCEPT !.errors = @ \/ scan[h].result = "error"] /\ cancel' = (cancel \/ broken)
      /\ IF batch' = {} THEN main' = [at |-> main.then, then |-> main.then] ELSE main' = main
      /\ UNCHANGED <<run, remaining, scan, buffer, broken, artifact, delivery, interrupts, faults>>
    BY <1>1 DEF Consume, MainAt, MainFits
<1>3. /\ h \in pending /\ scan[h].at = "ended" /\ scan[h].result \in {"ok", "failed", "error", "cancelled"}
      /\ batch \subseteq pending /\ pending \subseteq Hosts
    <2>1. h \in pending /\ scan[h].at = "ended" /\ batch \subseteq pending /\ pending \subseteq Hosts
        BY <1>1, <1>2, TallyIs DEF MainFits, Ended
    <2>2. scan[h].result \in Result /\ scan[h].result # Nothing
        BY <1>1, <2>1, ScanIs DEF HostsFit, Scan
    <2> QED BY <2>1, <2>2 DEF Result
<1>4. /\ tally' \in [submitted: Nat, completed: Nat, cancelled: Nat, failures: Nat]
      /\ tally'.submitted = tally.submitted
      /\ tally'.completed + tally'.cancelled = tally.completed + tally.cancelled + 1
      /\ scan[h].result # "cancelled" => tally'.cancelled = tally.cancelled
      /\ tally'.failures = 0 => tally.failures = 0 /\ scan[h].result \in {"ok", "cancelled"}
      /\ scan[h].result = "ok" => tally'.failures = tally.failures
    BY <1>1, <1>2, <1>3, Counts
<1>5. /\ main' \in [at: MainPlaces, then: MainPlaces] /\ main'.then = main.then
      /\ batch' = {} => main'.at = main.then
      /\ batch' # {} => main'.at = "consume"
    <2>1. main \in [at: MainPlaces, then: MainPlaces]
        BY <1>1 DEF TypeOK
    <2> QED BY <1>2, <2>1 DEF MainPlaces
<1>6. /\ stats' \in Stats /\ stats'.errors = (stats.errors \/ scan[h].result = "error")
      /\ stats'.gaps = stats.gaps /\ stats'.incomplete = stats.incomplete
      /\ stats'.endpoints = stats.endpoints /\ stats'.resources = stats.resources
      /\ stats'.items = stats.items
    BY <1>1, <1>2, TypesNow DEF Stats
<1>7. TypeOK'
    <2>1. batch' \subseteq pending' /\ pending' \subseteq Hosts /\ cancel' \in BOOLEAN
        BY <1>1, <1>2, <1>3 DEF TypeOK
    <2> QED BY <1>1, <1>2, <1>4, <1>5, <1>6, <2>1 DEF TypeOK, Stats
<1>8. Cardinality(pending') = Cardinality(pending) - 1
    BY <1>2, <1>3, HostSets
<1>9. MainFits'
    <2>1. main'.at # "consume" => main'.then = main'.at
        BY <1>5
    <2>2. main'.at = "consume" => main'.then \in {"submit", "drain", "report"}
        BY <1>2, <1>5
    <2>3. batch' \subseteq pending' \cap Ended'
        BY <1>1, <1>2 DEF MainFits, Ended
    <2>4. pending' \ batch' = pending \ batch
        BY <1>2
    <2>5. main'.at = "submit" => Cardinality(pending') < 2 * run.workers
        <3>1. main'.at = "submit" => main.then = "submit" /\ pending' = pending \ batch
            BY <1>2, <1>5, <2>4
        <3> QED BY <1>1, <1>2, <3>1 DEF MainFits
    <2>6. main'.at = "consume" /\ main'.then = "submit" => Cardinality(pending' \ batch') < 2 * run.workers
        BY <1>1, <1>2, <1>5, <2>4 DEF MainFits
    <2>7. main.then = "report" => pending' = batch'
        BY <1>1, <1>2 DEF MainFits
    <2>8. main'.at \in {"report", "close", "upload"} => pending' = {}
        BY <1>2, <1>5, <2>7
    <2>9. ~cancel' /\ main'.then \notin {"submit", "wait", "end"} => remaining' = {}
        BY <1>1, <1>2, <1>5 DEF MainFits
    <2>10. ~cancel' /\ main'.then \notin {"submit", "wait", "drain", "end"} => pending' = {}
        BY <1>1, <1>2, <1>5 DEF MainFits
    <2>11. Cardinality(pending') <= 2 * run.workers
        <3>1. Cardinality(pending) <= 2 * run.workers /\ Cardinality(pending) \in Nat /\ run.workers \in Nat
            BY <1>1, TallyIs, RunIs DEF MainFits
        <3> QED BY <1>8, <3>1
    <2>12. pending' \cap remaining' = {}
        BY <1>1, <1>2 DEF MainFits
    <2> QED BY <1>2, <1>5, <2>1, <2>2, <2>3, <2>5, <2>6, <2>7, <2>8, <2>9, <2>10, <2>11, <2>12 DEF MainFits
<1>10. Scanning' => Scanning
    BY <1>2, <1>5 DEF Scanning
<1>11. Stopped'
    BY <1>1, <1>2, <1>6, <1>10 DEF Stopped, Interrupted
<1>12. Counting'
    <2>1. Uncounted' = Uncounted
        BY <1>1, <1>4, <1>7, <1>8, TallyIs DEF Uncounted, TypeOK
    <2>2. ~cancel' => ~cancel /\ scan[h].result # "cancelled"
        BY <1>1, <1>2 DEF HostsFit, TypeOK
    <2>3. main'.at # "end" /\ main.at # "end"
        BY <1>2, <1>5
    <2> QED BY <1>1, <1>2, <1>4, <1>10, <2>1, <2>2, <2>3 DEF Counting, Interrupted
<1>13. HostsFit'
    <2>1. Scanned' => Scanned
        BY <1>2, <1>5 DEF Scanned
    <2>2. ~cancel' => ~cancel
        BY <1>1, <1>2 DEF TypeOK
    <2>3. Running' = Running
        BY <1>2 DEF Running
    <2>4. ASSUME NEW g \in Hosts, ~cancel, tally'.failures = 0, g \notin remaining \cup pending'
          PROVE  scan[g].result = "ok"
        <3>1. CASE g = h
            BY <1>1, <1>4, <2>4, <3>1 DEF HostsFit
        <3>2. CASE g # h
            BY <1>1, <1>2, <1>4, <2>4, <3>2 DEF HostsFit
        <3> QED BY <3>1, <3>2
    <2> QED BY <1>1, <1>2, <2>1, <2>2, <2>3, <2>4 DEF HostsFit
<1>14. Handed' /\ ArtifactTrue' /\ DeliveredOrKept'
    BY <1>2, <1>5, NothingYet
<1>15. Totals'
    BY <1>1, <1>2, <1>6 DEF Totals
<1>16. Unfailing'
    <2>1. Untouched' => Untouched /\ scan[h].result = "ok"
        BY <1>1, <1>2, <1>3, ReadyIs, HostScanAssumption DEF Untouched, Interrupted, Smooth
    <2> QED BY <1>1, <1>2, <1>4, <1>6, <2>1 DEF Unfailing, Roomy, Requested
<1>17. \A g \in Hosts : Facts(g)'
    BY <1>2, <1>6, HostsKeep
<1> QED BY <1>7, <1>9, <1>11, <1>12, <1>13, <1>14, <1>15, <1>16, <1>17 DEF IInv

LEMMA OrchestrationFailsKeeps ==
    ASSUME IInv, NEW h \in Hosts, OrchestrationFails(h)
    PROVE  IInv'
<1>1. /\ TypeOK /\ MainFits /\ Stopped /\ Counting /\ HostsFit /\ Handed /\ Totals /\ Unfailing
      /\ ArtifactTrue /\ DeliveredOrKept
      /\ \A g \in Hosts : Facts(g) /\ Ready(g)
    BY Parts
<1>2. /\ main.at = "consume" /\ main.then \in {"submit", "drain", "report"} /\ h \in batch
      /\ Fault /\ broken' = TRUE /\ batch' = {} /\ pending' = pending \ {h} /\ UNCHANGED artifact
      /\ UNCHANGED <<run, remaining, scan, buffer, delivery, interrupts>>
    BY <1>1 DEF OrchestrationFails, MainFits, Abort
<1>3. h \in pending /\ pending \subseteq Hosts
    BY <1>1, <1>2, TallyIs
\* It is found when the run is over already, or ends the scan.
<1>4. /\ tally' \in [submitted: Nat, completed: Nat, cancelled: Nat, failures: Nat]
      /\ tally'.submitted = tally.submitted /\ tally'.completed = tally.completed
      /\ tally'.cancelled = tally.cancelled
      /\ stats' \in Stats /\ (stats.errors => stats'.errors) /\ stats'.gaps = stats.gaps
      /\ stats'.incomplete = stats.incomplete
      /\ cancel' \in BOOLEAN /\ (cancel => cancel')
      /\ \/ main.then = "report" /\ main' = [at |-> "end", then |-> "end"] /\ cancel' = cancel
         \/ main.then # "report" /\ main' = [at |-> "shutdown", then |-> "shutdown"] /\ cancel' = TRUE
    <2>1. /\ tally \in [submitted: Nat, completed: Nat, cancelled: Nat, failures: Nat]
          /\ stats \in Stats /\ cancel \in BOOLEAN
        BY <1>1, TypesNow DEF TypeOK
    <2>2. CASE main.then = "report"
        BY <2>1, <2>2 DEF OrchestrationFails, Abort, MainAt
    <2>3. CASE main.then # "report"
        <3>1. /\ cancel' = TRUE /\ tally' = [tally EXCEPT !.failures = @ + 1]
              /\ stats' = [stats EXCEPT !.errors = TRUE] /\ main' = [at |-> "shutdown", then |-> "shutdown"]
            BY <2>3 DEF OrchestrationFails, MainAt
        <3>2. /\ tally' \in [submitted: Nat, completed: Nat, cancelled: Nat, failures: Nat]
              /\ tally'.submitted = tally.submitted /\ tally'.completed = tally.completed
              /\ tally'.cancelled = tally.cancelled
            BY <2>1, <3>1
        <3>3. /\ stats' \in Stats /\ stats'.errors = TRUE /\ stats'.gaps = stats.gaps
              /\ stats'.incomplete = stats.incomplete
            BY <2>1, <3>1 DEF Stats
        <3> QED BY <2>1, <2>3, <3>1, <3>2, <3>3
    <2> QED BY <2>2, <2>3
<1>5. Cardinality(pending') = Cardinality(pending) - 1 /\ Cardinality(pending) \in Nat
    BY <1>1, <1>2, <1>3, HostSets, TallyIs
<1>6. /\ main'.at \in {"end", "shutdown"} /\ main'.then = main'.at
      /\ main' \in [at: MainPlaces, then: MainPlaces]
      /\ main'.at = "shutdown" => cancel' = TRUE /\ Scanning
      /\ main'.at = "end" => Scanned /\ cancel' = cancel
    BY <1>2, <1>4 DEF MainPlaces, Scanning, Scanned
<1>7. faults' \in 0 .. MaxFaults /\ faults' # 0
    BY <1>1, <1>2, FaultIs
<1>8. TypeOK'
    <2>1. batch' \subseteq pending' /\ pending' \subseteq Hosts
        BY <1>2, <1>3
    <2> QED BY <1>1, <1>2, <1>4, <1>6, <1>7, <2>1 DEF TypeOK, Stats
<1>9. MainFits'
    <2>1. Cardinality(pending') <= 2 * run.workers
        <3>1. Cardinality(pending) <= 2 * run.workers /\ run.workers \in Nat
            BY <1>1, RunIs DEF MainFits
        <3> QED BY <1>5, <3>1
    <2>2. pending' \cap remaining' = {}
        BY <1>1, <1>2 DEF MainFits
    <2> QED BY <1>2, <1>6, <2>1, <2>2 DEF MainFits
<1>10. ~Scanning'
    BY <1>6 DEF Scanning
<1>11. Stopped'
    BY <1>1, <1>2, <1>4, <1>10 DEF Stopped, Interrupted
<1>12. Counting'
    <2>1. Uncounted' = Uncounted + 1 /\ Uncounted \in Int
        BY <1>1, <1>4, <1>5, TallyIs DEF Uncounted
    <2>2. Uncounted' >= 0
        BY <1>1, <2>1 DEF Counting
    <2>3. main'.at # "end" => Uncounted' <= 1
        BY <1>1, <1>6, <2>1 DEF Counting
    <2>4. ~cancel' => tally'.cancelled = 0
        BY <1>1, <1>4 DEF Counting
    <2> QED BY <1>2, <1>6, <1>10, <2>2, <2>3, <2>4 DEF Counting
<1>13. HostsFit'
    <2>1. Scanned' => Scanned
        BY <1>6 DEF Scanned
    <2>2. Running' = Running
        BY <1>2 DEF Running
    <2> QED BY <1>1, <1>2, <1>4, <1>6, <2>1, <2>2 DEF HostsFit
<1>14. Handed' /\ ArtifactTrue' /\ DeliveredOrKept'
    BY <1>2, <1>6, NothingYet
<1>15. Totals' /\ Unfailing'
    BY <1>2, <1>7 DEF Totals, Unfailing, Untouched
<1>16. \A g \in Hosts : Facts(g)'
    BY <1>2, <1>4, <1>7, HostsKeep
<1> QED BY <1>8, <1>9, <1>11, <1>12, <1>13, <1>14, <1>15, <1>16 DEF IInv

LEMMA InterruptKeeps ==
    ASSUME IInv, Interrupt
    PROVE  IInv'
<1>1. /\ TypeOK /\ MainFits /\ Stopped /\ Counting /\ HostsFit /\ Handed /\ Totals /\ Unfailing
      /\ ArtifactTrue /\ DeliveredOrKept
      /\ \A g \in Hosts : Facts(g) /\ Ready(g)
    BY Parts
<1>2. /\ main.at \in {"submit", "wait", "drain", "consume"} /\ main.then # "report"
      /\ interrupts = {} /\ interrupts' = {"scan"} /\ cancel' = TRUE
      /\ main' = [at |-> "shutdown", then |-> "shutdown"] /\ batch' = {}
      /\ UNCHANGED <<run, tally, stats, buffer, broken, artifact, delivery, faults>>
    BY DEF Interrupt, MainAt
<1>3. /\ Scanning /\ ~Scanned /\ Interrupted' /\ ~Interrupted /\ ~Scanned' /\ ~Scanning'
      /\ ~Untouched' /\ main' \in [at: MainPlaces, then: MainPlaces]
    BY <1>2 DEF Scanning, Scanned, Interrupted, Untouched, MainPlaces
<1>4. /\ Cardinality(pending) <= 2 * run.workers /\ run.workers \in Nat /\ Cardinality(pending) \in Nat
      /\ pending \subseteq Hosts /\ remaining \subseteq Hosts /\ batch \subseteq pending
      /\ pending \cap remaining = {} /\ Uncounted = 0
      /\ Running \subseteq Hosts /\ Cardinality(Running) <= run.workers
    BY <1>1, <1>3, TallyIs, RunIs DEF MainFits, Counting, HostsFit, Running
\* At most one host is taken off the list, or handed to the pool without being counted.
<1> DEFINE Left ==
        /\ remaining' \subseteq remaining /\ pending' \subseteq pending
        /\ Cardinality(pending') \in {Cardinality(pending), Cardinality(pending) - 1}
        /\ scan' \in [Hosts -> Scan] /\ (\A g \in Hosts : scan'[g].seen <= run.cap)
        /\ Running' = Running
        /\ \A g \in Hosts : /\ g \in remaining' <=> scan'[g].at = "unsubmitted"
                            /\ scan'[g].at = "ended" <=> scan'[g].result # Nothing
                            /\ Facts(g)'
<1>5. Left
    <2>1. ASSUME UNCHANGED <<scan, remaining>>, pending' = pending \/ \E h \in batch : pending' = pending \ {h}
          PROVE  Left
        <3>1. \A g \in Hosts : Facts(g)'
            BY <1>2, <2>1, HostsKeep
        <3>2. Running' = Running
            BY <2>1 DEF Running
        <3>3. pending' \subseteq pending /\ Cardinality(pending') \in {Cardinality(pending), Cardinality(pending) - 1}
            BY <1>4, <2>1, HostSets
        <3> QED BY <1>1, <2>1, <3>1, <3>2, <3>3 DEF HostsFit, TypeOK
    <2>2. ASSUME NEW h \in remaining, remaining' = remaining \ {h}, To(h, "queued"), UNCHANGED pending
          PROVE  Left
        <3>1. h \in Hosts /\ scan[h].at = "unsubmitted"
            BY <1>1, <1>4 DEF HostsFit
        <3>2. Moved(h) /\ scan'[h].at = "queued" /\ scan'[h].result = Nothing /\ Facts(h)'
            BY <1>1, <1>2, <1>3, <2>2, <3>1, QueuedFits
        <3>3. /\ scan' \in [Hosts -> Scan] /\ (\A g \in Hosts : scan'[g].seen <= run.cap)
              /\ \A g \in Hosts \ {h} : scan'[g] = scan[g]
            BY <3>2 DEF Moved
        <3>4. \A g \in Hosts \ {h} : Facts(g)'
            BY <1>2, <3>3, HostsKeep
        <3>5. Running' = Running
            BY <3>1, <3>2, <3>3 DEF Running, Idle
        <3> QED BY <1>1, <2>2, <3>1, <3>2, <3>3, <3>4, <3>5 DEF HostsFit
    <2> QED BY <2>1, <2>2 DEF Interrupt, To
<1>6. TypeOK'
    BY <1>1, <1>2, <1>3, <1>4, <1>5 DEF TypeOK
<1>7. MainFits'
    BY <1>2, <1>4, <1>5 DEF MainFits
<1>8. Stopped'
    BY <1>1, <1>2, <1>3 DEF Stopped
<1>9. Counting'
    <2>1. Uncounted' \in {0, 1}
        BY <1>1, <1>2, <1>4, <1>5, TallyIs DEF Uncounted
    <2> QED BY <1>2, <1>3, <2>1 DEF Counting
<1>10. HostsFit'
    BY <1>2, <1>3, <1>4, <1>5 DEF HostsFit
<1>11. Handed' /\ ArtifactTrue' /\ DeliveredOrKept'
    BY <1>2, NothingYet
<1>12. Totals' /\ Unfailing'
    BY <1>1, <1>2, <1>3 DEF Totals, Unfailing
<1> QED BY <1>5, <1>6, <1>7, <1>8, <1>9, <1>10, <1>11, <1>12 DEF IInv

\* A host that was queued when the run was cancelled.
LEMMA DroppedFits ==
    ASSUME IInv, NEW h \in Hosts, cancel, scan'[h] = At("ended", FALSE, "cancelled"),
           UNCHANGED <<run, buffer, broken, interrupts, faults>>
    PROVE  Facts(h)'
<1>1. scan'[h].at = "ended" /\ scan'[h].result = "cancelled"
    BY DEF At
<1>2. ~Untouched'
    <2>1. ~Calm
        BY Parts DEF Stopped, Calm
    <2> QED BY <2>1, Parts DEF Calm, Untouched, Interrupted, Unfailing
<1>3. Unseen(h)'
    BY <1>1 DEF Unseen, Before, Serving
<1>4. Structure(h)' /\ ListsKept(h)' /\ Contents(h)'
    BY <1>1 DEF Structure, ListsKept, Contents, Serving
<1>5. Smooth(h)'
    BY <1>2 DEF Smooth
<1> QED BY <1>3, <1>4, <1>5 DEF Facts

LEMMA ShutDownKeeps ==
    ASSUME IInv, ShutDown
    PROVE  IInv'
<1>1. /\ TypeOK /\ MainFits /\ Stopped /\ Counting /\ HostsFit /\ Handed /\ Totals /\ Unfailing
      /\ ArtifactTrue /\ DeliveredOrKept
      /\ \A g \in Hosts : Facts(g) /\ Ready(g)
    BY Parts
<1> DEFINE dropped == At("ended", FALSE, "cancelled")
<1>2. /\ main.at = "shutdown" /\ main.then = "shutdown" /\ Running = {}
      /\ cancel \/ \A h \in Hosts : scan[h].at # "queued"
      /\ scan' = [h \in Hosts |-> IF scan[h].at = "queued" THEN dropped ELSE scan[h]]
      /\ batch' = pending
      /\ main' = IF pending = {} THEN [at |-> "report", then |-> "report"] ELSE [at |-> "consume", then |-> "report"]
      /\ UNCHANGED <<run, remaining, pending, tally, cancel, stats, buffer, broken, artifact, delivery,
                     interrupts, faults>>
    BY <1>1 DEF ShutDown, MainAt, MainFits
<1>3. /\ dropped \in Scan /\ dropped.seen = 0
      /\ dropped.at = "ended" /\ dropped.result = "cancelled"
    <2>1. "ended" \in Places /\ "cancelled" \in Result
        BY DEF Places, Result
    <2> QED BY <2>1, AtIs DEF At
<1> HIDE DEF dropped
<1>4. \A g \in Hosts : scan[g].at \in {"unsubmitted", "queued", "ended"}
    BY <1>2 DEF Running, Idle
<1>5. /\ main' \in [at: MainPlaces, then: MainPlaces] /\ main'.then = "report"
      /\ main'.at \in {"report", "consume"} /\ (main'.at = "report" => pending = {})
    BY <1>2 DEF MainPlaces
<1>6. /\ scan' \in [Hosts -> Scan] /\ \A g \in Hosts : scan'[g].seen <= run.cap
      /\ \A g \in Hosts : scan'[g] = IF scan[g].at = "queued" THEN dropped ELSE scan[g]
    <2>1. \A g \in Hosts : scan[g] \in Scan /\ scan[g].seen <= run.cap
        BY <1>1, ScanIs
    <2>2. 0 <= run.cap
        BY <1>1, RunIs
    <2> QED BY <1>2, <1>3, <2>1, <2>2
<1>7. TypeOK'
    BY <1>1, <1>2, <1>5, <1>6, TallyIs DEF TypeOK
<1>8. MainFits'
    <2>1. pending \subseteq Ended'
        <3>1. \A g \in pending : g \in Hosts /\ scan[g].at # "unsubmitted"
            BY <1>1, TallyIs DEF MainFits, HostsFit
        <3> QED BY <1>3, <1>4, <1>6, <3>1 DEF Ended
    <2> QED BY <1>1, <1>2, <1>5, <2>1 DEF MainFits
<1>9. Stopped'
    BY <1>1, <1>2, <1>5 DEF Stopped, Scanning, Interrupted
<1>10. Counting'
    BY <1>1, <1>2, <1>5 DEF Counting, Scanning, Interrupted, Uncounted
<1>11. HostsFit'
    <2>1. Running' = {} /\ Cardinality({}) = 0
        BY <1>3, <1>4, <1>6, FS_EmptySet DEF Running, Idle
    <2>2. 0 <= run.workers
        BY <1>1, RunIs
    <2>3. ASSUME NEW g \in Hosts
          PROVE  /\ g \in remaining <=> scan'[g].at = "unsubmitted"
                 /\ scan'[g].at \in {"unsubmitted", "ended"}
                 /\ scan'[g].at = "ended" <=> scan'[g].result # Nothing
                 /\ ~cancel => scan'[g].result # "cancelled"
                 /\ ~cancel /\ tally.failures = 0 /\ g \notin remaining \cup pending => scan'[g].result = "ok"
        <3>1. CASE scan[g].at = "queued"
            BY <1>1, <1>2, <1>3, <1>6, <3>1, HostScanAssumption DEF HostsFit
        <3>2. CASE scan[g].at # "queued"
            BY <1>1, <1>2, <1>4, <1>6, <3>2 DEF HostsFit
        <3> QED BY <3>1, <3>2
    <2> QED BY <1>2, <2>1, <2>2, <2>3 DEF HostsFit
<1>12. Handed' /\ ArtifactTrue' /\ DeliveredOrKept'
    BY <1>2, <1>5, NothingYet
<1>13. Totals' /\ Unfailing'
    BY <1>1, <1>2 DEF Totals, Unfailing, Untouched, Interrupted, Roomy, Requested
<1>14. ASSUME NEW g \in Hosts
       PROVE  Facts(g)'
    <2>1. CASE scan[g].at = "queued"
        BY <1>2, <1>6, <2>1, DroppedFits DEF dropped
    <2>2. CASE scan[g].at # "queued"
        BY <1>2, <1>6, <2>2, HostsKeep
    <2> QED BY <2>1, <2>2
<1> QED BY <1>7, <1>8, <1>9, <1>10, <1>11, <1>12, <1>13, <1>14 DEF IInv

\* Once the scan is over the threads are, and only the end of the run is left.
LEMMA RunEnds ==
    ASSUME IInv, main.at \in {"report", "close", "upload"},
           UNCHANGED <<run, remaining, scan, pending, batch, tally, cancel>>, broken => broken',
           main' \in [at: {"close", "upload", "end"}, then: {"close", "upload", "end"}], main'.then = main'.at,
           stats.gaps => stats'.gaps, Interrupted' = Interrupted
    PROVE  MainFits' /\ Stopped' /\ Counting' /\ HostsFit'
<1>1. TypeOK /\ MainFits /\ Stopped /\ Counting /\ HostsFit
    BY Parts
<1>2. main.then = main.at /\ pending = {} /\ batch = {}
    BY <1>1, TallyIs DEF MainFits
<1>3. MainFits'
    BY <1>1, <1>2 DEF MainFits, Ended
<1>4. Stopped'
    BY <1>1 DEF Stopped, Scanning
<1>5. Counting'
    <2>1. Uncounted' = Uncounted /\ Uncounted \in Int
        BY <1>1, TallyIs DEF Uncounted
    <2>2. ~Scanning' /\ main.at # "end"
        BY DEF Scanning
    <2> QED BY <1>1, <2>1, <2>2 DEF Counting
<1>6. HostsFit'
    BY <1>1 DEF HostsFit, Scanned, Running
<1> QED BY <1>3, <1>4, <1>5, <1>6

LEMMA ReportKeeps ==
    ASSUME IInv, Report
    PROVE  IInv'
<1>1. /\ TypeOK /\ MainFits /\ Stopped /\ Counting /\ HostsFit /\ Handed /\ Totals /\ Unfailing
      /\ ArtifactTrue /\ DeliveredOrKept
      /\ \A g \in Hosts : Facts(g) /\ Ready(g)
    BY Parts
<1>2. /\ main.at = "report" /\ stats' = [stats EXCEPT !.errors = @ \/ Interrupted]
      /\ UNCHANGED <<run, remaining, scan, pending, batch, tally, cancel, buffer, artifact, delivery, interrupts>>
      /\ main' \in {[at |-> "close", then |-> "close"], [at |-> "end", then |-> "end"]}
      /\ UNCHANGED <<broken, faults>> \/ (broken' = TRUE /\ Fault)
    BY DEF Report, MainAt
<1>3. /\ main' \in [at: {"close", "upload", "end"}, then: {"close", "upload", "end"}]
      /\ main'.then = main'.at /\ main'.at # "upload" /\ main' \in [at: MainPlaces, then: MainPlaces]
      /\ Interrupted' = Interrupted
    BY <1>2 DEF MainPlaces, Interrupted
<1>4. /\ stats' \in Stats /\ stats'.errors = (stats.errors \/ Interrupted)
      /\ stats'.gaps = stats.gaps /\ stats'.incomplete = stats.incomplete
      /\ stats'.endpoints = stats.endpoints /\ stats'.resources = stats.resources
      /\ stats'.items = stats.items
    BY <1>1, <1>2, TypesNow DEF Stats, Interrupted
<1>5. /\ faults' \in 0 .. MaxFaults /\ broken' \in BOOLEAN /\ (broken => broken')
      /\ faults' = 0 => faults = 0 /\ broken' = broken
    <2>1. faults \in 0 .. MaxFaults /\ broken \in BOOLEAN
        BY <1>1, TypesNow
    <2>2. CASE broken' = TRUE /\ Fault
        BY <1>1, <2>2, FaultIs
    <2>3. CASE UNCHANGED <<broken, faults>>
        BY <2>1, <2>3
    <2> QED BY <1>2, <2>2, <2>3
<1>6. TypeOK'
    BY <1>1, <1>2, <1>3, <1>4, <1>5 DEF TypeOK, Stats
<1>7. MainFits' /\ Stopped' /\ Counting' /\ HostsFit'
    BY <1>2, <1>3, <1>4, <1>5, RunEnds
<1>8. Handed' /\ ArtifactTrue' /\ DeliveredOrKept'
    BY <1>2, <1>3, NothingYet
<1>9. Totals'
    BY <1>1, <1>2, <1>4, <1>5 DEF Totals
<1>10. Unfailing'
    BY <1>1, <1>2, <1>3, <1>4, <1>5 DEF Unfailing, Untouched, Roomy, Requested
<1>11. \A g \in Hosts : Facts(g)'
    BY <1>2, <1>4, <1>5, HostsKeep
<1> QED BY <1>6, <1>7, <1>8, <1>9, <1>10, <1>11 DEF IInv

-----------------------------------------------------------------------------
(* The artifact                                                            *)

\* Whoever is not missing from the count when the run is over went well.
LEMMA AllWell ==
    ASSUME IInv, main.at = "close", ~Interrupted, ~broken
    PROVE  /\ ~cancel /\ Calm
           /\ tally.cancelled = 0 /\ tally.completed = Cardinality(Hosts)
           /\ tally.failures = 0 => \A h \in Hosts : scan[h].at = "ended" /\ scan[h].result = "ok"
<1>1. TypeOK /\ MainFits /\ Stopped /\ Counting /\ HostsFit
    BY Parts
<1>2. ~cancel /\ Calm /\ remaining = {} /\ pending = {}
    BY <1>1 DEF Stopped, Calm, MainFits
<1>3. Uncounted = 0 /\ tally.submitted = Cardinality(Hosts) - Cardinality(remaining) /\ tally.cancelled = 0
    BY <1>1, <1>2 DEF Counting
<1>4. Cardinality(remaining) = 0 /\ Cardinality(pending) = 0 /\ Cardinality(Hosts) \in Nat
    BY <1>2, HostSets
<1>5. tally.completed = Cardinality(Hosts)
    BY <1>1, <1>3, <1>4, TallyIs DEF Uncounted
<1>6. ASSUME tally.failures = 0, NEW h \in Hosts
      PROVE  scan[h].at = "ended" /\ scan[h].result = "ok"
    <2>1. scan[h].result = "ok"
        BY <1>1, <1>2, <1>6 DEF HostsFit
    <2> QED BY <1>1, <2>1, HostScanAssumption DEF HostsFit
<1> QED BY <1>2, <1>3, <1>5, <1>6

\* What the invariant says of such a host is what the artifact claims.
LEMMA ClaimsAreSo ==
    ASSUME IInv, main.at = "close", ~broken
    PROVE  /\ Structural => \A h \in Hosts :
                 /\ \A t \in Requested : <<h, t>> \in buffer.endpoints
                 /\ "smb" \in Requested => \A s \in Due(h) : <<h, s>> \in buffer.resources
                 /\ "nfs" \in Requested => \A e \in ExportsOf[h] : <<h, e>> \in buffer.resources
           /\ run.permissions /\ ~stats.incomplete /\ Structural =>
                 \A r \in buffer.resources : r[2] \in Shares => r \in buffer.lists
           /\ ~Interrupted /\ tally.failures = 0 /\ ~stats.errors /\ "nfs" \notin Requested =>
                 \A h \in Hosts : \A s \in Due(h) :
                    \A e \in Reach(run.depth) : <<h, s, e>> \in buffer.items
<1>1. /\ TypeOK /\ Stopped /\ buffer \in Records
      /\ \A h \in Hosts : Structure(h) /\ ListsKept(h) /\ Contents(h)
    BY Parts, TypesNow DEF Facts
<1>2. ASSUME Structural, NEW h \in Hosts
      PROVE  /\ \A t \in Requested : <<h, t>> \in buffer.endpoints
             /\ "smb" \in Requested => \A s \in Due(h) : <<h, s>> \in buffer.resources
             /\ "nfs" \in Requested => \A e \in ExportsOf[h] : <<h, e>> \in buffer.resources
    <2>1. /\ Calm /\ ~stats.gaps /\ ~run.disabled /\ Active = Requested
          /\ scan[h].at = "ended" /\ scan[h].result = "ok"
        BY <1>1, <1>2, AllWell DEF Structural, Stopped, Active, Requested
    <2>2. ("smb" \in Requested => SmbWhole(h)) /\ ("nfs" \in Requested => NfsWhole(h))
        BY <1>1, <2>1 DEF Structure
    <2>3. Requested \subseteq {"smb", "nfs"}
        BY <1>1, RunIs DEF Requested
    <2> QED BY <2>2, <2>3 DEF SmbWhole, NfsWhole
<1>3. ASSUME run.permissions, ~stats.incomplete, Structural,
             NEW r \in buffer.resources, r[2] \in Shares
      PROVE  r \in buffer.lists
    <2>1. r[1] \in Hosts /\ r = <<r[1], r[2]>>
        BY <1>1 DEF Records
    <2>2. Calm /\ ~stats.gaps /\ scan[r[1]].at = "ended" /\ scan[r[1]].result = "ok"
        BY <1>3, <2>1, AllWell DEF Structural
    <2> QED BY <1>1, <1>3, <2>1, <2>2 DEF ListsKept, Serving
<1>4. ASSUME ~Interrupted, tally.failures = 0, ~stats.errors, "nfs" \notin Requested,
             NEW h \in Hosts, NEW s \in Due(h), NEW e \in Reach(run.depth)
      PROVE  <<h, s, e>> \in buffer.items
    <2>1. Calm /\ scan[h].at = "ended" /\ scan[h].result = "ok"
        BY <1>4, AllWell
    <2>2. Listed(h, s)
        BY <1>1, <1>4, <2>1 DEF Contents
    <2> QED BY <1>4, <2>2 DEF Listed, Shown
<1> QED BY <1>2, <1>3, <1>4

\* The artifact that is finalized.
LEMMA PublishedIs ==
    ASSUME IInv, main.at = "close", Published,
           UNCHANGED <<run, faults>>, Interrupted' = Interrupted
    PROVE  artifact' \in Artifact /\ artifact' # Nothing /\ ArtifactTrue'
<1>1. TypeOK /\ Totals /\ Unfailing
    BY Parts
<1>2. /\ ~broken
      /\ artifact' = [claims |-> Claims, records |-> buffer,
                      counts |-> <<stats.endpoints, stats.resources, stats.items>>]
    BY DEF Published
<1>3. /\ Claims \in [structural: BOOLEAN, permissions: BOOLEAN, content: BOOLEAN]
      /\ Claims.structural = Structural
      /\ Claims.permissions = (run.permissions /\ stats.assessed /\ ~stats.incomplete /\ Structural)
      /\ Claims.content = (~Interrupted /\ tally.failures = 0 /\ ~stats.errors /\ "nfs" \notin Requested)
    <2>1. Structural \in BOOLEAN /\ run.permissions \in BOOLEAN /\ stats.assessed \in BOOLEAN
        BY <1>1, RunIs, TypesNow DEF Structural, Stats
    <2> QED BY <2>1 DEF Claims
<1> DEFINE counts == <<stats.endpoints, stats.resources, stats.items>>
<1>4. buffer \in Records /\ counts \in Nat \X Nat \X Nat
    BY <1>1, TypesNow DEF Stats
<1>5. counts = <<Cardinality(buffer.endpoints), Cardinality(buffer.resources), Cardinality(buffer.items)>>
    BY <1>1, <1>2 DEF Totals
<1> DEFINE claims == Claims
<1> HIDE DEF claims, counts
<1>6. artifact' = [claims |-> claims, records |-> buffer, counts |-> counts]
    BY <1>2 DEF claims, counts
<1>7. artifact' \in Artifact /\ artifact' # Nothing
    <2>1. claims \in [structural: BOOLEAN, permissions: BOOLEAN, content: BOOLEAN]
        BY <1>3 DEF claims
    <2>2. artifact' \in Artifact
        BY <1>4, <1>6, <2>1 DEF Artifact
    <2> QED BY <2>2, HostScanAssumption
<1>8. /\ artifact'.claims = claims /\ artifact'.records = buffer /\ artifact'.counts = counts
    BY <1>6
<1> DEFINE whole == faults = 0 /\ ~Interrupted /\ ~run.disabled
<1>9. /\ whole => Structural
      /\ whole /\ run.named = Nothing /\ "nfs" \notin Requested /\ Roomy => claims.content
    <2>1. whole => Untouched /\ tally.failures = 0 /\ ~stats.gaps /\ ~Interrupted
        BY <1>1 DEF Untouched, Unfailing
    <2>2. whole => tally.cancelled = 0 /\ tally.completed = Cardinality(Hosts)
        BY <1>2, <2>1, AllWell
    <2>3. whole => Structural
        BY <2>1, <2>2 DEF Structural
    <2>4. whole /\ run.named = Nothing /\ "nfs" \notin Requested /\ Roomy => ~stats.errors
        BY <1>1, <2>1 DEF Unfailing
    <2> QED BY <1>3, <2>1, <2>3, <2>4 DEF claims
<1>10. ArtifactTrue'
    <2>1. /\ claims.structural => Structural
          /\ claims.permissions => run.permissions /\ ~stats.incomplete /\ Structural
          /\ claims.content => ~Interrupted /\ tally.failures = 0 /\ ~stats.errors /\ "nfs" \notin Requested
          /\ Structural => claims.structural
        BY <1>3 DEF claims
    <2>2. /\ claims.structural => \A h \in Hosts :
                /\ \A t \in Requested : <<h, t>> \in buffer.endpoints
                /\ "smb" \in Requested => \A s \in Due(h) : <<h, s>> \in buffer.resources
                /\ "nfs" \in Requested => \A e \in ExportsOf[h] : <<h, e>> \in buffer.resources
          /\ claims.permissions => \A r \in buffer.resources : r[2] \in Shares => r \in buffer.lists
          /\ claims.content => \A h \in Hosts : \A s \in Due(h) :
                \A e \in Reach(run.depth) : <<h, s, e>> \in buffer.items
        BY <1>2, <2>1, ClaimsAreSo
    <2>3. Requested' = Requested /\ (\A h : Due(h)' = Due(h)) /\ Roomy' = Roomy /\ run' = run /\ faults' = faults
        BY DEF Requested, Due, Roomy
    <2>4. Reach(run.depth)' = Reach(run.depth)
        BY DEF Reach
    <2> QED BY <1>5, <1>8, <1>9, <2>1, <2>2, <2>3, <2>4 DEF ArtifactTrue
<1> QED BY <1>7, <1>10

LEMMA CloseKeeps ==
    ASSUME IInv, Close
    PROVE  IInv'
<1>1. /\ TypeOK /\ MainFits /\ Stopped /\ Counting /\ HostsFit /\ Handed /\ Totals /\ Unfailing
      /\ ArtifactTrue /\ DeliveredOrKept
      /\ \A g \in Hosts : Facts(g) /\ Ready(g)
    BY Parts
<1>2. /\ main.at = "close"
      /\ UNCHANGED <<run, remaining, scan, pending, batch, tally, cancel, stats, buffer, broken>>
      /\ interrupts' = interrupts \/ (interrupts = {} /\ interrupts' = {"close"})
      /\ faults' = faults \/ Fault
      /\ \/ main' = [at |-> "end", then |-> "end"] /\ UNCHANGED <<artifact, delivery>>
         \/ Published /\ main' = [at |-> "upload", then |-> "upload"] /\ faults' = faults
    BY DEF Close, Abort, MainAt
<1>3. /\ main' \in [at: {"close", "upload", "end"}, then: {"close", "upload", "end"}]
      /\ main'.then = main'.at /\ main' \in [at: MainPlaces, then: MainPlaces]
    BY <1>2 DEF MainPlaces
<1>4. /\ Interrupted' = Interrupted /\ interrupts \subseteq interrupts'
      /\ interrupts' \subseteq {"scan", "close", "upload"}
    <2>1. interrupts \subseteq {"scan", "close", "upload"}
        BY <1>1 DEF TypeOK
    <2>2. CASE interrupts' = interrupts
        BY <2>1, <2>2 DEF Interrupted
    <2>3. CASE interrupts = {} /\ interrupts' = {"close"}
        BY <2>3 DEF Interrupted
    <2> QED BY <1>2, <2>2, <2>3
<1>5. faults' \in 0 .. MaxFaults /\ (faults' = 0 => faults = 0)
    BY <1>1, <1>2, TypesNow, FaultIs
<1>6. MainFits' /\ Stopped' /\ Counting' /\ HostsFit'
    BY <1>2, <1>3, <1>4, RunEnds
<1>7. Totals'
    BY <1>1, <1>2 DEF Totals
<1>8. Unfailing'
    BY <1>1, <1>2, <1>4, <1>5 DEF Unfailing, Untouched, Roomy, Requested
<1>9. \A g \in Hosts : Facts(g)'
    BY <1>2, <1>4, <1>5, HostsKeep
<1>10. CASE main' = [at |-> "end", then |-> "end"] /\ UNCHANGED <<artifact, delivery>>
    <2>1. TypeOK'
        BY <1>1, <1>2, <1>3, <1>4, <1>5, <1>10 DEF TypeOK
    <2>2. Handed' /\ ArtifactTrue' /\ DeliveredOrKept'
        BY <1>2, <1>10, NothingYet
    <2> QED BY <1>6, <1>7, <1>8, <1>9, <2>1, <2>2 DEF IInv
<1>11. CASE Published /\ main' = [at |-> "upload", then |-> "upload"] /\ faults' = faults
    <2>1. artifact' \in Artifact /\ artifact' # Nothing /\ ArtifactTrue'
        BY <1>2, <1>4, <1>11, PublishedIs
    <2>2. delivery' = [upload |-> "none", kept |-> TRUE] /\ ~broken
        BY <1>1, <1>2, <1>11 DEF Published, TypeOK, Handed
    <2>3. TypeOK'
        BY <1>1, <1>2, <1>3, <1>4, <1>5, <2>1, <2>2 DEF TypeOK
    <2>4. Handed' /\ DeliveredOrKept'
        BY <1>2, <1>11, <2>1, <2>2 DEF Handed, DeliveredOrKept
    <2> QED BY <1>6, <1>7, <1>8, <1>9, <2>1, <2>3, <2>4 DEF IInv
<1> QED BY <1>2, <1>10, <1>11

LEMMA UploadKeeps ==
    ASSUME IInv, Upload
    PROVE  IInv'
<1>1. /\ TypeOK /\ MainFits /\ Stopped /\ Counting /\ HostsFit /\ Handed /\ Totals /\ Unfailing
      /\ ArtifactTrue /\ DeliveredOrKept
      /\ \A g \in Hosts : Facts(g) /\ Ready(g)
    BY Parts
<1>2. /\ main.at = "upload" /\ main' = [at |-> "end", then |-> "end"]
      /\ UNCHANGED <<run, remaining, scan, pending, batch, tally, cancel, stats, buffer, broken, artifact>>
      /\ interrupts' = interrupts \/ (interrupts = {} /\ interrupts' = {"upload"})
      /\ faults' = faults \/ Fault
      /\ \/ delivery' = delivery
         \/ /\ interrupts = {}
            /\ \E outcome \in {"accepted", "failed", "unknown"} :
                  delivery' = [upload |-> outcome, kept |-> outcome # "accepted"]
    BY DEF Upload, MainAt, MayUpload, Delivery
<1>3. artifact # Nothing /\ ~broken /\ delivery = [upload |-> "none", kept |-> TRUE]
    BY <1>1, <1>2 DEF Handed
<1>4. /\ main' \in [at: {"close", "upload", "end"}, then: {"close", "upload", "end"}]
      /\ main'.then = main'.at /\ main'.at = "end" /\ main' \in [at: MainPlaces, then: MainPlaces]
    BY <1>2 DEF MainPlaces
<1>5. /\ Interrupted' = Interrupted /\ interrupts \subseteq interrupts'
      /\ interrupts' \subseteq {"scan", "close", "upload"}
    <2>1. interrupts \subseteq {"scan", "close", "upload"}
        BY <1>1 DEF TypeOK
    <2>2. CASE interrupts' = interrupts
        BY <2>1, <2>2 DEF Interrupted
    <2>3. CASE interrupts = {} /\ interrupts' = {"upload"}
        BY <2>3 DEF Interrupted
    <2> QED BY <1>2, <2>2, <2>3
<1>6. faults' \in 0 .. MaxFaults /\ (faults' = 0 => faults = 0)
    BY <1>1, <1>2, TypesNow, FaultIs
<1>7. /\ delivery' \in [upload: {"none", "accepted", "failed", "unknown"}, kept: BOOLEAN]
      /\ delivery'.upload = "accepted" \/ delivery'.kept
    <2>1. CASE delivery' = delivery
        BY <1>3, <2>1
    <2>2. ASSUME NEW outcome \in {"accepted", "failed", "unknown"},
                 delivery' = [upload |-> outcome, kept |-> outcome # "accepted"]
          PROVE  /\ delivery' \in [upload: {"none", "accepted", "failed", "unknown"}, kept: BOOLEAN]
                 /\ delivery'.upload = "accepted" \/ delivery'.kept
        BY <2>2
    <2> QED BY <1>2, <2>1, <2>2
<1>8. TypeOK'
    BY <1>1, <1>2, <1>4, <1>5, <1>6, <1>7 DEF TypeOK
<1>9. MainFits' /\ Stopped' /\ Counting' /\ HostsFit'
    BY <1>2, <1>4, <1>5, RunEnds
<1>10. Totals'
    BY <1>1, <1>2 DEF Totals
<1>11. Unfailing'
    BY <1>1, <1>2, <1>5, <1>6 DEF Unfailing, Untouched, Roomy, Requested
<1>12. Handed'
    BY <1>2, <1>4 DEF Handed
<1>13. DeliveredOrKept'
    <2>1. delivery'.upload # "none" => ~Interrupted' /\ "close" \notin interrupts'
        BY <1>2, <1>3, <1>5 DEF Interrupted
    <2> QED BY <1>2, <1>3, <1>7, <2>1 DEF DeliveredOrKept
\* Later steps only take from what is asked of it.
<1>14. ArtifactTrue'
    <2>1. /\ Requested' = Requested /\ (\A h : Due(h)' = Due(h)) /\ Roomy' = Roomy
          /\ run' = run /\ Reach(run.depth)' = Reach(run.depth) /\ artifact' = artifact
        BY <1>2 DEF Requested, Due, Roomy, Reach
    <2> QED BY <1>1, <1>5, <1>6, <2>1 DEF ArtifactTrue
<1>15. \A g \in Hosts : Facts(g)'
    BY <1>2, <1>5, <1>6, HostsKeep
<1> QED BY <1>8, <1>9, <1>10, <1>11, <1>12, <1>13, <1>14, <1>15 DEF IInv

LEMMA StutterKeeps ==
    ASSUME IInv, UNCHANGED vars
    PROVE  IInv'
<1>1. /\ TypeOK /\ MainFits /\ Stopped /\ Counting /\ HostsFit /\ Handed /\ Totals /\ Unfailing
      /\ ArtifactTrue /\ DeliveredOrKept
    BY Parts
<1>2. UNCHANGED <<run, remaining, scan, pending, batch, main, tally, cancel, stats, buffer, broken,
                  artifact, delivery, interrupts, faults>>
    BY DEF vars
<1>3. TypeOK'
    BY <1>1, <1>2 DEF TypeOK
<1>4. MainFits' /\ Stopped' /\ Counting' /\ Handed'
    BY <1>1, <1>2 DEF MainFits, Stopped, Counting, Handed, Ended, Scanning, Interrupted, Uncounted
<1>5. HostsFit'
    BY <1>1, <1>2 DEF HostsFit, Running, Scanned
<1>6. Totals' /\ Unfailing'
    BY <1>1, <1>2 DEF Totals, Unfailing, Untouched, Interrupted, Requested, Roomy
<1>7. ArtifactTrue' /\ DeliveredOrKept'
    <2>1. /\ Requested' = Requested /\ (\A h : Due(h)' = Due(h)) /\ Roomy' = Roomy
          /\ Reach(run.depth)' = Reach(run.depth) /\ Interrupted' = Interrupted
        BY <1>2 DEF Requested, Due, Roomy, Reach, Interrupted
    <2> QED BY <1>1, <1>2, <2>1 DEF ArtifactTrue, DeliveredOrKept
<1>8. \A g \in Hosts : Facts(g)'
    BY <1>2, HostsKeep
<1> QED BY <1>3, <1>4, <1>5, <1>6, <1>7, <1>8 DEF IInv

-----------------------------------------------------------------------------
(* Theorems                                                                *)

LEMMA InitFits == Init => IInv
<1> SUFFICES ASSUME Init PROVE IInv
    OBVIOUS
<1>1. Fresh \in Scan /\ Fresh.seen = 0 /\ Fresh.at = "unsubmitted" /\ Fresh.result = Nothing /\ Fresh.found = {}
    <2>1. "unsubmitted" \in Places /\ Nothing \in Result
        BY DEF Places, Result
    <2> QED BY <2>1, AtIs DEF Fresh, At
<1>2. /\ scan \in [Hosts -> Scan]
      /\ \A h \in Hosts : /\ scan[h].at = "unsubmitted" /\ scan[h].result = Nothing
                          /\ scan[h].found = {} /\ scan[h].seen = 0
    BY <1>1 DEF Init
<1>3. /\ run \in Runs /\ run.disabled \in BOOLEAN /\ run.cap \in Nat /\ run.workers \in Nat \ {0}
    BY HostScanAssumption DEF Init
<1>4. /\ stats \in Stats /\ stats.errors = run.disabled /\ stats.gaps = run.disabled
      /\ stats.endpoints = 0 /\ stats.resources = 0 /\ stats.items = 0
    BY <1>3 DEF Init, Stats
<1>5. TypeOK
    <2>1. main \in [at: MainPlaces, then: MainPlaces]
        BY DEF Init, MainPlaces
    <2>2. buffer \in Records
        BY DEF Init, Records
    <2>3. \A h \in Hosts : scan[h].seen <= run.cap
        BY <1>2, <1>3
    <2>4. faults \in 0 .. MaxFaults
        BY HostScanAssumption DEF Init
    <2> QED BY <1>2, <1>3, <1>4, <2>1, <2>2, <2>3, <2>4 DEF Init, TypeOK, Stats
<1>6. Cardinality({}) = 0
    BY FS_EmptySet
<1>7. ~Interrupted /\ Scanning /\ ~Scanned
    BY DEF Init, Interrupted, Scanning, Scanned
<1>8. MainFits
    BY <1>3, <1>6 DEF Init, MainFits
<1>9. Stopped
    BY <1>4, <1>7 DEF Init, Stopped
<1>10. Counting
    <2>1. Uncounted = 0
        BY <1>6 DEF Init, Uncounted
    <2>2. Cardinality(Hosts) \in Nat
        BY HostSets
    <2> QED BY <2>1, <2>2 DEF Init, Counting
<1>11. HostsFit
    <2>1. Running = {}
        BY <1>2 DEF Running, Idle
    <2> QED BY <1>2, <1>3, <1>6, <1>7, <2>1, HostScanAssumption DEF Init, HostsFit
<1>12. Handed /\ ArtifactTrue /\ DeliveredOrKept
    BY DEF Init, Handed, ArtifactTrue, DeliveredOrKept
<1>13. Totals /\ Unfailing
    BY <1>4, <1>6 DEF Init, Totals, Unfailing
<1>14. ASSUME NEW h \in Hosts
       PROVE  Facts(h)
    <2>1. Unseen(h)
        BY <1>2 DEF Init, Unseen, Before, Serving, Shown
    <2>2. Structure(h)
        BY <1>2 DEF Structure, Serving
    <2>3. ListsKept(h)
        BY DEF Init, ListsKept
    <2>4. Contents(h)
        BY <1>2 DEF Contents, Serving
    <2>5. Smooth(h)
        BY <1>2 DEF Smooth, Serving
    <2> QED BY <2>1, <2>2, <2>3, <2>4, <2>5 DEF Facts
<1> QED BY <1>5, <1>8, <1>9, <1>10, <1>11, <1>12, <1>13, <1>14 DEF IInv

\* At every moment nothing is recorded ahead of the thread of a host; up to where the thread
\* is, nothing is missing that is not known to be; and every host is counted, waited for or
\* the one an interrupt or a lost error record hit (_scan_targets, scan_host, main).
THEOREM InductiveInvariant == Spec => []IInv
<1>1. IInv /\ [Next]_vars => IInv'
    <2> SUFFICES ASSUME IInv, [Next]_vars PROVE IInv'
        OBVIOUS
    <2>1. CASE MainStep
        BY <2>1, SubmitKeeps, WaitKeeps, ConsumeKeeps, OrchestrationFailsKeeps, ShutDownKeeps,
           ReportKeeps, CloseKeeps, UploadKeeps DEF MainStep
    <2>2. CASE Interrupt
        BY <2>2, InterruptKeeps
    <2>3. CASE Done \/ UNCHANGED vars
        BY <2>3, StutterKeeps DEF Done
    <2>4. CASE \E h \in Hosts : Thread(h)
        BY <2>4, ThreadKeeps
    <2> QED BY <2>1, <2>2, <2>3, <2>4 DEF Next
<1> QED BY <1>1, InitFits, PTL DEF Spec

LEMMA AccountedFor == IInv => Accounted
<1> SUFFICES ASSUME IInv PROVE Accounted
    OBVIOUS
<1>1. TypeOK /\ MainFits /\ Counting /\ HostsFit
    BY Parts
<1>2. ASSUME main.at \in {"report", "close", "upload"}
      PROVE  /\ pending = {} /\ Running = {}
             /\ ~cancel => tally.completed = Cardinality(Hosts) /\ tally.cancelled = 0
    <2>1. pending = {}
        BY <1>1, <1>2 DEF MainFits
    <2>2. Running = {}
        BY <1>1, <1>2 DEF HostsFit, Scanned, Running, Idle
    <2>3. ASSUME ~cancel
          PROVE  tally.completed = Cardinality(Hosts) /\ tally.cancelled = 0
        <3>1. remaining = {} /\ Cardinality({}) = 0 /\ Cardinality(Hosts) \in Nat
            BY <1>1, <1>2, <2>3, HostSets, FS_EmptySet DEF MainFits
        <3>2. Uncounted = 0 /\ tally.submitted = Cardinality(Hosts) - Cardinality(remaining) /\ tally.cancelled = 0
            BY <1>1, <1>2, <2>3 DEF Counting
        <3> QED BY <1>1, <2>1, <3>1, <3>2, TallyIs DEF Uncounted
    <2> QED BY <2>1, <2>2, <2>3
<1> QED BY <1>1, <1>2 DEF Accounted, MainFits, HostsFit, Counting

\* What a collector's artifact claims of itself is so, and its runs are accounted for, for
\* any hosts, shares and trees (ClaimsHold).
THEOREM ClaimsAreTrue == Spec => []ClaimsHold
<1>1. IInv => ClaimsHold
    BY AccountedFor, Parts DEF ClaimsHold
<1> QED BY <1>1, InductiveInvariant, PTL

\* An artifact that was finalized has reached the server or is still on disk when the
\* collector stops, and only that of an uninterrupted run has reached it (DeliveredOrKept).
THEOREM NothingIsLost == Spec => []DeliveredOrKept
<1>1. IInv => DeliveredOrKept
    BY Parts
<1> QED BY <1>1, InductiveInvariant, PTL
=============================================================================

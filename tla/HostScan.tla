------------------------------ MODULE HostScan ------------------------------
(***************************************************************************)
(* The network collector: a main thread that feeds hosts to a thread pool, *)
(* threads that list the SMB shares and NFS exports of one host each, the  *)
(* buffer they share, and the artifact of the run with what it claims to   *)
(* have seen.  The operator may interrupt the run, hosts may fail anywhere *)
(* and the disk may fill up.  One step is one answer of a host with the    *)
(* records it leads to.                                                    *)
(***************************************************************************)
EXTENDS Integers, FiniteSets

CONSTANTS
    Hosts,       \* the targets of the run
    Shares,      \* names of SMB shares
    SharesOf,    \* the shares of a host that the run is to list
    Exports,     \* paths of NFS exports
    ExportsOf,   \* the exports of a host
    Entries,     \* files and folders; every share holds the same ones
    Folders,     \* the entries that are folders
    ParentOf,    \* the folder an entry is in
    Root,        \* the top of a share
    Runs,        \* what a run may be asked to do
    MaxFaults,   \* bound: failures of hosts, network, disk and upload
    Nothing

\* What an artifact can hold.
Records  == [endpoints: SUBSET (Hosts \X {"smb", "nfs"}), resources: SUBSET (Hosts \X (Shares \cup Exports)),
             items: SUBSET (Hosts \X Shares \X Entries), lists: SUBSET (Hosts \X Shares)]
Artifact == [claims: [structural: BOOLEAN, permissions: BOOLEAN, content: BOOLEAN],
             records: Records, counts: Nat \X Nat \X Nat]

ASSUME HostScanAssumption ==
    /\ IsFiniteSet(Hosts) /\ IsFiniteSet(Shares) /\ IsFiniteSet(Exports) /\ IsFiniteSet(Entries)
    /\ SharesOf \in [Hosts -> SUBSET Shares] /\ ExportsOf \in [Hosts -> SUBSET Exports]
    /\ Shares \cap Exports = {}            \* a record names its protocol
    /\ Folders \subseteq Entries /\ Root \notin Entries
    /\ ParentOf \in [Entries -> Folders \cup {Root}]
    /\ \A e \in Entries : ParentOf[e] # Root => ParentOf[ParentOf[e]] = Root
    \* requested protocols, whether SMB lacks its library, named shares, threads, depth and
    \* size of a listing, and whether permissions are read and the artifact is uploaded
    /\ Runs \subseteq [types: (SUBSET {"smb", "nfs"}) \ {{}}, disabled: BOOLEAN,
                       named: {Nothing} \cup ((SUBSET Shares) \ {{}}), workers: Nat \ {0},
                       depth: Nat \ {0}, cap: Nat \ {0}, permissions: BOOLEAN, upload: BOOLEAN]
    /\ \A r \in Runs : r.disabled => r.types = {"smb", "nfs"}
    /\ MaxFaults \in Nat
    /\ Nothing \notin Artifact /\ Nothing \notin {"ok", "failed", "error", "cancelled"}

VARIABLES
    run,        \* what this run was asked to do
    remaining,  \* targets that were not submitted
    scan,       \* what the thread of a host is doing
    pending,    \* futures the main thread waits for
    batch,      \* those that were done when it last looked
    main,       \* where the main thread is, and where it goes when the batch is empty
    tally,      \* what it counted of the targets
    cancel,     \* cancel_event
    stats,      \* what the threads counted
    buffer,     \* records in the spool
    broken,     \* a record could not be written: write_failed
    artifact,   \* the finalized file
    delivery,   \* whether it was uploaded, and whether the file is kept
    interrupts, \* where the operator interrupted the run
    faults

vars == <<run, remaining, scan, pending, batch, main, tally, cancel, stats, buffer, broken,
          artifact, delivery, interrupts, faults>>
threadVars == <<scan, stats, buffer>>
mainVars   == <<run, remaining, pending, batch, main, tally, artifact, delivery, interrupts>>

Requested == run.types
Active    == IF run.disabled THEN run.types \ {"smb"} ELSE run.types

\* ---------------------------------------------------------------------- state

Places == {"unsubmitted", "queued", "connect", "greet", "list_shares", "next_share", "tree",
           "walk", "probe", "acl", "smb_done", "nfs", "exports", "nfs_done", "ended"}
Idle   == {"unsubmitted", "queued", "ended"}
\* Between calls, where a thread has nothing in hand.
At(place, ok, result) ==
    [at |-> place, left |-> {}, share |-> Nothing, todo |-> {}, seen |-> 0,
     tree |-> FALSE, ok |-> ok, found |-> {}, result |-> result]
Fresh  == At("unsubmitted", FALSE, Nothing)

Running == {h \in Hosts : scan[h].at \notin Idle}
Ended   == {h \in Hosts : scan[h].at = "ended"}
Reach(depth) == IF depth > 1 THEN Entries ELSE {e \in Entries : ParentOf[e] = Root}

Init ==
    /\ run \in Runs
    /\ remaining = Hosts /\ pending = {} /\ batch = {}
    /\ scan = [h \in Hosts |-> Fresh]
    /\ main = [at |-> "submit", then |-> "submit"]
    /\ tally = [submitted |-> 0, completed |-> 0, cancelled |-> 0, failures |-> 0]
    /\ cancel = FALSE /\ broken = FALSE /\ artifact = Nothing
    /\ stats = [errors |-> run.disabled, incomplete |-> FALSE, assessed |-> FALSE,
                gaps |-> run.disabled, endpoints |-> 0, resources |-> 0, items |-> 0]
    /\ buffer = [endpoints |-> {}, resources |-> {}, items |-> {}, lists |-> {}]
    /\ delivery = [upload |-> "none", kept |-> FALSE]
    /\ interrupts = {} /\ faults = 0

Fault == faults < MaxFaults /\ faults' = faults + 1

\* --------------------------------------------------------------------- threads

To(h, place)          == scan' = [scan EXCEPT ![h].at = place]
Find(h, place, found) == scan' = [scan EXCEPT ![h].at = place, ![h].found = found]
Serve(h, open, place) == scan' = [scan EXCEPT ![h].tree = open, ![h].at = place]

\* NDJSONWriter.emit: after a failure records are dropped in silence.
Emit(kind, records) ==
    buffer' = IF broken THEN buffer ELSE [buffer EXCEPT ![kind] = @ \cup records]
Counted(kind, n)    == [stats EXCEPT ![kind] = @ + n]
Trouble(gap)        == stats' = [stats EXCEPT !.errors = TRUE, !.gaps = @ \/ gap]
Quiet               == UNCHANGED <<stats, buffer>>
Others              == UNCHANGED <<cancel, broken>> /\ UNCHANGED mainVars

End(h, result) == scan' = [scan EXCEPT ![h] = At("ended", FALSE, result)]

\* scan_host: a thread of the pool takes a target.
Begin(h) ==
    /\ scan[h].at = "queued" /\ Cardinality(Running) < run.workers
    /\ IF cancel THEN End(h, "cancelled") ELSE To(h, IF "smb" \in Active THEN "connect" ELSE "nfs")
    /\ Quiet /\ UNCHANGED faults /\ Others

\* scan_host_smb returns.
Return(h, ok) == scan' = [scan EXCEPT ![h] = At("smb_done", ok, Nothing)]
Refused(h)    == Fault /\ Trouble(FALSE) /\ Return(h, FALSE) /\ UNCHANGED buffer

Connect(h) ==
    /\ scan[h].at = "connect" /\ Others
    /\ \/ cancel /\ Return(h, FALSE) /\ Quiet /\ UNCHANGED faults
       \/ ~cancel /\ To(h, "greet") /\ Quiet /\ UNCHANGED faults
       \/ ~cancel /\ Refused(h)

\* The session is open; the server may have made it a guest's.
Greet(h) ==
    /\ scan[h].at = "greet" /\ Others
    /\ \/ cancel /\ Return(h, FALSE) /\ Quiet /\ UNCHANGED faults
       \/ /\ ~cancel /\ Emit("endpoints", {<<h, "smb">>})
          /\ \/ stats' = Counted("endpoints", 1) /\ To(h, "list_shares") /\ UNCHANGED faults
             \/ /\ Fault /\ stats' = [Counted("endpoints", 1) EXCEPT !.errors = TRUE, !.gaps = TRUE]
                /\ Find(h, "list_shares", {"guest"})

\* A guest is shown some of the shares; an enumeration may be denied or fail.
ListShares(h) ==
    /\ scan[h].at = "list_shares" /\ Others /\ UNCHANGED buffer
    /\ \/ /\ run.named # Nothing /\ UNCHANGED <<stats, faults>>
          /\ scan' = [scan EXCEPT ![h].at = "next_share", ![h].left = run.named]
       \/ /\ run.named = Nothing /\ UNCHANGED <<stats, faults>>
          /\ \E shown \in SUBSET SharesOf[h] :
                /\ scan[h].found = {} => shown = SharesOf[h]
                /\ scan' = [scan EXCEPT ![h].at = "next_share", ![h].left = shown]
       \/ run.named = Nothing /\ Fault /\ Trouble(TRUE) /\ Return(h, TRUE)
       \/ run.named = Nothing /\ Refused(h)

Into(h, s) ==
    scan' = [scan EXCEPT ![h].at = "tree", ![h].share = s, ![h].left = @ \ {s},
                         ![h].todo = {Root}, ![h].seen = 0]
NextShare(h) ==
    /\ scan[h].at = "next_share" /\ Others /\ UNCHANGED faults
    /\ \/ (scan[h].left = {} \/ cancel) /\ Return(h, TRUE) /\ Quiet
       \/ /\ ~cancel
          /\ \E s \in scan[h].left :
                /\ Into(h, s)
                /\ Emit("resources", {<<h, s>>})
                /\ stats' = Counted("resources", 1)

\* The tree serves the probes and the descriptors; a probe of the root may lose it again.
Tree(h) ==
    /\ scan[h].at = "tree" /\ Others /\ UNCHANGED buffer
    /\ \/ cancel /\ Serve(h, FALSE, "walk") /\ UNCHANGED <<stats, faults>>
       \/ ~cancel /\ scan[h].share \in SharesOf[h] /\ Serve(h, TRUE, "walk") /\ UNCHANGED <<stats, faults>>
       \/ ~cancel /\ scan[h].share \notin SharesOf[h] /\ Serve(h, FALSE, "walk") /\ Trouble(FALSE) /\ UNCHANGED faults
       \/ ~cancel /\ Fault /\ Serve(h, FALSE, "walk") /\ Trouble(FALSE)
       \/ ~cancel /\ Fault /\ Serve(h, FALSE, "walk") /\ UNCHANGED stats
       \/ ~cancel /\ Fault /\ Trouble(FALSE) /\ \E open \in BOOLEAN : Serve(h, open, "acl")

\* list_share_entries, one folder at a time and any of the waiting ones first; the cap may
\* fall in the middle of a folder, or on the last entry of one with others waiting.
Inside(folder) == {e \in Entries : ParentOf[e] = folder}
Cut(h, folder) ==
    {took \in SUBSET Inside(folder) :
        \/ took = Inside(folder) /\ scan[h].seen + Cardinality(took) <= run.cap
        \/ took # Inside(folder) /\ scan[h].seen + Cardinality(took) = run.cap}
Deeper(folder, took) == IF folder = Root /\ run.depth > 1 THEN took \cap Folders ELSE {}
\* Mutant of Capped: an entry cap that falls between two folders goes unnoticed.
CappedInsideOnly(h, folder, took, waiting) ==
    scan[h].seen + Cardinality(took) = run.cap /\ took # Inside(folder)
Capped(h, folder, took, waiting) ==
    /\ scan[h].seen + Cardinality(took) = run.cap
    /\ took # Inside(folder) \/ waiting # {}

Take(h, took, waiting) ==
    scan' = [scan EXCEPT ![h].todo = waiting, ![h].seen = @ + Cardinality(took)]
\* One folder cannot be read, the connection is lost, or the listing as a whole fails.
Miss(h) ==
    \/ \E folder \in scan[h].todo : scan' = [scan EXCEPT ![h].todo = @ \ {folder}]
    \/ scan' = [scan EXCEPT ![h].todo = {}, ![h].tree = FALSE]
    \/ scan' = [scan EXCEPT ![h].todo = {}, ![h].at = "acl"]

Walk(h) ==
    LET Stop == scan[h].todo = {} \/ scan[h].seen = run.cap \/ cancel IN
    /\ scan[h].at = "walk" /\ Others
    /\ \/ Stop /\ To(h, "probe") /\ Quiet /\ UNCHANGED faults
       \/ /\ ~Stop /\ scan[h].share \in SharesOf[h] /\ UNCHANGED faults
          /\ \E folder \in scan[h].todo : \E took \in Cut(h, folder) :
                LET waiting == (scan[h].todo \ {folder}) \cup Deeper(folder, took)
                    items   == Counted("items", Cardinality(took))
                IN  /\ Take(h, took, waiting)
                    /\ Emit("items", {<<h, scan[h].share, e>> : e \in took})
                    /\ stats' = [items EXCEPT !.errors = @ \/ Capped(h, folder, took, waiting)]
       \/ /\ ~Stop /\ scan[h].share \notin SharesOf[h] /\ UNCHANGED <<faults, buffer>>
          /\ Trouble(FALSE) /\ scan' = [scan EXCEPT ![h].todo = {}]
       \/ ~Stop /\ Fault /\ Trouble(FALSE) /\ UNCHANGED buffer /\ Miss(h)

\* Handle probes below the listing; a lost connection shows in the descriptors, an
\* unexpected answer in the errors.
Probe(h) ==
    /\ scan[h].at = "probe" /\ Others /\ UNCHANGED buffer
    /\ \/ To(h, "acl") /\ UNCHANGED <<stats, faults>>
       \/ /\ scan[h].tree /\ ~cancel /\ Fault
          /\ \E open \in BOOLEAN :
                /\ Serve(h, open, "acl")
                /\ Trouble(FALSE) \/ (~open /\ UNCHANGED stats)

\* The descriptors of the share, and its final record.
Descriptors(h, whole) ==
    /\ To(h, "next_share")
    /\ stats' = [stats EXCEPT !.assessed = TRUE, !.incomplete = @ \/ ~whole, !.errors = @ \/ ~whole]
    /\ Emit("lists", IF whole THEN {<<h, scan[h].share>>} ELSE {})
Acl(h) ==
    /\ scan[h].at = "acl" /\ Others
    /\ \/ ~run.permissions /\ To(h, "next_share") /\ Quiet /\ UNCHANGED faults
       \/ run.permissions /\ Descriptors(h, scan[h].tree /\ ~cancel) /\ UNCHANGED faults
       \/ run.permissions /\ Fault /\ Descriptors(h, FALSE)
       \/ Refused(h)
       \/ Fault /\ End(h, "error") /\ Quiet

\* scan_host goes on after scan_host_smb.
SmbDone(h) ==
    /\ scan[h].at = "smb_done" /\ Others /\ UNCHANGED <<buffer, faults>>
    /\ \/ cancel /\ End(h, "cancelled") /\ UNCHANGED stats
       \/ /\ ~cancel /\ stats' = [stats EXCEPT !.gaps = @ \/ ~scan[h].ok]
          /\ IF "nfs" \in Active THEN To(h, "nfs")
             ELSE End(h, IF scan[h].ok THEN "ok" ELSE "failed")

\* scan_host_nfs; "exports" are known to be all when mountd's answer was whole and the
\* server does not speak NFSv4, whose namespace is not listed.
Nfs(h) ==
    /\ scan[h].at = "nfs" /\ Others
    \* Cancelled between the two protocols, the host is left as it is.
    /\ \/ /\ cancel /\ Quiet /\ UNCHANGED faults
          /\ End(h, IF scan[h].ok THEN "ok" ELSE "failed")
       \/ cancel /\ Find(h, "nfs_done", {}) /\ Quiet /\ UNCHANGED faults
       \/ ~cancel /\ Fault /\ Find(h, "nfs_done", {}) /\ Trouble(FALSE) /\ UNCHANGED buffer
       \/ /\ ~cancel /\ Emit("endpoints", {<<h, "nfs">>})
          /\ \/ /\ Find(h, "exports", ExportsOf[h]) /\ UNCHANGED faults
                /\ stats' = Counted("endpoints", 1)
             \/ /\ Fault /\ \E e \in SUBSET ExportsOf[h] : Find(h, "exports", e)
                /\ stats' = [Counted("endpoints", 1) EXCEPT !.errors = TRUE, !.gaps = TRUE]

ListExports(h) ==
    /\ scan[h].at = "exports" /\ Others /\ UNCHANGED faults
    /\ Find(h, "nfs_done", {"nfs"})
    /\ LET told == IF cancel THEN {} ELSE scan[h].found IN
       /\ Emit("resources", {<<h, e>> : e \in told})
       /\ stats' = Counted("resources", Cardinality(told))

NfsDone(h) ==
    /\ scan[h].at = "nfs_done" /\ Others /\ UNCHANGED <<buffer, faults>>
    /\ \/ cancel /\ End(h, "cancelled") /\ UNCHANGED stats
       \/ /\ ~cancel /\ stats' = [stats EXCEPT !.gaps = @ \/ scan[h].found = {}]
          /\ End(h, IF scan[h].ok \/ scan[h].found # {} THEN "ok" ELSE "failed")

\* The disk is full or the artifact's limit reached: the thread ends with the error.
WriteFails(h) ==
    /\ scan[h].at \notin Idle \cup {"smb_done", "nfs_done"}
    /\ ~broken /\ Fault /\ broken' = TRUE /\ End(h, "error")
    /\ UNCHANGED <<stats, buffer, cancel>> /\ UNCHANGED mainVars

Thread(h) ==
    \/ Begin(h) \/ Connect(h) \/ Greet(h) \/ ListShares(h) \/ NextShare(h) \/ Tree(h) \/ Walk(h)
    \/ Probe(h) \/ Acl(h) \/ SmbDone(h) \/ Nfs(h) \/ ListExports(h) \/ NfsDone(h) \/ WriteFails(h)

\* --------------------------------------------------------------- main thread

Threads    == UNCHANGED threadVars
MainAt(at) == main' = [at |-> at, then |-> at]
Abort      == MainAt("end") /\ UNCHANGED artifact

\* _scan_targets: at most twice as many futures as threads are waited for.
Submit ==
    /\ main.at = "submit"
    /\ \/ (remaining = {} \/ cancel) /\ MainAt("drain") /\ UNCHANGED <<remaining, pending, tally, scan>>
       \/ /\ ~cancel
          /\ \E h \in remaining :
                /\ remaining' = remaining \ {h} /\ pending' = pending \cup {h}
                /\ scan' = [scan EXCEPT ![h].at = "queued"]
                /\ tally' = [tally EXCEPT !.submitted = @ + 1]
                /\ MainAt(IF Cardinality(pending') < 2 * run.workers THEN "submit" ELSE "wait")
    /\ UNCHANGED <<run, batch, cancel, stats, buffer, broken, artifact, delivery, interrupts, faults>>

\* Mutant of Finished: a future that was cancelled never counts as done.
FinishedUncancelled == {h \in pending \cap Ended : scan[h].result # "cancelled"}
Finished == pending \cap Ended

Wait ==
    /\ main.at \in {"wait", "drain"}
    /\ \/ main.at = "drain" /\ pending = {} /\ MainAt("shutdown") /\ UNCHANGED batch
       \/ /\ Finished # {} /\ batch' = Finished
          /\ main' = [at |-> "consume", then |-> IF main.at = "wait" THEN "submit" ELSE "drain"]
    /\ UNCHANGED <<run, remaining, pending, tally, cancel, broken, artifact, delivery, interrupts, faults>>
    /\ Threads

\* Mutant of CountResult: a host whose thread failed is completed without a failure.
CountResultKindly(result) ==
    [tally EXCEPT !.cancelled = @ + (IF result = "cancelled" THEN 1 ELSE 0),
                  !.completed = @ + (IF result = "cancelled" THEN 0 ELSE 1),
                  !.failures  = @ + (IF result = "failed" THEN 1 ELSE 0)]
\* Mutant of CountResult: a cancelled host is neither completed nor cancelled.
CountResultUncancelled(result) ==
    [tally EXCEPT !.completed = @ + (IF result = "cancelled" THEN 0 ELSE 1),
                  !.failures  = @ + (IF result \in {"failed", "error"} THEN 1 ELSE 0)]
CountResult(result) ==
    [tally EXCEPT !.cancelled = @ + (IF result = "cancelled" THEN 1 ELSE 0),
                  !.completed = @ + (IF result = "cancelled" THEN 0 ELSE 1),
                  !.failures  = @ + (IF result \in {"failed", "error"} THEN 1 ELSE 0)]

\* _consume, one future; a run that cannot write any more starts no other host.
Consume(h) ==
    /\ main.at = "consume" /\ h \in batch
    /\ batch' = batch \ {h} /\ pending' = pending \ {h}
    /\ tally' = CountResult(scan[h].result)
    /\ stats' = [stats EXCEPT !.errors = @ \/ scan[h].result = "error"]
    /\ cancel' = (cancel \/ broken)
    /\ IF batch' = {} THEN MainAt(main.then) ELSE UNCHANGED main
    /\ UNCHANGED <<run, remaining, scan, buffer, broken, artifact, delivery, interrupts, faults>>

\* The record of a failed thread cannot be written: its future is lost to the count.
OrchestrationFails(h) ==
    /\ main.at = "consume" /\ h \in batch /\ scan[h].result = "error" /\ ~broken
    /\ Fault /\ broken' = TRUE /\ batch' = {} /\ pending' = pending \ {h}
    /\ IF main.then = "report" THEN Abort /\ UNCHANGED <<cancel, tally, stats>>
       ELSE /\ cancel' = TRUE /\ tally' = [tally EXCEPT !.failures = @ + 1]
            /\ stats' = [stats EXCEPT !.errors = TRUE] /\ MainAt("shutdown") /\ UNCHANGED artifact
    /\ UNCHANGED <<run, remaining, scan, buffer, delivery, interrupts>>

\* The operator interrupts the scan, perhaps just before a submitted host is registered or
\* just after a finished one is taken off the list.
Interrupt ==
    /\ interrupts = {} /\ interrupts' = {"scan"} /\ cancel' = TRUE
    /\ main.at \in {"submit", "wait", "drain", "consume"} /\ main.then # "report"
    /\ MainAt("shutdown") /\ batch' = {}
    /\ \/ UNCHANGED <<scan, remaining, pending>>
       \/ /\ main.at = "submit" /\ UNCHANGED pending
          /\ \E h \in remaining : remaining' = remaining \ {h} /\ scan' = [scan EXCEPT ![h].at = "queued"]
       \/ /\ main.at = "consume" /\ UNCHANGED <<scan, remaining>>
          /\ \E h \in batch : pending' = pending \ {h}
    /\ UNCHANGED <<run, tally, stats, buffer, broken, artifact, delivery, faults>>

\* The pool is shut down: hosts that did not begin are dropped when the run is cancelled,
\* those that did are waited for, and what is left is counted.
ShutDown ==
    /\ main.at = "shutdown" /\ Running = {}
    /\ cancel \/ \A h \in Hosts : scan[h].at # "queued"
    /\ scan' = [h \in Hosts |-> IF scan[h].at = "queued"
                                THEN At("ended", FALSE, "cancelled") ELSE scan[h]]
    /\ batch' = pending
    /\ IF pending = {} THEN MainAt("report") ELSE main' = [at |-> "consume", then |-> "report"]
    /\ UNCHANGED <<run, remaining, pending, tally, cancel, stats, buffer, broken, artifact, delivery,
                   interrupts, faults>>

\* ---------------------------------------------------------------- the artifact

Interrupted == "scan" \in interrupts

\* Mutant of Structural: an interrupted run may claim a whole structure.
StructuralInterrupted ==
    /\ tally.failures = 0 /\ tally.cancelled = 0
    /\ tally.completed = Cardinality(Hosts) /\ ~stats.gaps
Structural ==
    /\ ~Interrupted /\ tally.failures = 0 /\ tally.cancelled = 0
    /\ tally.completed = Cardinality(Hosts) /\ ~stats.gaps
Claims ==
    [structural  |-> Structural,
     permissions |-> run.permissions /\ stats.assessed /\ ~stats.incomplete /\ Structural,
     content     |-> ~Interrupted /\ tally.failures = 0 /\ ~stats.errors /\ "nfs" \notin Requested]

\* main: the last records, each of which may not fit any more.
Report ==
    /\ main.at = "report"
    /\ stats' = [stats EXCEPT !.errors = @ \/ Interrupted]
    /\ \/ MainAt("close") /\ UNCHANGED <<broken, faults>>
       \/ ~broken /\ Fault /\ broken' = TRUE /\ \E at \in {"close", "end"} : MainAt(at)
    /\ UNCHANGED <<run, remaining, scan, pending, batch, tally, cancel, buffer, artifact, delivery, interrupts>>

HasData == stats.endpoints > 0 \/ stats.resources > 0 \/ stats.items > 0 \/ stats.errors
Published ==
    /\ ~broken /\ HasData
    /\ artifact' = [claims |-> Claims, records |-> buffer,
                    counts |-> <<stats.endpoints, stats.resources, stats.items>>]
    /\ delivery' = [delivery EXCEPT !.kept = TRUE]

\* NDJSONWriter.close and the retry after an interrupt.
Close ==
    /\ main.at = "close"
    /\ \/ (broken \/ ~HasData) /\ Abort /\ UNCHANGED <<delivery, interrupts, faults>>
       \/ ~broken /\ HasData /\ Fault /\ Abort /\ UNCHANGED <<delivery, interrupts>>
       \/ Published /\ MainAt("upload") /\ UNCHANGED <<interrupts, faults>>
       \/ /\ interrupts = {} /\ interrupts' = {"close"} /\ UNCHANGED faults
          /\ \/ Published /\ MainAt("upload")
             \/ Abort /\ UNCHANGED delivery
    /\ UNCHANGED <<run, remaining, scan, pending, batch, tally, cancel, stats, buffer, broken>>

\* Mutant of Delivery: the local file goes whatever came of the upload.
DeliveryAlwaysClean(outcome) == [upload |-> outcome, kept |-> FALSE]
Delivery(outcome) == [upload |-> outcome, kept |-> outcome # "accepted"]
\* Mutant of MayUpload: a partial artifact of an interrupted scan is uploaded.
MayUploadAlways == run.upload
MayUpload       == run.upload /\ interrupts = {}

Upload ==
    /\ main.at = "upload" /\ MainAt("end")
    /\ \/ ~MayUpload /\ UNCHANGED <<delivery, interrupts, faults>>
       \/ MayUpload /\ delivery' = Delivery("accepted") /\ UNCHANGED <<interrupts, faults>>
       \/ MayUpload /\ Fault /\ delivery' = Delivery("failed") /\ UNCHANGED interrupts
       \/ /\ MayUpload /\ interrupts = {} /\ interrupts' = {"upload"} /\ UNCHANGED faults
          /\ delivery' = Delivery("unknown")
    /\ UNCHANGED <<run, remaining, scan, pending, batch, tally, cancel, stats, buffer, broken, artifact>>

Done == main.at = "end" /\ UNCHANGED vars

MainStep ==
    \/ Submit \/ Wait \/ ShutDown \/ Report \/ Close \/ Upload
    \/ \E h \in Hosts : Consume(h) \/ OrchestrationFails(h)

Next == MainStep \/ Interrupt \/ Done \/ \E h \in Hosts : Thread(h)
Spec == Init /\ [][Next]_vars

\* Every call to a host has a timeout, and the threads of the process are scheduled.
FairSpec == Spec /\ WF_vars(MainStep) /\ \A h \in Hosts : WF_vars(Thread(h))

\* ------------------------------------------------------------------ properties

Result == {Nothing, "ok", "failed", "error", "cancelled"}
Scan   == [at: Places, left: SUBSET Shares, share: Shares \cup {Nothing}, todo: SUBSET (Folders \cup {Root}),
           seen: Nat, tree: BOOLEAN, ok: BOOLEAN, found: SUBSET (Exports \cup {"guest", "nfs"}), result: Result]
MainPlaces == {"submit", "wait", "drain", "consume", "shutdown", "report", "close", "upload", "end"}

TypeOK ==
    /\ run \in Runs /\ remaining \subseteq Hosts /\ batch \subseteq pending /\ pending \subseteq Hosts
    /\ scan \in [Hosts -> Scan] /\ \A h \in Hosts : scan[h].seen <= run.cap
    /\ main \in [at: MainPlaces, then: MainPlaces]
    /\ tally \in [submitted: Nat, completed: Nat, cancelled: Nat, failures: Nat]
    /\ stats \in [errors: BOOLEAN, incomplete: BOOLEAN, assessed: BOOLEAN, gaps: BOOLEAN,
                  endpoints: Nat, resources: Nat, items: Nat]
    /\ buffer \in Records /\ artifact \in Artifact \cup {Nothing}
    /\ cancel \in BOOLEAN /\ broken \in BOOLEAN /\ faults \in 0 .. MaxFaults
    /\ interrupts \subseteq {"scan", "close", "upload"}
    /\ delivery \in [upload: {"none", "accepted", "failed", "unknown"}, kept: BOOLEAN]

\* Submitted hosts that neither wait for the main thread nor were counted by it.
Uncounted == tally.submitted - tally.completed - tally.cancelled - Cardinality(pending)

\* However threads end, are cancelled or fail, no more hosts are scanned at once than there
\* are threads and no more are waited for than twice as many, and every submitted host is
\* counted once while the run goes on; only the one an interrupt or a lost error record hits
\* may be missing, and a run that was not cancelled has counted them all when it reports
\* (_scan_targets, _consume, _handle_scan_result).
Accounted ==
    /\ TypeOK
    /\ Cardinality(Running) <= run.workers /\ Cardinality(pending) <= 2 * run.workers
    /\ Uncounted >= 0
    /\ main.at # "end" => Uncounted <= (IF Interrupted \/ broken THEN 1 ELSE 0)
    /\ main.at \in {"report", "close", "upload"} =>
          /\ pending = {} /\ Running = {}
          /\ ~cancel => tally.completed = Cardinality(Hosts) /\ tally.cancelled = 0

Due(h) == IF run.named = Nothing THEN SharesOf[h] ELSE SharesOf[h] \cap run.named

\* No listing ends at its cap: at the cap a folder that waits counts as unseen, also an empty one.
Roomy == \/ Cardinality(Entries) < run.cap
         \/ Cardinality(Entries) = run.cap /\ \A folder \in Folders : Inside(folder) # {}

\* What an artifact says of itself is so, and a run nothing happened to says all of it
\* (main, the final collection_context; run comparison concludes removals from it):
\* - a whole structure has every share and export of every requested protocol;
\* - whole permissions have the descriptors of every share that is in it;
\* - a whole content has every entry of every share down to the depth;
\* - its totals are the numbers of its distinct records.
ArtifactTrue ==
    artifact # Nothing =>
        LET records == artifact.records
            whole   == faults = 0 /\ ~Interrupted /\ ~run.disabled
        IN  /\ artifact.claims.structural => \A h \in Hosts :
                  /\ \A t \in Requested : <<h, t>> \in records.endpoints
                  /\ "smb" \in Requested => \A s \in Due(h) : <<h, s>> \in records.resources
                  /\ "nfs" \in Requested => \A e \in ExportsOf[h] : <<h, e>> \in records.resources
            /\ artifact.claims.permissions =>
                  \A r \in records.resources : r[2] \in Shares => r \in records.lists
            /\ artifact.claims.content => \A h \in Hosts : \A s \in Due(h) :
                  \A e \in Reach(run.depth) : <<h, s, e>> \in records.items
            /\ artifact.counts = <<Cardinality(records.endpoints), Cardinality(records.resources),
                                   Cardinality(records.items)>>
            /\ whole => artifact.claims.structural
            /\ whole /\ run.named = Nothing /\ "nfs" \notin Requested /\ Roomy => artifact.claims.content

\* What the run counts, and what its artifact claims on these counts.
ClaimsHold == Accounted /\ ArtifactTrue

\* When the collector stops, an artifact it finalized has reached the server or is still on
\* disk, and only the whole artifact of an uninterrupted run has reached it (main, the
\* upload and the cleanup of the temporary file).
DeliveredOrKept ==
    /\ main.at = "end" /\ artifact # Nothing => delivery.upload = "accepted" \/ delivery.kept
    /\ delivery.upload # "none" => ~Interrupted /\ "close" \notin interrupts /\ ~broken /\ artifact # Nothing

\* Whatever fails, is interrupted or cancelled, the collector stops: no future is waited for
\* that no thread will finish (_scan_targets, ThreadPoolExecutor).
ScanEnds == <>(main.at = "end")
=============================================================================

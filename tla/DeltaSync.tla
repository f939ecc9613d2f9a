------------------------------ MODULE DeltaSync ------------------------------
(***************************************************************************)
(* The collector's incremental synchronisation of one document library.    *)
(* A run asks Graph for what changed since the stored delta link, stages   *)
(* it, streams stored and staged items as one snapshot into its artifact,  *)
(* and moves the stored items and the link forward once the artifact is    *)
(* durable.  Runs overlap, die and are swept; the library changes while    *)
(* its pages are read.                                                     *)
(*                                                                         *)
(* A delta link is the number of changes the library had seen when the     *)
(* enumeration that returned it was opened; 0 is no link.                  *)
(***************************************************************************)
EXTENDS Naturals, FiniteSets

CONSTANTS
    Items, Names,
    Root,               \* the library itself, parent of its top level
    Absent, Unstaged,   \* of an item: it is not there; a run has not staged it
    Places,             \* of an item: where its owners may put it and what they may call it
    First,              \* what the library holds at first
    Sessions,           \* run ids of collectors that share a state file and an identity
    Output,             \* of a session: "file", "upload" or "stdout"
    MaxChanges,         \* bound: changes of the library
    MaxFaults           \* bound: crashes, interrupts, errors, resets, stalls, requested baselines

Place == [parent : Items \cup {Root}, name : Names]
\* An item as a page shows it: above is the name of its parent at that time.
Row   == [parent : Items \cup {Root}, name : Names, above : Names \cup {Root}]

There(c, i) == c[i] # Absent
\* A library of folders and of what is in them.
Rooted(c) ==
    \A i \in Items : There(c, i) /\ c[i].parent # Root =>
        There(c, c[i].parent) /\ c[c[i].parent].parent = Root

ASSUME DeltaSyncAssumption ==
    /\ IsFiniteSet(Items) /\ Root \notin Items \cup Names
    /\ Absent \notin Place \cup Row /\ Unstaged \notin Row \cup {Absent}
    /\ Places \in [Items -> SUBSET Place] /\ \A i \in Items : \A p \in Places[i] : p.parent # i
    /\ First \in [Items -> Place \cup {Absent}] /\ Rooted(First)
    /\ Output \in [Sessions -> {"file", "upload", "stdout"}]
    /\ MaxChanges \in Nat /\ MaxFaults \in Nat

VARIABLES
    content,    \* what the library holds
    changed,    \* of an item: the number of its last change
    version,    \* the number of the library's last change
    items,      \* table items: the snapshot of the last committed run
    token,      \* drive_state.delta_link
    session,    \* the runs, with their rows of pending_syncs and staged_items
    delivered,  \* the newest link whose snapshot a durable artifact shows
    faults

graph == <<content, changed, version>>
store == <<items, token>>
vars  == <<graph, store, session, delivered, faults>>

Phases  == {"idle", "opening", "paging", "staged", "counted", "checked", "emitted", "durable"}
Session == [phase   : Phases,
            fresh   : BOOLEAN,                      \* drive_state.version is the one it read
            base    : Nat,                          \* the link it read
            full    : BOOLEAN,                      \* pending_syncs.sync_mode
            pending : {"none", "open", "complete"}, \* its row of pending_syncs
            link    : Nat,                          \* the link its enumeration returns
            todo    : SUBSET Items,                 \* items its remaining pages must show
            staged  : [Items -> Row \cup {Absent, Unstaged}],
            invalid : BOOLEAN,
            count   : Nat,
            shows   : Nat]      \* history: the link as of which its artifact shows the library
Nothing == [i \in Items |-> Unstaged]
Gone    == [i \in Items |-> Absent]
Idle    == [phase |-> "idle", fresh |-> FALSE, base |-> 0, full |-> FALSE, pending |-> "none",
            link |-> 0, todo |-> {}, staged |-> Nothing, invalid |-> FALSE, count |-> 0, shows |-> 0]

TypeOK ==
    /\ content \in [Items -> Place \cup {Absent}]
    /\ changed \in [Items -> Nat] /\ version \in Nat
    /\ items \in [Items -> Row \cup {Absent}] /\ token \in Nat
    /\ session \in [Sessions -> Session]
    /\ delivered \in Nat /\ faults \in Nat

Init ==
    /\ content = First
    /\ changed = [i \in Items |-> IF There(content, i) THEN 1 ELSE 0]
    /\ version = 1
    /\ items = Gone /\ token = 0
    /\ session = [s \in Sessions |-> Idle]
    /\ delivered = 0 /\ faults = 0

Fault         == faults < MaxFaults /\ faults' = faults + 1
InPhase(s, p) == session[s].phase = p
Live(s)       == session[s].phase # "idle"
Becomes(s, x) == session' = [session EXCEPT ![s] = x]

-----------------------------------------------------------------------------
(* The library                                                             *)

Children(i)  == {j \in Items : There(content, j) /\ content[j].parent = i}
Touch(which) == /\ version < MaxChanges
                /\ version' = version + 1
                /\ changed' = [i \in Items |-> IF i \in which THEN version + 1 ELSE changed[i]]

\* An item is created, renamed or moved; what is in a folder is not.
Put(i, p) ==
    /\ content[i] # p /\ Touch({i})
    /\ p.parent # Root => There(content, p.parent) /\ content[p.parent].parent = Root
                                                   /\ Children(i) = {}
    /\ content' = [content EXCEPT ![i] = p]
    /\ UNCHANGED <<store, session, delivered, faults>>

\* A folder is deleted with what it holds.
Delete(i) ==
    LET lost == {i} \cup Children(i) IN
    /\ There(content, i) /\ Touch(lost)
    /\ content' = [j \in Items |-> IF j \in lost THEN Absent ELSE content[j]]
    /\ UNCHANGED <<store, session, delivered, faults>>

Above(c, p)  == IF p = Root THEN Root ELSE c[p].name
AsRow(c, i)  == [parent |-> c[i].parent, name |-> c[i].name, above |-> Above(c, c[i].parent)]
\* An item as Graph returns it now.
Shown(i)     == IF There(content, i) THEN AsRow(content, i) ELSE Absent
\* What an enumeration opened now will show: everything, or the changes since a link.
Listed(full, base) == {i \in Items : IF full THEN There(content, i) ELSE changed[i] > base}

-----------------------------------------------------------------------------
(* A run                                                                   *)

\* Mutant of Sweepable: every other run's staging is taken for stale.
SweepableAll(s) == {t \in Sessions \ {s} : session[t].pending # "none"}
\* Runs that have not staged anything for STALE_STAGE_SECONDS: the dead, if long enough.
Sweepable(s) == {t \in Sessions \ {s} : session[t].pending # "none" /\ ~Live(t)}

Swept(x)        == [x EXCEPT !.pending = "none", !.staged = Nothing]
Started(x, full) == [x EXCEPT !.phase = "opening", !.fresh = TRUE, !.base = token,
                              !.full = full \/ token = 0]

\* A run starts: cleanup_stale_sessions drops others' staging, get_drive_state reads the link.
Start(s, full, old) ==
    /\ InPhase(s, "idle") /\ old \subseteq Sweepable(s)
    /\ session' = [t \in Sessions |-> IF t = s THEN Started(session[s], full)
                                      ELSE IF t \in old THEN Swept(session[t]) ELSE session[t]]
    /\ IF full THEN Fault ELSE UNCHANGED faults
    /\ UNCHANGED <<graph, store, delivered>>

\* The staging of a run that lives but stalls is swept by another one.
SweepStalled(t) ==
    /\ Live(t) /\ session[t].pending # "none" /\ Fault
    /\ Becomes(t, Swept(session[t]))
    /\ UNCHANGED <<graph, store, delivered>>

\* Mutant of Opened: the staging of an earlier run with the same id is not emptied.
OpenedUncleared(x, full) ==
    [x EXCEPT !.phase = "paging", !.full = full, !.pending = "open", !.link = version,
              !.todo = Listed(full, x.base), !.invalid = FALSE]
\* begin_drive_stage empties the run's staging, and Graph opens an enumeration.
Opened(x, full) ==
    [x EXCEPT !.phase = "paging", !.full = full, !.pending = "open", !.link = version,
              !.todo = Listed(full, x.base), !.staged = Nothing, !.invalid = FALSE]

Open(s) ==
    /\ InPhase(s, "opening")
    /\ Becomes(s, Opened(session[s], session[s].full))
    /\ UNCHANGED <<graph, store, delivered, faults>>

\* Mutant of Reset: what follows is staged as changes.
Reset(x) == Opened(x, TRUE)

\* 410 Gone: Graph no longer knows the link, and everything is enumerated.
ResetDelta(s) ==
    /\ InPhase(s, "paging") /\ ~session[s].full /\ Fault
    /\ Becomes(s, Reset(session[s]))
    /\ UNCHANGED <<graph, store, delivered>>

\* A page of an enumeration shows items as they are now, those changed since it was opened
\* perhaps too; of what is gone a full enumeration may say nothing.
Page(s, shown, silent) ==
    LET x == session[s] IN
    /\ InPhase(s, "paging") /\ x.pending # "none"
    /\ shown \cap x.todo # {}
    /\ \A i \in shown \ x.todo : changed[i] > x.link
    /\ silent \subseteq {i \in shown : x.full /\ ~There(content, i)}
    /\ Becomes(s, [x EXCEPT !.todo = @ \ shown,
                            !.staged = [i \in Items |-> IF i \in shown \ silent THEN Shown(i)
                                                       ELSE x.staged[i]]])
    /\ UNCHANGED <<graph, store, delivered, faults>>

\* An item whose metadata cannot be kept is left out.
SkipInvalid(s, i) ==
    LET x == session[s] IN
    /\ InPhase(s, "paging") /\ i \in x.todo /\ Fault
    /\ Becomes(s, [x EXCEPT !.todo = @ \ {i}, !.invalid = TRUE])
    /\ UNCHANGED <<graph, store, delivered>>

\* The stored items under the staged ones, or the staged ones alone.
Merged(x) ==
    [i \in Items |-> IF x.staged[i] # Unstaged THEN x.staged[i]
                    ELSE IF x.full THEN Absent ELSE items[i]]
\* An item stays in a folder that is deleted.
Orphaned(x) ==
    \E i \in Items : /\ Merged(x)[i] # Absent
                     /\ Merged(x)[i].parent # Root /\ x.staged[Merged(x)[i].parent] = Absent
Size(c) == Cardinality({i \in Items : c[i] # Absent})

\* Mutant of Usable: the checkpoint advances past items that were left out.
UsableInvalid(x) == ~Orphaned(x)
Usable(x) == ~Orphaned(x) /\ ~x.invalid

\* complete_drive_stage; a library that is not usable fails and leaves no staging.
Complete(s) ==
    LET x == session[s] IN
    /\ InPhase(s, "paging") /\ x.pending # "none" /\ x.todo = {}
    /\ Becomes(s, IF Usable(x) THEN [x EXCEPT !.phase = "staged", !.pending = "complete"] ELSE Idle)
    /\ UNCHANGED <<graph, store, delivered, faults>>

\* iter_materialized_items counts the rows of the snapshot.  A sweep before its next
\* statement is found there, so one in the middle of the count makes no difference.
CountRows(s) ==
    LET x == session[s] IN
    /\ InPhase(s, "staged") /\ x.pending = "complete"
    /\ Becomes(s, [x EXCEPT !.phase = "counted", !.count = Size(Merged(x))])
    /\ UNCHANGED <<graph, store, delivered, faults>>

\* It looks for its row of pending_syncs again, in a statement of its own.
CheckStage(s) ==
    /\ InPhase(s, "counted") /\ session[s].pending = "complete"
    /\ Becomes(s, [session[s] EXCEPT !.phase = "checked"])
    /\ UNCHANGED <<graph, store, delivered, faults>>

\* Mutant of Whole: the rows are not counted again.
WholeUnchecked(x) == TRUE
Whole(x) == Size(Merged(x)) = x.count

\* What is streamed now is the library as of this link: the staged rows of an incremental
\* run may be gone by now, and then the stored ones are what is left.
Reaches(x) == IF x.full \/ x.pending = "complete" THEN x.link ELSE token

\* It streams the rows as they are now, and fails at the end if their number is another one.
Stream(s) ==
    LET x == session[s] IN
    /\ InPhase(s, "checked")
    /\ Becomes(s, IF Whole(x) THEN [x EXCEPT !.phase = "emitted", !.shows = Reaches(x)] ELSE Idle)
    /\ UNCHANGED <<graph, store, delivered, faults>>

Later(a, b)  == IF a > b THEN a ELSE b
Delivered(s) == delivered' = Later(delivered, session[s].shows)

\* The artifact is renamed into place; on standard output no checkpoint follows it.
Finalize(s) ==
    /\ InPhase(s, "emitted") /\ Output[s] # "upload"
    /\ IF Output[s] = "file"
       THEN Delivered(s) /\ Becomes(s, [session[s] EXCEPT !.phase = "durable"])
       ELSE UNCHANGED delivered /\ Becomes(s, Idle)
    /\ UNCHANGED <<graph, store, faults>>

\* Mutant of Confirmed: the checkpoint advances although the upload is not confirmed.
ConfirmedAlways(known) == TRUE
Confirmed(known) == known

\* upload_artifact: the server accepts the artifact or not, the collector learns it or not.
Upload(s, accepted, known) ==
    /\ InPhase(s, "emitted") /\ Output[s] = "upload" /\ (known => accepted)
    /\ IF known THEN UNCHANGED faults ELSE Fault
    /\ IF accepted THEN Delivered(s) ELSE UNCHANGED delivered
    /\ Becomes(s, IF Confirmed(known) THEN [session[s] EXCEPT !.phase = "durable"] ELSE Idle)
    /\ UNCHANGED <<graph, store>>

\* Mutant of Conflicts: another run's commit is not noticed.
ConflictsNever(s) == FALSE
Conflicts(s) == ~session[s].fresh

\* commit_drive and discard_session.
Commit(s) ==
    LET x == session[s]
        done == x.pending = "complete" /\ ~Conflicts(s) IN
    /\ InPhase(s, "durable")
    /\ items' = IF done THEN Merged(x) ELSE items
    /\ token' = IF done THEN x.link ELSE token
    /\ session' = [t \in Sessions |-> IF t = s THEN Idle
                                      ELSE [session[t] EXCEPT !.fresh = @ /\ ~done]]
    /\ UNCHANGED <<graph, delivered, faults>>

\* The run's staging was swept: its next use fails.
MissStage(s) ==
    /\ session[s].phase \in {"paging", "staged", "counted"} /\ session[s].pending = "none"
    /\ Becomes(s, Idle)
    /\ UNCHANGED <<graph, store, delivered, faults>>

\* A request fails for good, a limit is reached or the operator interrupts the run.
GiveUp(s) ==
    /\ Live(s) /\ Fault
    /\ Becomes(s, Idle)
    /\ UNCHANGED <<graph, store, delivered>>

\* The process dies and leaves its staging; a later run may have its id.
Die(s) ==
    /\ Live(s) /\ Fault
    /\ Becomes(s, [Idle EXCEPT !.pending = session[s].pending, !.staged = session[s].staged])
    /\ UNCHANGED <<graph, store, delivered>>

-----------------------------------------------------------------------------

Change == \E i \in Items : Delete(i) \/ \E p \in Places[i] : Put(i, p)

Work(s) ==
    \/ \E full \in BOOLEAN, old \in SUBSET Sessions : Start(s, full, old)
    \/ Open(s) \/ Complete(s) \/ CountRows(s) \/ CheckStage(s) \/ Stream(s)
    \/ Finalize(s) \/ Commit(s) \/ MissStage(s)
    \/ \E shown, silent \in SUBSET Items : Page(s, shown, silent)
    \/ \E accepted, known \in BOOLEAN : Upload(s, accepted, known)

Disturb(s) == SweepStalled(s) \/ ResetDelta(s) \/ GiveUp(s) \/ Die(s)
              \/ \E i \in Items : SkipInvalid(s, i)

Next == Change \/ \E s \in Sessions : Work(s) \/ Disturb(s)

Spec == Init /\ [][Next]_vars

\* The scheduled runs go on.
FairSpec == Spec /\ \A s \in Sessions : WF_vars(Work(s))

-----------------------------------------------------------------------------
(* Properties                                                              *)

\* A row is what the library holds.
Same(r, i) == IF There(content, i)
              THEN r # Absent /\ r # Unstaged /\ r.parent = content[i].parent
                              /\ r.name = content[i].name
              ELSE r = Absent

\* What has not changed since the stored link is stored as it is: the next run, which only
\* asks for later changes, misses nothing.
TokenCovers ==
    \A i \in Items : changed[i] <= token => Same(items[i], i)

\* What a stored link covers has been shown by a durable artifact.
TokenDelivered == token <= delivered

\* The links of a run are in order, and it saves only what it was shown whole.
LinkFits(x) ==
    /\ x.base <= token
    /\ x.phase # "idle" /\ x.fresh => x.base = token
    /\ x.phase \notin {"idle", "opening"} => x.base <= x.link /\ x.link <= version
    /\ x.phase # "paging" => x.todo = {}
    /\ x.phase \in {"staged", "counted", "checked", "emitted", "durable"} => ~x.invalid
\* A run stages what it will not be told again.
StageFits(x) ==
    x.phase \notin {"idle", "opening"} /\ x.pending # "none" /\ ~x.invalid =>
        \A i \in Items \ x.todo : changed[i] <= x.link =>
            IF x.full \/ changed[i] > x.base
            THEN \/ x.staged[i] = Unstaged /\ x.full /\ ~There(content, i)
                 \/ Same(x.staged[i], i)
            ELSE x.staged[i] = Unstaged
\* What it still waits for is not staged yet and changed after the link it read, unless it
\* enumerates everything.
TodoFits(x) == \A i \in x.todo : x.staged[i] = Unstaged /\ (x.full \/ changed[i] > x.base)
\* An item of the top level has no folder's name above it.
TopRow(r) == r \in Row /\ r.parent = Root => r.above = Root

\* Staged rows come with their row of pending_syncs, which is complete after the last page.
PendingFits(x) ==
    /\ x.pending = "none" => x.staged = Nothing
    /\ x.pending = "open" => x.phase \in {"idle", "opening", "paging"}
\* A full run counts no rows only of a library that was empty: a sweep does not pass its count.
CountFits(x) ==
    x.phase \in {"counted", "checked"} /\ x.full /\ x.count = 0 =>
        \A i \in Items : changed[i] <= x.link => ~There(content, i)
\* A run that can still commit has streamed what it commits.
ShowsFits(x) ==
    x.phase \in {"emitted", "durable"} /\ x.pending = "complete" => x.shows = x.link

Fits(x)  == /\ LinkFits(x) /\ StageFits(x) /\ TodoFits(x)
            /\ PendingFits(x) /\ CountFits(x) /\ ShowsFits(x)
            /\ \A i \in Items : TopRow(x.staged[i])
Shows(x) == x.phase = "durable" => x.shows <= delivered

IInv == /\ TypeOK /\ Rooted(content) /\ (\A i \in Items : changed[i] <= version) /\ token <= version
        /\ TokenCovers /\ TokenDelivered
        /\ \A i \in Items : TopRow(items[i])
        /\ \A s \in Sessions : Fits(session[s]) /\ Shows(session[s])

\* The stored link never goes back to an older state of the library.
TokenAdvances == [][token' >= token]_vars

\* The path the artifact gives an item: below its parent's name, or where it was seen.
PathIn(c, i)  == <<IF c[i].parent # Root /\ c[c[i].parent] # Absent THEN c[c[i].parent].name
                   ELSE c[i].above, c[i].name>>
TruePath(i)   == <<Above(content, content[i].parent), content[i].name>>
Settled(i, n) == changed[i] <= n /\ (There(content, i) /\ content[i].parent # Root
                                        => changed[content[i].parent] <= n)

\* An artifact shows every item that did not change since the link it reaches, at the path
\* it has, and none that is gone, although the items come from several runs, overlapping
\* commits, and perhaps a sweep while it is read.
ArtifactShowsLibrary ==
    [][\A s \in Sessions :
           InPhase(s, "checked") /\ session'[s].phase = "emitted" =>
               \A i \in Items : Settled(i, Reaches(session[s])) =>
                   /\ Same(Merged(session[s])[i], i)
                   /\ There(content, i) => PathIn(Merged(session[s]), i) = TruePath(i)]_vars

\* When the library comes to rest, what is stored catches up with it.
CatchesUp == <>[](token = version)
=============================================================================

---------------------------- MODULE Comparisons -----------------------------
(***************************************************************************)
(* Materialized comparisons of two complete runs of one collection source. *)
(* An API request or a finished ingest queues a comparison; a worker takes *)
(* its advisory lock and the source's, writes the changed rows in batches  *)
(* with a durable cursor, evaluates the change policies and publishes the  *)
(* result.  A batch is a number; the rows a batch writes are idempotent.   *)
(***************************************************************************)
EXTENDS Naturals, FiniteSets

CONSTANTS
    Runs,             \* runs of the source, numbered as (created_at, id) orders them
    Comparisons,      \* pairs <<baseline run, current run>>
    Workers,
    Free, Api,        \* values of a lock no worker holds
    NoComparison, NotCounted,
    ResourceBatches, ItemBatches, FindingBatches,
    Quantum,          \* COMPARISON_WORK_QUANTUM_BATCHES
    MaxAttempts,      \* the 3 of "attempt_count < 3"
    ApiCap,           \* API_COMPARISON_MAX_ACTIVE_PER_PROJECT
    AutomaticCap,     \* AUTOMATIC_COMPARISON_MAX_ACTIVE_PER_PROJECT
    MaxFaults,        \* bound: crashes, shutdowns, exceptions, claims out of time
    MaxRequests       \* bound: operator retries, switches of the source, deletions

ASSUME ComparisonsAssumption ==
    /\ Runs \subseteq Nat \ {0}
    /\ IsFiniteSet(Comparisons) /\ Comparisons \subseteq {c \in Runs \X Runs : c[1] # c[2]}
    /\ Free \notin Workers /\ Api \notin Workers /\ Free # Api
    /\ NoComparison \notin Comparisons /\ NotCounted \notin Nat
    /\ ResourceBatches \in Nat /\ ItemBatches \in Nat /\ FindingBatches \in Nat \ {0}
    /\ Quantum \in Nat \ {0} /\ MaxAttempts \in Nat \ {0}
    /\ ApiCap \in Nat /\ AutomaticCap \in Nat
    /\ MaxFaults \in Nat /\ MaxRequests \in Nat

VARIABLES
    run,        \* "open" until its ingest completes it, then "COMPLETE" or "deleted"
    lastRun,    \* collection_sources.last_run_id, 0 for NULL
    enabled,    \* collection_sources.enabled
    baseline,   \* coverage.automatic_baseline
    last,       \* collection_sources.last_comparison_id
    state,      \* run_comparisons.state, "none" when there is no row
    trigger,    \* "manual" or "automatic"
    progress,   \* the durable checkpoint
    attempts,   \* attempt_count
    due,        \* no next_retry_at, or it has passed
    stale,      \* heartbeat_at is older than INGEST_STALE_RUN_SECONDS
    eval,       \* summary.findings_evaluation.state
    tries,      \* findings_attempt_count
    resources,  \* resource batches whose change rows are stored
    items,      \* item batches whose change rows are stored
    lock,       \* holder of the comparison's advisory lock
    source,     \* holder of the source's advisory lock
    lane,       \* active comparisons a request counted under the project lock
    stream,     \* comparisons with a stream entry
    job,        \* what each worker is doing
    faults, requests

sourceVars == <<run, lastRun, enabled, baseline, last>>
row        == <<state, trigger, progress, attempts, due, stale, eval, tries>>
result     == <<resources, items>>
locks      == <<lock, source, lane>>
bounds     == <<faults, requests>>
vars       == <<sourceVars, row, result, locks, stream, job, bounds>>

Baseline(c) == c[1]
Current(c)  == c[2]
Complete(r) == run[r] = "COMPLETE"

Phase    == {"queued", "identities", "resources", "items", "finalizing", "findings", "complete"}
Progress == [phase: Phase, prepared: 0 .. 2, resource: 0 .. ResourceBatches,
             item: 0 .. ItemBatches, finding: 0 .. FindingBatches,
             operatorRetry: BOOLEAN, resumeAfterError: BOOLEAN]
\* A checkpoint with r resource batches stored and nothing of what comes after them.
At(phase, r) == [phase |-> phase, prepared |-> 0, resource |-> r, item |-> 0, finding |-> 0,
                 operatorRetry |-> FALSE, resumeAfterError |-> FALSE]
Queued  == At("queued", 0)
Prepare == At("identities", 0)

Active     == {"queued", "running"}
State      == {"none", "complete", "failed"} \cup Active
Evaluation == {"none", "queued", "retrying", "evaluating", "degraded", "complete"}
Coverage   == [state: {"none", "pending", "unavailable", "deferred", "queued", "running",
                       "retrying", "failed", "established"},
               comparison: Comparisons \cup {NoComparison}, findings: Evaluation]
Job  == [pc: {"idle", "called", "waiting", "working", "evaluating", "leaving"},
         kind: {"comparison", "findings"}, comparison: Comparisons \cup {NoComparison},
         progress: Progress, batches: 0 .. Quantum, authoritative: BOOLEAN]
Idle == [pc |-> "idle", kind |-> "comparison", comparison |-> NoComparison,
         progress |-> Queued, batches |-> 0, authoritative |-> FALSE]

TypeOK ==
    /\ run \in [Runs -> {"open", "COMPLETE", "deleted"}]
    /\ lastRun \in Runs \cup {0} /\ enabled \in BOOLEAN
    /\ baseline \in Coverage /\ last \in Comparisons \cup {NoComparison}
    /\ state \in [Comparisons -> State]
    /\ trigger \in [Comparisons -> {"manual", "automatic"}]
    /\ progress \in [Comparisons -> Progress]
    /\ attempts \in [Comparisons -> 0 .. MaxAttempts]
    /\ due \in [Comparisons -> BOOLEAN] /\ stale \in [Comparisons -> BOOLEAN]
    /\ eval \in [Comparisons -> Evaluation]
    /\ tries \in [Comparisons -> Nat]
    /\ resources \in [Comparisons -> SUBSET (1 .. ResourceBatches)]
    /\ items \in [Comparisons -> SUBSET (1 .. ItemBatches)]
    /\ lock \in [Comparisons -> Workers \cup {Free, Api}]
    /\ source \in Workers \cup {Free, Api}
    /\ lane \in [Comparisons -> Nat \cup {NotCounted}]
    /\ stream \subseteq Comparisons
    /\ job \in [Workers -> Job]
    /\ faults \in 0 .. MaxFaults /\ requests \in 0 .. MaxRequests

Init ==
    /\ run = [r \in Runs |-> "open"]
    /\ lastRun = 0 /\ enabled = TRUE /\ last = NoComparison
    /\ baseline = [state |-> "none", comparison |-> NoComparison, findings |-> "none"]
    /\ state = [c \in Comparisons |-> "none"]
    /\ trigger = [c \in Comparisons |-> "manual"]
    /\ progress = [c \in Comparisons |-> Queued]
    /\ attempts = [c \in Comparisons |-> 0]
    /\ due = [c \in Comparisons |-> TRUE]
    /\ stale = [c \in Comparisons |-> FALSE]
    /\ eval = [c \in Comparisons |-> "none"]
    /\ tries = [c \in Comparisons |-> 0]
    /\ resources = [c \in Comparisons |-> {}]
    /\ items = [c \in Comparisons |-> {}]
    /\ lock = [c \in Comparisons |-> Free]
    /\ source = Free
    /\ lane = [c \in Comparisons |-> NotCounted]
    /\ stream = {}
    /\ job = [w \in Workers |-> Idle]
    /\ faults = 0 /\ requests = 0

Set(f, x, v) == [f EXCEPT ![x] = v]

ActiveComparisons == {c \in Comparisons : state[c] \in Active}
LaneFree == \A c \in Comparisons : lane[c] = NotCounted
Fault    == faults < MaxFaults /\ faults' = faults + 1
Request  == requests < MaxRequests /\ requests' = requests + 1

\* update_collection_source_monitoring_coverage: only the source's last run is described.
Publish(c, s, f) ==
    baseline' = IF lastRun = Current(c)
                THEN [state |-> s, comparison |-> c, findings |-> f] ELSE baseline
\* Only an automatic comparison speaks for the source's baseline.
PublishIf(speaks, c, s, f) ==
    \/ speaks /\ trigger[c] = "automatic" /\ Publish(c, s, f)
    \/ ~(speaks /\ trigger[c] = "automatic") /\ UNCHANGED baseline

Named(c) == baseline.comparison = c

\* Mutant of LatestCandidate: neither newer runs nor newer comparisons are looked for.
LatestCandidateAlways(c) == Complete(Current(c))
\* comparison_is_latest_complete_candidate
LatestCandidate(c) ==
    /\ \A r \in Runs : r > Current(c) => ~Complete(r)
    /\ \A d \in Comparisons : d # c /\ state[d] = "complete" => ~(Current(d) > Current(c))

-----------------------------------------------------------------------------
(* Ingest.  A worker registers the source and completes the run while it   *)
(* holds the source's lock; what it does before that is another module's.  *)

\* A new row, or one a retry resets.
Enqueue(c, t, p) ==
    /\ state' = Set(state, c, "queued")
    /\ trigger' = Set(trigger, c, t)
    /\ progress' = Set(progress, c, p)
    /\ attempts' = Set(attempts, c, 0)
    /\ due' = Set(due, c, TRUE)
    /\ stale' = Set(stale, c, FALSE)
    /\ eval' = Set(eval, c, "none")
    /\ tries' = Set(tries, c, 0)

\* register_collection_source: the last run only moves forward.
Observe(r, s) ==
    \/ /\ r >= lastRun
       /\ lastRun' = r
       /\ baseline' = [state |-> s, comparison |-> NoComparison, findings |-> "none"]
    \/ r < lastRun /\ UNCHANGED <<lastRun, baseline>>

\* An ingest that registers the source and fails: its run may complete later.
ObserveRun(r) ==
    /\ run[r] = "open" /\ source = Free /\ Fault
    /\ Observe(r, "pending")
    /\ UNCHANGED <<run, enabled, last, row, result, locks, stream, job, requests>>

NewestCompleteRun(r) == \A q \in Runs : q > r => ~Complete(q)
Earlier(r) == {c \in Comparisons : Current(c) = r /\ Baseline(c) < r /\ Complete(Baseline(c))}

Says(s) == [state |-> s, comparison |-> NoComparison, findings |-> "none"]

\* create_automatic_comparison against a compatible earlier run.  No comparison can
\* exist for a run that only this transaction completes.
CreateAutomatic(c) ==
    /\ LaneFree
    /\ \/ /\ Cardinality(ActiveComparisons) >= AutomaticCap
          /\ baseline' = IF lastRun' = Current(c) THEN Says("deferred") ELSE baseline
          /\ UNCHANGED row
       \/ /\ Cardinality(ActiveComparisons) < AutomaticCap
          /\ Enqueue(c, "automatic", Queued)
          /\ baseline' = IF lastRun' = Current(c)
                         THEN [state |-> "queued", comparison |-> c, findings |-> "queued"]
                         ELSE baseline

\* The terminal transaction of an ingest that succeeded.
CompleteRun(r) ==
    /\ run[r] = "open" /\ source = Free
    /\ run' = Set(run, r, "COMPLETE")
    /\ lastRun' = IF r >= lastRun THEN r ELSE lastRun
    /\ \/ enabled /\ NewestCompleteRun(r) /\ \E c \in Earlier(r) : CreateAutomatic(c)
       \/ /\ enabled /\ NewestCompleteRun(r)       \* no earlier run is compatible
          /\ baseline' = IF lastRun' = r THEN Says("unavailable") ELSE baseline
          /\ UNCHANGED row
       \/ /\ ~(enabled /\ NewestCompleteRun(r))
          /\ baseline' = IF r >= lastRun THEN Says("pending") ELSE baseline
          /\ UNCHANGED row
    /\ UNCHANGED <<enabled, last, result, locks, stream, job, bounds>>

-----------------------------------------------------------------------------
(* The API                                                                 *)

Both(c) == Complete(Baseline(c)) /\ Complete(Current(c))

\* Mutant of Count: the project's advisory lock is not taken.
CountUnlocked(c) == lane' = Set(lane, c, Cardinality(ActiveComparisons))
\* The active comparisons, counted under the project's advisory lock.
Count(c) == LaneFree /\ lane' = Set(lane, c, Cardinality(ActiveComparisons))

\* create_comparison up to its count ...
OpenCreate(c) ==
    /\ state[c] = "none" /\ lane[c] = NotCounted /\ Both(c)
    /\ Count(c)
    /\ UNCHANGED <<sourceVars, row, result, lock, source, stream, job, bounds>>

\* ... and from there to its commit; the entry it then enqueues may be lost.
CommitCreate(c) ==
    /\ lane[c] # NotCounted /\ lock[c] # Api
    /\ lane' = Set(lane, c, NotCounted)
    /\ \/ /\ lane[c] < ApiCap /\ state[c] = "none" /\ Both(c)
          /\ Enqueue(c, "manual", Queued)
          /\ stream' \in {stream, stream \cup {c}}
       \/ ~(lane[c] < ApiCap /\ state[c] = "none" /\ Both(c)) /\ UNCHANGED <<row, stream>>
    /\ UNCHANGED <<sourceVars, result, lock, source, job, bounds>>

\* retry_comparison: the job's lock, the source's, then the project's.
OpenRetry(c) ==
    /\ state[c] = "failed" /\ lock[c] = Free /\ lane[c] = NotCounted
    /\ trigger[c] = "automatic" => source = Free
    /\ Request
    /\ Count(c)
    /\ lock' = Set(lock, c, Api)
    /\ source' = IF trigger[c] = "automatic" THEN Api ELSE source
    /\ UNCHANGED <<sourceVars, row, result, stream, job, faults>>

\* Mutant of RecoverBaseline: the source keeps showing the failure.
RecoverBaselineNever(c, s) == UNCHANGED baseline
\* publish_automatic_baseline_recovery
RecoverBaseline(c, s) ==
    baseline' = IF trigger[c] = "automatic" /\ Named(c)
                THEN [state |-> s, comparison |-> c, findings |-> "queued"] ELSE baseline

CommitRetry(c) ==
    /\ lock[c] = Api
    /\ lane' = Set(lane, c, NotCounted)
    /\ lock' = Set(lock, c, Free)
    /\ source' = IF trigger[c] = "automatic" THEN Free ELSE source
    /\ \/ /\ lane[c] < ApiCap /\ (trigger[c] = "automatic" => enabled)
          /\ Enqueue(c, trigger[c], [Queued EXCEPT !.operatorRetry = TRUE])
          /\ RecoverBaseline(c, "queued")
          /\ stream' \in {stream, stream \cup {c}}
       \/ /\ ~(lane[c] < ApiCap /\ (trigger[c] = "automatic" => enabled))
          /\ UNCHANGED <<row, baseline, stream>>
    /\ UNCHANGED <<run, lastRun, enabled, last, result, job, bounds>>

\* retry_comparison_finding_evaluation
RetryFindings(c) ==
    /\ state[c] = "complete" /\ eval[c] = "degraded" /\ lock[c] = Free
    /\ trigger[c] = "automatic" => source = Free
    /\ Request
    /\ eval' = Set(eval, c, "queued")
    /\ tries' = Set(tries, c, 0)
    /\ due' = Set(due, c, TRUE)
    /\ RecoverBaseline(c, "established")
    /\ UNCHANGED <<run, lastRun, enabled, last, state, trigger, progress, attempts, stale,
                   result, locks, stream, job, faults>>

\* update_source
SwitchSource ==
    /\ Request
    /\ enabled' = ~enabled
    /\ UNCHANGED <<run, lastRun, baseline, last, row, result, locks, stream, job, faults>>

RowLocked(c) ==
    \/ lock[c] = Api
    \/ \E w \in Workers : job[w].pc = "waiting" /\ job[w].comparison = c

\* delete_run: its comparisons and their rows go with it, the coverage stays.
DeleteRun(r) ==
    LET gone == {c \in Comparisons : r \in {Baseline(c), Current(c)}} IN
    /\ Complete(r) /\ Request
    /\ \A c \in gone : ~RowLocked(c)
    /\ run' = Set(run, r, "deleted")
    /\ lastRun' = IF lastRun = r THEN 0 ELSE lastRun
    /\ last' = IF last \in gone THEN NoComparison ELSE last
    /\ state' = [c \in Comparisons |-> IF c \in gone THEN "none" ELSE state[c]]
    /\ resources' = [c \in Comparisons |-> IF c \in gone THEN {} ELSE resources[c]]
    /\ items' = [c \in Comparisons |-> IF c \in gone THEN {} ELSE items[c]]
    /\ UNCHANGED <<enabled, baseline, trigger, progress, attempts, due, stale, eval, tries,
                   locks, stream, job, faults>>

-----------------------------------------------------------------------------
(* Workers: how a job reaches one                                          *)

Called(k, c) == [Idle EXCEPT !.pc = "called", !.kind = k, !.comparison = c]

Deliver(w, c) ==
    /\ job[w] = Idle /\ c \in stream
    /\ stream' = stream \ {c}
    /\ job' = Set(job, w, Called("comparison", c))
    /\ UNCHANGED <<sourceVars, row, result, locks, bounds>>

\* Mutant of Recoverable: a running comparison is not claimed again.
RecoverableQueued(c) == ~RowLocked(c) /\ state[c] = "queued" /\ due[c]
Recoverable(c) ==
    /\ ~RowLocked(c)
    /\ \/ state[c] = "queued" /\ due[c]
       \/ state[c] = "running" /\ stale[c]

\* discover_recoverable_comparisons
Claim(w, c) ==
    /\ job[w] = Idle /\ Recoverable(c)
    /\ state' = Set(state, c, "running")
    /\ stale' = Set(stale, c, FALSE)
    /\ job' = Set(job, w, Called("comparison", c))
    /\ UNCHANGED <<sourceVars, trigger, progress, attempts, due, eval, tries, result, locks,
                   stream, bounds>>

\* Mutant of RecoverableFindings: an evaluation under way is not claimed again.
RecoverableFindingsQueued(c) ==
    ~RowLocked(c) /\ state[c] = "complete" /\ eval[c] \in {"queued", "retrying"} /\ due[c]
RecoverableFindings(c) ==
    /\ ~RowLocked(c) /\ state[c] = "complete"
    /\ \/ eval[c] \in {"queued", "retrying"} /\ due[c]
       \/ eval[c] = "evaluating" /\ stale[c]

\* discover_recoverable_comparison_finding_evaluations
ClaimFindings(w, c) ==
    /\ job[w] = Idle /\ RecoverableFindings(c)
    /\ eval' = Set(eval, c, "evaluating")
    /\ stale' = Set(stale, c, FALSE)
    /\ job' = Set(job, w, Called("findings", c))
    /\ UNCHANGED <<sourceVars, state, trigger, progress, attempts, due, tries, result, locks,
                   stream, bounds>>

Wanted(k, c) ==
    \/ k = "comparison" /\ (state[c] = "running" \/ (state[c] = "queued" /\ due[c]))
    \/ /\ k = "findings" /\ state[c] = "complete"
       /\ eval[c] \in {"queued", "retrying", "evaluating", "degraded"}

\* Mutant of Begin: the comparison's advisory lock is not tried.
BeginUnlocked(w) ==
    LET c == job[w].comparison IN
    /\ job[w].pc = "called"
    /\ \/ /\ lock[c] # Api /\ Wanted(job[w].kind, c)
          /\ lock' = Set(lock, c, w)
          /\ job' = Set(job, w, [job[w] EXCEPT !.pc = "waiting"])
       \/ /\ lock[c] = Api \/ ~Wanted(job[w].kind, c)
          /\ job' = Set(job, w, Idle)
          /\ UNCHANGED lock
    /\ UNCHANGED <<sourceVars, row, result, source, lane, stream, bounds>>
\* pg_try_advisory_lock, then the row FOR UPDATE: busy, ignored and deferred end the job.
Begin(w) ==
    LET c == job[w].comparison IN
    /\ job[w].pc = "called"
    /\ \/ /\ lock[c] = Free /\ Wanted(job[w].kind, c)
          /\ lock' = Set(lock, c, w)
          /\ job' = Set(job, w, [job[w] EXCEPT !.pc = "waiting"])
       \/ /\ lock[c] # Free \/ ~Wanted(job[w].kind, c)
          /\ job' = Set(job, w, Idle)
          /\ UNCHANGED lock
    /\ UNCHANGED <<sourceVars, row, result, source, lane, stream, bounds>>

\* Mutant of SourceLock: the source's advisory lock is not taken.
SourceLockSkipped(w) == source' = source
\* pg_advisory_lock of the source
SourceLock(w) == source = Free /\ source' = w

\* The finally block.
Leave(w) ==
    /\ job[w].pc = "leaving"
    /\ lock' = Set(lock, job[w].comparison, Free)
    /\ source' = IF source = w THEN Free ELSE source
    /\ job' = Set(job, w, Idle)
    /\ UNCHANGED <<sourceVars, row, result, lane, stream, bounds>>

Leaving(w) ==
    job' = Set(job, w, [Idle EXCEPT !.pc = "leaving", !.comparison = job[w].comparison])

-----------------------------------------------------------------------------
(* Workers: one claim of a comparison                                      *)

\* An automatic comparison of a source switched off fails before it starts.
StartDisabled(w) ==
    LET c == job[w].comparison IN
    /\ job[w].pc = "waiting" /\ job[w].kind = "comparison"
    /\ SourceLock(w)
    /\ trigger[c] = "automatic" /\ ~enabled
    /\ state' = Set(state, c, "failed")
    /\ progress' = Set(progress, c, Queued)
    /\ stale' = Set(stale, c, FALSE)
    /\ baseline' = IF Named(c) /\ lastRun = Current(c)
                   THEN [state |-> "failed", comparison |-> c, findings |-> "none"] ELSE baseline
    /\ Leaving(w)
    /\ UNCHANGED <<run, lastRun, enabled, last, trigger, attempts, due, eval, tries, result,
                   lock, lane, stream, bounds>>

Durable == {"identities", "resources", "items", "finalizing", "findings"}

\* What the claim works from: after the identities the phase is set to the resources',
\* whatever phase the checkpoint was in.
Resumed(p) ==
    IF p.phase = "identities" /\ p.prepared < 2 THEN p
    ELSE [p EXCEPT !.phase = "resources"]

\* The checkpoint a claim starts from; an operator's retry starts over.
Checkpoint(c) ==
    IF progress[c].operatorRetry \/ progress[c].phase \notin Durable
    THEN Prepare ELSE [progress[c] EXCEPT !.resumeAfterError = FALSE]

Counted(c) == progress[c].operatorRetry \/ progress[c].phase \notin Durable
              \/ progress[c].resumeAfterError

Start(w) ==
    LET c == job[w].comparison IN
    /\ job[w].pc = "waiting" /\ job[w].kind = "comparison"
    /\ SourceLock(w)
    /\ ~(trigger[c] = "automatic" /\ ~enabled)
    /\ resources' = IF progress[c].operatorRetry THEN Set(resources, c, {}) ELSE resources
    /\ items' = IF progress[c].operatorRetry THEN Set(items, c, {}) ELSE items
    /\ state' = Set(state, c, "running")
    /\ attempts' = Set(attempts, c, attempts[c] + (IF Counted(c) THEN 1 ELSE 0))
    /\ progress' = Set(progress, c, Checkpoint(c))
    /\ due' = Set(due, c, TRUE)
    /\ stale' = Set(stale, c, FALSE)
    /\ job' = Set(job, w, [job[w] EXCEPT !.pc = "working", !.progress = Resumed(Checkpoint(c))])
    /\ UNCHANGED <<sourceVars, trigger, eval, tries, lock, lane, stream, bounds>>

Working(w) == job[w].pc = "working" /\ state[job[w].comparison] # "none"

\* A batch's transaction: its rows and its checkpoint, with a new heartbeat.
Commit(w, durable, memory, batches) ==
    LET c == job[w].comparison IN
    /\ progress' = Set(progress, c, durable)
    /\ stale' = Set(stale, c, FALSE)
    /\ job' = Set(job, w, [job[w] EXCEPT !.progress = memory, !.batches = batches])
    /\ UNCHANGED <<sourceVars, state, trigger, attempts, due, eval, tries, locks, stream, bounds>>

\* prepare_run_identity_keys_batch for the next of the two runs.
PrepareIdentities(w) ==
    LET p == job[w].progress
        q == [p EXCEPT !.prepared = @ + 1] IN
    /\ Working(w) /\ p.phase = "identities" /\ job[w].batches < Quantum
    /\ Commit(w, q, Resumed(q), IF q.prepared = 2 THEN 0 ELSE job[w].batches + 1)
    /\ UNCHANGED result

\* Mutant of ResourceBatch: the checkpoint is committed before the batch's rows.
ResourceBatchUnwritten(w) ==
    LET p == job[w].progress
        q == At("resources", p.resource + 1) IN
    /\ Working(w) /\ p.phase = "resources"
    /\ p.resource < ResourceBatches /\ job[w].batches < Quantum
    /\ Commit(w, q, q, job[w].batches + 1)
    /\ UNCHANGED result
\* _materialize_comparison_batch and _ensure_item_candidate_resource_changes
ResourceBatch(w) ==
    LET c == job[w].comparison
        p == job[w].progress
        q == At("resources", p.resource + 1) IN
    /\ Working(w) /\ p.phase = "resources"
    /\ p.resource < ResourceBatches /\ job[w].batches < Quantum
    /\ resources' = Set(resources, c, resources[c] \cup {p.resource + 1})
    /\ Commit(w, q, q, job[w].batches + 1)
    /\ UNCHANGED items

\* No key is left: the item cursor starts at the first candidate.
BeginItems(w) ==
    LET p == job[w].progress
        q == At("items", p.resource) IN
    /\ Working(w) /\ p.phase = "resources"
    /\ p.resource = ResourceBatches /\ job[w].batches < Quantum
    /\ Commit(w, q, q, job[w].batches)
    /\ UNCHANGED result

\* _materialize_item_change_batch
ItemBatch(w) ==
    LET c == job[w].comparison
        p == job[w].progress
        q == [p EXCEPT !.item = @ + 1] IN
    /\ Working(w) /\ p.phase = "items"
    /\ p.item < ItemBatches /\ job[w].batches < Quantum
    /\ items' = Set(items, c, items[c] \cup {p.item + 1})
    /\ Commit(w, q, q, job[w].batches + 1)
    /\ UNCHANGED resources

\* _finalize_item_candidate_resources
Finalize(w) ==
    LET p == job[w].progress
        q == [p EXCEPT !.phase = "finalizing"] IN
    /\ Working(w) /\ p.phase = "items"
    /\ p.item = ItemBatches /\ job[w].batches < Quantum
    /\ Commit(w, q, q, job[w].batches)
    /\ UNCHANGED result

\* Whether the comparison is the source's latest is read once, before its findings.
BeginFindings(w) ==
    LET c == job[w].comparison
        q == [job[w].progress EXCEPT !.phase = "findings"] IN
    /\ Working(w) /\ job[w].progress.phase = "finalizing"
    /\ progress' = Set(progress, c, q)
    /\ stale' = Set(stale, c, FALSE)
    /\ job' = Set(job, w, [job[w] EXCEPT !.progress = q, !.authoritative = LatestCandidate(c)])
    /\ UNCHANGED <<sourceVars, state, trigger, attempts, due, eval, tries, result, locks,
                   stream, bounds>>

More(p) == p.finding < FindingBatches

\* evaluate_comparison_findings, one batch
FindingBatch(w) ==
    LET p == job[w].progress
        q == [p EXCEPT !.finding = @ + 1] IN
    /\ Working(w) /\ p.phase = "findings" /\ More(p) /\ job[w].batches < Quantum
    /\ Commit(w, q, q, job[w].batches + 1)
    /\ UNCHANGED result

\* The result becomes visible, with its evaluation in state e.
Show(w, e, n, d) ==
    LET c == job[w].comparison IN
    /\ state' = Set(state, c, "complete")
    /\ progress' = Set(progress, c, [job[w].progress EXCEPT !.phase = "complete"])
    /\ eval' = Set(eval, c, e)
    /\ tries' = Set(tries, c, n)
    /\ due' = Set(due, c, d)
    /\ stale' = Set(stale, c, FALSE)
    /\ last' = IF job[w].authoritative THEN c ELSE last
    /\ PublishIf(job[w].authoritative, c, "established", e)
    /\ Leaving(w)
    /\ UNCHANGED <<run, lastRun, enabled, trigger, attempts, result, locks, stream, requests>>

FinishComparison(w) ==
    /\ Working(w) /\ job[w].progress.phase = "findings" /\ ~More(job[w].progress)
    /\ Show(w, "complete", 0, TRUE)
    /\ UNCHANGED faults

\* A failed evaluation leaves the result visible and its findings to a retry.
FailFindings(w) ==
    /\ Working(w) /\ job[w].progress.phase = "findings" /\ More(job[w].progress)
    /\ Show(w, IF 1 < MaxAttempts THEN "retrying" ELSE "degraded", 1, 1 >= MaxAttempts)
    /\ Fault

\* yield_comparison: the checkpoint is kept and any worker may claim the row.
Requeue(w) ==
    LET c == job[w].comparison IN
    /\ state' = Set(state, c, "queued")
    /\ progress' = Set(progress, c, job[w].progress)
    /\ stale' = Set(stale, c, FALSE)
    /\ Leaving(w)
    /\ UNCHANGED <<sourceVars, trigger, attempts, due, eval, tries, result, locks, stream,
                   requests>>

\* The claim's quantum is used up, or its time (COMPARISON_WORK_QUANTUM_SECONDS).
Exhausted(w) ==
    \/ job[w].batches = Quantum /\ UNCHANGED faults
    \/ 0 < job[w].batches /\ job[w].batches < Quantum /\ Fault

Yield(w) ==
    /\ Working(w)
    /\ job[w].progress.phase = "findings" => More(job[w].progress)
    /\ Requeue(w)
    /\ Exhausted(w)

Shutdown(w) == Working(w) /\ Requeue(w) /\ Fault

\* The outer handler: what the transaction did is rolled back.
FailComparison(w, retryable) ==
    LET c     == job[w].comparison
        again == retryable /\ attempts[c] < MaxAttempts IN
    /\ \/ Working(w)
       \/ job[w].pc = "waiting" /\ job[w].kind = "comparison"
    /\ Fault
    /\ state' = Set(state, c, IF again THEN "queued" ELSE "failed")
    /\ progress' = Set(progress, c, [progress[c] EXCEPT !.resumeAfterError = again])
    /\ due' = Set(due, c, ~again)
    /\ stale' = Set(stale, c, FALSE)
    /\ PublishIf(LatestCandidate(c), c, IF again THEN "retrying" ELSE "failed", "none")
    /\ Leaving(w)
    /\ UNCHANGED <<run, lastRun, enabled, last, trigger, attempts, eval, tries, result, locks,
                   stream, requests>>

\* The comparison was deleted under the job: its next write fails and writes no row.
LoseComparison(w) ==
    LET c == job[w].comparison IN
    /\ job[w].pc \in {"working", "evaluating"} /\ state[c] = "none"
    /\ \/ UNCHANGED baseline
       \/ PublishIf(job[w].kind = "comparison" /\ LatestCandidate(c), c, "failed", "none")
    /\ Leaving(w)
    /\ UNCHANGED <<run, lastRun, enabled, last, row, result, locks, stream, bounds>>

-----------------------------------------------------------------------------
(* Workers: one claim of a complete comparison's findings                  *)

StartFindings(w) ==
    LET c == job[w].comparison IN
    /\ job[w].pc = "waiting" /\ job[w].kind = "findings"
    /\ SourceLock(w)
    /\ job' = Set(job, w, [job[w] EXCEPT !.pc = "evaluating", !.progress = progress[c],
                                         !.authoritative = LatestCandidate(c)])
    /\ UNCHANGED <<sourceVars, row, result, lock, lane, stream, bounds>>

Evaluating(w) == job[w].pc = "evaluating" /\ state[job[w].comparison] # "none"

\* The evaluation's new state e, with its attempts and cursor.
Record(w, e, n, d, p) ==
    LET c == job[w].comparison IN
    /\ eval' = Set(eval, c, e)
    /\ tries' = Set(tries, c, n)
    /\ due' = Set(due, c, d)
    /\ stale' = Set(stale, c, FALSE)
    /\ progress' = Set(progress, c, p)
    /\ PublishIf(job[w].authoritative, c, "established", e)
    /\ UNCHANGED <<run, lastRun, enabled, last, state, trigger, attempts, result, locks, stream,
                   requests>>

Tries(w) == tries[job[w].comparison]

EvaluateBatch(w) ==
    LET p == job[w].progress
        q == [p EXCEPT !.finding = @ + 1] IN
    /\ Evaluating(w) /\ More(p) /\ job[w].batches < Quantum
    /\ Record(w, "evaluating", Tries(w), TRUE, q)
    /\ job' = Set(job, w, [job[w] EXCEPT !.progress = q, !.batches = @ + 1])
    /\ UNCHANGED faults

EvaluateYield(w) ==
    /\ Evaluating(w) /\ More(job[w].progress)
    /\ Record(w, "retrying", Tries(w), TRUE, job[w].progress)
    /\ Leaving(w)
    /\ Exhausted(w)

EvaluateShutdown(w) ==
    /\ Evaluating(w) /\ More(job[w].progress)
    /\ Record(w, "queued", Tries(w), TRUE, job[w].progress)
    /\ Leaving(w)
    /\ Fault

EvaluateFail(w) ==
    LET again == Tries(w) + 1 < MaxAttempts IN
    /\ Evaluating(w) /\ More(job[w].progress)
    /\ Record(w, IF again THEN "retrying" ELSE "degraded", Tries(w) + 1, ~again, job[w].progress)
    /\ Leaving(w)
    /\ Fault

EvaluateDone(w) ==
    /\ Evaluating(w) /\ ~More(job[w].progress)
    /\ Record(w, "complete", Tries(w), TRUE, job[w].progress)
    /\ Leaving(w)
    /\ UNCHANGED faults

-----------------------------------------------------------------------------
(* Crashes and time                                                        *)

\* The connection drops, and with it the open transaction and the session's locks.
Crash(w) ==
    /\ job[w].pc # "idle" /\ Fault
    /\ lock' = [c \in Comparisons |-> IF lock[c] = w THEN Free ELSE lock[c]]
    /\ source' = IF source = w THEN Free ELSE source
    /\ job' = Set(job, w, Idle)
    /\ UNCHANGED <<sourceVars, row, result, lane, stream, requests>>

BackoffEnds(c) ==
    /\ ~due[c]
    /\ due' = Set(due, c, TRUE)
    /\ UNCHANGED <<sourceVars, state, trigger, progress, attempts, stale, eval, tries, result,
                   locks, stream, job, bounds>>

HeartbeatAges(c) ==
    /\ ~stale[c] /\ (state[c] = "running" \/ eval[c] = "evaluating")
    /\ stale' = Set(stale, c, TRUE)
    /\ UNCHANGED <<sourceVars, state, trigger, progress, attempts, due, eval, tries, result,
                   locks, stream, job, bounds>>

-----------------------------------------------------------------------------

Work(w) ==
    \/ Begin(w) \/ StartDisabled(w) \/ Start(w) \/ PrepareIdentities(w) \/ ResourceBatch(w)
    \/ BeginItems(w) \/ ItemBatch(w) \/ Finalize(w) \/ BeginFindings(w) \/ FindingBatch(w)
    \/ FinishComparison(w) \/ Yield(w) \/ LoseComparison(w) \/ StartFindings(w)
    \/ EvaluateBatch(w) \/ EvaluateYield(w) \/ EvaluateDone(w) \/ Leave(w)

Failure(w) ==
    \/ FailFindings(w) \/ Shutdown(w) \/ (\E retryable \in BOOLEAN : FailComparison(w, retryable))
    \/ EvaluateShutdown(w) \/ EvaluateFail(w) \/ Crash(w)

Finish(c) == CommitCreate(c) \/ CommitRetry(c)
Scan(c)   == \E w \in Workers : Claim(w, c) \/ ClaimFindings(w, c)
Tick(c)   == BackoffEnds(c) \/ HeartbeatAges(c)

Next ==
    \/ \E r \in Runs : ObserveRun(r) \/ CompleteRun(r) \/ DeleteRun(r)
    \/ SwitchSource
    \/ \E c \in Comparisons : OpenCreate(c) \/ OpenRetry(c) \/ Finish(c) \/ RetryFindings(c)
                              \/ Scan(c) \/ Tick(c)
    \/ \E w \in Workers : Work(w) \/ Failure(w) \/ \E c \in Comparisons : Deliver(w, c)

Spec == Init /\ [][Next]_vars

\* Workers keep running and keep scanning, transactions end and time passes.
Fairness ==
    /\ \A w \in Workers : WF_vars(Work(w))
    /\ \A c \in Comparisons : WF_vars(Finish(c)) /\ WF_vars(Scan(c))
                              /\ WF_vars(BackoffEnds(c)) /\ WF_vars(HeartbeatAges(c))
FairSpec == Spec /\ Fairness

-----------------------------------------------------------------------------
(* Properties                                                              *)

InJob == {"waiting", "working", "evaluating", "leaving"}
Exists(c)  == state[c] # "none"
Deleted(c) == run[Baseline(c)] = "deleted" \/ run[Current(c)] = "deleted"

\* A cursor never claims more than the rows stored for it.
Backed(c, p) ==
    /\ 1 .. p.resource \subseteq resources[c]
    /\ 1 .. p.item \subseteq items[c]
    /\ p.phase \in {"items", "finalizing", "findings", "complete"} => p.resource = ResourceBatches
    /\ p.phase \in {"finalizing", "findings", "complete"} => p.item = ItemBatches

RowsHaveRuns   == \A c \in Comparisons : Exists(c) => Both(c)
LastIsComplete == last # NoComparison => state[last] = "complete"
CheckpointsBacked ==
    \A c \in Comparisons : Exists(c) => /\ Backed(c, progress[c])
                                        /\ state[c] = "complete" => progress[c].phase = "complete"
AttemptsLeft ==
    \A c \in Comparisons : state[c] \in Active /\ Counted(c) => attempts[c] < MaxAttempts
JobsLocked ==
    \A w \in Workers :
        /\ job[w].pc # "idle" => job[w].comparison \in Comparisons
        /\ job[w].pc \in InJob => lock[job[w].comparison] = w
        /\ job[w].pc \in {"working", "evaluating"} => source = w
\* What a job's comparison is, and that the cursor it carries is backed too.
JobHolds(w) ==
    LET c == job[w].comparison
        p == job[w].progress IN
    /\ job[w].pc \in {"called", "waiting"} => ~job[w].authoritative
    /\ job[w].pc = "waiting" => state[c] \in (IF job[w].kind = "comparison" THEN Active ELSE {"complete"})
    /\ job[w].pc = "working" =>
           /\ IF Exists(c) THEN state[c] \in Active /\ Backed(c, p) ELSE Deleted(c)
           /\ p.phase \in Durable /\ ~p.operatorRetry /\ ~p.resumeAfterError
           /\ p.phase = "identities" => p.prepared < 2
    /\ job[w].pc = "evaluating" =>
           IF Exists(c) THEN state[c] = "complete" /\ Backed(c, p) /\ p.phase = "complete" ELSE Deleted(c)
JobsHold == \A w \in Workers : JobHolds(w)
RetriesLocked ==
    \A c \in Comparisons : lock[c] = Api => /\ state[c] = "failed" /\ lane[c] # NotCounted
                                            /\ trigger[c] = "automatic" => source = Api
CountsHold ==
    \A c \in Comparisons : lane[c] # NotCounted =>
        /\ Cardinality(ActiveComparisons) <= lane[c]
        /\ \A d \in Comparisons : d # c => lane[d] = NotCounted

\* While a job acts as the source's latest comparison it still is: no newer run of the
\* source completes, and no newer comparison, between the reading and the publication.
AuthorityHolds ==
    \A w \in Workers :
        /\ job[w].pc \in {"working", "evaluating"} /\ job[w].authoritative
        /\ state[job[w].comparison] # "none"
        => LatestCandidate(job[w].comparison)

\* What the source says of its automatic baseline is what became of that comparison,
\* through failures, operator retries, and the source being switched off.
CoverageTruthful ==
    LET c == baseline.comparison IN
    c # NoComparison /\ state[c] # "none" =>
        /\ state[c] = "complete" <=> baseline.state = "established"
        /\ state[c] = "failed" <=> baseline.state = "failed"
        /\ state[c] = "complete" /\ eval[c] \in {"complete", "degraded"}
               => baseline.findings = eval[c]

\* The comparison the source names is the automatic one of its last run, which is the newest,
\* or was deleted with a run and never comes back; and whoever finishes it may say so.
CoverageNames ==
    LET c == baseline.comparison IN
    c # NoComparison =>
        IF Exists(c) THEN trigger[c] = "automatic" /\ lastRun = Current(c) /\ NewestCompleteRun(lastRun)
        ELSE Deleted(c)
NamedSpeak ==
    \A w \in Workers :
        /\ \/ job[w].pc = "evaluating"
           \/ job[w].pc = "working" /\ job[w].progress.phase = "findings"
        /\ Named(job[w].comparison) /\ Exists(job[w].comparison)
        => job[w].authoritative

\* What the properties below need of every state, and every action keeps.
IInv ==
    /\ TypeOK /\ RowsHaveRuns /\ LastIsComplete /\ CheckpointsBacked /\ AttemptsLeft
    /\ JobsLocked /\ JobsHold /\ RetriesLocked /\ AuthorityHolds /\ CountsHold
    /\ CoverageNames /\ NamedSpeak /\ CoverageTruthful

\* A complete comparison shows every changed row of both runs, whatever crashes, yields,
\* retries and operator resets happened on the way.
PublishedWhole ==
    \A c \in Comparisons :
        state[c] = "complete" => /\ resources[c] = 1 .. ResourceBatches
                                 /\ items[c] = 1 .. ItemBatches

\* A request or an ingest that adds active work stays within its budget, also when others
\* are admitted at the same moment.
CapacityHolds ==
    [][\A c \in Comparisons :
           state[c] \notin Active /\ state'[c] \in Active =>
               Cardinality(ActiveComparisons') <=
                   (IF state[c] = "none" /\ trigger'[c] = "automatic" THEN AutomaticCap ELSE ApiCap)]_vars

\* The source's last comparison never goes back to an older run.
LastAdvances ==
    [][last # NoComparison /\ last' # NoComparison => Current(last') >= Current(last)]_vars

\* Admitted work ends: the comparison is published, fails or is deleted with a run.
ComparisonsSettle ==
    \A c \in Comparisons : state[c] \in Active ~> state[c] \notin Active
\* The findings of a visible comparison are evaluated or given up on.
FindingsSettle ==
    \A c \in Comparisons :
        state[c] = "complete" /\ eval[c] \in {"queued", "retrying", "evaluating"}
            ~> state[c] = "none" \/ eval[c] \in {"complete", "degraded"}

\* docs/permission-evidence-and-comparisons.md: recoverable work resumes from the last
\* durable resource or item batch rather than replaying the comparison.
NeverReplays ==
    [][\A c \in Comparisons :
           state[c] \in Active /\ state'[c] \in Active /\ ~progress[c].operatorRetry
               => /\ progress'[c].resource >= progress[c].resource
                  /\ progress'[c].item >= progress[c].item]_vars
=============================================================================

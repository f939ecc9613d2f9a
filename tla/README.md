# Share Sentinel in TLA+

Share Sentinel collects inventories of network shares (SMB, NFS, SharePoint),
uploads them as artifacts to an API, ingests them with background workers into
PostgreSQL and derives comparisons, monitoring findings and reports from them.
This directory models the parts where several processes meet on the same rows,
files and messages, and the decisions whose errors would not show: what a
collector claims, what a comparison concludes, what a replayed line leaves. TLC
checks it, and TLAPS proves the main invariants for every value of the
constants.

    tlc -config MCIngestWorker.cfg MCIngestWorker      # one run
    tlapm IngestWorkerProofs.tla                       # the proofs of a module

## The system

| Component | State | Operations | Meets |
|---|---|---|---|
| Upload and run API (`api/app/routers/runs.py`, `services/storage.py`) | `scan_runs` rows; objects and `.multipart` entries under the artifact root | create run, upload artifact (preflight, stream, publish, select, clean up), delete run, preview a diff | workers through rows, advisory locks and the stream; project deletion through the project guard; the reconciler through files |
| Project deletion (`routers/settings.py`) | `projects`, and by cascade all rows | delete project, then unlink its artifacts | uploads, workers |
| Artifact reconciliation (`maintenance/reconcile_artifacts.py`) | none; a command run beside the API | scan the store, recheck and unlink old unreferenced objects | uploads |
| Job stream (`services/queue.py`, Redis) | stream entries, pending entries of the consumer group | add, read, claim, acknowledge | API, workers |
| Ingest worker (`worker/worker/main.py`) | one session per job: advisory lock, offset and batches in memory; the run's rows and `ingest_progress` | lock, resume, read and store lines, checkpoint, pause, retry, fail, complete; recovery scan | API, other workers, the source |
| Comparisons (`routers/comparisons.py`, worker) | `run_comparisons`, their rows and progress, the source's coverage | request, retry, compare automatically, materialize in quanta, recover | deletion of runs, the source's lock, findings |
| Monitoring (`routers/monitoring.py`, `services/monitoring.py`, worker) | sources, findings, occurrences, revisions, evaluation progress | evaluate, resolve, edit, accept a risk, reopen | ingest of later runs of the source, comparisons, analysts |
| Projects, members, users (`routers/projects.py`, `users.py`, `settings.py`) | memberships, roles, account flags | add, change, remove | each other, through guards |
| Inventory queries (`routers/inventory.py`, `pagination.py`) | none | parse a query, list pages, export | rows that come and go |
| SharePoint collector (`collector/sharepoint`) | SQLite state: delta links, staged changes | collect, stage, write artifact, upload, move the link | overlapping runs, Graph, API |
| SMB and NFS collector (`collector/share_sentinel_collector.py`) | spool, output file, counters | scan hosts with a pool of threads, write, claim, upload | hosts, operator, API |
| Sessions, tokens, throttling (`routers/auth.py`, `services/auth_rate_limit.py`, `rate_limit.py`) | sessions, tokens, Redis counters | log in, refresh, revoke, limit | |
| Audit (`services/audit.py`) | append-only rows | write in the caller's transaction, backfill | |
| UI, migrations, scripts | | | |

PROJECT.json names, for each of them, the sources, the modules and what is left
out. What makes them correct:

- *Artifacts.* A run never names an object that is not in the store. Nothing
  that a run names, a worker reads or a request may still select is ever
  removed. Cleanup, replacement, deletion and reconciliation run beside each
  other without a common lock.
- *Ingest.* Whatever is delivered twice, lost, interrupted or replaced, a
  COMPLETE run has exactly the rows of its artifact; a resumed job neither
  skips nor loses lines; only one worker works on a run; retries are bounded;
  an accepted run is settled in the end. Storing a line again changes nothing.
- *Comparisons.* A comparison shown as complete has every changed row, through
  yields, crashes and retries; the source's last comparison never goes back;
  admission holds when two requests count at once; what is said of permissions
  is true of the hosts, and no difference is silent.
- *Monitoring.* Absence is only concluded from the newest complete run of a
  source; a user's decision is not overwritten by an evaluation that started
  before it; an accepted risk does not outlive its date.
- *Members.* A project keeps an administrator, the system keeps a sysadmin.
- *Inventory.* A query selects what it reads; a reader of pages or batches
  misses no row that was there all along.
- *Collectors.* A delta link is never ahead of what was stored and delivered; an
  artifact claims no more than was seen; the run ends whatever hosts do.

What is hard to test, each with its line, is listed under "hazards" in
PROJECT.json: rows read before a lock is held, a recovery scan that writes rows
without the lock, a commit whose outcome is unknown, rows committed without
their offset, redelivery of a message that is being worked on, two runs of one
source evaluated in the other order, an analyst's edit beside an evaluation,
overlapping collectors with one state file, futures that nobody ends.

## Modules

| Module | Models |
|---|---|
| `ArtifactLifecycle` | artifact keys, objects and the processes that create, select, read and remove them |
| `IngestWorker` | stream, workers, checkpoints, retries, recovery, and the API requests that interfere |
| `RunContract` | what ingest promises about a run, without workers, locks or messages |
| `RecordStorage` | what storing one line does to the rows, and how what several lines say is merged |
| `Comparisons` | a comparison's row, the locks, quanta, retries and recovery, admission, and the source's coverage |
| `PermissionEvidence` | from an access list on a host to the summary a comparison reads |
| `ChangeClassification` | the row, the categories and the finding two versions of a resource or item lead to |
| `Compatibility` | which planes of two runs may be compared, as the API and as the worker decide it |
| `Findings` | evaluations of runs and comparisons, analysts' edits, expiry, on the rows of findings |
| `ProjectMembers` | memberships, and the guard that keeps an administrator in each project |
| `UserAdministration` | account flags, and the guard that keeps a sysadmin |
| `RunDiff` | the preview of what changed between two runs, merged from two ordered streams |
| `InventoryQueries` | queries, pages and exports of the inventory |
| `OrderedRows` | what ORDER BY does with the rows a statement finds, for the two above |
| `ComparisonEvidence` | composes `Comparisons` with `ChangeClassification`, `PermissionEvidence` and `Compatibility`: what a comparison that can be read concludes |
| `ComparisonAnswers` | adds what a preview of two runs answers: `RunDiff` |
| `IngestedInventory` | composes `IngestWorker` with `RecordStorage` and `InventoryQueries`: what a complete run has stored, and what the inventory answers of it |
| `DeltaSync` | the SharePoint collector's incremental synchronisation and its state file |
| `HostScan` | the network collector's threads, interrupts, claims and delivery |
| `...Proofs` | the theorems about the module they are named after; `ComparisonsProofs` and `IngestWorkerProofs` also those of `ComparisonEvidence`, `ComparisonAnswers` and `IngestedInventory`, and the modules these compose |
| `MC...` | the instances that TLC checks |

`IngestWorker` instantiates `RunContract` (`Contract`) with a refinement
mapping: the phase of a run is derived from its status, its published inventory
is its rows once it is COMPLETE and empty before.

Several modules look at the same rows at different grain, and each states what
the other may rely on:

- `ArtifactLifecycle` has every step of an upload, because the order of object
  and row operations matters there, and abstracts a worker session to "open" and
  "close". `IngestWorker` has every step of a worker session and abstracts an
  upload to what it does under the run lock, because no other step of an upload
  touches rows or messages. Deletion is two steps in the first and one in the
  second: only the artifact key is carried from one to the other.
- In `IngestWorker` a line is one row, written by an idempotent upsert.
  `RecordStorage` shows of the real record kinds that storing lines again, from
  any earlier one, changes nothing.
- In `Comparisons` a batch is a number; what the rows of a batch say is
  `ChangeClassification`, what it is computed from `PermissionEvidence`, and
  whether a plane is looked at at all `Compatibility`.
- `Comparisons` has the whole life of a comparison and no finding; `Findings` has
  the findings and takes an evaluation as one job that holds the source's lock.

### ArtifactLifecycle

State: `status` and `artifact` are the columns of `scan_runs`; `store` and
`parts` the files; `up`, `del`, `project` and `recon` the requests and the
command, each a record with a program counter and the local variables it
carries from one step to the next (an upload's `previous_artifact_key`, a
deletion's `artifact_key`, the reconciler's candidates); `opened` is the key a
worker session is reading. An upload is its key: keys contain a fresh uuid.

Locks are not variables. A transaction-scoped advisory lock is held from the
step that takes it to the step that ends the transaction, so `RunLockFree` and
`GuardFree` are read off the program counters, exactly as PostgreSQL releases
the locks with the transaction.

Each action is one transaction, one file-system call, or one stretch of code
without a suspension that others can observe. Best-effort cleanup may fail, and
a crash ends a request anywhere (`CrashUpload`). A commit that raises
(`CommitOutcomeUnknown`) may or may not have taken effect.

`SelectArtifact` writes as SQLAlchemy does, changed columns only: the row was
refreshed under the run lock as UPLOADED, so assigning UPLOADED again writes no
status, and a recovery claim that made it INGESTING in between stays.

The reconciler's age test is the one place where time enters. `OldEnough`
assumes that no request is still between its last byte and its commit after the
minimum age (at least one hour; 24 by default): the object of a request in
flight is not a candidate. A `.multipart` entry may be removed under a stalled
client, which then cannot publish.

### IngestWorker

State: `status`, `version` (the artifact, as the number of the upload that made
it), `offset`, `attempts`, `retryDue` and `stale` are the columns and the parts
of `ingest_progress` that are read back; `rows` the committed inventory; `lock`
the run's advisory lock; `queued` and `pending` the stream and the consumer
group's pending list; `job` what each worker is doing, with `at` the line in
memory and `base` the last committed checkpoint.

A line of an artifact is a pair of artifact and number, and also the row it
normalizes to. Rows are written by upserts on keys derived from the record
(`flush_item_batch`, `flush_error_batch`), so a set is what repeated lines
leave. Batches in memory are not a variable: what a checkpoint commits is the
lines between `base` and `at` (`RowsUpTo`), and a rollback loses them. Batches
that fill up before a checkpoint are only sent, not committed.

One action per stretch between commits: `StartIngest` is everything from the
row's load to the INGEST_STARTED commit, `IngestLine` one line with its periodic
checkpoint, `CommitFinalRows` the commit before findings are evaluated (the rows
are durable, the offset is not), `CompleteRun` the last commit. The exception
handler is `ScheduleRetry`, `GiveUp`, `RejectArtifact` (framing or integrity:
the inventory goes too) or `LeaveUnrecorded` (the handler's own statement fails,
or the row could not be loaded).

The stream promises nothing. Entries may be lost at any time, claimed while
their consumer is still alive, and read long after the run changed. An entry
acknowledged by one consumer and still in the batch of another is a second
message for the same run, which `CommitUpload` may add. A job from the recovery
scan has no message. A worker that finds the run locked leaves the message
pending.

A run id may be created again after deletion, as clients choose ids. A row
without size or digest of its artifact is not modelled: every upload writes
both, and the check for them only meets rows of earlier releases.

### RunContract

A run is absent, pending, accepted, complete or failed. `Publish` is one step
and shows the whole content of the artifact accepted last; `Accept` replaces
anything but a published artifact; `Remove` is the only step from complete.
Fairness (`Settle`) is that an accepted run does not stay accepted.

### RecordStorage

Definitions, no state machine: `Store` is what the worker does with one line
(`upsert_resource`, `flush_item_batch`, assessments), `Merge...` what it does with
one column of a row that exists. Every column is merged from its own old and new
value alone, so the merges are stated and checked one by one; the identities of
rows, on which lines of different kinds depend, together. A store remembers what
the worker caches (name to row), because a worker that resumes has an empty one.
`RowsSurviveReplays` stops anywhere, goes on from an earlier line with the cache
of a new worker or without a cache, and compares with one pass; this discharges
the assumption of `IngestWorker` that lines are idempotent. `Formats` are those of
the repository's collectors: what each puts on a resource, an item and an
assessment to say which share they are about. `attempted`, limits of text fields,
principals and permission entries are left out (the latter are rows under a
unique key that are inserted or found). Collectors always count outcomes; the
older form, a bare conclusion, is read by the worker but is not among the inputs.

`MCRecordStorage` stores the lines of one artifact step by step for the violation
below.

### Comparisons

State: `state`, `trigger`, `progress`, `attempts`, `due`, `stale`, `eval` and
`tries` are columns of `run_comparisons` and the parts of its JSON that are read
back; `resources` and `items` the batches whose rows are stored; `run`, `lastRun`,
`enabled`, `baseline` and `last` the runs and the row of their source; `lock`,
`source` and `lane` the advisory locks of the comparison, of the source and of the
project's admission; `job` what each worker carries in memory. A comparison is the
pair of its runs, because the pair is unique.

One action per transaction. Admission counts in one step and inserts in another
with the lock held between (`OpenCreate`, `CommitCreate`; a retry likewise);
`CreateAutomatic` is part of the ingest's last transaction. `Begin` takes the
comparison's lock and, for a job that speaks for the source, the source's;
`Start` reads what the job then carries (`authoritative`, the cursor), and each
`...Batch` commits rows and cursor together. A claim ends with its quantum
(`Yield`), with an exception (`FailComparison`, which may find the row gone:
`LoseComparison`), with a shutdown or a crash. Findings of a finished comparison
that were not evaluated are a job of their own (`StartFindings`). Deleting a run
removes its comparisons at any time; a worker in the middle finds nothing.

Left out: comparisons without comparable content and the branch for an obsolete
algorithm, whose phases are a part of those modelled; the rate limit; what the
rows are (see the next modules).

### PermissionEvidence, ChangeClassification, Compatibility

Functions of what is on the hosts. `PermissionEvidence` enumerates all a collector
may make of an access list (entries cut by a limit, entries it could not interpret,
a descriptor it could not read or parse, pages that fail) and every loss on the
way, and follows the claim through the worker: counts, eligibility of the hash,
comparability, the summary. Hashes are the values they are taken of. The collector
is honest, i.e. it counts what it omits; the order of entries, which the digests
normalise, is abstracted to a set.

`ChangeClassification` takes two versions of a resource or item, any planes, and
builds states, categories, change type, rank and policy as `_resource_change` and
`_item_change` do. `Compatibility` has the contexts that the collectors write, the
checks of the API for a requested comparison, and those of the worker for an
automatic one; lists that the code normalises are the values they normalise to, and
fields that always change together are one field.

### Findings

State: `finding` are the rows with their occurrences (`seen`), status, expiry,
newest run and revision; `eval`, `cursor`, `resolved`, `tries`, `due` and `stale`
the progress of evaluations; `job` the one that holds the source's lock; `session`
what an analyst has loaded, and locked. A run shows a sequence of candidate batches
and the policies it covers whole; which policies match what is `ChangeClassification`
for comparisons and abstracted here.

`CandidateBatch` is one committed batch of observations, `ResolveBatch` one batch
of resolutions of findings that no occurrence of the run supports, in the same
order and with the same budget as the code. An analyst loads rows in one request
and edits them in another: `LockRows` takes them with the revision that was loaded,
`Update` writes; findings whose rows are locked are skipped by workers and
maintenance (SKIP LOCKED). `ReopenExpired` is the maintenance statement. An
evaluation of an ingest is part of the session that completes the run, one of a
complete run the job a recovery scan or a retry delivers. Assignees, source health
and listings are left out.

### DeltaSync

State: the library (`content`, and when each item `changed`), the state file
(`items`, `token`) and each run's session with the rows of `pending_syncs` and
`staged_items`. A delta link is the number of changes the library had seen when the
enumeration was opened. Pages show each changed item as it is by then (`Page`), so
an item may be newer than the link, and the path a row carries (`above`) may be
older than the parent's own row.

`Open`, `Page`, `Complete`, `CountRows`, `CheckStage`, `Stream`, `Finalize`, `Upload`
and `Commit` are the transactions of a run. Reading the snapshot takes three of them,
because the connection commits each statement by itself: the rows are counted
(`CountRows`), the row of `pending_syncs` is looked for again (`CheckStage`, 833), and
one SELECT gives the stored and staged rows as they are when it starts (`Stream`, 873);
at the end their number must be the one counted (`Whole`). Another run may commit or
sweep in between. Durable means renamed in place, or accepted by the API: an upload may
be accepted without the collector knowing. The commit is conditional on the version of
`drive_state` that the run read (`Conflicts`).

Staged rows go when another run finds their session older than a day, whether it is
dead (`Start` with `old`) or alive (`SweepStalled`). The run's next use of them fails
(`MissStage`), its commit at the latest; only a sweep between check and SELECT is not
seen at once. A full run then streams nothing and fails its count, unless it had counted
none. An incremental one is left with the stored rows; if it staged as many new items as
deleted ones, or only moves, their number fits, and the artifact shows the library as of
the stored link instead of the run's (`Reaches`; `shows` remembers it).
`ArtifactShowsLibrary` says that an artifact is right for the link it reaches in every
case, and `TokenDelivered` that a run which reached less than its own link saves nothing.

410 answers, invalid rows, crashes and requested baselines may happen anywhere.
Left out: several libraries, the item budget, permissions, the fallback of selected
fields, migration of the state schema, hierarchies of more than two levels.

### HostScan

State: `scan` what the thread of each host is doing, `pending` and `batch` the
futures of the main thread, `tally` and `stats` its counters, `buffer` the spool,
`artifact`, `delivery`, `interrupts`. One step of a thread is one answer of a host
with the records it leads to; folders of a share are walked in any order, as
nothing observable depends on it. `WriteFails` is a full disk, `Cut` the item cap,
any call may fail. All shares hold the same tree. A run nothing happened to claims whole
content only if its listings stay below the cap (`Roomy`): a listing that reaches the
cap with a folder still waiting reports the limit, even if that folder is empty. An
interrupt is modelled where the code handles one: while hosts are scanned, while the
artifact is finalized, and during the upload. A second interrupt, during the wait for
running threads or the report, is not caught by the code and ends the process; that is
not modelled, nor are artifacts on standard output and the outcome of single capability
probes (`RecordStorage` merges them).

### RunDiff and InventoryQueries

No state: `RunDiff` has the two ordered streams, the gathering of rows into
resources and the one-pass merge; `InventoryQueries` the parser, the SQL conditions
with their three truth values, keyset pages and the export, over every history of
inserted and deleted rows. Each loop of the code is a function of the number of turns
it has taken (`gathered`, `merged`, `parsed`, `after`), defined from the turn before.
`OrderedRows` says what a statement's ORDER BY does: the row at place k is the one
that k - 1 rows come before, and rows that tie come in any order. The order by which
rows are sorted is the same for database and merge (see the observations).

### ProjectMembers and UserAdministration

A request is a transaction with READ COMMITTED isolation and without autoflush
(`db.py`): every SELECT is a step that sees what is committed by then, and all
writes happen in the step that commits. A request keeps what it read (`seen`),
because SQLAlchemy writes only attributes that differ from it, by primary key:
`Commit` changes the role or flags the row has by then, `CommitFails` is an
INSERT of a row that exists (IntegrityError) or an UPDATE of one that is gone
(StaleDataError); a DELETE of a row that is gone succeeds.

`CountAdmins` and `CountSysadmins` take the advisory lock and count in one step:
whatever others do between the two statements can be thought to happen before
the lock is taken. `End` releases the locks with the transaction. Requests wait
for a guard at most `lock_timeout`; without that, two assignments that demote members
in all projects, which they meet in no fixed order, would hold a guard each and wait
for the other's. `Asked` bounds what an instance asks for; the theorems hold for any.

The endpoints of `routers/projects.py`, `users.py` and `settings.py` that do the
same are one action. Authorization restricts project endpoints to
administrators; as sysadmins can make each change through `settings.py`,
`ProjectMembers` leaves it out. In `UserAdministration` it matters, because an
actor may not give up an own flag, and because nobody can act any more when no
sysadmin is left: that instance may stop, and does not check deadlock.

`overtaken` is a history variable. It records the one way around the guard that
the code leaves (see Seen while modelling), so that the invariants say exactly how far the
guard reaches: everything else that runs concurrently is ordered by it.

## Runs

Bounds are constants of the models, named where they are declared: `Uploads`,
`Deletes`, `Messages`, `MaxUploads`, `MaxRequests` and `MaxChanges` are the
requests, entries and changes that happen; `MaxFaults` the crashes, shutdowns,
exceptions and failures of what is remote; `...Batches`, `ArtifactLines`,
`ProgressEvery` and `Limit` the shape of the work.

| Run | Instance | Shows |
|---|---|---|
| `artifacts` | 1 run, 2 uploads, 1 deletion, project deletion, worker, reconciler | `NoDanglingArtifact`, `IngestReadsStoredArtifact`, `ReclaimedOnlyGarbage` under all interleavings of one replacement with everything else |
| `ingest` | 1 run, 2 workers, 1 message, 2 uploads, 3 lines with a checkpoint every 2, 1 retry, 1 fault, fair; and the inputs below | rows, wholeness, sessions, budget; `ImplementsFairContract`, the refinement of `RunContract` with its liveness; `RecordsHold`, `InventoryAnswers` |
| `members` | 2 projects, 2 users, 2 requests at a time, without end, fair | `AdminUnlessOvertaken`, with projects created and deleted while assignments run; `RequestsEnd`, also for two assignments that demote and hold each a guard the other waits for |
| `sysadmins` | 2 users, 2 requests | `SysadminUnlessOvertaken` |
| `comparisons` | 3 runs, 2 comparisons, 2 workers, a quantum of 2 batches, 2 attempts, 1 fault, 1 request | `PublishedWhole`, `AuthorityHolds`, `CoverageTruthful`, `LastAdvances`, `CapacityHolds` |
| `comparisons_settle` | 1 comparison, 2 workers, 2 resource and finding batches with a quantum of 3, 2 faults, 2 requests, fair; and the inputs below | `ComparisonsSettle`, `FindingsSettle`; `ConclusionsHold`, `RowsAreFaithful`, `AutomaticWithinRequested`, `PreviewIsExact` |
| `comparisons_docs` | 1 comparison whose items take 2 batches | a violation: see Findings |
| `findings` | 2 runs that show one, both or none of the evidence of a policy, an automatic and a backward comparison, 1 analyst, a resolution batch of 1, 1 fault, 1 request, fair | `EditsSeeTheRow`, `DecisionsStand`, `AbsenceHolds`, `EvidenceAdvances`, `EvaluationsSettle`, `AcceptanceEnds`, and the invariant `IInv` |
| `findings_docs` | 2 runs, no comparison | a violation: see Findings |
| `delta_sync` | 2 overlapping runs, one to a file and one that uploads; a folder and a file in it; 2 changes after the first version; 1 fault; fair | `TokenCovers`, `TokenDelivered`, `TokenAdvances`, `ArtifactShowsLibrary`, `CatchesUp`, and the invariant `IInv` |
| `host_scan` | 3 hosts with 2 shares, an export and nothing; 5 kinds of run with 1 or 2 threads; 2 faults and an interrupt; fair | `ClaimsHold`, `DeliveredOrKept`, `ScanEnds` |
| `records_docs` | artifacts of the SMB stream, stored line by line | a violation: see Findings |

Six modules have no steps: `PermissionEvidence`, `ChangeClassification`,
`Compatibility`, `RunDiff`, `InventoryQueries` and `RecordStorage` define functions of
their inputs, and what makes them correct are formulas over all inputs within a bound.
Their invariants say when a reader relies on them: `RecordsHold` and
`InventoryAnswers` in a state with a COMPLETE run, `ConclusionsHold` with a complete comparison, `RowsAreFaithful` from the
first batch of rows, `AutomaticWithinRequested` with an automatic comparison,
`PreviewIsExact` with two COMPLETE runs. TLC evaluates
the formulas once, and their bounds are independent of those of the state machine.

Why the bounds are enough. The conflicts are between pairs (an upload and a
deletion, a session and a duplicate, an old artifact and its replacement, two runs
of a source, two collectors with one state file), and each pair is in an instance
together with a third party that can interfere. Two workers exhaust the roles of a
lock (holder, refused). An artifact with lines before, at and after a checkpoint
has every relation of `at`, `base` and `offset`; a quantum of two batches ends in
every phase of a comparison. Two requests suffice for a guard with one holder, and
for the race around it, in which all other requests can run between two steps of
one; two users are one administrator more than the guard has to keep. In `members` one
request at a time asks for anything for one user, single changes or assignments with any
role, and the other takes the role of an administrator from the other user, in one
project or in all, or promotes the first one: two removals or demotions race for the
last administrator, two assignments demote in both projects in opposite orders, and a
row that was read as no administrator's is promoted meanwhile. The last case occurs in
both runs and leaves a project, or the service, without an administrator; it is marked
by `overtaken`, and what the runs show is that there is no other. Operators and viewers
differ in nothing the requests look at, so one lesser role stands for both. The safety
properties that have a theorem (see Proofs) do not rest on these bounds at all.

For the formulas: *permissions*: one entry per provider, two subjects, one
descriptor head, planes in every combination: a conclusion is about one subject
that differs or a set that does, and entries matter by their number. *Rows*: field
values 0 and 1, as only equality is asked. *Compatibility*: two identities, two
targets besides "everywhere", three scopes that differ in the share filter or in
the tree. *Preview*: ten stored resources over three keys, in all combinations, and
limits 1 and 2. *Queries*: up to five tokens and three clauses over two fields, all
rows with absent columns and children. *Pages*: four rows with tied times, three
reads, sizes 1 to 3: a cursor may be at a tie, at a deleted row and past the end.
*Records*: sequences of up to three, two observers that disagree and one that
repeats the first.

`artifacts`, `comparisons` and `sysadmins` declare symmetry (of uploads; of workers;
of users and requests), under which their properties are invariant. No run with a
liveness property does.

### Fairness

`IngestWorker` assumes weak fairness of time (`TimeStep`: a retry falls due, a
heartbeat ages), of the end of an upload's transaction, of a worker's own steps
once it has a job (`Progress`), and of its recovery scan (`Recover`). The worker
loop comes to the scan after each read of the stream, which blocks three seconds
at most, and handles the messages it read before. A worker that is killed stops
in the middle: `MaxFaults` bounds how often, so the statement is that runs settle
once workers stop dying. Nothing is assumed about the stream (no entry need ever
arrive), about uploads and deletions, or about which error a session meets.

`Comparisons` assumes the same of each worker's steps (`Work`) and, for each
comparison, of the end of a request's transaction (`Finish`), of the recovery scan
(`Scan`) and of time (`BackoffEnds`, `HeartbeatAges`). `Findings`: of the
evaluation that runs, of claims and the jobs they lead to, of time, of the
maintenance statement (`ReopenExpired`, which the worker loop calls), and of an
analyst's request once the rows are loaded. That an advisory lock is waited for in
no order does no harm: its holders leave for good when their work is done.

In `ProjectMembers` each request's own steps are fair (`Progress`): the thread
that serves it goes on, and PostgreSQL ends its wait for a lock. A guard that is
never free is no obstacle, because the timeout then stays enabled. In `DeltaSync`
the scheduled runs start again and go on (`Work`); in `HostScan` the main thread and
each host's thread do, because every call to a host has a timeout. Changes of the
library, interrupts, faults, loads and edits never have to happen.

## Proofs

All of the following holds for every value of the constants that satisfies the
named assumption of the module (`RequestsAssumption`, `IngestAssumption`,
`MembersAssumption`, `UsersAssumption`, `ComparisonsAssumption`,
`EvidenceAssumption`, `ClassificationAssumption`, `CompatibilityAssumption`,
`FindingsAssumption`, `DeltaSyncAssumption`, `HostScanAssumption`, `RunDiffAssumption`,
`InventoryAssumption`, `RecordAssumption`, `PlaceAssumption`), which only fix the
types of the constants and that "no such thing" is none of them; `RunDiffAssumption` also
says that a run stores finitely many items, that the items of a resource are told apart by
their identifier or their path, and that all or none of them have identifiers (the unique
keys of `items`, and one provider per resource); `DeltaSyncAssumption`
and `HostScanAssumption` also say that a library or a share is a tree of at most two
levels, and the latter that hosts, shares, exports and entries are finitely many.

`ArtifactLifecycleProofs`: `InductiveInvariant` is `Spec => []IInv`. The property
`NoDanglingArtifact` is not inductive: it needs that keys about to be unlinked
are named by no run (`KeysToUnlinkRetired`), which needs that a key belongs to
one run and is selected once (`KeyOwnership`, `RunLockExclusive`), that the key
an upload replaces is still the current one (`PreviousIsCurrent`), and that a
published object waits for its request (`PendingObjectsStored`). There is one
lemma per group of actions. `ArtifactsNeverDangle` and `IngestKeepsItsArtifact`
are conjuncts; `OnlyGarbageIsReclaimed` is an action property, proved from the
invariant by going through the five steps that remove an object.

`IngestWorkerProofs`: `IInv` adds to the properties which columns go together and
what an upload under the lock relies on (`RowConsistent`). The core is
`FlushedRows`: in a session, the rows once the lines up to some line are flushed
are rows of the run's artifact and hold every line up to it. It follows from
`SessionOwnsRow` (the durable offset is the session's checkpoint) and
`RowsMatchArtifact`, and carries every checkpoint. Lines are an opaque interval
in all other steps, known by five lemmas. `ProgressIsKept` is an action property
that also needs that a run without an artifact has no progress.
`PipelineImplementsContract` maps each action to a step of `RunContract` or a
stutter: publication is atomic because rows are shown only with the status, and
whole because `CompleteRun` flushes all lines.

The same module has the results of `RecordStorage`. They hold for artifacts and sequences of
records of any length (`MaxObservations` is any number) and any `OutcomeLimit`; the values in
the records are those the module defines, such as two shares and an item that moves and
is deleted.

- *Merges* (`ObservationsAreJoined`, `FinalSummaryStays`, `AccessesHold`,
  `IdentityIsKeptByEndpoints`). A fold over records stands for a loop, so each merge is
  first given a table of its results, and `Folding` and `Merging` turn a fold into a
  function with one value per record. What is left of records stored again follows from one
  of three shapes: a merge that absorbs what it has seen, one in which a later record
  overwrites an earlier one and the last stands, or one that changes nothing. For a
  capability, what is kept is the maximum of each count, and the conclusion is that of the
  strongest record (`Strongest`), which is independent of their order.
- *Storing* (`ReplaysLeaveRows`). A store is `Good` when its rows are those of the format,
  no two share a key, and its cache is right about the rows it names; so is the one a worker
  resumes with, which is read from the rows (`ResumedGood`). What a line does to the rows of a good store does not depend on the
  cache (`LineStored`), and the order of an artifact (`SubjectsFirst`, `ResourcesFirst`)
  lets each line find the row it is about (`NextFits`). The invariant of a replay is that
  the rows are those of the crashed store, but that an item already stored again has the
  path and the deletion it had at that line of the first pass (`Lag`); past the crash both
  stores are alike and stay so.
- *Shares* (`SharesStayApart`). After n lines the rows are exactly the keys told so far, so
  no two shares meet in one row. This needs the hypothesis that `Formats` leaves out the SMB
  stream, where it is false (see Findings); `RecordsStored`, which states `RecordsHold` of
  every state, has the same hypothesis, and the run `ingest` satisfies it.
  `ReplaysLeaveRows` holds of all four formats.

`ProjectMembersProofs` and `UserAdministrationProofs`: that an administrator
remains is not inductive, since a commit demotes long after the count. `IInv`
adds that a counted decision owns the guard, and that the others it counted are
still there. Both follow from a lemma for steps that change a single request
(`RequestStep`) and one that says what a commit does (`CommitEffect`): if it is
not overtaken, it takes the role from its target at most, and only when it owns
the guard, which no second request can at the same time.

`ComparisonsProofs`: a complete comparison is whole because no cursor, durable or in
a worker's memory, is ahead of the rows (`CheckpointsBacked`, `JobsHold`), which
needs that a job holds its lock (`JobsLocked`) and that an operator's retry, which
resets the cursor, excludes it (`RetriesLocked`). `AuthorityHolds` rests on the
source's lock, `CapacityHolds` on one request at a time being between its count and
its insert (`CountsHold`). The proof first says which steps can disturb a row at all
(`Frame`), then gives the few shapes such a step has (a batch, an evaluation, an
end), and has one lemma per conjunct over these shapes. `LastOnlyAdvances` and
`CapacityIsKept` are action properties proved from it. `CoverageTruthful` needs two more
facts: the comparison a source names is the automatic one of the last run it
evaluated, which is the newest complete one, unless the run was deleted for good
(`CoverageNames`); and the job that ends or evaluates that comparison is still
authoritative when it writes the source's row (`NamedSpeak`). Retries, deletions and
overtaking runs are the steps that could make the source speak of a comparison that
has changed since.

The same module has the results of `ComparisonEvidence`: if an assessment is comparable, what is stored is the whole
list (`EvidenceHolds`): the stored entries are a subset of those on the host, as many as
were observed, and all were observed, so a finite set and its subset have equal
cardinality. Equal quality means the same subjects were assessed, so an equal digest
is equal evidence (`TrueConclusions`). A run that calls its permissions complete has a
comparable summary of every resource (`CompleteIsComparable`), and one that calls its
inventory complete has stored all of it (`ClaimedIsStored`). `TrueRows` goes
pair by pair of rows: each difference sets a category, each test is symmetric but
for appearance, and a finding is made exactly when the rank is at least 70.
`ConcludesLess` first says what each collector's contexts are like, then that two of
one signature agree in all the API compares. `Conclusions`, `FaithfulRows` and
`WithinRequested` state the results of every state of the composed specification.
They hold whatever the state is, so the rest of `Comparisons` is not needed for them.

The loops of `InventoryQueries` (proved about in `IngestWorkerProofs`) and `RunDiff` (in
`ComparisonsProofs`) compute over data. The library's induction
theorems take the property as an operator, so each loop has its invariant proved by least
counterexample: a set of numbers that has no least element is empty (`Upward`), and the
set is that of the turns after which the invariant fails. `Recursion` gives a function
defined from the turn before its two equations.

- *Queries* (`QueriesMean`). The parser's invariant (`ParsedTo`) relates what it holds
  after n tokens to the prefix of the query: the alternatives between the ORs read so far,
  of each the clauses with the signs they have, and whether the prefix can still become
  well-formed. `ClausesHold` goes through the three-valued connectives: when a condition is
  NULL is known for each clause (`Equals` with an absent column), hence when its negation
  is not the complement, and that this never happens to the rows the worker stores.
- *Pages and exports* (`PagesHold`, `ExportsHold`). Rows in the order of a keyset are
  strictly ordered, and a cursor cuts the order where its row stood, whether or not it is
  still there; the invariant of a listing is that the rows given are ordered, all before
  the cursor, and hold each lasting row that is not after it. A page that has a successor
  has at least one row, so as many requests as rows end it.
- *The preview* (`PreviewsHold`). `GatheredSoFar`: after n rows the records are those of
  the resources seen, in order, each with the items of its rows so far; hence the records
  of a run are its resources, each once, ordered by key (`RecordsAreResources`). Items with
  and without identifiers have the counterparts that `Difference` asks for, so one resource's
  churn is exact (`ChurnIs`). `MergedSoFar`: whatever both places of the merge have
  passed is counted and the bounded lists hold the first of it; as both streams are ordered,
  no resource is passed in one before its counterpart is met in the other. `HeaviestFirst`:
  the list of changes is the head of an order by weight, so no change left out weighs more.

`InventoryAnswered` and `PreviewsExact` state both of every state of the compositions.

`FindingsProofs`: an edit applies to the row the analyst saw because every write to a
row raises its revision and the request compares the revision once it has the row's
lock; so a held row is the one that was loaded as long as its revision is
(`SessionsHold`), whatever evaluations, expiries and other edits came between.
`DecisionsStand` (a resolved finding reopens only on a new occurrence that no complete
newer run supersedes) and `AbsenceHolds` (a finding is resolved by absence only when
the newest run covers its policy whole and does not show it) need that no newer run
completes while an evaluation acts on the newest evidence (`AuthorityKept`) and that a
candidate batch before the cursor has been observed (`CursorsObserved`), also over
crashes, retries and a source that moved on. `NewestEvidenceStays` follows from the
columns of a row going together (`RowsConsistent`).

`DeltaSyncProofs`: items change, move and go at any time, and a row may be older than
its parent's. The invariant says of each run that its link covers the
library as far as its pages went (`LinkFits`, `TodoFits`), and that its staged rows and
the stored ones agree with the library for everything that did not change after the
link (`StageFits`), although other runs commit in between; a commit then carries
`TokenCovers` over. `TopRow` (an item at the top carries its own parent) is what
the path in an artifact needs. `StoredLinkDelivered` rests on `Shows` and `ShowsFits`: a
durable artifact shows the link it reached, and that is the run's own as long as its row
of `pending_syncs` is there, without which it cannot commit. `StoredLinkAdvances` and
`ArtifactIsTrue` are action properties; the second shows that merging stored and staged
rows gives each settled item the path it has, and that after a sweep (`PendingFits`:
nothing is staged) the stored rows do, or that a full run counted nothing because
nothing was there (`CountFits`).

`HostScanProofs`: what an artifact claims is decided from a few counters once all threads
are gone, so the invariant says at every place of a thread what the counters stand for.
Nothing is recorded that the thread has yet to ask for (`Unseen`), hence a new record is
counted once (`Totals`). While no gap is known, whatever should be recorded up to where
the thread is, is (`Structure`); likewise with missing descriptors (`ListsKept`) and with
errors (`Contents`), where an entry not seen yet is in a folder that still waits. Every
step of a thread either keeps this or raises the counter: one lemma per action
(`...Fits`) shows it for the thread that moves, and `FactsKeep` for all others, whose
records no step touches. `Smooth` says the converse for a run nothing happened to.
`Counting` and `HostsFit` account for the hosts: when the main thread reports without
having been cancelled, each was counted, and with no failure counted each ended well
(`AllWell`), so that the facts about its last place are what the artifact claims
(`ClaimsAreSo`). `ClaimsAreTrue` and `NothingIsLost` follow.

Only model-checked: liveness (`RequestsEnd`, `ComparisonsSettle`, `FindingsSettle`,
`EvaluationsSettle`, `AcceptanceEnds`, `CatchesUp`, `ScanEnds`, and the liveness of the
contract), which is beyond the prover, and the violations below. Every invariant that a run
checks is also a theorem.

## Findings

### Shown by a run

`records_docs`, a bug. The comment at `worker/worker/main.py:1246` says of a resource
record that an earlier placeholder is upgraded "instead of creating a duplicate for
the same named resource". In the stream the SMB collector writes by default, a share
has a `provider_resource_id` on its resource record
(`share_sentinel_collector.py:4742`) but not on its items (4932-4942). The worker
looks an item's resource up without it (`main.py:11131`), misses the identified row,
and `upsert_resource` (1256-1268) inserts a second resource of the same name, to
which all items go. The identified row keeps access level and permissions and has no
item; assessments of items, which carry the identifier, are refused (1427). The
compact JSON of the same scan is not affected, as nested items inherit the share's
identifier (`main.py:5947`).

`comparisons_docs`. `docs/permission-evidence-and-comparisons.md:145` says that work
"resumes from the last durable resource or item batch rather than replaying the full
comparison". Every claim sets the phase to `materializing_resources`
(`main.py:9393-9397`), so the test for a finished resource phase (9467) reads its own
assignment: a comparison that yielded in its items replays the last resource step,
starts the items over and drops the findings cursor (9524-9532). One whose item
history takes more batches than a quantum never finishes, which is why
`ComparisonsSettle` is stated of an instance whose quantum covers it.

`findings_docs`. `docs/monitoring-and-findings.md:62` says that state-based findings
are resolved "only when a replacement run has authoritative coverage".
`_resolve_absent_state_findings` (`main.py:8572-8588`) resolves whatever the run it
evaluates has no occurrence of, and whether that run is the newest one only looks at
COMPLETE runs (3340-3359). A newer run whose ingest committed a batch of observations
and lost its worker is not COMPLETE: the older run's ingest resolves what the newer one
has seen, and the recovered ingest resumes after its cursor (8649) and does not observe
it again. `AbsenceHolds` and `DecisionsStand` say what does hold.

### Seen while modelling

Documents that say more than the code:

- `docs/reference/auth-rbac.md:91`: "the last project admin cannot be removed or
  demoted". A request decides from the row it read that no count is needed
  (`projects.py:283`; the same in 161, 204 and `settings.py:1341`, `1379`); the user is
  then made administrator and the other one demoted; the request commits by primary
  key. `GuardKeepsAdmin` says that this is the only way: the history variable
  `overtaken` marks it. `auth-rbac.md:87` and `_enforce_admin_safety` (`users.py:409`)
  are the same for sysadmins, `GuardKeepsSysadmin` likewise.
- `docs/sharepoint.md:282`: when the checkpoint fails after an upload, "the accepted
  snapshot remains valid"; `share_sentinel_sharepoint.py:894`: the artifact "is still a
  complete snapshot". Not if the staging of an incremental run was swept between
  `state.py:833` and 873: with as many new items as deleted ones, or only moves, the
  count fits, the artifact shows the items as they were at the stored link, and the
  commit fails later. It
  takes a run that is a day old by then; the next one shows the changes.
- `docs/reference/api.md:172`: deleting a run "Deletes a run and its stored artifact."
  `delete_run` reads the row (`runs.py:1917`) before it takes the lock and does not
  refresh it, as the upload path does (1152): an upload committed in between leaves its
  object behind until `reconcile_artifacts --apply`. No run is affected.
- `docs/permission-evidence-and-comparisons.md:112`: missing contracts make a dimension
  indeterminate. An automatic comparison accepts two runs that both lack them, and runs
  whose token was opaque, which the API refuses; the worker compares the cloud of Graph,
  the API does not. `AutomaticWithinRequested` is therefore about contexts that the
  repository's collectors write, with tokens that could be inspected.
- `docs/reference/api.md:418` and `inventory.py:1656`: later inserts are excluded from an
  export. Rows whose number was allocated earlier and committed later may still appear.
- The comment at `main.py:4290` calls merging capabilities idempotent. Conclusions
  without counts, as earlier collectors wrote them, are not: a counted weaker outcome
  overrides one, and a replay may change the evidence text.

What the models show to be otherwise than a reader may expect, as the code intends:
a crash does not count as an attempt, so `RetryBudget` bounds recorded failures only,
and a run whose artifact kills the process is retried without end (`main.py:11676`);
a duplicate message for a run that was deleted and created again fails the new run
("missing artifact key") until something is uploaded.

Smaller ones:

- `access_state` "indeterminate" is never produced (8864, 8902): a definite change of
  location or items whose permissions could not be compared raises no
  `comparison.indeterminate` finding. A difference of `access_level` is silent when no
  capability was observed. A candidate row that has only indeterminate item changes ends
  as "changed". A collision of entry keys leaves its batch pending, so later flushes
  raise again.
- In the stream, an item before its resource makes a placeholder that the resource
  upgrades; a replay from the start makes it again. An assessment before its item gains
  a row on replay. An identifier under two names makes the name depend on the cache.
- The diff preview merges in the order of the database and compares in Python's: a
  collation that orders differently breaks the merge. NFS exports that differ only in
  case are one resource to it. Strict compatibility is never true for SMB.
- `showmount` paths with blanks are cut while the status stays complete
  (`share_sentinel_collector.py:3800-3816`). `NOT provider=` never selects endpoints
  whose provider is NULL. Two child clauses may be met by different children. A listing
  by `updated_at` may skip a row that is updated between pages. The slot of an export
  leaks if a lookup before the stream raises (`inventory.py:1625`). SharePoint counts a
  library's items before it streams them (`collection.py:2279`).
- A cancel between SMB and NFS of one host returns `succeeded`; its claims are safe only
  because `interrupted` is part of them.
- An accepted risk that has expired and is observed again violates
  `ck_findings_accepted_risk_expiry` until maintenance reopens it.
- The reconciler's minimum age is also how long a client may stall
  (`reconcile_artifacts.py:198`).

## Not modelled

- *Sessions, tokens and throttling*: rows that one statement creates, checks or revokes,
  and counters whose steps are one script each; a model would restate the statements.
- *Audit*: rows written in the transactions modelled and read by nothing here.
- *Web interface, migrations, scripts*: no state or concurrency of their own.
- *SharePoint*: discovery of sites, throttling of Graph, and the budgets and circuit
  breaker of the permission collector, whose outcome (a partial claim) is an input of
  `PermissionEvidence`.
- *Comparisons*: the narrowing of SMB identities (`main.py:3756-3858`, `9240-9290`), the
  counters of the summary, and what is listed above. `_existing_comparison_baseline_coverage`
  cannot be reached from an automatic comparison.
- *Ingest*: normalization of text, metrics, heartbeat files. PostgreSQL's row locks are
  modelled only where a request keeps one across steps (`Findings`): each other
  transaction that writes a run row holds its advisory lock or is one statement.
- Each module's section above names what it leaves out of its own component.

## Plan

Done: artifacts, ingest, members, comparisons, evidence, findings, delta links, host
scan, inventory, the preview, and the proofs above. What would add most, in order:

1. Ingest of a run, its evaluation and its automatic comparison as one composition, with
   the order of run, source and comparison locks and the wait for each.
2. Identity narrowing of SMB and the permission collector's budgets.

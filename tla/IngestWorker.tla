---------------------------- MODULE IngestWorker ----------------------------
(***************************************************************************)
(* Ingest of uploaded artifacts: the Redis stream and its consumer group,  *)
(* the workers with their per-run advisory lock, line checkpoints, retries *)
(* and crash recovery, and the API requests that give a run an artifact or *)
(* delete it.                                                              *)
(*                                                                         *)
(* An artifact is the number of the upload that made it; its line i is     *)
(* <<artifact, i>>, also the row the line normalizes to: rows are written  *)
(* by idempotent upserts, so a run's inventory is a set.                   *)
(***************************************************************************)
EXTENDS Naturals

CONSTANTS
    Runs, Workers,
    Messages,       \* stream entries that may exist at the same time
    RunOf,          \* the run a stream entry names
    NoRun, NoMessage, Free, Api,
    ArtifactLines,  \* lines of an artifact
    ProgressEvery,  \* INGEST_PROGRESS_EVERY_LINES
    MaxRetries,     \* INGEST_MAX_RETRIES
    MaxUploads,     \* bound: upload attempts per run
    MaxFaults       \* bound: crashes, shutdowns and unrecorded failures

ASSUME IngestAssumption ==
    /\ RunOf \in [Messages -> Runs]
    /\ NoRun \notin Runs /\ NoMessage \notin Messages
    /\ Free \notin Workers /\ Api \notin Workers /\ Free # Api
    /\ ArtifactLines \in Nat /\ ProgressEvery \in Nat \ {0}
    /\ MaxRetries \in Nat /\ MaxUploads \in Nat /\ MaxFaults \in Nat

VARIABLES
    status,     \* scan_runs.status, "NONE" when there is no row
    version,    \* scan_runs.artifact_key: the artifact's number, 0 for NULL
    rows,       \* the run's committed inventory rows
    offset,     \* ingest_progress.line_offset
    attempts,   \* ingest_progress.attempt_count
    retryDue,   \* ingest_progress.next_retry_at is absent or in the past
    stale,      \* heartbeat_at is older than INGEST_STALE_RUN_SECONDS
    lock,       \* holder of the run's advisory lock
    seen,       \* the status an upload read under the lock
    uploads,    \* upload attempts of the run so far
    queued,     \* stream entries no consumer has read
    pending,    \* entries read and not acknowledged
    job,        \* what each worker is doing
    faults      \* faults so far

row    == <<status, version, rows, offset, attempts, retryDue, stale>>
api    == <<seen, uploads>>
stream == <<queued, pending>>
vars   == <<row, lock, api, stream, job, faults>>

Uploadable == {"PENDING_UPLOAD", "UPLOADED", "FAILED"}
RunStatus  == {"NONE", "INGESTING", "COMPLETE"} \cup Uploadable

Lines(v, from, to) == {v} \X ((from + 1) .. to)
Content(v)         == Lines(v, 0, ArtifactLines)

JobPC == {"idle", "called", "locked", "ingesting", "monitoring", "leaving", "acking"}
Job   == [pc: JobPC, run: Runs \cup {NoRun}, msg: Messages \cup {NoMessage},
          version: 0 .. MaxUploads,   \* the artifact it opened
          at: 0 .. ArtifactLines,     \* line_offset in memory
          base: 0 .. ArtifactLines,   \* last_line_offset: the last checkpoint
          tries: 0 .. MaxRetries]     \* attempt_count when it was loaded
Idle  == [pc |-> "idle", run |-> NoRun, msg |-> NoMessage,
          version |-> 0, at |-> 0, base |-> 0, tries |-> 0]

TypeOK ==
    /\ status \in [Runs -> RunStatus]
    /\ version \in [Runs -> 0 .. MaxUploads]
    /\ rows \in [Runs -> SUBSET ((1 .. MaxUploads) \X (1 .. ArtifactLines))]
    /\ offset \in [Runs -> 0 .. ArtifactLines]
    /\ attempts \in [Runs -> 0 .. MaxRetries + 1]
    /\ retryDue \in [Runs -> BOOLEAN]
    /\ stale \in [Runs -> BOOLEAN]
    /\ lock \in [Runs -> Workers \cup {Free, Api}]
    /\ seen \in [Runs -> RunStatus]
    /\ uploads \in [Runs -> 0 .. MaxUploads]
    /\ queued \subseteq Messages
    /\ pending \subseteq Messages
    /\ job \in [Workers -> Job]
    /\ faults \in 0 .. MaxFaults

Init ==
    /\ status = [r \in Runs |-> "NONE"]
    /\ version = [r \in Runs |-> 0]
    /\ rows = [r \in Runs |-> {}]
    /\ offset = [r \in Runs |-> 0]
    /\ attempts = [r \in Runs |-> 0]
    /\ retryDue = [r \in Runs |-> TRUE]
    /\ stale = [r \in Runs |-> FALSE]
    /\ lock = [r \in Runs |-> Free]
    /\ seen = [r \in Runs |-> "NONE"]
    /\ uploads = [r \in Runs |-> 0]
    /\ queued = {}
    /\ pending = {}
    /\ job = [w \in Workers |-> Idle]
    /\ faults = 0

Set(f, r, x) == [f EXCEPT ![r] = x]

\* update_run_status: every progress field is rewritten and the heartbeat is now.
UpdateRun(r, s, at, tries, due) ==
    /\ status' = Set(status, r, s)
    /\ offset' = Set(offset, r, at)
    /\ attempts' = Set(attempts, r, tries)
    /\ retryDue' = Set(retryDue, r, due)
    /\ stale' = Set(stale, r, FALSE)

-----------------------------------------------------------------------------
(* The API                                                                 *)

CreateRun(r) ==
    /\ status[r] = "NONE"
    /\ status' = Set(status, r, "PENDING_UPLOAD")
    /\ UNCHANGED <<version, rows, offset, attempts, retryDue, stale, lock, api, stream,
                   job, faults>>

\* Mutant of LockForUpload: the run lock is not tried.
LockForUploadUnlocked(r) ==
    /\ uploads[r] < MaxUploads
    /\ lock[r] # Api /\ status[r] \in Uploadable \cup {"INGESTING"}
    /\ lock' = Set(lock, r, Api)
    /\ seen' = Set(seen, r, status[r])
    /\ uploads' = Set(uploads, r, uploads[r] + 1)
    /\ UNCHANGED <<row, stream, job, faults>>

\* pg_try_advisory_xact_lock, then the row is refreshed under the lock.
LockForUpload(r) ==
    /\ uploads[r] < MaxUploads
    /\ lock[r] = Free /\ status[r] \in Uploadable
    /\ lock' = Set(lock, r, Api)
    /\ seen' = Set(seen, r, status[r])
    /\ uploads' = Set(uploads, r, uploads[r] + 1)
    /\ UNCHANGED <<row, stream, job, faults>>

RollbackUpload(r) ==
    /\ lock[r] = Api
    /\ lock' = Set(lock, r, Free)
    /\ UNCHANGED <<row, api, stream, job, faults>>

\* Mutant of CommitUpload: only a failed run's inventory is cleared.
CommitUploadKeepsRows(r) ==
    /\ lock[r] = Api
    /\ lock' = Set(lock, r, Free)
    /\ version' = Set(version, r, uploads[r])
    /\ status' = Set(status, r, IF seen[r] = "UPLOADED" THEN status[r] ELSE "UPLOADED")
    /\ rows' = IF seen[r] = "FAILED" THEN Set(rows, r, {}) ELSE rows
    /\ offset' = Set(offset, r, 0)
    /\ attempts' = Set(attempts, r, 0)
    /\ retryDue' = Set(retryDue, r, TRUE)
    /\ UNCHANGED <<stale, api, stream, job, faults>>

\* A replaced or failed artifact takes its inventory with it.  An UPLOADED row
\* keeps its status column, which a recovery claim may have changed meanwhile,
\* and may lose its heartbeat.  The stream gets the job once, again by a retry
\* whose first attempt did arrive, or never (INGEST_QUEUE_FALLBACK).
CommitUpload(r) ==
    /\ lock[r] = Api
    /\ lock' = Set(lock, r, Free)
    /\ version' = Set(version, r, uploads[r])
    /\ status' = Set(status, r, IF seen[r] = "UPLOADED" THEN status[r] ELSE "UPLOADED")
    /\ rows' = IF seen[r] = "FAILED" \/ version[r] # 0 THEN Set(rows, r, {}) ELSE rows
    /\ offset' = Set(offset, r, 0)
    /\ attempts' = Set(attempts, r, 0)
    /\ retryDue' = Set(retryDue, r, TRUE)
    /\ stale' \in {stale, Set(stale, r, TRUE)}
    /\ \E new \in SUBSET {m \in Messages \ (queued \cup pending) :
                            RunOf[m] = r /\ \A w \in Workers : job[w].msg # m} :
          queued' = queued \cup new
    /\ UNCHANGED <<api, pending, job, faults>>

DeleteRun(r) ==
    /\ status[r] # "NONE" /\ lock[r] = Free
    /\ status' = Set(status, r, "NONE")
    /\ version' = Set(version, r, 0)
    /\ rows' = Set(rows, r, {})
    /\ offset' = Set(offset, r, 0)
    /\ attempts' = Set(attempts, r, 0)
    /\ retryDue' = Set(retryDue, r, TRUE)
    /\ stale' = Set(stale, r, FALSE)
    /\ UNCHANGED <<lock, api, stream, job, faults>>

-----------------------------------------------------------------------------
(* Jobs reach a worker                                                     *)

Call(w, r, m) ==
    job' = [job EXCEPT ![w] = [pc |-> "called", run |-> r, msg |-> m,
                               version |-> 0, at |-> 0, base |-> 0, tries |-> 0]]

ReadMessage(w, m) ==
    /\ job[w].pc = "idle" /\ m \in queued
    /\ queued' = queued \ {m}
    /\ pending' = pending \cup {m}
    /\ Call(w, RunOf[m], m)
    /\ UNCHANGED <<row, lock, api, faults>>

\* XAUTOCLAIM: its consumer may be dead, or still busy with it.
ClaimMessage(w, m) ==
    /\ job[w].pc = "idle" /\ m \in pending
    /\ Call(w, RunOf[m], m)
    /\ UNCHANGED <<row, lock, api, stream, faults>>

\* The stream is trimmed to its maximum length, or Redis restarts empty.
LoseMessage(m) ==
    /\ m \in queued \cup pending
    /\ queued' = queued \ {m}
    /\ pending' = pending \ {m}
    /\ UNCHANGED <<row, lock, api, job, faults>>

\* Mutant of Recoverable: runs abandoned while INGESTING are not found.
RecoverableUploaded(r) == version[r] # 0 /\ status[r] = "UPLOADED" /\ retryDue[r]

Recoverable(r) ==
    /\ version[r] # 0
    /\ \/ status[r] = "UPLOADED" /\ retryDue[r]
       \/ status[r] = "INGESTING" /\ stale[r]

\* discover_recoverable_runs claims the row without the advisory lock.
ClaimRecoverable(w, r) ==
    /\ job[w].pc = "idle" /\ Recoverable(r)
    /\ status' = Set(status, r, "INGESTING")
    /\ stale' = Set(stale, r, FALSE)
    /\ Call(w, r, NoMessage)
    /\ UNCHANGED <<version, rows, offset, attempts, retryDue, lock, api, stream, faults>>

RetryFallsDue(r) ==
    /\ status[r] = "UPLOADED" /\ ~retryDue[r]
    /\ retryDue' = Set(retryDue, r, TRUE)
    /\ UNCHANGED <<status, version, rows, offset, attempts, stale, lock, api, stream,
                   job, faults>>

\* Also while a worker is busy between two checkpoints.
HeartbeatGoesStale(r) ==
    /\ status[r] = "INGESTING" /\ ~stale[r]
    /\ stale' = Set(stale, r, TRUE)
    /\ UNCHANGED <<status, version, rows, offset, attempts, retryDue, lock, api, stream,
                   job, faults>>

-----------------------------------------------------------------------------
(* process_job                                                             *)

\* The job goes on, acknowledging "msg" in the end, its reader at line "at".
GoOn(w, pc, msg, at, base) ==
    job' = [job EXCEPT ![w] = [pc |-> pc, run |-> job[w].run, msg |-> msg,
                               version |-> job[w].version, at |-> at, base |-> base,
                               tries |-> job[w].tries]]
Leave(w) == GoOn(w, "leaving", job[w].msg, job[w].at, job[w].base)

\* A busy run's message is not acknowledged.
TryLock(w) ==
    LET r == job[w].run IN
    /\ job[w].pc = "called"
    /\ \/ lock[r] = Free /\ lock' = Set(lock, r, w) /\ GoOn(w, "locked", job[w].msg, 0, 0)
       \/ lock[r] # Free /\ job' = [job EXCEPT ![w] = Idle] /\ UNCHANGED lock
    /\ UNCHANGED <<row, api, stream, faults>>

RejectMissingArtifact(w) ==
    LET r == job[w].run IN
    /\ job[w].pc = "locked"
    /\ status[r] # "NONE" /\ version[r] = 0
    /\ UpdateRun(r, "FAILED", offset[r], 0, TRUE)
    /\ Leave(w)
    /\ UNCHANGED <<version, rows, lock, api, stream, faults>>

\* Mutant of NothingToDo: terminal runs are processed again.
NothingToDoRepeats(r) ==
    \/ status[r] = "NONE"
    \/ version[r] # 0 /\ status[r] = "UPLOADED" /\ ~retryDue[r]

\* No row, a terminal run ("ignored"), or a retry ahead of time ("deferred").
NothingToDo(r) ==
    \/ status[r] = "NONE"
    \/ version[r] # 0 /\ status[r] \in {"COMPLETE", "FAILED"}
    \/ version[r] # 0 /\ status[r] = "UPLOADED" /\ ~retryDue[r]

IgnoreJob(w) ==
    /\ job[w].pc = "locked" /\ NothingToDo(job[w].run)
    /\ Leave(w)
    /\ UNCHANGED <<row, lock, api, stream, faults>>

StartIngest(w) ==
    LET r == job[w].run IN
    /\ job[w].pc = "locked" /\ version[r] # 0 /\ ~NothingToDo(r)
    /\ UpdateRun(r, "INGESTING", offset[r], attempts[r], TRUE)
    /\ job' = [job EXCEPT ![w] = [pc |-> "ingesting", run |-> r, msg |-> job[w].msg,
                                  version |-> version[r], at |-> offset[r],
                                  base |-> offset[r], tries |-> attempts[r]]]
    /\ UNCHANGED <<version, rows, lock, api, stream, faults>>

\* The run's rows once the lines read since the last checkpoint are flushed.
RowsUpTo(w, line) == rows[job[w].run] \cup Lines(job[w].version, job[w].base, line)
Flushed(w)        == RowsUpTo(w, job[w].at)

\* Mutant of IngestLine: the offset is committed before the batches are flushed.
IngestLineUnflushed(w) ==
    LET r    == job[w].run
        line == job[w].at + 1
    IN
    /\ job[w].pc = "ingesting" /\ job[w].at < ArtifactLines
    /\ IF line % ProgressEvery = 0
       THEN /\ UpdateRun(r, "INGESTING", line, job[w].tries, TRUE)
            /\ GoOn(w, "ingesting", job[w].msg, line, line)
            /\ UNCHANGED <<version, rows>>
       ELSE GoOn(w, "ingesting", job[w].msg, line, job[w].base) /\ UNCHANGED row
    /\ UNCHANGED <<lock, api, stream, faults>>

\* Lines up to the resume offset are skipped; every ProgressEvery-th line the
\* batches and the offset are committed together.
IngestLine(w) ==
    LET r    == job[w].run
        line == job[w].at + 1
    IN
    /\ job[w].pc = "ingesting" /\ job[w].at < ArtifactLines
    /\ IF line % ProgressEvery = 0
       THEN /\ rows' = Set(rows, r, RowsUpTo(w, line))
            /\ UpdateRun(r, "INGESTING", line, job[w].tries, TRUE)
            /\ GoOn(w, "ingesting", job[w].msg, line, line)
            /\ UNCHANGED version
       ELSE GoOn(w, "ingesting", job[w].msg, line, job[w].base) /\ UNCHANGED row
    /\ UNCHANGED <<lock, api, stream, faults>>

\* Shutdown is noticed before a line, or while the artifact is verified.
PauseForShutdown(w) ==
    LET r == job[w].run IN
    /\ job[w].pc = "ingesting" /\ faults < MaxFaults
    /\ rows' = Set(rows, r, Flushed(w))
    /\ UpdateRun(r, "UPLOADED", job[w].at, job[w].tries, TRUE)
    /\ Leave(w)
    /\ faults' = faults + 1
    /\ UNCHANGED <<version, lock, api, stream>>

\* Before findings are evaluated the inventory is committed, the offset is not.
CommitFinalRows(w) ==
    LET r == job[w].run IN
    /\ job[w].pc = "ingesting" /\ job[w].at = ArtifactLines
    /\ rows' = Set(rows, r, Flushed(w))
    /\ stale' \in {stale, Set(stale, r, FALSE)}
    /\ GoOn(w, "monitoring", job[w].msg, job[w].at, job[w].base)
    /\ UNCHANGED <<status, version, offset, attempts, retryDue, lock, api, stream, faults>>

\* Directly, when the source takes no part in monitoring, or after it; a run
\* without a source keeps no attempt count.
CompleteRun(w) ==
    LET r == job[w].run IN
    /\ job[w].pc \in {"ingesting", "monitoring"} /\ job[w].at = ArtifactLines
    /\ rows' = Set(rows, r, Flushed(w))
    /\ \E tries \in {0, job[w].tries} : UpdateRun(r, "COMPLETE", job[w].at, tries, TRUE)
    /\ Leave(w)
    /\ UNCHANGED <<version, lock, api, stream, faults>>

\* Mutant of ScheduleRetry: one retry too many.
ScheduleRetryOffByOne(w) ==
    LET r == job[w].run IN
    /\ job[w].pc \in {"ingesting", "monitoring"} /\ job[w].tries <= MaxRetries
    /\ UpdateRun(r, "UPLOADED", job[w].base, job[w].tries + 1, FALSE)
    /\ Leave(w)
    /\ UNCHANGED <<version, rows, lock, api, stream, faults>>

\* A retryable error: uncommitted rows are rolled back, the later of the
\* durable offset and the last checkpoint is kept.
ScheduleRetry(w) ==
    LET r == job[w].run IN
    /\ job[w].pc \in {"ingesting", "monitoring"} /\ job[w].tries + 1 <= MaxRetries
    /\ \E kept \in {job[w].base, offset[r]} :
          /\ kept >= job[w].base /\ kept >= offset[r]
          /\ UpdateRun(r, "UPLOADED", kept, job[w].tries + 1, FALSE)
    /\ Leave(w)
    /\ UNCHANGED <<version, rows, lock, api, stream, faults>>

\* A permanent error, or a retryable one past the budget.
GiveUp(w) ==
    LET r == job[w].run IN
    /\ job[w].pc \in {"ingesting", "monitoring"}
    /\ \E kept \in {job[w].base, offset[r]} :
          /\ kept >= job[w].base /\ kept >= offset[r]
          /\ UpdateRun(r, "FAILED", kept, job[w].tries + 1, TRUE)
    /\ Leave(w)
    /\ UNCHANGED <<version, rows, lock, api, stream, faults>>

\* Framing or integrity: what was ingested is not to be trusted.
RejectArtifact(w) ==
    LET r == job[w].run IN
    /\ job[w].pc \in {"ingesting", "monitoring"}
    /\ rows' = Set(rows, r, {})
    /\ UpdateRun(r, "FAILED", 0, job[w].tries + 1, TRUE)
    /\ Leave(w)
    /\ UNCHANGED <<version, lock, api, stream, faults>>

\* The failure cannot be recorded: the row stays INGESTING, nothing is acked.
LeaveUnrecorded(w) ==
    /\ job[w].pc \in {"locked", "ingesting", "monitoring"} /\ faults < MaxFaults
    /\ GoOn(w, "leaving", NoMessage, job[w].at, job[w].base)
    /\ faults' = faults + 1
    /\ UNCHANGED <<row, lock, api, stream>>

Unlock(w) ==
    LET r == job[w].run IN
    /\ job[w].pc = "leaving"
    /\ lock' = Set(lock, r, Free)
    /\ GoOn(w, "acking", job[w].msg, job[w].at, job[w].base)
    /\ UNCHANGED <<row, api, stream, faults>>

Acknowledge(w) ==
    /\ job[w].pc = "acking"
    /\ pending' = pending \ {job[w].msg}
    /\ job' = [job EXCEPT ![w] = Idle]
    /\ UNCHANGED <<row, lock, api, queued, faults>>

\* The process dies anywhere; its database session releases the lock.
Crash(w) ==
    /\ job[w].pc # "idle" /\ faults < MaxFaults
    /\ lock' = [r \in Runs |-> IF lock[r] = w THEN Free ELSE lock[r]]
    /\ job' = [job EXCEPT ![w] = Idle]
    /\ faults' = faults + 1
    /\ UNCHANGED <<row, api, stream>>

-----------------------------------------------------------------------------
ApiStep(r) ==
    CreateRun(r) \/ LockForUpload(r) \/ RollbackUpload(r) \/ CommitUpload(r) \/ DeleteRun(r)

TimeStep(r) == RetryFallsDue(r) \/ HeartbeatGoesStale(r)

Deliver(w, m) == ReadMessage(w, m) \/ ClaimMessage(w, m)

Recover(w) == \E r \in Runs : ClaimRecoverable(w, r)

Interrupt(w) ==
    PauseForShutdown(w) \/ ScheduleRetry(w) \/ GiveUp(w) \/ RejectArtifact(w)
    \/ LeaveUnrecorded(w) \/ Crash(w)

\* The steps a worker takes by itself once it has a job.
Progress(w) ==
    TryLock(w) \/ RejectMissingArtifact(w) \/ IgnoreJob(w) \/ StartIngest(w)
    \/ IngestLine(w) \/ CommitFinalRows(w) \/ CompleteRun(w) \/ Unlock(w) \/ Acknowledge(w)

Next ==
    \/ \E r \in Runs : ApiStep(r) \/ TimeStep(r)
    \/ \E m \in Messages : LoseMessage(m) \/ \E w \in Workers : Deliver(w, m)
    \/ \E w \in Workers : Recover(w) \/ Progress(w) \/ Interrupt(w)

Spec == Init /\ [][Next]_vars

\* Time passes, a transaction ends, a live worker goes on, and every worker
\* loop comes to its recovery scan.  Nothing is assumed about the stream.
Fairness ==
    /\ \A r \in Runs : WF_vars(TimeStep(r)) /\ WF_vars(RollbackUpload(r) \/ CommitUpload(r))
    /\ \A w \in Workers : WF_vars(Progress(w)) /\ WF_vars(Recover(w))

FairSpec == Spec /\ Fairness

-----------------------------------------------------------------------------
(* Properties                                                              *)

\* Resuming at line_offset is sound: the inventory holds every line up to the
\* offset and no line of another artifact, however a job was delivered,
\* interrupted, repeated or overtaken by a replacement upload.
RowsMatchArtifact ==
    \A r \in Runs : /\ rows[r] \subseteq Content(version[r])
                    /\ Lines(version[r], 0, offset[r]) \subseteq rows[r]

\* A COMPLETE run shows its artifact's inventory, whole.
CompleteIsWhole ==
    \A r \in Runs : status[r] = "COMPLETE" => rows[r] = Content(version[r])

\* A worker past its INGEST_STARTED commit owns the row: it holds the lock, the
\* artifact it reads is the run's, its checkpoint is the durable one.
Session(w) ==
    LET r == job[w].run IN
    job[w].pc \in {"ingesting", "monitoring"} =>
        /\ version[r] = job[w].version /\ version[r] # 0
        /\ status[r] = "INGESTING"
        /\ offset[r] = job[w].base /\ job[w].base <= job[w].at
        /\ attempts[r] = job[w].tries
        /\ job[w].pc = "monitoring" => job[w].at = ArtifactLines

SessionOwnsRow ==
    \A w \in Workers :
        /\ job[w].pc \in {"locked", "ingesting", "monitoring", "leaving"} =>
              lock[job[w].run] = w
        /\ Session(w)

\* A run waiting for a worker is still within its retry budget.
RetryBudget ==
    \A r \in Runs : status[r] \in {"UPLOADED", "INGESTING"} => attempts[r] <= MaxRetries

\* Durable progress on an artifact is only given up with the artifact: it is
\* never set back by a retry, a pause, a crash or a late duplicate job.
OffsetNeverRetreats ==
    [][\A r \in Runs : version'[r] = version[r] /\ status'[r] # "FAILED"
                       => offset'[r] >= offset[r]]_vars

-----------------------------------------------------------------------------
(* The inductive strengthening                                             *)

\* Which columns go together, and what an upload under the lock relies on.
RowConsistent ==
    \A r \in Runs :
        /\ status[r] \in {"NONE", "PENDING_UPLOAD"} => version[r] = 0
        /\ status[r] \in {"UPLOADED", "INGESTING", "COMPLETE"} => version[r] # 0
        /\ version[r] <= uploads[r]
        /\ lock[r] = Api =>
              /\ version[r] < uploads[r]
              /\ IF seen[r] = "UPLOADED" THEN status[r] \in {"UPLOADED", "INGESTING"}
                 ELSE status[r] = seen[r] /\ seen[r] \in {"PENDING_UPLOAD", "FAILED"}

JobsNameRuns == \A w \in Workers : job[w].pc # "idle" => job[w].run \in Runs

IInv ==
    /\ TypeOK
    /\ RowConsistent
    /\ JobsNameRuns
    /\ SessionOwnsRow
    /\ RetryBudget
    /\ RowsMatchArtifact
    /\ CompleteIsWhole

-----------------------------------------------------------------------------
(* Refinement                                                              *)

\* Readers of COMPLETE runs see what RunContract promises.
Phase(s) ==
    CASE s = "NONE" -> "absent"
      [] s = "PENDING_UPLOAD" -> "pending"
      [] s = "COMPLETE" -> "complete"
      [] s = "FAILED" -> "failed"
      [] OTHER -> "accepted"

Contract == INSTANCE RunContract WITH
    phase     <- [r \in Runs |-> Phase(status[r])],
    artifact  <- version,
    published <- [r \in Runs |-> IF status[r] = "COMPLETE" THEN rows[r] ELSE {}]

\* Safety of the contract: publication is atomic and final.
ImplementsContract == Contract!ContractSafety

\* With its liveness: every accepted artifact is published or refused.
ImplementsFairContract == Contract!ContractSpec
=============================================================================

------------------------- MODULE IngestWorkerProofs -------------------------
(***************************************************************************)
(* Proofs about IngestWorker: its invariant is inductive, durable progress *)
(* never retreats, and the pipeline implements the safety part of          *)
(* RunContract, for any number of runs, workers, messages, lines, uploads, *)
(* retries and faults.  Then what the inventory answers of a run, for      *)
(* every query and every history of its rows, and what its records leave   *)
(* of the rows, in whatever order and however often they are stored.       *)
(***************************************************************************)
EXTENDS Integers, IngestedInventory, FiniteSetTheorems, WellFoundedInduction, TLAPS

Row == (1 .. MaxUploads) \X (1 .. ArtifactLines)

-----------------------------------------------------------------------------
(* Lines and rows                                                          *)

\* Two adjacent line ranges make one: a checkpoint continues the last one.
LEMMA LinesJoin ==
    ASSUME NEW v, NEW a \in Nat, NEW b \in Nat, NEW c \in Nat, a <= b, b <= c
    PROVE  Lines(v, a, b) \cup Lines(v, b, c) = Lines(v, a, c)
  BY DEF Lines

\* Any lines of an artifact are part of its content.
LEMMA LinesInContent ==
    ASSUME NEW v, NEW a \in Nat, NEW b \in 0 .. ArtifactLines
    PROVE  Lines(v, a, b) \subseteq Content(v)
  BY IngestAssumption DEF Lines, Content

\* Lines of an upload are rows.
LEMMA LinesTyped ==
    ASSUME NEW v \in 1 .. MaxUploads, NEW a \in Nat, NEW b \in 0 .. ArtifactLines
    PROVE  Lines(v, a, b) \subseteq Row
  BY IngestAssumption DEF Lines, Row

\* Offset 0 promises no line.
LEMMA NoLines ==
    ASSUME NEW v PROVE Lines(v, 0, 0) = {}
  BY DEF Lines

\* A run without an artifact has neither rows nor progress.
LEMMA NoArtifactNoRows ==
    ASSUME IInv, NEW r \in Runs, version[r] = 0
    PROVE  rows[r] = {} /\ offset[r] = 0
<1>1. rows[r] \subseteq Row /\ rows[r] \subseteq Content(0)
  BY DEF IInv, TypeOK, RowsMatchArtifact, Row
<1>2. rows[r] = {}
  BY <1>1, IngestAssumption DEF Lines, Content, Row
<1>3. offset[r] \in Nat /\ Lines(0, 0, offset[r]) = {}
  BY <1>2, IngestAssumption DEF IInv, TypeOK, RowsMatchArtifact
<1>4. CASE offset[r] # 0
  <2>1. 1 \in 1 .. offset[r]
    BY <1>3, <1>4
  <2>2. <<0, 1>> \in Lines(0, 0, offset[r])
    BY <2>1 DEF Lines
  <2> QED BY <2>2, <1>3
<1> QED BY <1>2, <1>4

\* What a checkpoint at line "to" commits: rows of the run's artifact only, every
\* line up to "to" among them.
LEMMA FlushedRows ==
    ASSUME IInv, NEW w \in Workers, job[w].pc \in {"ingesting", "monitoring"}
    PROVE  LET r == job[w].run IN
           /\ r \in Runs
           /\ \A to \in job[w].at .. ArtifactLines :
                 /\ RowsUpTo(w, to) \subseteq Row
                 /\ RowsUpTo(w, to) \subseteq Content(version[r])
                 /\ Lines(version[r], 0, to) \subseteq RowsUpTo(w, to)
                 /\ to = ArtifactLines => RowsUpTo(w, to) = Content(version[r])
<1> DEFINE r == job[w].run
           v == job[w].version
           b == job[w].base
<1>1. /\ r \in Runs /\ job[w] \in Job
      /\ version[r] = v /\ v # 0
      /\ offset[r] = b /\ b <= job[w].at
  BY DEF IInv, TypeOK, JobsNameRuns, SessionOwnsRow, Session
<1>2. SUFFICES ASSUME NEW to \in job[w].at .. ArtifactLines
               PROVE  /\ RowsUpTo(w, to) \subseteq Row
                      /\ RowsUpTo(w, to) \subseteq Content(v)
                      /\ Lines(v, 0, to) \subseteq RowsUpTo(w, to)
                      /\ to = ArtifactLines => RowsUpTo(w, to) = Content(v)
  BY <1>1
<1>3. v \in 1 .. MaxUploads /\ b \in Nat /\ to \in 0 .. ArtifactLines /\ b <= to
  BY <1>1, IngestAssumption DEF Job
<1>4. rows[r] \subseteq Row /\ rows[r] \subseteq Content(v) /\ Lines(v, 0, b) \subseteq rows[r]
  BY <1>1 DEF IInv, TypeOK, RowsMatchArtifact, Row
<1>5. Lines(v, b, to) \subseteq Row /\ Lines(v, b, to) \subseteq Content(v)
  BY <1>3, LinesTyped, LinesInContent
<1>6. Lines(v, 0, b) \cup Lines(v, b, to) = Lines(v, 0, to)
  BY <1>3, LinesJoin
<1>7. RowsUpTo(w, to) = rows[r] \cup Lines(v, b, to)
  BY DEF RowsUpTo
<1>8. /\ RowsUpTo(w, to) \subseteq Row
      /\ RowsUpTo(w, to) \subseteq Content(v)
      /\ Lines(v, 0, to) \subseteq RowsUpTo(w, to)
  <2> HIDE DEF v, b, r
  <2> QED BY <1>4, <1>5, <1>6, <1>7
<1>9. to = ArtifactLines => RowsUpTo(w, to) = Content(v)
  BY <1>8 DEF Content
<1> QED BY <1>8, <1>9

\* The same for a checkpoint at the line the reader is at.
LEMMA FlushedNow ==
    ASSUME IInv, NEW w \in Workers, job[w].pc \in {"ingesting", "monitoring"}
    PROVE  /\ job[w].run \in Runs
           /\ Flushed(w) \subseteq Row
           /\ Flushed(w) \subseteq Content(version[job[w].run])
           /\ Lines(version[job[w].run], 0, job[w].at) \subseteq Flushed(w)
           /\ job[w].at = ArtifactLines => Flushed(w) = Content(version[job[w].run])
<1>1. job[w].at \in job[w].at .. ArtifactLines
  BY IngestAssumption DEF IInv, TypeOK, Job
<1> QED BY <1>1, FlushedRows DEF Flushed

-----------------------------------------------------------------------------
(* The invariant is inductive: the initial state, then one lemma per action *)

\* Nothing exists yet.
LEMMA InitIInv == Init => IInv
  BY IngestAssumption
  DEF Init, IInv, TypeOK, RowConsistent, JobsNameRuns, SessionOwnsRow, Session, RetryBudget,
      RowsMatchArtifact, CompleteIsWhole, Lines, Content, Job, JobPC, Idle, RunStatus, Uploadable

\* A worker takes the run's lock, or leaves a busy run alone.
LEMMA TryLockKeeps == ASSUME IInv, NEW w \in Workers, TryLock(w) PROVE IInv'
<1> DEFINE r == job[w].run
<1>0. /\ r \in Runs /\ job[w].pc = "called" /\ job[w] \in Job
      /\ UNCHANGED <<row, api, stream, faults>>
  BY DEF IInv, JobsNameRuns, TypeOK, TryLock
<1>1. CASE lock[r] = Free /\ lock' = Set(lock, r, w) /\ GoOn(w, "locked", job[w].msg, 0, 0)
  <2> USE IngestAssumption DEF IInv, TypeOK, row, api, stream
  <2>1. /\ job'[w] = [pc |-> "locked", run |-> r, msg |-> job[w].msg, version |-> job[w].version,
                      at |-> 0, base |-> 0, tries |-> job[w].tries]
        /\ lock'[r] = w
        /\ \A u \in Workers \ {w} : job'[u] = job[u]
        /\ \A q \in Runs \ {r} : lock'[q] = lock[q]
    BY <1>0, <1>1 DEF GoOn, Set
  <2>2. job' \in [Workers -> Job]
    BY <1>0, <1>1 DEF GoOn, Job, JobPC
  <2>3. lock' \in [Runs -> Workers \cup {Free, Api}]
    BY <1>0, <1>1 DEF Set
  <2>4. TypeOK'
    BY <1>0, <2>2, <2>3
  <2>5. RowConsistent' /\ RetryBudget' /\ RowsMatchArtifact' /\ CompleteIsWhole'
    BY <1>0, <2>1 DEF RowConsistent, RetryBudget, RowsMatchArtifact, CompleteIsWhole
  <2>6. JobsNameRuns'
    BY <1>0, <2>1 DEF JobsNameRuns
  <2>7. SessionOwnsRow'
    <3> SUFFICES ASSUME NEW u \in Workers
                 PROVE  /\ job'[u].pc \in {"locked", "ingesting", "monitoring", "leaving"} =>
                              lock'[job'[u].run] = u
                        /\ Session(u)'
      BY DEF SessionOwnsRow
    <3>1. CASE u = w
      BY <3>1, <1>0, <2>1 DEF Session
    <3>2. CASE u # w
      BY <3>2, <1>0, <1>1, <2>1 DEF SessionOwnsRow, Session, JobsNameRuns
    <3> QED BY <3>1, <3>2
  <2> QED BY <2>4, <2>5, <2>6, <2>7
<1>2. CASE lock[r] # Free /\ job' = [job EXCEPT ![w] = Idle] /\ UNCHANGED lock
  <2> USE IngestAssumption, <1>0, <1>2 DEF IInv, TypeOK, row, api, stream, Job, JobPC, Idle
  <2>1. TypeOK'
    OBVIOUS
  <2>2. RowConsistent' /\ RetryBudget' /\ RowsMatchArtifact' /\ CompleteIsWhole'
    BY DEF RowConsistent, RetryBudget, RowsMatchArtifact, CompleteIsWhole
  <2>3. JobsNameRuns' /\ SessionOwnsRow'
    BY DEF JobsNameRuns, SessionOwnsRow, Session
  <2> QED BY <2>1, <2>2, <2>3
<1> QED BY <1>1, <1>2 DEF TryLock

\* A line is read; at a checkpoint its rows and the offset are committed.
LEMMA IngestLineKeeps == ASSUME IInv, NEW w \in Workers, IngestLine(w) PROVE IInv'
<1> DEFINE r    == job[w].run
           line == job[w].at + 1
           new  == RowsUpTo(w, line)
<1>0. /\ r \in Runs /\ job[w] \in Job /\ job[w].pc = "ingesting"
      /\ line \in 1 .. ArtifactLines /\ line > job[w].at
      /\ Session(w) /\ lock[r] = w
      /\ UNCHANGED <<lock, api, stream, faults>>
  BY IngestAssumption DEF IInv, JobsNameRuns, SessionOwnsRow, TypeOK, IngestLine, Job
<1>1. ASSUME line % ProgressEvery = 0 PROVE IInv'
  <2>0. /\ rows' = Set(rows, r, new)
        /\ UpdateRun(r, "INGESTING", line, job[w].tries, TRUE)
        /\ GoOn(w, "ingesting", job[w].msg, line, line)
        /\ UNCHANGED version
    BY <1>1 DEF IngestLine
  <2>1. new \subseteq Row /\ new \subseteq Content(version[r]) /\ Lines(version[r], 0, line) \subseteq new
    <3> HIDE DEF line
    <3>1. line \in job[w].at .. ArtifactLines
      BY <1>0, IngestAssumption DEF Job
    <3> QED BY <3>1, <1>0, FlushedRows
  <2> HIDE DEF new, line
  <2> USE IngestAssumption, <1>0 DEF IInv, TypeOK, api, stream, Job, JobPC, UpdateRun, GoOn, Set
  <2>2. TypeOK'
    <3>1. rows' \in [Runs -> SUBSET ((1 .. MaxUploads) \X (1 .. ArtifactLines))]
      BY <2>0, <2>1 DEF Row
    <3>2. /\ status' \in [Runs -> RunStatus]
          /\ offset' \in [Runs -> 0 .. ArtifactLines]
          /\ attempts' \in [Runs -> 0 .. MaxRetries + 1]
          /\ retryDue' \in [Runs -> BOOLEAN]
          /\ stale' \in [Runs -> BOOLEAN]
      BY <2>0 DEF RunStatus
    <3>3. job' \in [Workers -> Job]
      BY <2>0
    <3> QED BY <2>0, <3>1, <3>2, <3>3
  <2>3. /\ rows'[r] = new /\ offset'[r] = line /\ attempts'[r] = job[w].tries
        /\ status' = status /\ version' = version
        /\ \A q \in Runs \ {r} : rows'[q] = rows[q] /\ offset'[q] = offset[q] /\ attempts'[q] = attempts[q]
    BY <2>0 DEF Session
  <2>4. RowConsistent' /\ RetryBudget'
    BY <2>3 DEF RowConsistent, RetryBudget, Session
  <2>5. RowsMatchArtifact' /\ CompleteIsWhole'
    BY <2>1, <2>3 DEF RowsMatchArtifact, CompleteIsWhole, Session
  <2>6. /\ job'[w] = [pc |-> "ingesting", run |-> r, msg |-> job[w].msg,
                      version |-> job[w].version, at |-> line, base |-> line,
                      tries |-> job[w].tries]
        /\ \A u \in Workers \ {w} : job'[u] = job[u]
    BY <2>0
  <2>7. JobsNameRuns'
    BY <2>6 DEF JobsNameRuns
  <2>8. SessionOwnsRow'
    BY <2>3, <2>6 DEF SessionOwnsRow, Session, JobsNameRuns
  <2> QED BY <2>2, <2>4, <2>5, <2>7, <2>8
<1>2. ASSUME line % ProgressEvery # 0 PROVE IInv'
  <2>0. GoOn(w, "ingesting", job[w].msg, line, job[w].base) /\ UNCHANGED row
    BY <1>2 DEF IngestLine
  <2>1. UNCHANGED <<status, version, rows, offset, attempts, retryDue, stale>>
    BY <2>0 DEF row
  <2> HIDE DEF line
  <2> USE IngestAssumption, <1>0 DEF IInv, api, stream
  <2>2. TypeOK'
    BY <2>0, <2>1 DEF TypeOK, Job, JobPC, GoOn
  <2>3. RowConsistent' /\ RetryBudget' /\ RowsMatchArtifact' /\ CompleteIsWhole'
    BY <2>1 DEF RowConsistent, RetryBudget, RowsMatchArtifact, CompleteIsWhole
  <2>4. /\ job'[w] = [pc |-> "ingesting", run |-> r, msg |-> job[w].msg,
                      version |-> job[w].version, at |-> line, base |-> job[w].base,
                      tries |-> job[w].tries]
        /\ \A u \in Workers \ {w} : job'[u] = job[u]
    BY <2>0 DEF GoOn, TypeOK
  <2>5. JobsNameRuns'
    BY <2>4 DEF JobsNameRuns
  <2>6. SessionOwnsRow'
    BY <2>1, <2>4 DEF SessionOwnsRow, Session, JobsNameRuns, Job
  <2> QED BY <2>2, <2>3, <2>5, <2>6
<1> QED BY <1>1, <1>2

\* In the remaining lemmas every part of the invariant is unfolded.
USE IngestAssumption
    DEF Set, UpdateRun, GoOn, Leave, Call, row, api, stream, IInv, TypeOK, Job, JobPC, Idle,
        RunStatus, Uploadable, RowConsistent, JobsNameRuns, SessionOwnsRow, Session, RetryBudget

\* A run row is created.
LEMMA CreateRunKeeps == ASSUME IInv, NEW r \in Runs, CreateRun(r) PROVE IInv'
<1>1. TypeOK'
  BY DEF CreateRun
<1>2. (RowConsistent /\ RetryBudget)'
  BY <1>1 DEF CreateRun
<1>3. (JobsNameRuns /\ SessionOwnsRow)'
  BY <1>1 DEF CreateRun
<1>4. (RowsMatchArtifact /\ CompleteIsWhole)'
  BY <1>1 DEF RowsMatchArtifact, CompleteIsWhole, CreateRun
<1> QED BY <1>1, <1>2, <1>3, <1>4

\* An upload locks an uploadable run and reads its status.
LEMMA LockForUploadKeeps == ASSUME IInv, NEW r \in Runs, LockForUpload(r) PROVE IInv'
<1>1. TypeOK'
  BY DEF LockForUpload
<1>2. (RowConsistent /\ RetryBudget)'
  BY <1>1 DEF LockForUpload
<1>3. (JobsNameRuns /\ SessionOwnsRow)'
  BY <1>1 DEF LockForUpload
<1>4. (RowsMatchArtifact /\ CompleteIsWhole)'
  BY <1>1 DEF RowsMatchArtifact, CompleteIsWhole, LockForUpload
<1> QED BY <1>1, <1>2, <1>3, <1>4

\* An upload gives up under the lock.
LEMMA RollbackUploadKeeps == ASSUME IInv, NEW r \in Runs, RollbackUpload(r) PROVE IInv'
<1>1. TypeOK'
  BY DEF RollbackUpload
<1>2. (RowConsistent /\ RetryBudget)'
  BY <1>1 DEF RollbackUpload
<1>3. (JobsNameRuns /\ SessionOwnsRow)'
  BY <1>1 DEF RollbackUpload
<1>4. (RowsMatchArtifact /\ CompleteIsWhole)'
  BY <1>1 DEF RowsMatchArtifact, CompleteIsWhole, RollbackUpload
<1> QED BY <1>1, <1>2, <1>3, <1>4

\* An upload is accepted; with a replacement the old rows go.
LEMMA CommitUploadKeeps == ASSUME IInv, NEW r \in Runs, CommitUpload(r) PROVE IInv'
<1> USE DEF CommitUpload
<1>1. TypeOK'
  <2>1. /\ status' \in [Runs -> RunStatus]
        /\ version' \in [Runs -> 0 .. MaxUploads]
        /\ offset' \in [Runs -> 0 .. ArtifactLines]
        /\ attempts' \in [Runs -> 0 .. MaxRetries + 1]
        /\ retryDue' \in [Runs -> BOOLEAN]
        /\ lock' \in [Runs -> Workers \cup {Free, Api}]
    OBVIOUS
  <2>2. rows' \in [Runs -> SUBSET ((1 .. MaxUploads) \X (1 .. ArtifactLines))]
    OBVIOUS
  <2>3. stale' \in [Runs -> BOOLEAN]
    OBVIOUS
  <2>4. queued' \subseteq Messages
    OBVIOUS
  <2> QED BY <2>1, <2>2, <2>3, <2>4
<1>2. (RowConsistent /\ RetryBudget)'
  BY <1>1
<1>3. (JobsNameRuns /\ SessionOwnsRow)'
  BY <1>1
<1>4. (RowsMatchArtifact /\ CompleteIsWhole)'
  BY <1>1, NoLines, NoArtifactNoRows DEF RowsMatchArtifact, CompleteIsWhole
<1> QED BY <1>1, <1>2, <1>3, <1>4

\* An unlocked run is deleted with its rows.
LEMMA DeleteRunKeeps == ASSUME IInv, NEW r \in Runs, DeleteRun(r) PROVE IInv'
<1>1. TypeOK'
  BY DEF DeleteRun
<1>2. (RowConsistent /\ RetryBudget)'
  BY <1>1 DEF DeleteRun
<1>3. (JobsNameRuns /\ SessionOwnsRow)'
  BY <1>1 DEF DeleteRun
<1>4. (RowsMatchArtifact /\ CompleteIsWhole)'
  BY <1>1, NoLines, NoArtifactNoRows DEF RowsMatchArtifact, CompleteIsWhole, DeleteRun
<1> QED BY <1>1, <1>2, <1>3, <1>4

\* A worker reads a new stream entry.
LEMMA ReadMessageKeeps == ASSUME IInv, NEW w \in Workers, NEW m \in Messages, ReadMessage(w, m) PROVE IInv'
<1>1. TypeOK'
  BY DEF ReadMessage
<1>2. (RowConsistent /\ RetryBudget)'
  BY <1>1 DEF ReadMessage
<1>3. (JobsNameRuns /\ SessionOwnsRow)'
  BY <1>1 DEF ReadMessage
<1>4. (RowsMatchArtifact /\ CompleteIsWhole)'
  BY <1>1 DEF RowsMatchArtifact, CompleteIsWhole, ReadMessage
<1> QED BY <1>1, <1>2, <1>3, <1>4

\* A worker takes over a pending stream entry.
LEMMA ClaimMessageKeeps == ASSUME IInv, NEW w \in Workers, NEW m \in Messages, ClaimMessage(w, m) PROVE IInv'
<1>1. TypeOK'
  BY DEF ClaimMessage
<1>2. (RowConsistent /\ RetryBudget)'
  BY <1>1 DEF ClaimMessage
<1>3. (JobsNameRuns /\ SessionOwnsRow)'
  BY <1>1 DEF ClaimMessage
<1>4. (RowsMatchArtifact /\ CompleteIsWhole)'
  BY <1>1 DEF RowsMatchArtifact, CompleteIsWhole, ClaimMessage
<1> QED BY <1>1, <1>2, <1>3, <1>4

\* A stream entry is lost.
LEMMA LoseMessageKeeps == ASSUME IInv, NEW m \in Messages, LoseMessage(m) PROVE IInv'
<1>1. TypeOK'
  BY DEF LoseMessage
<1>2. (RowConsistent /\ RetryBudget)'
  BY <1>1 DEF LoseMessage
<1>3. (JobsNameRuns /\ SessionOwnsRow)'
  BY <1>1 DEF LoseMessage
<1>4. (RowsMatchArtifact /\ CompleteIsWhole)'
  BY <1>1 DEF RowsMatchArtifact, CompleteIsWhole, LoseMessage
<1> QED BY <1>1, <1>2, <1>3, <1>4

\* A recovery scan claims a row without its lock.
LEMMA ClaimRecoverableKeeps == ASSUME IInv, NEW w \in Workers, NEW r \in Runs, ClaimRecoverable(w, r)
    PROVE IInv'
<1>1. TypeOK'
  BY DEF ClaimRecoverable, Recoverable
<1>2. (RowConsistent /\ RetryBudget)'
  BY <1>1 DEF ClaimRecoverable, Recoverable
<1>3. (JobsNameRuns /\ SessionOwnsRow)'
  BY <1>1 DEF ClaimRecoverable, Recoverable
<1>4. (RowsMatchArtifact /\ CompleteIsWhole)'
  BY <1>1 DEF RowsMatchArtifact, CompleteIsWhole, ClaimRecoverable, Recoverable
<1> QED BY <1>1, <1>2, <1>3, <1>4

\* A scheduled retry falls due.
LEMMA RetryFallsDueKeeps == ASSUME IInv, NEW r \in Runs, RetryFallsDue(r) PROVE IInv'
<1>1. TypeOK'
  BY DEF RetryFallsDue
<1>2. (RowConsistent /\ RetryBudget)'
  BY <1>1 DEF RetryFallsDue
<1>3. (JobsNameRuns /\ SessionOwnsRow)'
  BY <1>1 DEF RetryFallsDue
<1>4. (RowsMatchArtifact /\ CompleteIsWhole)'
  BY <1>1 DEF RowsMatchArtifact, CompleteIsWhole, RetryFallsDue
<1> QED BY <1>1, <1>2, <1>3, <1>4

\* A heartbeat ages.
LEMMA HeartbeatGoesStaleKeeps == ASSUME IInv, NEW r \in Runs, HeartbeatGoesStale(r) PROVE IInv'
<1>1. TypeOK'
  BY DEF HeartbeatGoesStale
<1>2. (RowConsistent /\ RetryBudget)'
  BY <1>1 DEF HeartbeatGoesStale
<1>3. (JobsNameRuns /\ SessionOwnsRow)'
  BY <1>1 DEF HeartbeatGoesStale
<1>4. (RowsMatchArtifact /\ CompleteIsWhole)'
  BY <1>1 DEF RowsMatchArtifact, CompleteIsWhole, HeartbeatGoesStale
<1> QED BY <1>1, <1>2, <1>3, <1>4

\* A job for a run without an artifact fails it.
LEMMA RejectMissingArtifactKeeps == ASSUME IInv, NEW w \in Workers, RejectMissingArtifact(w) PROVE IInv'
<1>1. TypeOK'
  BY DEF RejectMissingArtifact
<1>2. (RowConsistent /\ RetryBudget)'
  BY <1>1 DEF RejectMissingArtifact
<1>3. (JobsNameRuns /\ SessionOwnsRow)'
  BY <1>1 DEF RejectMissingArtifact
<1>4. (RowsMatchArtifact /\ CompleteIsWhole)'
  BY <1>1, NoLines, NoArtifactNoRows DEF RowsMatchArtifact, CompleteIsWhole, RejectMissingArtifact
<1> QED BY <1>1, <1>2, <1>3, <1>4

\* A job for a run that needs nothing leaves it alone.
LEMMA IgnoreJobKeeps == ASSUME IInv, NEW w \in Workers, IgnoreJob(w) PROVE IInv'
<1>1. TypeOK'
  BY DEF IgnoreJob
<1>2. (RowConsistent /\ RetryBudget)'
  BY <1>1 DEF IgnoreJob
<1>3. (JobsNameRuns /\ SessionOwnsRow)'
  BY <1>1 DEF IgnoreJob
<1>4. (RowsMatchArtifact /\ CompleteIsWhole)'
  BY <1>1 DEF RowsMatchArtifact, CompleteIsWhole, IgnoreJob
<1> QED BY <1>1, <1>2, <1>3, <1>4

\* A session starts at the durable offset.
LEMMA StartIngestKeeps == ASSUME IInv, NEW w \in Workers, StartIngest(w) PROVE IInv'
<1>1. TypeOK'
  BY DEF StartIngest, NothingToDo
<1>2. (RowConsistent /\ RetryBudget)'
  BY <1>1 DEF StartIngest, NothingToDo
<1>3. JobsNameRuns'
  BY <1>1 DEF StartIngest
<1>5. SessionOwnsRow'
  BY <1>1 DEF StartIngest
<1>4. (RowsMatchArtifact /\ CompleteIsWhole)'
  BY <1>1, NoLines, NoArtifactNoRows DEF RowsMatchArtifact, CompleteIsWhole, StartIngest, NothingToDo
<1> QED BY <1>1, <1>2, <1>3, <1>4, <1>5

\* A shutdown commits the lines read so far.
LEMMA PauseForShutdownKeeps == ASSUME IInv, NEW w \in Workers, PauseForShutdown(w) PROVE IInv'
<1>0. /\ Flushed(w) \subseteq Row
      /\ Flushed(w) \subseteq Content(version[job[w].run])
      /\ Lines(version[job[w].run], 0, job[w].at) \subseteq Flushed(w)
  BY FlushedNow DEF PauseForShutdown
<1>1. TypeOK'
  BY <1>0, NoLines DEF Row, PauseForShutdown
<1>2. (RowConsistent /\ RetryBudget)'
  BY <1>1 DEF PauseForShutdown
<1>3. (JobsNameRuns /\ SessionOwnsRow)'
  BY <1>1 DEF PauseForShutdown
<1>4. (RowsMatchArtifact /\ CompleteIsWhole)'
  BY <1>0, <1>1 DEF RowsMatchArtifact, CompleteIsWhole, PauseForShutdown
<1> QED BY <1>1, <1>2, <1>3, <1>4

\* The whole inventory is committed before monitoring.
LEMMA CommitFinalRowsKeeps == ASSUME IInv, NEW w \in Workers, CommitFinalRows(w) PROVE IInv'
<1>0. /\ job[w].run \in Runs
      /\ Flushed(w) \subseteq Row
      /\ Flushed(w) = Content(version[job[w].run])
      /\ Lines(version[job[w].run], 0, job[w].at) \subseteq Flushed(w)
  BY FlushedNow DEF CommitFinalRows
<1> USE DEF CommitFinalRows
<1>1. TypeOK'
  <2>1. rows' \in [Runs -> SUBSET ((1 .. MaxUploads) \X (1 .. ArtifactLines))]
    BY <1>0 DEF Row
  <2>2. stale' \in [Runs -> BOOLEAN]
    <3>1. CASE stale' = stale
      BY <3>1
    <3>2. CASE stale' = [stale EXCEPT ![job[w].run] = FALSE]
      BY <3>2
    <3> QED BY <3>1, <3>2
  <2>3. job' \in [Workers -> Job]
    <3>1. job[w] \in Job
      OBVIOUS
    <3> QED BY <3>1
  <2> QED BY <2>1, <2>2, <2>3
<1>2. (RowConsistent /\ RetryBudget)'
  BY <1>1
<1>3. (JobsNameRuns /\ SessionOwnsRow)'
  BY <1>1
<1>4. (RowsMatchArtifact /\ CompleteIsWhole)'
  <2>1. rows'[job[w].run] = Flushed(w) /\ \A r \in Runs : r # job[w].run => rows'[r] = rows[r]
    BY <1>0
  <2>2. \A r \in Runs : Lines(version[r], 0, offset[r]) \subseteq rows'[r]
                        /\ rows'[r] \subseteq Content(version[r])
    <3>1. rows[job[w].run] \subseteq Flushed(w)
      BY DEF Flushed, RowsUpTo
    <3> QED BY <3>1, <2>1, <1>0 DEF RowsMatchArtifact
  <2> QED BY <2>1, <2>2, <1>0, <1>1 DEF RowsMatchArtifact, CompleteIsWhole
<1> QED BY <1>1, <1>2, <1>3, <1>4

\* The whole inventory is published.
LEMMA CompleteRunKeeps == ASSUME IInv, NEW w \in Workers, CompleteRun(w) PROVE IInv'
<1>0. /\ job[w].run \in Runs
      /\ Flushed(w) \subseteq Row
      /\ Flushed(w) = Content(version[job[w].run])
      /\ Lines(version[job[w].run], 0, job[w].at) \subseteq Flushed(w)
  BY FlushedNow DEF CompleteRun
<1> USE DEF CompleteRun
<1>1. TypeOK'
  <2>1. rows' \in [Runs -> SUBSET ((1 .. MaxUploads) \X (1 .. ArtifactLines))]
    BY <1>0 DEF Row
  <2>2. attempts' \in [Runs -> 0 .. MaxRetries + 1]
    BY <1>0
  <2>3. offset' \in [Runs -> 0 .. ArtifactLines] /\ status' \in [Runs -> RunStatus]
    BY <1>0
  <2>4. job' \in [Workers -> Job]
    BY <1>0
  <2>5. retryDue' \in [Runs -> BOOLEAN] /\ stale' \in [Runs -> BOOLEAN]
    BY <1>0
  <2> QED BY <2>1, <2>2, <2>3, <2>4, <2>5
<1>2. (RowConsistent /\ RetryBudget)'
  BY <1>1
<1>3. (JobsNameRuns /\ SessionOwnsRow)'
  BY <1>1
<1>4. (RowsMatchArtifact /\ CompleteIsWhole)'
  <2>1. /\ rows'[job[w].run] = Flushed(w)
        /\ offset'[job[w].run] = job[w].at
        /\ \A r \in Runs : r # job[w].run =>
              rows'[r] = rows[r] /\ offset'[r] = offset[r] /\ status'[r] = status[r]
        /\ version' = version
    BY <1>0
  <2> QED BY <2>1, <1>0 DEF RowsMatchArtifact, CompleteIsWhole
<1> QED BY <1>1, <1>2, <1>3, <1>4

\* A failed session hands the run to a retry at the durable offset.
LEMMA ScheduleRetryKeeps == ASSUME IInv, NEW w \in Workers, ScheduleRetry(w) PROVE IInv'
<1>1. TypeOK'
  BY DEF ScheduleRetry
<1>2. (RowConsistent /\ RetryBudget)'
  BY <1>1 DEF ScheduleRetry
<1>3. (JobsNameRuns /\ SessionOwnsRow)'
  BY <1>1 DEF ScheduleRetry
<1>4. (RowsMatchArtifact /\ CompleteIsWhole)'
  BY <1>1, NoLines, NoArtifactNoRows DEF RowsMatchArtifact, CompleteIsWhole, ScheduleRetry
<1> QED BY <1>1, <1>2, <1>3, <1>4

\* A failed session fails the run, progress and rows stay.
LEMMA GiveUpKeeps == ASSUME IInv, NEW w \in Workers, GiveUp(w) PROVE IInv'
<1>1. TypeOK'
  BY DEF GiveUp
<1>2. (RowConsistent /\ RetryBudget)'
  BY <1>1 DEF GiveUp
<1>3. (JobsNameRuns /\ SessionOwnsRow)'
  BY <1>1 DEF GiveUp
<1>4. (RowsMatchArtifact /\ CompleteIsWhole)'
  BY <1>1, NoLines, NoArtifactNoRows DEF RowsMatchArtifact, CompleteIsWhole, GiveUp
<1> QED BY <1>1, <1>2, <1>3, <1>4

\* A broken artifact fails the run and takes the rows with it.
LEMMA RejectArtifactKeeps == ASSUME IInv, NEW w \in Workers, RejectArtifact(w) PROVE IInv'
<1>1. TypeOK'
  BY DEF RejectArtifact
<1>2. (RowConsistent /\ RetryBudget)'
  BY <1>1 DEF RejectArtifact
<1>3. (JobsNameRuns /\ SessionOwnsRow)'
  BY <1>1 DEF RejectArtifact
<1>4. (RowsMatchArtifact /\ CompleteIsWhole)'
  BY <1>1, NoLines, NoArtifactNoRows DEF RowsMatchArtifact, CompleteIsWhole, RejectArtifact
<1> QED BY <1>1, <1>2, <1>3, <1>4

\* A failure that cannot be recorded leaves the row alone.
LEMMA LeaveUnrecordedKeeps == ASSUME IInv, NEW w \in Workers, LeaveUnrecorded(w) PROVE IInv'
<1>1. TypeOK'
  BY DEF LeaveUnrecorded
<1>2. (RowConsistent /\ RetryBudget)'
  BY <1>1 DEF LeaveUnrecorded
<1>3. (JobsNameRuns /\ SessionOwnsRow)'
  BY <1>1 DEF LeaveUnrecorded
<1>4. (RowsMatchArtifact /\ CompleteIsWhole)'
  BY <1>1 DEF RowsMatchArtifact, CompleteIsWhole, LeaveUnrecorded
<1> QED BY <1>1, <1>2, <1>3, <1>4

\* The lock is released.
LEMMA UnlockKeeps == ASSUME IInv, NEW w \in Workers, Unlock(w) PROVE IInv'
<1>1. TypeOK'
  BY DEF Unlock
<1>2. (RowConsistent /\ RetryBudget)'
  BY <1>1 DEF Unlock
<1>3. (JobsNameRuns /\ SessionOwnsRow)'
  BY <1>1 DEF Unlock
<1>4. (RowsMatchArtifact /\ CompleteIsWhole)'
  BY <1>1 DEF RowsMatchArtifact, CompleteIsWhole, Unlock
<1> QED BY <1>1, <1>2, <1>3, <1>4

\* The stream entry is acknowledged.
LEMMA AcknowledgeKeeps == ASSUME IInv, NEW w \in Workers, Acknowledge(w) PROVE IInv'
<1>1. TypeOK'
  BY DEF Acknowledge
<1>2. (RowConsistent /\ RetryBudget)'
  BY <1>1 DEF Acknowledge
<1>3. (JobsNameRuns /\ SessionOwnsRow)'
  BY <1>1 DEF Acknowledge
<1>4. (RowsMatchArtifact /\ CompleteIsWhole)'
  BY <1>1 DEF RowsMatchArtifact, CompleteIsWhole, Acknowledge
<1> QED BY <1>1, <1>2, <1>3, <1>4

\* A dead worker loses its job and its locks.
LEMMA CrashKeeps == ASSUME IInv, NEW w \in Workers, Crash(w) PROVE IInv'
<1>1. TypeOK'
  BY DEF Crash
<1>2. (RowConsistent /\ RetryBudget)'
  BY <1>1 DEF Crash
<1>3. (JobsNameRuns /\ SessionOwnsRow)'
  BY <1>1 DEF Crash
<1>4. (RowsMatchArtifact /\ CompleteIsWhole)'
  BY <1>1 DEF RowsMatchArtifact, CompleteIsWhole, Crash
<1> QED BY <1>1, <1>2, <1>3, <1>4

HIDE IngestAssumption
     DEF Set, UpdateRun, GoOn, Leave, Call, row, api, stream, IInv, TypeOK, Job, JobPC, Idle,
         RunStatus, Uploadable, RowConsistent, JobsNameRuns, SessionOwnsRow, Session, RetryBudget

\* Every step keeps the invariant.
LEMMA NextIInv == IInv /\ [Next]_vars => IInv'
<1> SUFFICES ASSUME IInv, [Next]_vars PROVE IInv'
  OBVIOUS
<1>1. ASSUME NEW r \in Runs, ApiStep(r) \/ TimeStep(r) PROVE IInv'
  BY <1>1, CreateRunKeeps, LockForUploadKeeps, RollbackUploadKeeps, CommitUploadKeeps,
    DeleteRunKeeps, RetryFallsDueKeeps, HeartbeatGoesStaleKeeps
    DEF ApiStep, TimeStep
<1>2. ASSUME NEW m \in Messages, LoseMessage(m) \/ \E w \in Workers : Deliver(w, m)
      PROVE  IInv'
  BY <1>2, LoseMessageKeeps, ReadMessageKeeps, ClaimMessageKeeps DEF Deliver
<1>3. ASSUME NEW w \in Workers, Recover(w) PROVE IInv'
  BY <1>3, ClaimRecoverableKeeps DEF Recover
<1>4. ASSUME NEW w \in Workers, Progress(w) PROVE IInv'
  BY <1>4, TryLockKeeps, RejectMissingArtifactKeeps, IgnoreJobKeeps, StartIngestKeeps,
    IngestLineKeeps, CommitFinalRowsKeeps, CompleteRunKeeps, UnlockKeeps, AcknowledgeKeeps
    DEF Progress
<1>5. ASSUME NEW w \in Workers, Interrupt(w) PROVE IInv'
  BY <1>5, PauseForShutdownKeeps, ScheduleRetryKeeps, GiveUpKeeps, RejectArtifactKeeps,
    LeaveUnrecordedKeeps, CrashKeeps
    DEF Interrupt
<1>6. CASE UNCHANGED vars
  BY <1>6 DEF vars, row, api, stream, IInv, TypeOK, RowConsistent, JobsNameRuns,
    SessionOwnsRow, Session, RetryBudget, RowsMatchArtifact, CompleteIsWhole
<1> QED BY <1>1, <1>2, <1>3, <1>4, <1>5, <1>6 DEF Next

\* Rows, jobs, locks and progress stay consistent in every reachable state.
THEOREM InductiveInvariant == Spec => []IInv
  BY InitIInv, NextIInv, PTL DEF Spec

\* Every variable keeps its type; in particular the attempt count stays within
\* one of the retry limit.
THEOREM TypeCorrect == Spec => []TypeOK
<1>1. IInv => TypeOK
  BY DEF IInv
<1> QED BY <1>1, InductiveInvariant, PTL

\* Resuming at line_offset is sound, whatever happened to the jobs before.
THEOREM ResumeIsSound == Spec => []RowsMatchArtifact
<1>1. IInv => RowsMatchArtifact
  BY DEF IInv
<1> QED BY <1>1, InductiveInvariant, PTL

\* A COMPLETE run shows all of its artifact and nothing else.
THEOREM CompleteRunsAreWhole == Spec => []CompleteIsWhole
<1>1. IInv => CompleteIsWhole
  BY DEF IInv
<1> QED BY <1>1, InductiveInvariant, PTL

\* Only the worker that holds the run's lock works on its row, although claims,
\* duplicates and uploads reach it from outside.
THEOREM SessionsExclusive == Spec => []SessionOwnsRow
<1>1. IInv => SessionOwnsRow
  BY DEF IInv
<1> QED BY <1>1, InductiveInvariant, PTL

\* No run waits for a worker with its retries used up.
THEOREM RetriesBounded == Spec => []RetryBudget
<1>1. IInv => RetryBudget
  BY DEF IInv
<1> QED BY <1>1, InductiveInvariant, PTL

-----------------------------------------------------------------------------
(* Durable progress                                                        *)

\* No step takes back progress on an artifact that stays, unless the run fails.
LEMMA NoRetreat ==
    ASSUME IInv, [Next]_vars, NEW r \in Runs, version'[r] = version[r], status'[r] # "FAILED"
    PROVE  offset'[r] >= offset[r]
<1> USE IngestAssumption DEF IInv, TypeOK, Set, UpdateRun, row, api, stream
<1>1. ASSUME offset' = offset PROVE offset'[r] >= offset[r]
  BY <1>1
<1>2. ASSUME NEW q \in Runs, CommitUpload(q) PROVE offset'[r] >= offset[r]
  <2>1. version'[q] > version[q]
    BY <1>2 DEF CommitUpload, RowConsistent
  <2> QED BY <1>2, <2>1 DEF CommitUpload
<1>3. ASSUME NEW q \in Runs, DeleteRun(q) PROVE offset'[r] >= offset[r]
  <2>1. q = r => version[r] = 0
    BY <1>3 DEF DeleteRun
  <2>2. q = r => offset[r] = 0
    BY <2>1, NoArtifactNoRows
  <2> QED BY <1>3, <2>2 DEF DeleteRun
<1>4. ASSUME NEW w \in Workers,
             \/ RejectMissingArtifact(w) \/ StartIngest(w)
             \/ GiveUp(w) \/ RejectArtifact(w)
      PROVE  offset'[r] >= offset[r]
  BY <1>4 DEF RejectMissingArtifact, StartIngest, GiveUp, RejectArtifact
<1>5. ASSUME NEW w \in Workers,
             IngestLine(w) \/ PauseForShutdown(w) \/ CompleteRun(w) \/ ScheduleRetry(w)
      PROVE  offset'[r] >= offset[r]
  <2>1. /\ job[w].run \in Runs /\ job[w] \in Job
        /\ offset[job[w].run] = job[w].base /\ job[w].base <= job[w].at
    BY <1>5 DEF JobsNameRuns, SessionOwnsRow, Session,
      IngestLine, PauseForShutdown, CompleteRun, ScheduleRetry
  <2> USE <2>1 DEF Job
  <2>2. CASE IngestLine(w)
    <3>1. \/ /\ offset' = [offset EXCEPT ![job[w].run] = job[w].at + 1]
          \/ offset' = offset
      BY <2>2 DEF IngestLine
    <3> QED BY <3>1
  <2>3. CASE PauseForShutdown(w) \/ CompleteRun(w)
    BY <2>3 DEF PauseForShutdown, CompleteRun
  <2>4. CASE ScheduleRetry(w)
    BY <2>4 DEF ScheduleRetry
  <2> QED BY <1>5, <2>2, <2>3, <2>4
<1>6. ASSUME NEW q \in Runs,
             \/ CreateRun(q) \/ LockForUpload(q) \/ RollbackUpload(q) \/ TimeStep(q)
             \/ \E w \in Workers : ClaimRecoverable(w, q)
      PROVE  offset' = offset
  BY <1>6 DEF CreateRun, LockForUpload, RollbackUpload, TimeStep, RetryFallsDue,
    HeartbeatGoesStale, ClaimRecoverable
<1>7. ASSUME NEW m \in Messages, LoseMessage(m) \/ \E w \in Workers : Deliver(w, m)
      PROVE  offset' = offset
  BY <1>7 DEF LoseMessage, Deliver, ReadMessage, ClaimMessage
<1>8. ASSUME NEW w \in Workers,
             TryLock(w) \/ IgnoreJob(w) \/ CommitFinalRows(w) \/ LeaveUnrecorded(w)
             \/ Unlock(w) \/ Acknowledge(w) \/ Crash(w)
      PROVE  offset' = offset
  BY <1>8 DEF TryLock, IgnoreJob, CommitFinalRows, LeaveUnrecorded, Unlock, Acknowledge, Crash
<1>9. CASE UNCHANGED vars
  BY <1>1, <1>9 DEF vars
<1>10. CASE Next
  BY <1>10, <1>1, <1>2, <1>3, <1>4, <1>5, <1>6, <1>7, <1>8
    DEF Next, ApiStep, Recover, Progress, Interrupt
<1> QED BY <1>9, <1>10

\* Retries, pauses, crashes and late duplicates never set durable progress back.
THEOREM ProgressIsKept == Spec => OffsetNeverRetreats
<1>1. ASSUME IInv, [Next]_vars
      PROVE  [\A r \in Runs : version'[r] = version[r] /\ status'[r] # "FAILED"
                               => offset'[r] >= offset[r]]_vars
  BY <1>1, NoRetreat
<1> QED BY <1>1, InductiveInvariant, PTL DEF Spec, OffsetNeverRetreats

-----------------------------------------------------------------------------
(* The pipeline implements the safety part of RunContract                  *)

\* A step that changes no phase, no artifact and no published inventory.
LEMMA SilentStep ==
    ASSUME version' = version,
           \A r \in Runs : /\ Phase(status'[r]) = Phase(status[r])
                           /\ status'[r] = "COMPLETE" \/ status[r] = "COMPLETE" =>
                                 rows'[r] = rows[r] /\ status'[r] = status[r]
    PROVE  UNCHANGED Contract!contractVars
<1>1. [r \in Runs |-> Phase(status'[r])] = [r \in Runs |-> Phase(status[r])]
  OBVIOUS
<1>2. [r \in Runs |-> IF status'[r] = "COMPLETE" THEN rows'[r] ELSE {}]
        = [r \in Runs |-> IF status[r] = "COMPLETE" THEN rows[r] ELSE {}]
  OBVIOUS
<1> QED BY <1>1, <1>2 DEF Contract!contractVars

\* Publication is a step of the contract.
LEMMA PublishIsStep ==
    ASSUME NEW r \in Runs, Contract!Publish(r)
    PROVE  [Contract!ContractNext]_(Contract!contractVars)
  BY DEF Contract!ContractNext

\* Every step of the pipeline is a step of the contract or none.
LEMMA StepsRefine ==
    ASSUME IInv, [Next]_vars
    PROVE  [Contract!ContractNext]_(Contract!contractVars)
<1> USE IngestAssumption DEF IInv, TypeOK, RunStatus, Uploadable, Set, row, api, stream, UpdateRun
<1>1. ASSUME UNCHANGED row PROVE UNCHANGED Contract!contractVars
  BY <1>1, SilentStep
<1>2. ASSUME NEW r \in Runs, CreateRun(r) PROVE Contract!Create(r)
  BY <1>2 DEF CreateRun, Contract!Create, Phase
<1>3. ASSUME NEW r \in Runs, CommitUpload(r) PROVE Contract!Accept(r)
  <2>1. uploads[r] \in 1 .. MaxUploads /\ uploads[r] > version[r]
    BY <1>3 DEF CommitUpload, RowConsistent
  <2>2. version' = [version EXCEPT ![r] = uploads[r]]
    BY <1>3 DEF CommitUpload
  <2>3. status[r] \in {"PENDING_UPLOAD", "UPLOADED", "INGESTING", "FAILED"}
        /\ status'[r] \in {"UPLOADED", "INGESTING"}
        /\ \A q \in Runs \ {r} : status'[q] = status[q] /\ rows'[q] = rows[q]
    BY <1>3 DEF CommitUpload, RowConsistent
  <2>4. Phase(status[r]) \in {"pending", "accepted", "failed"} /\ Phase(status'[r]) = "accepted"
    BY <2>3 DEF Phase
  <2>5. [q \in Runs |-> Phase(status'[q])]
          = [[q \in Runs |-> Phase(status[q])] EXCEPT ![r] = "accepted"]
    BY <2>3, <2>4
  <2>6. [q \in Runs |-> IF status'[q] = "COMPLETE" THEN rows'[q] ELSE {}]
          = [q \in Runs |-> IF status[q] = "COMPLETE" THEN rows[q] ELSE {}]
    BY <2>3
  <2> QED BY <2>1, <2>2, <2>4, <2>5, <2>6 DEF Contract!Accept
<1>4. ASSUME NEW r \in Runs, DeleteRun(r) PROVE Contract!Remove(r)
  BY <1>4 DEF DeleteRun, Contract!Remove, Phase
<1>5. ASSUME NEW r \in Runs, TimeStep(r) PROVE UNCHANGED Contract!contractVars
  BY <1>5, SilentStep DEF TimeStep, RetryFallsDue, HeartbeatGoesStale
<1>6. ASSUME NEW w \in Workers, NEW r \in Runs, ClaimRecoverable(w, r)
      PROVE  UNCHANGED Contract!contractVars
  <2>1. status[r] \in {"UPLOADED", "INGESTING"} /\ status' = [status EXCEPT ![r] = "INGESTING"]
        /\ UNCHANGED <<version, rows>>
    BY <1>6 DEF ClaimRecoverable, Recoverable
  <2> QED BY <2>1, SilentStep DEF Phase
<1>7. ASSUME NEW w \in Workers, RejectMissingArtifact(w)
      PROVE  [Contract!Fail(job[w].run)]_(Contract!contractVars) /\ job[w].run \in Runs
  <2>1. /\ job[w].run \in Runs
        /\ status[job[w].run] \in {"PENDING_UPLOAD", "FAILED"}
        /\ status' = [status EXCEPT ![job[w].run] = "FAILED"]
        /\ UNCHANGED <<version, rows>>
    BY <1>7 DEF RejectMissingArtifact, RowConsistent, JobsNameRuns
  <2>2. CASE status[job[w].run] = "PENDING_UPLOAD"
    BY <2>1, <2>2 DEF Contract!Fail, Phase
  <2>3. CASE status[job[w].run] = "FAILED"
    BY <2>1, <2>3, SilentStep
  <2> QED BY <2>1, <2>2, <2>3
<1>8. ASSUME NEW w \in Workers, StartIngest(w) PROVE UNCHANGED Contract!contractVars
  <2>1. /\ job[w].run \in Runs
        /\ status[job[w].run] \in {"UPLOADED", "INGESTING"}
        /\ status' = [status EXCEPT ![job[w].run] = "INGESTING"]
        /\ UNCHANGED <<version, rows>>
    BY <1>8 DEF StartIngest, NothingToDo, RowConsistent, JobsNameRuns
  <2> QED BY <2>1, SilentStep DEF Phase
<1>9. ASSUME NEW w \in Workers, job[w].pc \in {"ingesting", "monitoring"}
      PROVE  job[w].run \in Runs /\ status[job[w].run] = "INGESTING"
  BY <1>9 DEF JobsNameRuns, SessionOwnsRow, Session
<1>10. ASSUME NEW w \in Workers,
              IngestLine(w) \/ PauseForShutdown(w) \/ CommitFinalRows(w) \/ ScheduleRetry(w)
       PROVE  UNCHANGED Contract!contractVars
  <2>1. /\ job[w].run \in Runs /\ status[job[w].run] = "INGESTING" /\ version' = version
        /\ status'[job[w].run] \in {"UPLOADED", "INGESTING"}
        /\ \A q \in Runs \ {job[w].run} : status'[q] = status[q] /\ rows'[q] = rows[q]
    BY <1>9, <1>10 DEF IngestLine, PauseForShutdown, CommitFinalRows, ScheduleRetry
  <2> QED BY <2>1, SilentStep DEF Phase
<1>11. ASSUME NEW w \in Workers, CompleteRun(w), NEW r \in Runs, r = job[w].run
       PROVE  Contract!Publish(r)
  <2>1. /\ status[r] = "INGESTING" /\ version' = version
        /\ status' = [status EXCEPT ![r] = "COMPLETE"]
        /\ rows' = [rows EXCEPT ![r] = Flushed(w)]
    BY <1>9, <1>11 DEF CompleteRun
  <2>2. Flushed(w) = Contract!Content(version[r])
    BY <1>11, FlushedNow DEF CompleteRun, Contract!Content, Content, Lines
  <2> QED BY <2>1, <2>2 DEF Contract!Publish, Phase
<1>12. ASSUME NEW w \in Workers, GiveUp(w) \/ RejectArtifact(w) PROVE Contract!Fail(job[w].run)
  <2>1. /\ job[w].run \in Runs /\ status[job[w].run] = "INGESTING" /\ version' = version
        /\ status' = [status EXCEPT ![job[w].run] = "FAILED"]
        /\ \A q \in Runs \ {job[w].run} : rows'[q] = rows[q]
    BY <1>9, <1>12 DEF GiveUp, RejectArtifact
  <2> QED BY <2>1 DEF Contract!Fail, Phase
<1>13. ASSUME NEW r \in Runs, LockForUpload(r) \/ RollbackUpload(r) PROVE UNCHANGED row
  BY <1>13 DEF LockForUpload, RollbackUpload
<1>14. ASSUME NEW m \in Messages, LoseMessage(m) \/ \E w \in Workers : Deliver(w, m)
       PROVE UNCHANGED row
  BY <1>14 DEF LoseMessage, Deliver, ReadMessage, ClaimMessage
<1>15. ASSUME NEW w \in Workers,
              TryLock(w) \/ IgnoreJob(w) \/ Unlock(w) \/ Acknowledge(w)
              \/ LeaveUnrecorded(w) \/ Crash(w)
       PROVE  UNCHANGED row
  BY <1>15 DEF TryLock, IgnoreJob, Unlock, Acknowledge, LeaveUnrecorded, Crash
<1>16. CASE UNCHANGED vars
  BY <1>1, <1>16 DEF vars
<1>17. ASSUME NEW r \in Runs, ApiStep(r) \/ TimeStep(r)
       PROVE  [Contract!ContractNext]_(Contract!contractVars)
  BY <1>17, <1>1, <1>2, <1>3, <1>4, <1>5, <1>13 DEF ApiStep, Contract!ContractNext
<1>18. ASSUME NEW w \in Workers, Recover(w) \/ Progress(w) \/ Interrupt(w)
       PROVE  [Contract!ContractNext]_(Contract!contractVars)
  <2>1. ASSUME Recover(w) PROVE UNCHANGED Contract!contractVars
    BY <2>1, <1>6 DEF Recover
  <2>2. CASE RejectMissingArtifact(w)
    BY <2>2, <1>7 DEF Contract!ContractNext
  <2>3. CASE StartIngest(w)
    BY <2>3, <1>8
  <2>4. CASE IngestLine(w) \/ PauseForShutdown(w) \/ CommitFinalRows(w) \/ ScheduleRetry(w)
    BY <2>4, <1>10
  <2>5. CASE CompleteRun(w)
    <3>1. PICK r \in Runs : r = job[w].run
      BY <2>5, <1>9 DEF CompleteRun
    <3>2. Contract!Publish(r)
      BY <2>5, <3>1, <1>11
    <3> QED BY <3>2, PublishIsStep
  <2>6. CASE GiveUp(w) \/ RejectArtifact(w)
    <3>1. job[w].run \in Runs
      BY <2>6, <1>9 DEF GiveUp, RejectArtifact
    <3> QED BY <2>6, <3>1, <1>12 DEF Contract!ContractNext
  <2>7. CASE TryLock(w) \/ IgnoreJob(w) \/ Unlock(w) \/ Acknowledge(w)
             \/ LeaveUnrecorded(w) \/ Crash(w)
    <3>1. UNCHANGED row
      BY <2>7, <1>15
    <3> QED BY <3>1, <1>1
  <2> QED BY <1>18, <2>1, <2>2, <2>3, <2>4, <2>5, <2>6, <2>7 DEF Progress, Interrupt
<1> QED BY <1>1, <1>14, <1>16, <1>17, <1>18 DEF Next

\* Publication is atomic, whole and final: readers cannot tell the pipeline from
\* the contract.
THEOREM PipelineImplementsContract == Spec => ImplementsContract
<1>1. Init => Contract!ContractInit
  BY DEF Init, Contract!ContractInit, Phase
<1>2. ASSUME IInv, [Next]_vars PROVE [Contract!ContractNext]_(Contract!contractVars)
  BY <1>2, StepsRefine
<1> QED BY <1>1, <1>2, InductiveInvariant, PTL
        DEF Spec, ImplementsContract, Contract!ContractSafety

-----------------------------------------------------------------------------
(* Induction, and rows in order                                            *)

\* A set of numbers has a least one.
LEMMA LeastNumber ==
    ASSUME NEW T \in SUBSET Nat, T # {}
    PROVE  \E x \in T : \A y \in T : x <= y
<1> DEFINE R == {p \in Nat \X Nat : p[1] < p[2]}
<1>1. IsWellFoundedOn(R, Nat)
  BY NatLessThanWellFounded DEF OpToRel
<1> HIDE DEF R
<1>2. PICK x \in T : \A y \in T : ~ (<<y, x>> \in R)
  BY <1>1, WFMin
<1>3. ASSUME NEW y \in T PROVE x <= y
  <2>1. x \in Nat /\ y \in Nat /\ <<y, x>> \notin R
    BY <1>2
  <2>2. ~ (y < x)
    BY <2>1 DEF R
  <2> QED BY <2>1, <2>2
<1> QED BY <1>3

\* g[0], g[1], ... g[N] start at z and take one step after another.
Iterated(g, N, S, z, step) ==
    g \in [0..N -> S] /\ g[0] = z /\ \A i \in 1..N : g[i] = step[i][g[i - 1]]

\* A recursion over 0..N that steps within a set has a solution.
LEMMA Recursion ==
    ASSUME NEW N \in Nat, NEW S, NEW z \in S, NEW step \in [Nat -> [S -> S]]
    PROVE  \E g : Iterated(g, N, S, z, step)
<1> DEFINE Good(n) == \E g \in [0..n -> S] : g[0] = z /\ \A i \in 1..n : g[i] = step[i][g[i-1]]
<1> DEFINE T == {n \in Nat : ~Good(n)}
<1>1. Good(0)
  <2> DEFINE h == [i \in 0..0 |-> z]
  <2>1. h \in [0..0 -> S] /\ h[0] = z /\ 1..0 = {}
    OBVIOUS
  <2> HIDE DEF h
  <2> QED BY <2>1
<1>2. ASSUME NEW n \in Nat, Good(n) PROVE Good(n+1)
  <2>1. PICK g \in [0..n -> S] : g[0] = z /\ \A i \in 1..n : g[i] = step[i][g[i-1]]
    BY <1>2
  <2> DEFINE h == [i \in 0..n+1 |-> IF i = n+1 THEN step[n+1][g[n]] ELSE g[i]]
  <2>2. g[n] \in S /\ step[n+1][g[n]] \in S
    BY <2>1
  <2>3. h \in [0..n+1 -> S]
    BY <2>1, <2>2
  <2>4. h[0] = z
    BY <2>1
  <2>5. ASSUME NEW i \in 1..n+1 PROVE h[i] = step[i][h[i-1]]
    <3>1. h[i-1] = g[i-1]
      OBVIOUS
    <3>2. CASE i = n+1
      BY <3>1, <3>2
    <3>3. CASE i # n+1
      BY <3>3, <3>1, <2>1
    <3> QED BY <3>2, <3>3
  <2> HIDE DEF h
  <2> QED BY <2>3, <2>4, <2>5
<1> HIDE DEF Good
<1>3. T = {}
  <2> SUFFICES ASSUME T # {} PROVE FALSE
    OBVIOUS
  <2>1. PICK x \in T : \A y \in T : x <= y
    BY LeastNumber
  <2>2. x # 0 /\ x \in Nat
    BY <1>1
  <2>3. x - 1 \in Nat /\ x - 1 \notin T
    BY <2>1, <2>2
  <2>4. Good(x)
    BY <2>2, <2>3, <1>2
  <2> QED BY <2>4
<1>4. Good(N)
  BY <1>3
<1> QED BY <1>4 DEF Good, Iterated

\* The rows an ORDER BY lists are all of them, each before the ones it comes ahead of.
LEMMA OrderedListsAll ==
    ASSUME NEW found, IsFiniteSet(found), NEW ahead,
           \A x \in found : <<x, x>> \notin ahead,
           \A x, y \in found : x # y => <<x, y>> \in ahead \/ <<y, x>> \in ahead,
           \A x, y, z \in found : <<x, y>> \in ahead /\ <<y, z>> \in ahead => <<x, z>> \in ahead
    PROVE  /\ Cardinality(found) \in Nat
           /\ Ordered(found, ahead) \in [1..Cardinality(found) -> found]
           /\ \A x \in found : \E k \in 1..Cardinality(found) : Ordered(found, ahead)[k] = x
           /\ \A j, k \in 1..Cardinality(found) :
                 j < k => <<Ordered(found, ahead)[j], Ordered(found, ahead)[k]>> \in ahead
<1> DEFINE N == Cardinality(found)
           P(x) == {y \in found : <<y, x>> \in ahead}
           rank == [x \in found |-> Cardinality(P(x)) + 1]
<1>1. N \in Nat
  BY FS_CardinalityType
<1>2. ASSUME NEW x \in found
      PROVE  IsFiniteSet(P(x)) /\ Cardinality(P(x)) \in Nat /\ Cardinality(P(x)) < N
  <2>1. P(x) \in SUBSET found /\ P(x) # found
    OBVIOUS
  <2>2. IsFiniteSet(P(x)) /\ Cardinality(P(x)) <= N /\ Cardinality(P(x)) # N
    BY <2>1, FS_Subset
  <2>3. Cardinality(P(x)) \in Nat
    BY <2>2, FS_CardinalityType
  <2> QED BY <1>1, <2>2, <2>3
<1>3. rank \in [found -> 1..N]
  <2>1. ASSUME NEW x \in found PROVE Cardinality(P(x)) + 1 \in 1..N
    <3>1. Cardinality(P(x)) \in Nat /\ Cardinality(P(x)) < N
      BY <1>2
    <3> HIDE DEF P, N
    <3> QED BY <1>1, <3>1
  <2> HIDE DEF P
  <2> QED BY <2>1
<1>4. ASSUME NEW x \in found, NEW y \in found, <<x, y>> \in ahead
      PROVE  rank[x] < rank[y]
  <2>1. P(x) \in SUBSET P(y) /\ P(x) # P(y)
    BY <1>4
  <2>2. Cardinality(P(x)) <= Cardinality(P(y)) /\ Cardinality(P(x)) # Cardinality(P(y))
    BY <2>1, <1>2, FS_Subset
  <2>3. Cardinality(P(x)) \in Nat /\ Cardinality(P(y)) \in Nat
    BY <1>2
  <2> HIDE DEF P
  <2> QED BY <2>2, <2>3
<1> HIDE DEF rank, P
<1>5. rank \in Injection(found, 1..N)
  <2>1. ASSUME NEW x \in found, NEW y \in found, x # y PROVE rank[x] # rank[y]
    <3>1. rank[x] \in Int /\ rank[y] \in Int
      BY <1>1, <1>3
    <3>2. rank[x] < rank[y] \/ rank[y] < rank[x]
      BY <2>1, <1>4
    <3> QED BY <3>1, <3>2
  <2> QED BY <1>3, <2>1 DEF Injection, IsInjective
<1>6. IsFiniteSet(1..N) /\ Cardinality(1..N) = N
  BY <1>1, FS_Interval
<1>7. rank \in Surjection(found, 1..N)
  BY <1>5, <1>6, FS_Injection
<1>8. \A k \in 1..N : \E x \in found : rank[x] = k
  BY <1>7 DEF Surjection
<1> DEFINE s == Ordered(found, ahead)
<1>9. ASSUME NEW k \in 1..N
      PROVE  s[k] \in found /\ rank[s[k]] = k
  <2>1. ASSUME NEW x \in found
        PROVE  rank[x] = k <=> Cardinality({y \in found : <<y, x>> \in ahead}) = k - 1
    <3>1. Cardinality(P(x)) \in Nat /\ rank[x] = Cardinality(P(x)) + 1
      BY <1>2 DEF rank
    <3>2. P(x) = {y \in found : <<y, x>> \in ahead}
      BY DEF P
    <3> HIDE DEF P
    <3> QED BY <3>1, <3>2, <1>1
  <2>2. s[k] = CHOOSE x \in found : Cardinality({y \in found : <<y, x>> \in ahead}) = k - 1
    BY DEF Ordered
  <2> QED BY <2>1, <2>2, <1>8
<1>10. s \in [1..N -> found]
  BY <1>9 DEF Ordered
<1>11. \A x \in found : s[rank[x]] = x
  BY <1>9, <1>5, <1>3 DEF Injection, IsInjective
<1>12. ASSUME NEW j \in 1..N, NEW k \in 1..N, j < k
       PROVE  <<s[j], s[k]>> \in ahead
  <2>1. s[j] # s[k] /\ ~ (<<s[k], s[j]>> \in ahead)
    BY <1>9, <1>4, <1>12
  <2> QED BY <2>1, <1>9
<1> HIDE DEF s
<1> QED BY <1>1, <1>3, <1>10, <1>11, <1>12 DEF s

\* A cursor of one or two columns.
Directed(dirs) == dirs \in Seq({"asc", "desc"}) /\ Len(dirs) \in 1..2
\* The rows by their numbers.
RowNumbers == 1..Len(RowTimes)

\* A cursor has one or two columns, each in one of two directions.
LEMMA DirectedValues ==
    ASSUME NEW dirs, Directed(dirs)
    PROVE  /\ dirs[1] \in {"asc", "desc"}
           /\ Len(dirs) = 1 \/ (Len(dirs) = 2 /\ dirs[2] \in {"asc", "desc"})
           /\ DOMAIN dirs = 1..Len(dirs)
BY DEF Directed

\* Rows and their times are numbers.
LEMMA RowTimesAreNumbers == \A n \in RowNumbers : RowTimes[n] \in Nat /\ n \in Nat
<1>1. RowTimes \in Seq(Nat)
  BY InventoryAssumption
<1> QED BY <1>1 DEF RowNumbers

\* The order of a listing, by the number of its columns.
LEMMA BeforeByColumn ==
    ASSUME NEW dirs, Directed(dirs), NEW n \in RowNumbers, NEW m \in RowNumbers
    PROVE  Before(dirs, n, m) <=>
              IF Len(dirs) = 1 THEN Comes(n, m, dirs[1])
              ELSE \/ Comes(RowTimes[n], RowTimes[m], dirs[1])
                   \/ RowTimes[n] = RowTimes[m] /\ Comes(n, m, dirs[2])
<1>1. CASE Len(dirs) = 1
  BY <1>1 DEF Before, Columns
<1>2. CASE Len(dirs) = 2
  BY <1>2 DEF Columns, RowTuple, Before
<1> QED BY <1>1, <1>2, DirectedValues

\* What a cursor leaves out, by the number of its columns.
LEMMA BeyondByColumn ==
    ASSUME NEW dirs, Directed(dirs), NEW n \in RowNumbers, NEW m \in RowNumbers
    PROVE  Beyond(dirs, m, n) <=>
              IF Len(dirs) = 1 THEN Comes(n, m, dirs[1])
              ELSE \/ Comes(RowTimes[n], RowTimes[m], dirs[1])
                   \/ RowTimes[n] = RowTimes[m] /\ Comes(n, m, dirs[2])
<1> DEFINE x == Columns(dirs, m)
           y == Columns(dirs, n)
           InColumn(c) == /\ \A b \in 1..c - 1 : x[b] = y[b]
                    /\ IF dirs[c] = "asc" THEN x[c] > y[c] ELSE x[c] < y[c]
<1>0. RowTimes[n] \in Nat /\ RowTimes[m] \in Nat /\ n \in Nat /\ m \in Nat
  BY RowTimesAreNumbers
<1>1. Beyond(dirs, m, n) <=> \E c \in DOMAIN dirs : InColumn(c)
  BY DEF Beyond
<1>2. CASE Len(dirs) = 1
  <2>1. DOMAIN dirs = {1} /\ x[1] = m /\ y[1] = n
    BY <1>2, DirectedValues DEF Columns
  <2>2. InColumn(1) <=> Comes(n, m, dirs[1])
    BY <2>1, <1>0 DEF Comes
  <2> HIDE DEF InColumn
  <2> QED BY <2>1, <2>2, <1>1, <1>2
<1>3. CASE Len(dirs) = 2
  <2>1. /\ DOMAIN dirs = {1, 2} /\ x[1] = RowTimes[m] /\ y[1] = RowTimes[n]
        /\ x[2] = m /\ y[2] = n
    BY <1>3, DirectedValues DEF Columns, RowTuple
  <2>2. InColumn(1) <=> Comes(RowTimes[n], RowTimes[m], dirs[1])
    BY <2>1, <1>0 DEF Comes
  <2>3. InColumn(2) <=> RowTimes[n] = RowTimes[m] /\ Comes(n, m, dirs[2])
    BY <2>1, <1>0 DEF Comes
  <2> HIDE DEF InColumn
  <2> QED BY <2>1, <2>2, <2>3, <1>1, <1>3
<1> QED BY <1>2, <1>3, DirectedValues

\* The filter of a cursor keeps exactly the rows listed after its row.
LEMMA BeyondIsAfter ==
    ASSUME NEW dirs, Directed(dirs), NEW n \in RowNumbers, NEW m \in RowNumbers
    PROVE  Beyond(dirs, m, n) <=> Before(dirs, n, m)
BY BeforeByColumn, BeyondByColumn

\* A listing has one order: no two rows are at the same place.
LEMMA BeforeIsAnOrder ==
    ASSUME NEW dirs, Directed(dirs)
    PROVE  /\ \A n \in RowNumbers : ~Before(dirs, n, n)
           /\ \A n, m \in RowNumbers : n # m => Before(dirs, n, m) \/ Before(dirs, m, n)
           /\ \A n, m, k \in RowNumbers :
                 Before(dirs, n, m) /\ Before(dirs, m, k) => Before(dirs, n, k)
<1>1. ASSUME NEW n \in RowNumbers PROVE ~Before(dirs, n, n)
  BY BeforeByColumn, RowTimesAreNumbers DEF Comes
<1>2. ASSUME NEW n \in RowNumbers, NEW m \in RowNumbers, n # m
      PROVE  Before(dirs, n, m) \/ Before(dirs, m, n)
  BY RowTimesAreNumbers, <1>2, BeforeByColumn, DirectedValues DEF Comes
<1>3. ASSUME NEW n \in RowNumbers, NEW m \in RowNumbers, NEW k \in RowNumbers,
             Before(dirs, n, m), Before(dirs, m, k)
      PROVE  Before(dirs, n, k)
  <2>1. /\ RowTimes[n] \in Nat /\ RowTimes[m] \in Nat /\ RowTimes[k] \in Nat
        /\ n \in Nat /\ m \in Nat /\ k \in Nat
    BY RowTimesAreNumbers
  <2>2. CASE Len(dirs) = 1
    BY <1>3, <2>1, <2>2, BeforeByColumn, DirectedValues DEF Comes
  <2>3. CASE Len(dirs) # 1
    BY <1>3, <2>1, <2>3, BeforeByColumn, DirectedValues DEF Comes
  <2> QED BY <2>2, <2>3
<1> QED BY <1>1, <1>2, <1>3

\* The rows of a table beyond a cursor.
Findable(dirs, table, cursor) == {n \in table : cursor = Beginning \/ Beyond(dirs, n, cursor)}

\* The lesser of two numbers.
LEMMA MinOfTwo ==
    ASSUME NEW a \in Nat, NEW b \in Nat
    PROVE  Min({a, b}) = IF a <= b THEN a ELSE b
<1> DEFINE c == IF a <= b THEN a ELSE b
           Lowest(x) == \A y \in {a, b} : x =< y
<1>1. c \in {a, b} /\ Lowest(c)
  OBVIOUS
<1>2. ASSUME NEW x \in {a, b}, Lowest(x) PROVE x = c
  BY <1>2
<1> HIDE DEF c, Lowest
<1>3. Min({a, b}) = CHOOSE x \in {a, b} : Lowest(x)
  BY DEF Min, Lowest
<1>4. Min({a, b}) = c
  BY <1>1, <1>2, <1>3
<1> QED BY <1>4 DEF c

\* A listing in order holds the rows of its table, each once.
LEMMA InOrderListsAll ==
    ASSUME NEW dirs, Directed(dirs), NEW found \in SUBSET RowNumbers
    PROVE  LET s == InOrder(dirs, found)
               N == Cardinality(found)
           IN  /\ N \in Nat /\ N <= Len(RowTimes)
               /\ s \in [1..N -> found]
               /\ \A n \in found : \E k \in 1..N : s[k] = n
               /\ \A j, k \in 1..N : j < k => Before(dirs, s[j], s[k])
<1> DEFINE ahead == {p \in found \X found : Before(dirs, p[1], p[2])}
<1>1. Len(RowTimes) \in Nat
  BY InventoryAssumption
<1>2. IsFiniteSet(RowNumbers) /\ Cardinality(RowNumbers) = Len(RowTimes)
  BY <1>1, FS_Interval DEF RowNumbers
<1>3. IsFiniteSet(found) /\ Cardinality(found) <= Len(RowTimes)
  BY <1>2, FS_Subset
<1>4. \A n, m \in found : <<n, m>> \in ahead <=> Before(dirs, n, m)
  OBVIOUS
<1> HIDE DEF ahead
<1>5. /\ \A x \in found : <<x, x>> \notin ahead
      /\ \A x, y \in found : x # y => <<x, y>> \in ahead \/ <<y, x>> \in ahead
      /\ \A x, y, z \in found : <<x, y>> \in ahead /\ <<y, z>> \in ahead => <<x, z>> \in ahead
  BY <1>4, BeforeIsAnOrder
<1> DEFINE s == Ordered(found, ahead)
           N == Cardinality(found)
<1>6. /\ N \in Nat
      /\ s \in [1..N -> found]
      /\ \A x \in found : \E k \in 1..N : s[k] = x
      /\ \A j, k \in 1..N : j < k => <<s[j], s[k]>> \in ahead
  BY <1>3, <1>5, OrderedListsAll
<1>7. s = InOrder(dirs, found)
  BY DEF InOrder, ahead
<1>8. N <= Len(RowTimes)
  BY <1>3
<1> HIDE DEF s, N
<1>9. \A j, k \in 1..N : j < k => Before(dirs, s[j], s[k])
  BY <1>6, <1>4
<1>10. InOrder(dirs, found) = s /\ Cardinality(found) = N
  BY <1>7 DEF N
<1> QED BY <1>6, <1>8, <1>9, <1>10

\* What a request fetches: the first of the rows beyond its cursor, in order, and all of
\* them when they are fewer than the limit.
LEMMA FetchGives ==
    ASSUME NEW dirs, Directed(dirs), NEW table \in SUBSET RowNumbers,
           NEW cursor \in 0..Len(RowTimes), NEW limit \in Nat \ {0}
    PROVE  LET f == Fetch(dirs, table, cursor, limit)
               found == Findable(dirs, table, cursor)
           IN  /\ f \in Seq(found) /\ Len(f) <= limit
               /\ \A j, k \in 1..Len(f) : j < k => Beyond(dirs, f[k], f[j])
               /\ \A n \in found : \/ \E k \in 1..Len(f) : f[k] = n
                                   \/ Len(f) = limit /\ Beyond(dirs, n, f[limit])
<1> DEFINE found == Findable(dirs, table, cursor)
           s == InOrder(dirs, found)
           N == Cardinality(found)
           f == Fetch(dirs, table, cursor, limit)
           L == IF limit <= N THEN limit ELSE N
<1>1. found \in SUBSET RowNumbers
  BY DEF Findable
<1>2. /\ N \in Nat /\ s \in [1..N -> found]
      /\ \A n \in found : \E k \in 1..N : s[k] = n
      /\ \A j, k \in 1..N : j < k => Before(dirs, s[j], s[k])
  BY <1>1, InOrderListsAll
<1>3. f = SubSeq(s, 1, Min({limit, Len(s)}))
  BY DEF Fetch, FirstRows, Findable
<1> HIDE DEF f, s, found, N
<1>4. s \in Seq(found) /\ Len(s) = N
  BY <1>2
<1>5. Min({limit, Len(s)}) = L /\ L \in 0..N
  BY <1>2, <1>4, MinOfTwo
<1>6. f \in Seq(found) /\ Len(f) = L /\ \A k \in 1..L : f[k] = s[k]
  <2>1. f = SubSeq(s, 1, L)
    BY <1>3, <1>5
  <2>2. L \in Nat /\ L <= Len(s) /\ \A k \in 1..L : s[k] \in found
    BY <1>2, <1>4
  <2> HIDE DEF L
  <2>3. Len(f) = L /\ f \in Seq(found) /\ \A k \in 1..L : f[k] = s[1 + k - 1]
    BY <2>1, <2>2, <1>4
  <2>4. \A k \in 1..L : 1 + k - 1 = k
    BY <2>2
  <2> QED BY <2>3, <2>4
<1>7. \A j, k \in 1..N : j < k => Beyond(dirs, s[k], s[j])
  <2> SUFFICES ASSUME NEW j \in 1..N, NEW k \in 1..N, j < k PROVE Beyond(dirs, s[k], s[j])
    OBVIOUS
  <2>1. s[j] \in RowNumbers /\ s[k] \in RowNumbers
    BY <1>1, <1>2
  <2> QED BY <2>1, <1>2, BeyondIsAfter
<1>8. Len(f) <= limit
  BY <1>6, <1>2
<1>9. ASSUME NEW n \in found
      PROVE  \/ \E k \in 1..Len(f) : f[k] = n
             \/ Len(f) = limit /\ Beyond(dirs, n, f[limit])
  <2>1. PICK k \in 1..N : s[k] = n
    BY <1>2
  <2>2. CASE k <= L
    BY <2>1, <2>2, <1>6, <1>5
  <2>3. CASE ~(k <= L)
    BY <2>3, <1>2, <2>1, <1>6, <1>7
  <2> QED BY <2>2, <2>3
<1>10. \A j, k \in 1..Len(f) : j < k => Beyond(dirs, f[k], f[j])
  BY <1>6, <1>7, <1>5, <1>2
<1> QED BY <1>6, <1>8, <1>9, <1>10 DEF f, found

\* What holds of 0 and goes on from each number to the next holds of all: otherwise there would
\* be a least exception.
LEMMA Upward ==
    ASSUME NEW N \in Nat, NEW I, 0 \in I, \A n \in 1..N : n - 1 \in I => n \in I
    PROVE  \A n \in 0..N : n \in I
<1> DEFINE T == {n \in 0..N : n \notin I}
<1> SUFFICES ASSUME T # {} PROVE FALSE
  OBVIOUS
<1>1. PICK x \in T : \A y \in T : x <= y
  <2>1. T \in SUBSET Nat
    OBVIOUS
  <2> QED BY <2>1, LeastNumber
<1>2. x \in 1..N
  BY <1>1
<1>3. x - 1 \in 0..N /\ ~ (x <= x - 1)
  BY <1>2
<1>4. x - 1 \in I
  BY <1>1, <1>3
<1> QED BY <1>1, <1>2, <1>4

\* Rows in the order of a listing, none of them twice.
Chained(dirs, s) == \A j, k \in 1..Len(s) : j < k => Beyond(dirs, s[k], s[j])

\* What is beyond a row beyond the cursor is beyond the cursor.
LEMMA BeyondIsTransitive ==
    ASSUME NEW dirs, Directed(dirs), NEW n \in RowNumbers, NEW m \in RowNumbers,
           NEW k \in RowNumbers, Beyond(dirs, n, m), Beyond(dirs, m, k)
    PROVE  Beyond(dirs, n, k)
BY BeyondIsAfter, BeforeIsAnOrder

\* No row is beyond itself.
LEMMA BeyondIsStrict ==
    ASSUME NEW dirs, Directed(dirs), NEW n \in RowNumbers
    PROVE  ~Beyond(dirs, n, n)
BY BeyondIsAfter, BeforeIsAnOrder

\* A list continued beyond its last row is still in order.
LEMMA ChainedJoin ==
    ASSUME NEW dirs, Directed(dirs), NEW s \in Seq(RowNumbers), NEW t \in Seq(RowNumbers),
           Chained(dirs, s), Chained(dirs, t),
           s # <<>> => \A k \in 1..Len(t) : Beyond(dirs, t[k], s[Len(s)])
    PROVE  Chained(dirs, s \o t)
<1> DEFINE u == s \o t
<1>1. /\ Len(s) \in Nat /\ Len(t) \in Nat /\ Len(u) = Len(s) + Len(t)
      /\ \A k \in 1..Len(s) : u[k] = s[k] /\ s[k] \in RowNumbers
      /\ \A k \in 1..Len(t) : u[Len(s) + k] = t[k] /\ t[k] \in RowNumbers
  OBVIOUS
<1> SUFFICES ASSUME NEW j \in 1..Len(u), NEW k \in 1..Len(u), j < k
             PROVE  Beyond(dirs, u[k], u[j])
  BY DEF Chained
<1> HIDE DEF u
<1>2. CASE k <= Len(s)
  BY <1>1, <1>2 DEF Chained
<1>3. CASE j > Len(s)
  <2>1. PICK a \in 1..Len(t), b \in 1..Len(t) : j = Len(s) + a /\ k = Len(s) + b
    <3>0. Len(s) \in Int /\ Len(t) \in Int /\ j \in Int /\ k \in Int
      BY <1>1
    <3>1. j - Len(s) \in 1..Len(t) /\ k - Len(s) \in 1..Len(t)
      BY <1>1, <1>3
    <3>2. j = Len(s) + (j - Len(s)) /\ k = Len(s) + (k - Len(s))
      BY <3>0
    <3> QED BY <3>1, <3>2
  <2>2. a < b
    BY <2>1, <1>1
  <2> QED BY <2>1, <2>2, <1>1 DEF Chained
<1>4. CASE j <= Len(s) /\ k > Len(s)
  <2>1. PICK b \in 1..Len(t) : k = Len(s) + b
    <3>1. k - Len(s) \in 1..Len(t)
      BY <1>1, <1>4
    <3>2. k = Len(s) + (k - Len(s))
      BY <1>1
    <3> QED BY <3>1, <3>2
  <2>2. j \in 1..Len(s) /\ Len(s) \in 1..Len(s) /\ s # <<>>
    BY <1>1, <1>4
  <2>3. u[k] = t[b] /\ u[j] = s[j]
    BY <2>1, <2>2, <1>1
  <2>4. Beyond(dirs, t[b], s[Len(s)])
    BY <2>2
  <2>5. CASE j = Len(s)
    BY <2>3, <2>4, <2>5
  <2>6. CASE j < Len(s)
    BY <2>2, <2>6, <2>3, <2>4, <1>1, BeyondIsTransitive DEF Chained
  <2> QED BY <2>2, <2>5, <2>6, <1>1
<1> QED BY <1>1, <1>2, <1>3, <1>4

\* There are n numbers from 1 to n.
LEMMA CountedTo ==
    ASSUME NEW n \in Nat
    PROVE  IsFiniteSet(1..n) /\ Cardinality(1..n) = n
<1>1. IsFiniteSet(1..n) /\ Cardinality(1..n) = IF 1 > n THEN 0 ELSE n - 1 + 1
  BY FS_Interval
<1>2. (IF 1 > n THEN 0 ELSE n - 1 + 1) = n
  OBVIOUS
<1> QED BY <1>1, <1>2

\* A list in order is no longer than the table.
LEMMA ChainedIsShort ==
    ASSUME NEW dirs, Directed(dirs), NEW s \in Seq(RowNumbers), Chained(dirs, s)
    PROVE  Len(s) <= Len(RowTimes)
<1>0. RowTimes \in Seq(Nat)
  BY InventoryAssumption
<1>1. Len(RowTimes) \in Nat /\ Len(s) \in Nat
  BY <1>0
<1>2. IsFiniteSet(RowNumbers) /\ Cardinality(RowNumbers) = Len(RowTimes)
  BY <1>1, CountedTo DEF RowNumbers
<1>3. Cardinality(1..Len(s)) = Len(s) /\ IsFiniteSet(1..Len(s))
  BY <1>1, CountedTo
<1>4. s \in [1..Len(s) -> RowNumbers]
  OBVIOUS
<1>5. ASSUME NEW j \in 1..Len(s), NEW k \in 1..Len(s), j # k PROVE s[j] # s[k]
  BY <1>5, BeyondIsStrict DEF Chained
<1>6. s \in Injection(1..Len(s), RowNumbers)
  BY <1>4, <1>5 DEF Injection, IsInjective
<1> QED BY <1>2, <1>3, <1>6, FS_Injection

-----------------------------------------------------------------------------
(* Pages: what a client that follows cursors is given                      *)

\* What a client holds.
Client == [rows : Seq(RowNumbers), next : 0..Len(RowTimes), more : BOOLEAN]
\* Before the first request, at one request, and after it.
NothingListed == [rows |-> <<>>, next |-> Beginning, more |-> TRUE]
Answered(dirs, history, limit, n, past) ==
    Page(Fetch(dirs, Seen(history, n), past.next, limit + 1), limit)
Following(dirs, history, limit, n, past) ==
    IF ~past.more THEN past
    ELSE LET page == Answered(dirs, history, limit, n, past) IN
         [rows |-> past.rows \o page.rows, next |-> page.next, more |-> page.next # Beginning]

\* A row was in the table at some time; a client holds it.
Met(history, one) == \E i \in 1..Reads : one \in history[i]
Holding(s, one) == \E k \in 1..Len(s) : s[k] = one

\* A page: rows beyond its cursor, in order; when it names a next cursor that is its last
\* row, and when it names none it holds all the rest.
LEMMA PageGives ==
    ASSUME NEW dirs, Directed(dirs), NEW history \in Histories, NEW limit \in Nat \ {0},
           NEW n \in Nat \ {0}, NEW cursor \in 0..Len(RowTimes)
    PROVE  LET page == Page(Fetch(dirs, Seen(history, n), cursor, limit + 1), limit)
           IN  /\ page.rows \in Seq(RowNumbers) /\ page.next \in 0..Len(RowTimes)
               /\ Chained(dirs, page.rows)
               /\ \A k \in 1..Len(page.rows) :
                     /\ Met(history, page.rows[k])
                     /\ cursor # Beginning => Beyond(dirs, page.rows[k], cursor)
               /\ page.next # Beginning =>
                     Len(page.rows) > 0 /\ page.next = page.rows[Len(page.rows)]
               /\ \A one \in Lasting(history) :
                     cursor = Beginning \/ Beyond(dirs, one, cursor) =>
                        \/ Holding(page.rows, one)
                        \/ page.next # Beginning /\ Beyond(dirs, one, page.next)
<1> DEFINE table == Seen(history, n)
           f == Fetch(dirs, table, cursor, limit + 1)
           found == Findable(dirs, table, cursor)
           page == Page(f, limit)
<1>1. PICK i \in 1..Reads : table = history[i]
  BY InventoryAssumption, MinOfTwo DEF Seen
<1>2. table \in SUBSET RowNumbers /\ \A one \in table : Met(history, one)
  BY <1>1 DEF Histories, Tables, RowNumbers, Met
<1>3. \A one \in Lasting(history) : one \in table
  BY <1>1 DEF Lasting
<1>4. found \in SUBSET table /\ \A one \in found : cursor # Beginning => Beyond(dirs, one, cursor)
  BY DEF Findable
<1>5. \A one \in table : cursor = Beginning \/ Beyond(dirs, one, cursor) => one \in found
  BY DEF Findable
<1> HIDE DEF table
<1>6. limit \in Nat /\ limit + 1 \in Nat \ {0}
  OBVIOUS
<1>7. /\ f \in Seq(found) /\ Len(f) <= limit + 1
      /\ \A j, k \in 1..Len(f) : j < k => Beyond(dirs, f[k], f[j])
      /\ \A one \in found : \/ \E k \in 1..Len(f) : f[k] = one
                            \/ Len(f) = limit + 1 /\ Beyond(dirs, one, f[limit + 1])
  BY <1>2, <1>6, FetchGives
<1>8. \A k \in 1..Len(f) : /\ f[k] \in RowNumbers /\ Met(history, f[k])
                           /\ cursor # Beginning => Beyond(dirs, f[k], cursor)
  BY <1>7, <1>4, <1>2
<1>9. Len(RowTimes) \in Nat /\ Len(f) \in Nat
  BY <1>7, InventoryAssumption
<1>10. found \in SUBSET RowNumbers
  BY <1>4, <1>2
<1> HIDE DEF f, found
<1>11. CASE Len(f) <= limit
  <2>1. page = [rows |-> f, next |-> Beginning]
    BY <1>11 DEF Page
  <2>2. page.rows = f /\ page.next = 0 /\ page.next = Beginning
    BY <2>1 DEF Beginning
  <2>3. f \in Seq(RowNumbers) /\ Chained(dirs, f)
    BY <1>7, <1>10 DEF Chained
  <2>4. ASSUME NEW one \in Lasting(history), cursor = Beginning \/ Beyond(dirs, one, cursor)
        PROVE  Holding(f, one)
    <3>1. one \in found
      BY <2>4, <1>3, <1>5
    <3> QED BY <3>1, <1>7, <1>6, <1>11, <1>9 DEF Holding
  <2> HIDE DEF page
  <2>5. page.next \in 0..Len(RowTimes)
    BY <2>2, <1>9
  <2> QED BY <2>2, <2>3, <2>4, <2>5, <1>8 DEF page, f, table
<1>12. CASE ~(Len(f) <= limit)
  <2>1. Len(f) = limit + 1
    BY <1>12, <1>7, <1>9, <1>6
  <2> DEFINE g == SubSeq(f, 1, limit)
  <2>2. page = [rows |-> g, next |-> f[limit]]
    BY <1>12 DEF Page
  <2>3. page.rows = g /\ page.next = f[limit]
    BY <2>2
  <2>4. f \in Seq(RowNumbers)
    BY <1>7, <1>10
  <2>5. g \in Seq(RowNumbers) /\ Len(g) = limit /\ \A k \in 1..limit : g[k] = f[k]
    BY <2>1, <2>4, <1>6
  <2> HIDE DEF g, page
  <2>6. 1..limit \subseteq 1..Len(f) /\ limit \in 1..limit /\ limit + 1 \in 1..Len(f)
    BY <2>1, <1>6
  <2>7. Chained(dirs, g)
    BY <1>7, <2>5, <2>6 DEF Chained
  <2>8. \A k \in 1..Len(g) : /\ Met(history, g[k])
                             /\ cursor # Beginning => Beyond(dirs, g[k], cursor)
    BY <2>5, <2>6, <1>8
  <2>9. f[limit] \in RowNumbers /\ f[limit] # Beginning /\ f[limit] \in 0..Len(RowTimes)
    BY <2>6, <1>8, <1>9 DEF RowNumbers, Beginning
  <2>10. Len(g) > 0 /\ f[limit] = g[Len(g)]
    BY <2>5, <2>6
  <2>11. ASSUME NEW one \in Lasting(history), cursor = Beginning \/ Beyond(dirs, one, cursor)
         PROVE  Holding(g, one) \/ Beyond(dirs, one, f[limit])
    <3>1. one \in found /\ one \in RowNumbers
      BY <2>11, <1>3, <1>5, <1>2
    <3>2. Beyond(dirs, f[limit + 1], f[limit])
      BY <1>7, <2>6, <1>6
    <3>3. CASE \E k \in 1..Len(f) : f[k] = one
      <4>1. PICK k \in 1..Len(f) : f[k] = one
        BY <3>3
      <4>2. CASE k = limit + 1
        BY <4>1, <4>2, <3>2
      <4>3. CASE k # limit + 1
        BY <4>1, <4>3, <2>1, <2>5, <1>6 DEF Holding
      <4> QED BY <4>2, <4>3
    <3>4. CASE Beyond(dirs, one, f[limit + 1])
      BY <3>1, <3>2, <3>4, <2>6, <1>8, BeyondIsTransitive
    <3> QED BY <3>1, <3>3, <3>4, <1>7
  <2> QED BY <2>3, <2>5, <2>7, <2>8, <2>9, <2>10, <2>11 DEF page, f, table
<1> QED BY <1>11, <1>12

\* One list after another.
LEMMA JoinGives ==
    ASSUME NEW s \in Seq(RowNumbers), NEW t \in Seq(RowNumbers)
    PROVE  /\ Len(s) \in Nat /\ Len(t) \in Nat
           /\ s \o t \in Seq(RowNumbers) /\ Len(s \o t) = Len(s) + Len(t)
           /\ \A one : Holding(s \o t, one) <=> Holding(s, one) \/ Holding(t, one)
           /\ Len(t) > 0 => (s \o t)[Len(s \o t)] = t[Len(t)]
<1> DEFINE u == s \o t
<1>1. /\ Len(s) \in Nat /\ Len(t) \in Nat /\ Len(u) = Len(s) + Len(t)
      /\ u \in Seq(RowNumbers)
      /\ \A k \in 1..Len(s) : u[k] = s[k]
      /\ \A k \in 1..Len(t) : u[Len(s) + k] = t[k]
  OBVIOUS
<1> HIDE DEF u
<1>2. ASSUME NEW one, NEW k \in 1..Len(s), s[k] = one PROVE Holding(u, one)
  BY <1>1, <1>2 DEF Holding
<1>3. ASSUME NEW one, NEW k \in 1..Len(t), t[k] = one PROVE Holding(u, one)
  <2>1. Len(s) + k \in 1..Len(u)
    BY <1>1
  <2>2. u[Len(s) + k] = one
    BY <1>1, <1>3
  <2> QED BY <2>1, <2>2 DEF Holding
<1>4. ASSUME NEW one, NEW k \in 1..Len(u), u[k] = one
      PROVE  Holding(s, one) \/ Holding(t, one)
  <2>1. CASE k <= Len(s)
    BY <2>1, <1>1, <1>4 DEF Holding
  <2>2. CASE k > Len(s)
    <3> DEFINE j == k - Len(s)
    <3>1. j \in 1..Len(t) /\ k = Len(s) + j
      BY <2>2, <1>1
    <3> HIDE DEF j
    <3> QED BY <3>1, <1>1, <1>4 DEF Holding
  <2> QED BY <2>1, <2>2, <1>1
<1>5. \A one : Holding(u, one) <=> Holding(s, one) \/ Holding(t, one)
  BY <1>2, <1>3, <1>4 DEF Holding
<1>6. Len(t) > 0 => u[Len(u)] = t[Len(t)]
  <2> SUFFICES ASSUME Len(t) > 0 PROVE u[Len(u)] = t[Len(t)]
    OBVIOUS
  <2>1. Len(t) \in 1..Len(t)
    BY <1>1
  <2> QED BY <2>1, <1>1
<1> QED BY <1>1, <1>5, <1>6 DEF u

\* The invariant of a listing after n requests: what was given is in order, and a row that was
\* there all along is among it or is still to come.
ListedSoFar(dirs, history, n, c) ==
    /\ c \in Client
    /\ Chained(dirs, c.rows)
    /\ \A one : Holding(c.rows, one) => Met(history, one)
    /\ c.more => Len(c.rows) >= n
    /\ c.next = Beginning => c.rows = <<>> \/ ~c.more
    /\ c.next # Beginning => Len(c.rows) > 0 /\ c.next = c.rows[Len(c.rows)]
    /\ \A one \in Lasting(history) :
          \/ Holding(c.rows, one)
          \/ c.more /\ (c.next = Beginning \/ Beyond(dirs, one, c.next))

\* A page that continues what a client was given leaves out no lasting row up to its end.
LEMMA PageListed ==
    ASSUME NEW dirs, Directed(dirs), NEW history \in Histories, NEW n \in Nat \ {0},
           NEW past, ListedSoFar(dirs, history, n - 1, past), past.more,
           NEW t \in Seq(RowNumbers), NEW next \in 0..Len(RowTimes),
           Chained(dirs, t),
           \A k \in 1..Len(t) : /\ Met(history, t[k])
                                /\ past.next # Beginning => Beyond(dirs, t[k], past.next),
           next # Beginning => Len(t) > 0 /\ next = t[Len(t)],
           \A one \in Lasting(history) :
              past.next = Beginning \/ Beyond(dirs, one, past.next) =>
                 Holding(t, one) \/ (next # Beginning /\ Beyond(dirs, one, next)),
           NEW c, c = [rows |-> past.rows \o t, next |-> next, more |-> next # Beginning]
    PROVE  ListedSoFar(dirs, history, n, c)
<1> DEFINE s == past.rows
           u == s \o t
<1>1. /\ s \in Seq(RowNumbers)
      /\ Chained(dirs, s) /\ \A one : Holding(s, one) => Met(history, one)
      /\ Len(s) >= n - 1
      /\ past.next = Beginning => s = <<>>
      /\ past.next # Beginning => past.next = s[Len(s)]
      /\ \A one \in Lasting(history) :
            Holding(s, one) \/ past.next = Beginning \/ Beyond(dirs, one, past.next)
  BY DEF ListedSoFar, Client
<1>2. c.rows = u /\ c.next = next /\ (c.more <=> next # Beginning)
  OBVIOUS
<1> HIDE DEF s
<1>3. /\ Len(s) \in Nat /\ Len(t) \in Nat
      /\ u \in Seq(RowNumbers) /\ Len(u) = Len(s) + Len(t)
      /\ \A one : Holding(u, one) <=> Holding(s, one) \/ Holding(t, one)
      /\ Len(t) > 0 => u[Len(u)] = t[Len(t)]
  BY <1>1, JoinGives
<1>4. Chained(dirs, u)
  BY <1>1, ChainedJoin
<1> HIDE DEF u
<1>5. \A one : Holding(u, one) => Met(history, one)
  <2>1. \A one : Holding(t, one) => Met(history, one)
    BY DEF Holding
  <2> QED BY <2>1, <1>1, <1>3
<1>6. next # Beginning => Len(u) >= n /\ Len(u) > 0 /\ next = u[Len(u)]
  BY <1>1, <1>3
<1>7. \A one \in Lasting(history) : Holding(u, one) \/ (next # Beginning /\ Beyond(dirs, one, next))
  BY <1>1, <1>3
<1>8. c \in Client
  BY <1>3 DEF Client, u, s
<1> QED BY <1>2, <1>4, <1>5, <1>6, <1>7, <1>8 DEF ListedSoFar

\* One more request keeps what is so of everything listed so far.
LEMMA FollowingKeeps ==
    ASSUME NEW dirs, Directed(dirs), NEW history \in Histories, NEW limit \in Nat \ {0},
           NEW n \in Nat \ {0}, NEW past, ListedSoFar(dirs, history, n - 1, past)
    PROVE  ListedSoFar(dirs, history, n, Following(dirs, history, limit, n, past))
<1> DEFINE page == Answered(dirs, history, limit, n, past)
<1>1. past.next \in 0..Len(RowTimes) /\ past.more \in BOOLEAN
  BY DEF ListedSoFar, Client
<1>2. CASE ~past.more
  BY <1>2 DEF Following, ListedSoFar
<1>3. CASE past.more
  <2>1. /\ page.rows \in Seq(RowNumbers) /\ page.next \in 0..Len(RowTimes)
        /\ Chained(dirs, page.rows)
        /\ \A k \in 1..Len(page.rows) :
              /\ Met(history, page.rows[k])
              /\ past.next # Beginning => Beyond(dirs, page.rows[k], past.next)
        /\ page.next # Beginning => Len(page.rows) > 0 /\ page.next = page.rows[Len(page.rows)]
        /\ \A one \in Lasting(history) :
              past.next = Beginning \/ Beyond(dirs, one, past.next) =>
                 Holding(page.rows, one) \/ (page.next # Beginning /\ Beyond(dirs, one, page.next))
    BY <1>1, PageGives DEF Answered
  <2>2. Following(dirs, history, limit, n, past) =
            [rows |-> past.rows \o page.rows, next |-> page.next, more |-> page.next # Beginning]
    BY <1>3 DEF Following
  <2> HIDE DEF page
  <2> QED BY <2>1, <2>2, <1>3, PageListed
<1> QED BY <1>1, <1>2, <1>3

\* One more request leaves a client as clients are.
LEMMA FollowingTyped ==
    ASSUME NEW dirs, Directed(dirs), NEW history \in Histories, NEW limit \in Nat \ {0},
           NEW n \in Nat \ {0}, NEW past \in Client
    PROVE  Following(dirs, history, limit, n, past) \in Client
<1> DEFINE page == Answered(dirs, history, limit, n, past)
<1>1. past.next \in 0..Len(RowTimes) /\ past.more \in BOOLEAN /\ past.rows \in Seq(RowNumbers)
  BY DEF Client
<1>2. page.rows \in Seq(RowNumbers) /\ page.next \in 0..Len(RowTimes)
  BY <1>1, PageGives DEF Answered
<1>3. CASE ~past.more
  BY <1>3 DEF Following
<1>4. CASE past.more
  <2>1. Following(dirs, history, limit, n, past) =
            [rows |-> past.rows \o page.rows, next |-> page.next, more |-> page.next # Beginning]
    BY <1>4 DEF Following
  <2> HIDE DEF page
  <2>2. past.rows \o page.rows \in Seq(RowNumbers)
    BY <1>1, <1>2
  <2> QED BY <2>1, <2>2, <1>2 DEF Client
<1> QED BY <1>1, <1>3, <1>4

\* So is a client before its first request.
LEMMA NothingListedTyped == NothingListed \in Client
<1>1. <<>> \in Seq(RowNumbers) /\ 0 \in 0..Len(RowTimes)
  BY InventoryAssumption
<1> QED BY <1>1 DEF NothingListed, Client, Beginning

\* A listing is its requests, one after another.
LEMMA ListingFollows ==
    ASSUME NEW dirs, Directed(dirs), NEW history \in Histories, NEW limit \in Nat \ {0}
    PROVE  \E after : /\ Listing(dirs, history, limit) = after[MaxRequestsOf]
                      /\ after[0] = NothingListed
                      /\ \A n \in 1..MaxRequestsOf :
                            after[n] = Following(dirs, history, limit, n, after[n - 1])
<1> DEFINE N == MaxRequestsOf
           F(n, p) == Following(dirs, history, limit, n, p)
           Body(h) == [n \in 0..N |-> IF n = 0 THEN NothingListed ELSE F(n, h[n - 1])]
           g == CHOOSE h : h = Body(h)
           step == [n \in Nat |-> [p \in Client |-> IF n \in 1..N THEN F(n, p) ELSE p]]
<1>1. N \in Nat
  BY InventoryAssumption DEF MaxRequestsOf
<1> HIDE DEF N
<1>2. step \in [Nat -> [Client -> Client]]
  <2>1. ASSUME NEW n \in Nat, NEW p \in Client
        PROVE  (IF n \in 1..N THEN F(n, p) ELSE p) \in Client
    <3>1. CASE n \in 1..N
      BY <3>1, FollowingTyped
    <3>2. CASE n \notin 1..N
      BY <3>2
    <3> QED BY <3>1, <3>2
  <2> HIDE DEF F
  <2> QED BY <2>1
<1>3. \A n \in 1..N : \A p \in Client : step[n][p] = F(n, p)
  <2> HIDE DEF F
  <2> QED BY <1>1
<1> HIDE DEF step, F
<1>4. PICK h : Iterated(h, N, Client, NothingListed, step)
  BY <1>1, <1>2, NothingListedTyped, Recursion
<1>5. /\ h \in [0..N -> Client] /\ h[0] = NothingListed
      /\ \A i \in 1..N : h[i] = step[i][h[i - 1]]
  BY <1>4 DEF Iterated
<1>6. h = Body(h)
  <2>1. ASSUME NEW n \in 0..N
        PROVE  h[n] = IF n = 0 THEN NothingListed ELSE F(n, h[n - 1])
    <3>1. CASE n = 0
      BY <3>1, <1>5
    <3>2. CASE n # 0
      BY <3>2, <1>1, <1>3, <1>5
    <3> QED BY <3>1, <3>2
  <2> QED BY <2>1, <1>5
<1>7. g = Body(g)
  BY <1>6
<1>8. Listing(dirs, history, limit) = g[N]
  BY DEF Listing, N, F, Following, Answered, NothingListed
<1> HIDE DEF g
<1>9. g[0] = NothingListed
  BY <1>7, <1>1
<1>10. ASSUME NEW n \in 1..N PROVE g[n] = F(n, g[n - 1])
  BY <1>7, <1>1
<1> QED BY <1>9, <1>10, <1>8 DEF N, F

\* What one listing gives its client.
LEMMA ListingHolds ==
    ASSUME NEW dirs, Directed(dirs), NEW history \in Histories, NEW limit \in Nat \ {0}
    PROVE  LET listing == Listing(dirs, history, limit)
           IN  ~listing.more /\ ListedOnce(dirs, listing.rows, history)
<1>1. PICK after : /\ Listing(dirs, history, limit) = after[MaxRequestsOf]
                   /\ after[0] = NothingListed
                   /\ \A n \in 1..MaxRequestsOf :
                         after[n] = Following(dirs, history, limit, n, after[n - 1])
  BY ListingFollows
<1> DEFINE N == MaxRequestsOf
           I == {n \in 0..N : ListedSoFar(dirs, history, n, after[n])}
           c == after[N]
           s == c.rows
<1>2. N \in Nat /\ N = Len(RowTimes) + 1 /\ Len(RowTimes) \in Nat
  BY InventoryAssumption DEF MaxRequestsOf
<1>3. ListedSoFar(dirs, history, 0, after[0])
  BY <1>1, NothingListedTyped DEF NothingListed, Chained, Holding, ListedSoFar
<1>4. ASSUME NEW n \in 1..N, ListedSoFar(dirs, history, n - 1, after[n - 1])
      PROVE  ListedSoFar(dirs, history, n, after[n])
  BY <1>1, <1>4, FollowingKeeps
<1>5. \A n \in 0..N : n \in I
  <2>1. 0 \in I
    BY <1>2, <1>3
  <2>2. \A n \in 1..N : n - 1 \in I => n \in I
    BY <1>4
  <2> HIDE DEF I
  <2> QED BY <1>2, <2>1, <2>2, Upward
<1>6. ListedSoFar(dirs, history, N, c)
  BY <1>2, <1>5
<1> HIDE DEF c
<1>7. /\ c \in Client /\ s \in Seq(RowNumbers) /\ Chained(dirs, s)
      /\ \A one : Holding(s, one) => Met(history, one)
      /\ c.more => Len(s) >= N
  BY <1>6 DEF ListedSoFar, Client
<1>8. Len(s) <= Len(RowTimes) /\ Len(s) \in Nat
  BY <1>7, ChainedIsShort
<1>9. ~c.more
  BY <1>7, <1>8, <1>2
<1>10. \A one \in Lasting(history) : Holding(s, one)
  BY <1>6, <1>9 DEF ListedSoFar
<1> HIDE DEF s
<1>11. \A one : one \in ToSet(s) <=> Holding(s, one)
  BY <1>7 DEF ToSet, Holding
<1>12. ToSet(s) \subseteq UNION {history[n] : n \in 1..Reads}
  BY <1>7, <1>11 DEF Met
<1>13. ASSUME NEW n \in 2..Len(s) PROVE Beyond(dirs, s[n], s[n - 1])
  BY <1>8, <1>7 DEF Chained
<1>14. ListedOnce(dirs, s, history)
  BY <1>10, <1>11, <1>12, <1>13 DEF ListedOnce
<1>15. Listing(dirs, history, limit) = c
  BY <1>1 DEF c
<1> QED BY <1>9, <1>14, <1>15 DEF s

\* The cursors of the routes have one or two columns.
LEMMA KeysetsDirected == \A dirs \in Keysets : Directed(dirs)
BY InventoryAssumption DEF Directed

\* Whoever follows the cursors of a listing to its end is given no row twice, only rows that
\* were there when asked, in order, and every row that was there all along, for tables and
\* pages of any size, any cursor columns, and whatever is added and deleted between requests.
THEOREM PagesHold == PagesLoseNothing
<1> SUFFICES ASSUME NEW dirs \in Keysets, NEW history \in Histories, NEW limit \in PageLimits
             PROVE  LET listing == Listing(dirs, history, limit)
                    IN  ~listing.more /\ ListedOnce(dirs, listing.rows, history)
  BY DEF PagesLoseNothing
<1>1. Directed(dirs) /\ limit \in Nat \ {0}
  BY KeysetsDirected, InventoryAssumption
<1> QED BY <1>1, ListingHolds

-----------------------------------------------------------------------------
(* Exports                                                                 *)

\* The order of an export.
Newest == <<"desc">>
\* The first batch of an export and the mark it sets; what is streamed, and each further batch.
FirstBatch(history, size) == Fetch(Newest, Seen(history, 1), Beginning, size)
Mark(history, size) ==
    IF FirstBatch(history, size) = <<>> THEN 0 ELSE FirstBatch(history, size)[1]
Streams == [rows : Seq(RowNumbers), more : BOOLEAN]
Opened(history, size) ==
    [rows |-> FirstBatch(history, size), more |-> Len(FirstBatch(history, size)) = size]
NextBatch(history, size, n, past) ==
    ExportBatch(Seen(history, n + 1), Mark(history, size), Last(past.rows), size)
Streaming(history, size, n, past) ==
    IF ~past.more THEN past
    ELSE LET batch == NextBatch(history, size, n, past) IN
         [rows |-> past.rows \o batch, more |-> Len(batch) = size]

\* A batch of an export is in the order of falling numbers.
LEMMA NewestFirst ==
    /\ Directed(Newest)
    /\ \A n, m \in RowNumbers : Beyond(Newest, m, n) <=> m < n
<1>1. Directed(Newest) /\ Len(Newest) = 1 /\ Newest[1] = "desc"
  BY DEF Directed, Newest
<1> HIDE DEF Newest
<1>2. ASSUME NEW n \in RowNumbers, NEW m \in RowNumbers
      PROVE  Beyond(Newest, m, n) <=> m < n
  BY RowTimesAreNumbers, <1>1, BeyondByColumn DEF Comes
<1> QED BY <1>1, <1>2

\* What a request finds is one of the states of the table.
LEMMA SeenIsOne ==
    ASSUME NEW history \in Histories, NEW n \in Nat \ {0}
    PROVE  \E i \in 1..Reads : Seen(history, n) = history[i]
<1>1. Reads \in Nat /\ Reads # 0
  BY InventoryAssumption
<1>2. Min({n, Reads}) \in 1..Reads
  BY <1>1, MinOfTwo
<1> QED BY <1>2 DEF Seen

\* The invariant of an export after n further batches: no row is above the mark, and a row that
\* was there all along is among what was streamed or is still below its last row.
StreamedSoFar(history, size, n, c) ==
    /\ c \in Streams
    /\ Chained(Newest, c.rows)
    /\ \A one : Holding(c.rows, one) => one <= Mark(history, size)
    /\ c.more => Len(c.rows) > n
    /\ \A one \in Lasting(history) :
          /\ one \in RowNumbers /\ one <= Mark(history, size)
          /\ Holding(c.rows, one) \/ (c.more /\ one < Last(c.rows))

\* A row that was there all along was there at each request.
LEMMA LastingAreRows ==
    ASSUME NEW history \in Histories
    PROVE  \A one \in Lasting(history) :
              one \in RowNumbers /\ \A n \in Nat \ {0} : one \in Seen(history, n)
BY SeenIsOne DEF Lasting, RowNumbers

\* The first batch sets a mark that is above every row that was there all along.
LEMMA OpenedTyped ==
    ASSUME NEW history \in Histories, NEW size \in Nat \ {0}
    PROVE  /\ Opened(history, size) \in Streams
           /\ Mark(history, size) \in Nat
           /\ StreamedSoFar(history, size, 0, Opened(history, size))
<1> DEFINE table == Seen(history, 1)
           f == FirstBatch(history, size)
           found == Findable(Newest, table, Beginning)
           mark == Mark(history, size)
           c == Opened(history, size)
<1>1. table \in SUBSET RowNumbers
  <2>1. PICK i \in 1..Reads : table = history[i]
    BY SeenIsOne
  <2> QED BY <2>1 DEF Histories, Tables, RowNumbers
<1>2. Beginning \in 0..Len(RowTimes) /\ Len(RowTimes) \in Nat
  BY InventoryAssumption DEF Beginning
<1>3. found = table
  BY DEF Findable
<1> HIDE DEF table, found
<1>4. /\ f \in Seq(found) /\ Len(f) <= size
      /\ \A j, k \in 1..Len(f) : j < k => Beyond(Newest, f[k], f[j])
      /\ \A one \in found : \/ \E k \in 1..Len(f) : f[k] = one
                            \/ Len(f) = size /\ Beyond(Newest, one, f[size])
  BY <1>1, <1>2, NewestFirst, FetchGives DEF FirstBatch, table, found
<1>5. f \in Seq(RowNumbers) /\ Chained(Newest, f)
  BY <1>1, <1>3, <1>4 DEF Chained
<1>6. c.rows = f /\ (c.more <=> Len(f) = size) /\ c \in Streams
  BY <1>5 DEF Opened, Streams
<1>7. mark = IF f = <<>> THEN 0 ELSE f[1]
  BY DEF Mark
<1>8. \A one \in Lasting(history) : one \in RowNumbers /\ one \in table
  BY LastingAreRows DEF table
<1> HIDE DEF f, mark, c
<1>9. Len(f) \in Nat /\ \A k \in 1..Len(f) : f[k] \in RowNumbers
  BY <1>5
<1>10. mark \in Nat
  <2>1. CASE f = <<>>
    BY <2>1, <1>7
  <2>2. CASE f # <<>>
    BY <2>2, <1>5, <1>7, <1>9, RowTimesAreNumbers
  <2> QED BY <2>1, <2>2
<1>11. ASSUME NEW k \in 1..Len(f) PROVE f[k] <= mark
  <2>1. 1 \in 1..Len(f) /\ mark = f[1] /\ f[1] \in Nat /\ f[k] \in Nat
    BY <1>9, <1>7, RowTimesAreNumbers
  <2>2. CASE k = 1
    BY <2>1, <2>2
  <2>3. CASE k # 1
    BY <2>3, <1>9, <2>1, <1>4, NewestFirst
  <2> QED BY <2>2, <2>3
<1>12. ASSUME NEW one \in Lasting(history)
       PROVE  one <= mark /\ (Holding(f, one) \/ (Len(f) = size /\ one < Last(f)))
  <2>1. one \in found /\ one \in RowNumbers /\ one \in Nat
    BY <1>3, <1>8, RowTimesAreNumbers
  <2>2. CASE \E k \in 1..Len(f) : f[k] = one
    BY <2>2, <1>11 DEF Holding
  <2>3. CASE Len(f) = size /\ Beyond(Newest, one, f[size])
    <3>1. size \in 1..Len(f) /\ f[size] \in RowNumbers /\ Last(f) = f[size]
      BY <2>3, <1>9 DEF Last
    <3>2. one < f[size] /\ f[size] <= mark /\ f[size] \in Nat
      BY <3>1, <2>1, <2>3, <1>11, NewestFirst, RowTimesAreNumbers
    <3> QED BY <3>1, <3>2, <2>1, <2>3, <1>10
  <2> QED BY <2>1, <2>2, <2>3, <1>4
<1>13. \A one : Holding(f, one) => one <= mark
  BY <1>11 DEF Holding
<1>14. StreamedSoFar(history, size, 0, c)
  BY <1>5, <1>6, <1>8, <1>9, <1>12, <1>13 DEF StreamedSoFar, mark
<1> QED BY <1>6, <1>10, <1>14 DEF c, mark

\* A batch: rows up to the mark and below the last one, falling; all of them when it is not full.
LEMMA BatchGives ==
    ASSUME NEW history \in Histories, NEW size \in Nat \ {0}, NEW n \in Nat,
           NEW past \in Streams, Len(past.rows) > 0
    PROVE  LET batch == NextBatch(history, size, n, past)
               end   == Last(past.rows)
           IN  /\ batch \in Seq(RowNumbers) /\ Len(batch) <= size
               /\ end \in RowNumbers /\ end = past.rows[Len(past.rows)]
               /\ Chained(Newest, batch)
               /\ \A one : Holding(batch, one) =>
                     one \in RowNumbers /\ one <= Mark(history, size) /\ one < end
               /\ \A one \in Lasting(history) :
                     one <= Mark(history, size) /\ one < end =>
                        Holding(batch, one) \/ (Len(batch) = size /\ one < Last(batch))
<1> DEFINE mark == Mark(history, size)
           end == Last(past.rows)
           table == {m \in Seen(history, n + 1) : m <= mark}
           f == NextBatch(history, size, n, past)
           found == Findable(Newest, table, end)
<1>1. past.rows \in Seq(RowNumbers) /\ Len(past.rows) \in Nat
  BY DEF Streams
<1>2. end \in RowNumbers /\ end = past.rows[Len(past.rows)]
  BY <1>1 DEF Last
<1> HIDE DEF end
<1>3. end \in 0..Len(RowTimes) /\ end # Beginning
  BY InventoryAssumption, <1>2 DEF RowNumbers, Beginning
<1>4. n + 1 \in Nat \ {0}
  OBVIOUS
<1>5. table \in SUBSET RowNumbers
  <2>1. PICK i \in 1..Reads : Seen(history, n + 1) = history[i]
    BY <1>4, SeenIsOne
  <2> QED BY <2>1 DEF Histories, Tables, RowNumbers
<1>6. \A one : one \in table <=> one \in Seen(history, n + 1) /\ one <= mark
  OBVIOUS
<1>7. f = Fetch(Newest, table, end, size)
  BY DEF NextBatch, ExportBatch, Newest, end
<1> HIDE DEF table, f, mark
<1>8. /\ f \in Seq(found) /\ Len(f) <= size
      /\ \A j, k \in 1..Len(f) : j < k => Beyond(Newest, f[k], f[j])
      /\ \A one \in found : \/ \E k \in 1..Len(f) : f[k] = one
                            \/ Len(f) = size /\ Beyond(Newest, one, f[size])
  BY <1>3, <1>5, <1>7, NewestFirst, FetchGives
<1>9. \A one : one \in found <=> one \in table /\ one < end
  BY <1>2, <1>3, <1>5, NewestFirst DEF Findable
<1> HIDE DEF found
<1>10. f \in Seq(RowNumbers) /\ Chained(Newest, f)
  BY <1>8, <1>9, <1>5 DEF Chained
<1>11. \A k \in 1..Len(f) : f[k] \in found
  BY <1>8
<1>12. \A one : Holding(f, one) => one \in RowNumbers /\ one <= mark /\ one < end
  BY <1>5, <1>6, <1>9, <1>11 DEF Holding
<1>13. ASSUME NEW one \in Lasting(history), one <= mark, one < end
       PROVE  Holding(f, one) \/ (Len(f) = size /\ one < Last(f))
  <2>1. one \in found /\ one \in RowNumbers
    BY <1>4, <1>6, <1>9, <1>13, LastingAreRows
  <2>2. CASE Len(f) = size /\ Beyond(Newest, one, f[size])
    BY <2>2, <1>10, <2>1, NewestFirst DEF Last
  <2>3. CASE \E k \in 1..Len(f) : f[k] = one
    BY <2>3 DEF Holding
  <2> QED BY <2>1, <2>2, <2>3, <1>8
<1> QED BY <1>2, <1>8, <1>10, <1>12, <1>13 DEF f, mark, end

\* One more batch leaves an export as exports are.
LEMMA StreamingTyped ==
    ASSUME NEW history \in Histories, NEW size \in Nat \ {0}, NEW n \in Nat, NEW past \in Streams,
           past.more => Len(past.rows) > 0
    PROVE  /\ Streaming(history, size, n, past) \in Streams
           /\ Streaming(history, size, n, past).more =>
                 Len(Streaming(history, size, n, past).rows) > 0
<1> DEFINE batch == NextBatch(history, size, n, past)
           c == Streaming(history, size, n, past)
           s == past.rows
<1>1. CASE ~past.more
  BY <1>1 DEF Streaming
<1>2. CASE past.more
  <2>1. s \in Seq(RowNumbers) /\ Len(s) > 0 /\ batch \in Seq(RowNumbers)
    BY <1>2, BatchGives DEF Streams
  <2>2. c = [rows |-> s \o batch, more |-> Len(batch) = size]
    BY <1>2 DEF Streaming
  <2> HIDE DEF batch, c, s
  <2>3. s \o batch \in Seq(RowNumbers) /\ Len(s \o batch) > 0
    BY <2>1, JoinGives
  <2> QED BY <2>2, <2>3 DEF Streams, c
<1> QED BY <1>1, <1>2 DEF Streams

\* One more batch keeps what is so of everything streamed so far.
LEMMA StreamingKeeps ==
    ASSUME NEW history \in Histories, NEW size \in Nat \ {0}, NEW n \in Nat \ {0},
           NEW past, StreamedSoFar(history, size, n - 1, past)
    PROVE  StreamedSoFar(history, size, n, Streaming(history, size, n, past))
<1> DEFINE batch == NextBatch(history, size, n, past)
           c == Streaming(history, size, n, past)
           s == past.rows
           u == s \o batch
           mark == Mark(history, size)
<1>1. past \in Streams /\ past.more \in BOOLEAN /\ s \in Seq(RowNumbers) /\ Len(s) \in Nat
  BY DEF StreamedSoFar, Streams
<1>2. CASE ~past.more
  BY <1>2 DEF StreamedSoFar, Streaming
<1>3. CASE past.more
  <2>1. /\ Chained(Newest, s) /\ \A one : Holding(s, one) => one <= mark
        /\ Len(s) > n - 1 /\ Len(s) > 0
        /\ \A one \in Lasting(history) : /\ one \in RowNumbers /\ one <= mark
                                         /\ Holding(s, one) \/ one < Last(s)
    BY <1>1, <1>3 DEF StreamedSoFar
  <2>2. /\ batch \in Seq(RowNumbers) /\ Len(batch) <= size
        /\ Last(s) \in RowNumbers /\ Last(s) = s[Len(s)]
        /\ Chained(Newest, batch)
        /\ \A one : Holding(batch, one) => one \in RowNumbers /\ one <= mark /\ one < Last(s)
        /\ \A one \in Lasting(history) :
              one <= mark /\ one < Last(s) =>
                 Holding(batch, one) \/ (Len(batch) = size /\ one < Last(batch))
    BY <1>1, <2>1, BatchGives
  <2>3. c = [rows |-> u, more |-> Len(batch) = size]
    BY <1>3 DEF Streaming
  <2>4. c \in Streams
    BY <1>1, <1>3, <2>1, StreamingTyped
  <2> HIDE DEF batch, s, mark, u, c
  <2>5. c.rows = u /\ (c.more <=> Len(batch) = size)
    BY <2>3
  <2>6. /\ Len(batch) \in Nat /\ u \in Seq(RowNumbers) /\ Len(u) = Len(s) + Len(batch)
        /\ \A one : Holding(u, one) <=> Holding(s, one) \/ Holding(batch, one)
        /\ Len(batch) > 0 => u[Len(u)] = batch[Len(batch)]
    BY <1>1, <2>2, JoinGives DEF u
  <2>7. Chained(Newest, u)
    BY <2>2, NewestFirst, <1>1, <2>1, ChainedJoin DEF Holding, u
  <2>8. \A one : Holding(c.rows, one) => one <= mark
    BY <2>1, <2>2, <2>5, <2>6
  <2>9. c.more => Len(c.rows) > n
    BY <1>1, <2>1, <2>5, <2>6
  <2>10. ASSUME NEW one \in Lasting(history)
         PROVE  Holding(c.rows, one) \/ (c.more /\ one < Last(c.rows))
    BY <2>6, <2>1, <2>2, <2>5 DEF Last
  <2> QED BY <2>1, <2>4, <2>5, <2>7, <2>8, <2>9, <2>10 DEF StreamedSoFar, mark, c
<1> QED BY <1>1, <1>2, <1>3

\* An export is its batches, one after another.
LEMMA ExportStreams ==
    ASSUME NEW history \in Histories, NEW size \in Nat \ {0}
    PROVE  \E after :
              /\ Export(history, size) =
                    [mark |-> Mark(history, size), rows |-> after[MaxRequestsOf].rows,
                     more |-> after[MaxRequestsOf].more]
              /\ after[0] = Opened(history, size)
              /\ \A n \in 1..MaxRequestsOf :
                    after[n] = Streaming(history, size, n, after[n - 1])
<1> DEFINE N == MaxRequestsOf
           S == {c \in Streams : c.more => Len(c.rows) > 0}
           z == Opened(history, size)
           F(n, p) == Streaming(history, size, n, p)
           Body(h) == [n \in 0..N |-> IF n = 0 THEN z ELSE F(n, h[n - 1])]
           g == CHOOSE h : h = Body(h)
           step == [n \in Nat |-> [p \in S |-> IF n \in 1..N THEN F(n, p) ELSE p]]
<1>1. N \in Nat
  BY InventoryAssumption DEF MaxRequestsOf
<1> HIDE DEF N
<1>2. step \in [Nat -> [S -> S]]
  <2>1. ASSUME NEW n \in Nat, NEW p \in S
        PROVE  (IF n \in 1..N THEN F(n, p) ELSE p) \in S
    BY StreamingTyped
  <2> HIDE DEF F, S
  <2> QED BY <2>1
<1>3. \A n \in 1..N : \A p \in S : step[n][p] = F(n, p)
  <2> HIDE DEF F, S
  <2> QED BY <1>1
<1>4. z \in S
  BY OpenedTyped DEF StreamedSoFar
<1>5. Export(history, size) =
          [mark |-> Mark(history, size), rows |-> g[N].rows, more |-> g[N].more]
  BY DEF Export, N, F, Streaming, NextBatch, Opened, FirstBatch, Mark, Newest
<1> HIDE DEF step, F, S, z
<1>6. PICK h : Iterated(h, N, S, z, step)
  BY <1>1, <1>2, <1>4, Recursion
<1>7. /\ h \in [0..N -> S] /\ h[0] = z
      /\ \A i \in 1..N : h[i] = step[i][h[i - 1]]
  BY <1>6 DEF Iterated
<1>8. h = Body(h)
  <2>1. ASSUME NEW n \in 0..N
        PROVE  h[n] = IF n = 0 THEN z ELSE F(n, h[n - 1])
    <3>1. CASE n = 0
      BY <3>1, <1>7
    <3>2. CASE n # 0
      BY <3>2, <1>1, <1>3, <1>7
    <3> QED BY <3>1, <3>2
  <2> QED BY <2>1, <1>7
<1>9. g = Body(g)
  BY <1>8
<1> HIDE DEF g
<1>10. g[0] = z
  BY <1>9, <1>1
<1>11. ASSUME NEW n \in 1..N PROVE g[n] = F(n, g[n - 1])
  BY <1>9, <1>1
<1> QED BY <1>5, <1>10, <1>11 DEF N, F, z

\* What one export holds.
LEMMA ExportHolds ==
    ASSUME NEW history \in Histories, NEW size \in Nat \ {0}
    PROVE  ExportedOnce(Export(history, size), history)
<1>1. PICK after :
          /\ Export(history, size) =
                [mark |-> Mark(history, size), rows |-> after[MaxRequestsOf].rows,
                 more |-> after[MaxRequestsOf].more]
          /\ after[0] = Opened(history, size)
          /\ \A n \in 1..MaxRequestsOf :
                after[n] = Streaming(history, size, n, after[n - 1])
  BY ExportStreams
<1> DEFINE N == MaxRequestsOf
           I == {n \in 0..N : StreamedSoFar(history, size, n, after[n])}
           c == after[N]
           s == c.rows
           e == Export(history, size)
<1>2. N \in Nat /\ N = Len(RowTimes) + 1 /\ Len(RowTimes) \in Nat
  BY InventoryAssumption DEF MaxRequestsOf
<1>3. StreamedSoFar(history, size, 0, after[0])
  BY <1>1, OpenedTyped
<1>4. ASSUME NEW n \in 1..N, StreamedSoFar(history, size, n - 1, after[n - 1])
      PROVE  StreamedSoFar(history, size, n, after[n])
  BY <1>1, <1>4, StreamingKeeps
<1>5. \A n \in 0..N : n \in I
  <2>1. 0 \in I
    BY <1>2, <1>3
  <2>2. \A n \in 1..N : n - 1 \in I => n \in I
    BY <1>4
  <2> HIDE DEF I
  <2> QED BY <1>2, <2>1, <2>2, Upward
<1>6. StreamedSoFar(history, size, N, c)
  BY <1>2, <1>5
<1>7. e.rows = s /\ (e.more <=> c.more) /\ e.mark = Mark(history, size)
  <2> HIDE DEF e
  <2>1. e = [mark |-> Mark(history, size), rows |-> s, more |-> c.more]
    BY <1>1 DEF e
  <2> HIDE DEF s, c
  <2> QED BY <2>1
<1> HIDE DEF c, e
<1>8. /\ s \in Seq(RowNumbers) /\ Chained(Newest, s)
      /\ \A one : Holding(s, one) => one <= Mark(history, size)
      /\ c.more => Len(s) > N
  BY <1>6 DEF StreamedSoFar, Streams
<1>9. Len(s) <= Len(RowTimes) /\ Len(s) \in Nat
  BY <1>8, NewestFirst, ChainedIsShort
<1>10. ~c.more
  BY <1>8, <1>9, <1>2
<1>11. \A one \in Lasting(history) : Holding(s, one)
  BY <1>6, <1>10 DEF StreamedSoFar
<1> HIDE DEF s
<1>12. \A one : one \in ToSet(s) <=> Holding(s, one)
  BY <1>8 DEF ToSet, Holding
<1>13. ASSUME NEW n \in 2..Len(s) PROVE s[n] < s[n - 1]
  BY <1>9, <1>8, NewestFirst DEF Chained
<1> QED BY <1>7, <1>8, <1>10, <1>11, <1>12, <1>13 DEF ExportedOnce, e

\* An export ends, holds no row twice, none above the watermark it declares, and every row
\* up to it that was there all along, for tables and batches of any size.
THEOREM ExportsHold == ExportIsBounded
<1> SUFFICES ASSUME NEW history \in Histories, NEW size \in PageLimits
             PROVE  ExportedOnce(Export(history, size), history)
  BY DEF ExportIsBounded
<1>1. size \in Nat \ {0}
  BY InventoryAssumption
<1> QED BY <1>1, ExportHolds

-----------------------------------------------------------------------------
(* Clauses: conditions of three values                                     *)

\* What SQL makes of NOT: NULL stays NULL.
LEMMA NotIs ==
    \A a \in Sql : /\ Not(a) \in Sql
                   /\ Not(a) = "true" <=> a = "false"
                   /\ Not(a) = "false" <=> a = "true"
BY DEF Sql, Not

\* Two-valued conditions.
LEMMA IsIs == \A b \in BOOLEAN : Is(b) \in Sql /\ (Is(b) = "true" <=> b) /\ (Is(b) = "false" <=> ~b)
BY DEF Sql, Is

\* What SQL makes of AND.
LEMMA EveryIs ==
    ASSUME NEW S \in SUBSET Sql
    PROVE  /\ Every(S) \in Sql
           /\ Every(S) = "true" <=> \A a \in S : a = "true"
           /\ Every(S) = "false" <=> "false" \in S
<1>1. CASE "false" \in S
  BY <1>1 DEF Every, Sql
<1>2. CASE "false" \notin S /\ "null" \in S
  BY <1>2 DEF Every, Sql
<1>3. CASE "false" \notin S /\ "null" \notin S
  BY <1>3 DEF Every, Sql
<1> QED BY <1>1, <1>2, <1>3

\* What SQL makes of OR.
LEMMA SomeIs ==
    ASSUME NEW S \in SUBSET Sql
    PROVE  /\ Some(S) \in Sql
           /\ Some(S) = "true" <=> "true" \in S
           /\ Some(S) = "false" <=> \A a \in S : a = "false"
<1> DEFINE T == {Not(a) : a \in S}
<1>1. T \in SUBSET Sql
  BY NotIs
<1>2. /\ "false" \in T <=> "true" \in S
      /\ (\A b \in T : b = "true") <=> \A a \in S : a = "false"
  BY NotIs DEF Sql
<1>3. Some(S) = Not(Every(T))
  BY DEF Some
<1> HIDE DEF T
<1> QED BY <1>1, <1>2, <1>3, EveryIs, NotIs

\* What it makes of a comparison with a column that may be NULL.
LEMMA EqualsIs ==
    ASSUME NEW x \in MaybeProvider, NEW p \in ProviderNames
    PROVE  /\ Equals(x, p) \in Sql
           /\ Equals(x, p) = "true" <=> x = p
           /\ Equals(x, p) = "false" <=> x # Unset /\ x # p
           /\ IsUnset(x) \in Sql
           /\ IsUnset(x) = "true" <=> x = Unset
           /\ IsUnset(x) = "false" <=> x # Unset
           /\ Text(x, p) \in Sql
           /\ Text(x, p) = "true" <=> x = p
           /\ Text(x, p) = "false" <=> x # p
<1>1. p # Unset
  BY InventoryAssumption
<1> QED BY <1>1 DEF Equals, IsUnset, Text, Is, Sql

\* AND of two, three and four conditions.
LEMMA Every2Is ==
    ASSUME NEW a \in Sql, NEW b \in Sql
    PROVE  /\ Every({a, b}) \in Sql
           /\ Every({a, b}) = "true" <=> a = "true" /\ b = "true"
           /\ Every({a, b}) = "false" <=> a = "false" \/ b = "false"
<1>1. {a, b} \in SUBSET Sql
  OBVIOUS
<1> QED BY <1>1, EveryIs

LEMMA Every3Is ==
    ASSUME NEW a \in Sql, NEW b \in Sql, NEW c \in Sql
    PROVE  /\ Every({a, b, c}) \in Sql
           /\ Every({a, b, c}) = "true" <=> a = "true" /\ b = "true" /\ c = "true"
           /\ Every({a, b, c}) = "false" <=> a = "false" \/ b = "false" \/ c = "false"
<1>1. {a, b, c} \in SUBSET Sql
  OBVIOUS
<1> QED BY <1>1, EveryIs

LEMMA Every4Is ==
    ASSUME NEW a \in Sql, NEW b \in Sql, NEW c \in Sql, NEW d \in Sql
    PROVE  /\ Every({a, b, c, d}) \in Sql
           /\ Every({a, b, c, d}) = "true" <=> a = "true" /\ b = "true" /\ c = "true" /\ d = "true"
           /\ Every({a, b, c, d}) = "false" <=>
                 a = "false" \/ b = "false" \/ c = "false" \/ d = "false"
<1>1. {a, b, c, d} \in SUBSET Sql
  OBVIOUS
<1> QED BY <1>1, EveryIs

\* OR of two, three and four conditions.
LEMMA Some2Is ==
    ASSUME NEW a \in Sql, NEW b \in Sql
    PROVE  /\ Some({a, b}) \in Sql
           /\ Some({a, b}) = "true" <=> a = "true" \/ b = "true"
           /\ Some({a, b}) = "false" <=> a = "false" /\ b = "false"
<1>1. {a, b} \in SUBSET Sql
  OBVIOUS
<1> QED BY <1>1, SomeIs

LEMMA Some3Is ==
    ASSUME NEW a \in Sql, NEW b \in Sql, NEW c \in Sql
    PROVE  /\ Some({a, b, c}) \in Sql
           /\ Some({a, b, c}) = "true" <=> a = "true" \/ b = "true" \/ c = "true"
           /\ Some({a, b, c}) = "false" <=> a = "false" /\ b = "false" /\ c = "false"
<1>1. {a, b, c} \in SUBSET Sql
  OBVIOUS
<1> QED BY <1>1, SomeIs

LEMMA Some4Is ==
    ASSUME NEW a \in Sql, NEW b \in Sql, NEW c \in Sql, NEW d \in Sql
    PROVE  /\ Some({a, b, c, d}) \in Sql
           /\ Some({a, b, c, d}) = "true" <=> a = "true" \/ b = "true" \/ c = "true" \/ d = "true"
           /\ Some({a, b, c, d}) = "false" <=>
                 a = "false" /\ b = "false" /\ c = "false" /\ d = "false"
<1>1. {a, b, c, d} \in SUBSET Sql
  OBVIOUS
<1> QED BY <1>1, SomeIs

\* The first of them that is not NULL.
First(s) == CHOOSE n \in DOMAIN s : s[n] # Unset /\ \A m \in 1..n - 1 : s[m] = Unset

\* coalesce gives the first column that is not NULL.
LEMMA CoalesceIs ==
    ASSUME NEW S, NEW s \in Seq(S), NEW n \in DOMAIN s, s[n] # Unset, \A m \in 1..n - 1 : s[m] = Unset
    PROVE  Coalesce(s) = s[n]
<1>1. DOMAIN s \subseteq Nat /\ DOMAIN s = 1..Len(s)
  OBVIOUS
<1>2. First(s) \in DOMAIN s /\ s[First(s)] # Unset /\ \A m \in 1..First(s) - 1 : s[m] = Unset
  BY DEF First
<1>3. First(s) = n
  BY <1>1, <1>2
<1>4. Coalesce(s) = s[First(s)]
  BY DEF Coalesce, First
<1> QED BY <1>3, <1>4

\* Of two, three and four columns.
LEMMA Coalesce2Is ==
    ASSUME NEW a, NEW b
    PROVE  Coalesce(<<a, b>>) = IF a # Unset THEN a ELSE b
<1> DEFINE s == <<a, b>>
<1>1. s \in Seq({a, b}) /\ DOMAIN s = 1..2 /\ s[1] = a /\ s[2] = b
  OBVIOUS
<1> HIDE DEF s
<1>2. CASE a # Unset
  <2>1. 1 \in DOMAIN s /\ 1..1 - 1 = {}
    BY <1>1
  <2> QED BY <1>1, <1>2, <2>1, CoalesceIs DEF s
<1>3. CASE a = Unset /\ b # Unset
  <2>1. 2 \in DOMAIN s /\ 1..2 - 1 = {1}
    BY <1>1
  <2> QED BY <1>1, <1>3, <2>1, CoalesceIs DEF s
<1>4. CASE a = Unset /\ b = Unset
  BY <1>1, <1>4 DEF Coalesce, s
<1> QED BY <1>2, <1>3, <1>4

LEMMA Coalesce3Is ==
    ASSUME NEW a, NEW b, NEW c
    PROVE  Coalesce(<<a, b, c>>) = IF a # Unset THEN a ELSE IF b # Unset THEN b ELSE c
<1> DEFINE s == <<a, b, c>>
<1>1. s \in Seq({a, b, c}) /\ DOMAIN s = 1..3 /\ s[1] = a /\ s[2] = b /\ s[3] = c
  OBVIOUS
<1> HIDE DEF s
<1>2. CASE a # Unset
  <2>1. 1 \in DOMAIN s /\ 1..1 - 1 = {}
    BY <1>1
  <2> QED BY <1>1, <1>2, <2>1, CoalesceIs DEF s
<1>3. CASE a = Unset /\ b # Unset
  <2>1. 2 \in DOMAIN s /\ 1..2 - 1 = {1}
    BY <1>1
  <2> QED BY <1>1, <1>3, <2>1, CoalesceIs DEF s
<1>4. CASE a = Unset /\ b = Unset /\ c # Unset
  <2>1. 3 \in DOMAIN s /\ 1..3 - 1 = {1, 2}
    BY <1>1
  <2>2. s[3] # Unset /\ \A m \in 1..3 - 1 : s[m] = Unset
    BY <1>1, <1>4, <2>1
  <2>3. Coalesce(s) = s[3]
    BY <1>1, <2>1, <2>2, CoalesceIs
  <2> QED BY <1>1, <1>4, <2>3 DEF s
<1>5. CASE a = Unset /\ b = Unset /\ c = Unset
  BY <1>1, <1>5 DEF Coalesce, s
<1> QED BY <1>2, <1>3, <1>4, <1>5

LEMMA Coalesce4Is ==
    ASSUME NEW a, NEW b, NEW c, NEW d
    PROVE  Coalesce(<<a, b, c, d>>) =
              IF a # Unset THEN a ELSE IF b # Unset THEN b ELSE IF c # Unset THEN c ELSE d
<1> DEFINE s == <<a, b, c, d>>
<1>1. /\ s \in Seq({a, b, c, d}) /\ DOMAIN s = 1..4
      /\ s[1] = a /\ s[2] = b /\ s[3] = c /\ s[4] = d
  OBVIOUS
<1> HIDE DEF s
<1>2. CASE a # Unset
  <2>1. 1 \in DOMAIN s /\ 1..1 - 1 = {}
    BY <1>1
  <2> QED BY <1>1, <1>2, <2>1, CoalesceIs DEF s
<1>3. CASE a = Unset /\ b # Unset
  <2>1. 2 \in DOMAIN s /\ 1..2 - 1 = {1}
    BY <1>1
  <2> QED BY <1>1, <1>3, <2>1, CoalesceIs DEF s
<1>4. CASE a = Unset /\ b = Unset /\ c # Unset
  <2>1. 3 \in DOMAIN s /\ 1..3 - 1 = {1, 2}
    BY <1>1
  <2>2. s[3] # Unset /\ \A m \in 1..3 - 1 : s[m] = Unset
    BY <1>1, <1>4, <2>1
  <2>3. Coalesce(s) = s[3]
    BY <1>1, <2>1, <2>2, CoalesceIs
  <2> QED BY <1>1, <1>4, <2>3 DEF s
<1>5. CASE a = Unset /\ b = Unset /\ c = Unset /\ d # Unset
  <2>1. 4 \in DOMAIN s
    BY <1>1
  <2>2. ASSUME NEW m \in 1..4 - 1 PROVE s[m] = Unset
    BY <1>1, <1>5
  <2> QED BY <1>1, <1>5, <2>1, <2>2, CoalesceIs DEF s
<1>6. CASE a = Unset /\ b = Unset /\ c = Unset /\ d = Unset
  BY <1>1, <1>6 DEF Coalesce, s
<1> QED BY <1>2, <1>3, <1>4, <1>5, <1>6

\* When the comparison of a resource's provider is true, and when it is false.
LEMMA ResourceProviderIs ==
    ASSUME NEW p \in ProviderNames, NEW r, r.resource \in MaybeProvider,
           r.endpoint \in MaybeProvider, r.type \in MaybeProvider
    PROVE  /\ ResourceProvider(r, p) \in Sql
           /\ ResourceProvider(r, p) = "true" <=>
                 \/ r.resource = p
                 \/ r.resource = Unset /\ r.endpoint = p
                 \/ r.resource = Unset /\ r.endpoint = Unset /\ r.type = p
           /\ ResourceProvider(r, p) = "false" <=>
                 /\ r.resource # Unset /\ r.resource # p
                 /\ r.resource # Unset \/ (r.endpoint # Unset /\ r.endpoint # p)
                 /\ r.resource # Unset \/ r.endpoint # Unset \/ (r.type # Unset /\ r.type # p)
<1> DEFINE a == Equals(r.resource, p)
           b == Every({IsUnset(r.resource), Equals(r.endpoint, p)})
           c == Every({IsUnset(r.resource), IsUnset(r.endpoint), Equals(r.type, p)})
<1>1. a \in Sql /\ (a = "true" <=> r.resource = p)
      /\ (a = "false" <=> r.resource # Unset /\ r.resource # p)
  BY EqualsIs
<1>2. /\ b \in Sql
      /\ b = "true" <=> r.resource = Unset /\ r.endpoint = p
      /\ b = "false" <=> r.resource # Unset \/ (r.endpoint # Unset /\ r.endpoint # p)
  BY EqualsIs, Every2Is
<1>3. /\ c \in Sql
      /\ c = "true" <=> r.resource = Unset /\ r.endpoint = Unset /\ r.type = p
      /\ c = "false" <=> r.resource # Unset \/ r.endpoint # Unset \/ (r.type # Unset /\ r.type # p)
  BY EqualsIs, Every3Is
<1>4. ResourceProvider(r, p) = Some({a, b, c})
  BY DEF ResourceProvider
<1> HIDE DEF a, b, c
<1> QED BY <1>1, <1>2, <1>3, <1>4, Some3Is

\* The same of an item, 
LEMMA ItemProviderIs ==
    ASSUME NEW p \in ProviderNames, NEW i \in ItemRows
    PROVE  /\ ItemProvider(i, p) \in Sql
           /\ ItemProvider(i, p) = "true" <=>
                 \/ i.item = p
                 \/ i.item = Unset /\ i.resource = p
                 \/ i.item = Unset /\ i.resource = Unset /\ i.endpoint = p
                 \/ i.item = Unset /\ i.resource = Unset /\ i.endpoint = Unset /\ i.type = p
           /\ i.item # Unset => (ItemProvider(i, p) = "false" <=> i.item # p)
<1> DEFINE e1 == Equals(i.item, p)
           e2 == Equals(i.resource, p)
           e3 == Equals(i.endpoint, p)
           e4 == Equals(i.type, p)
           u1 == IsUnset(i.item)
           u2 == IsUnset(i.resource)
           u3 == IsUnset(i.endpoint)
<1>0. /\ i.item \in MaybeProvider /\ i.resource \in MaybeProvider
      /\ i.endpoint \in MaybeProvider /\ i.type \in MaybeProvider
  BY DEF ItemRows
<1>1. /\ e1 \in Sql /\ e2 \in Sql /\ e3 \in Sql /\ e4 \in Sql
      /\ e1 = "true" <=> i.item = p
      /\ e1 = "false" <=> i.item # Unset /\ i.item # p
      /\ e2 = "true" <=> i.resource = p
      /\ e3 = "true" <=> i.endpoint = p
      /\ e4 = "true" <=> i.type = p
  BY <1>0, EqualsIs
<1>2. /\ u1 \in Sql /\ u2 \in Sql /\ u3 \in Sql
      /\ u1 = "true" <=> i.item = Unset
      /\ u1 = "false" <=> i.item # Unset
      /\ u2 = "true" <=> i.resource = Unset
      /\ u3 = "true" <=> i.endpoint = Unset
  BY <1>0, EqualsIs
<1> DEFINE b == Every({u1, e2})
           c == Every({u1, u2, e3})
           d == Every({u1, u2, u3, e4})
<1>3. ItemProvider(i, p) = Some({e1, b, c, d})
  BY DEF ItemProvider
<1> HIDE DEF e1, e2, e3, e4, u1, u2, u3
<1>4. b \in Sql /\ (b = "true" <=> u1 = "true" /\ e2 = "true") /\ (u1 = "false" => b = "false")
  BY <1>1, <1>2, Every2Is
<1>5. /\ c \in Sql
      /\ c = "true" <=> u1 = "true" /\ u2 = "true" /\ e3 = "true"
      /\ u1 = "false" => c = "false"
  BY <1>1, <1>2, Every3Is
<1>6. /\ d \in Sql
      /\ d = "true" <=> u1 = "true" /\ u2 = "true" /\ u3 = "true" /\ e4 = "true"
      /\ u1 = "false" => d = "false"
  BY <1>1, <1>2, Every4Is
<1> HIDE DEF b, c, d
<1>7. /\ Some({e1, b, c, d}) \in Sql
      /\ Some({e1, b, c, d}) = "true" <=> e1 = "true" \/ b = "true" \/ c = "true" \/ d = "true"
      /\ Some({e1, b, c, d}) = "false" <=>
            e1 = "false" /\ b = "false" /\ c = "false" /\ d = "false"
  BY <1>1, <1>4, <1>5, <1>6, Some4Is
<1> QED BY <1>1, <1>2, <1>3, <1>4, <1>5, <1>6, <1>7

\* of a resource below an endpoint,
LEMMA ChildProviderIs ==
    ASSUME NEW p \in ProviderNames, NEW c, c.resource \in MaybeProvider, c.type \in MaybeProvider
    PROVE  /\ ChildProvider(c, p) \in Sql
           /\ ChildProvider(c, p) = "true" <=> ChildShown(c) = p
<1> DEFINE a == Equals(c.resource, p)
           b == Every({IsUnset(c.resource), Equals(c.type, p)})
<1>1. a \in Sql /\ (a = "true" <=> c.resource = p)
  BY EqualsIs
<1>2. b \in Sql /\ (b = "true" <=> c.resource = Unset /\ c.type = p)
  BY EqualsIs, Every2Is
<1>3. ChildProvider(c, p) = Some({a, b})
  BY DEF ChildProvider
<1> HIDE DEF a, b
<1>4. /\ ChildProvider(c, p) \in Sql
      /\ ChildProvider(c, p) = "true" <=> c.resource = p \/ (c.resource = Unset /\ c.type = p)
  BY <1>1, <1>2, <1>3, Some2Is
<1>5. ChildShown(c) = IF c.resource # Unset THEN c.resource ELSE c.type
  BY Coalesce2Is DEF ChildShown
<1>6. p # Unset
  BY InventoryAssumption
<1> QED BY <1>4, <1>5, <1>6

\* of text columns, which are never NULL,
LEMMA TextClauseIs ==
    ASSUME NEW p \in ProviderNames, NEW columns \in [1..2 -> MaybeProvider]
    PROVE  /\ TextClause(columns, p) \in Sql
           /\ TextClause(columns, p) = "false" <=> \A n \in 1..2 : columns[n] # p
<1> DEFINE S == {Text(columns[n], p) : n \in DOMAIN columns}
<1>1. \A n \in 1..2 : /\ Text(columns[n], p) \in Sql
                      /\ Text(columns[n], p) = "false" <=> columns[n] # p
  BY EqualsIs
<1>2. S \in SUBSET Sql /\ ((\A a \in S : a = "false") <=> \A n \in 1..2 : columns[n] # p)
  BY <1>1
<1>3. TextClause(columns, p) = Some(S)
  BY DEF TextClause
<1> HIDE DEF S
<1> QED BY <1>2, <1>3, SomeIs

\* and of the live items below a row.
LEMMA ItemsClauseIs ==
    ASSUME NEW p \in ProviderNames,
           NEW children \in SUBSET [value : MaybeProvider, deleted : BOOLEAN]
    PROVE  /\ ItemsClause(children, p) \in Sql
           /\ ItemsClause(children, p) = "false" <=> \A c \in children : c.deleted \/ c.value # p
<1>1. \A c \in children : Text(c.value, p) = "true" <=> c.value = p
  BY EqualsIs
<1>2. (\E c \in Live(children) : Text(c.value, p) = "true") <=>
          ~ \A c \in children : c.deleted \/ c.value # p
  BY <1>1 DEF Live
<1> QED BY <1>2, IsIs DEF ItemsClause

\* Of resources, the provider asked for is the provider shown, and NOT its complement;
LEMMA ResourceClausesHold ==
    ASSUME NEW p \in ProviderNames, NEW r \in ResourceRows
    PROVE  /\ ResourceClause("provider", r, p) = "true" <=> ResourceShown(r) = p
           /\ StoredResource(r) =>
                 (Not(ResourceClause("provider", r, p)) = "true" <=> ResourceShown(r) # p)
<1>1. /\ r.resource \in MaybeProvider /\ r.endpoint \in MaybeProvider
      /\ r.type \in MaybeProvider /\ p # Unset
  BY InventoryAssumption DEF ResourceRows
<1>2. ResourceShown(r) = IF r.resource # Unset THEN r.resource
                         ELSE IF r.endpoint # Unset THEN r.endpoint ELSE r.type
  BY Coalesce3Is DEF ResourceShown
<1>3. ResourceClause("provider", r, p) = ResourceProvider(r, p)
  BY DEF ResourceClause
<1>4. ResourceProvider(r, p) = "true" <=> ResourceShown(r) = p
  BY <1>1, <1>2, ResourceProviderIs
<1>5. ASSUME StoredResource(r)
      PROVE  ResourceProvider(r, p) = "false" <=> ResourceShown(r) # p
  BY <1>5, <1>1, <1>2, ResourceProviderIs DEF StoredResource
<1> QED BY <1>1, <1>3, <1>4, <1>5, ResourceProviderIs, NotIs

\* so it is of items,
LEMMA ItemClausesHold ==
    ASSUME NEW p \in ProviderNames, NEW i \in ItemRows
    PROVE  /\ ItemClause("provider", i, p) = "true" <=> ItemShown(i) = p
           /\ StoredItem(i) => (Not(ItemClause("provider", i, p)) = "true" <=> ItemShown(i) # p)
<1>1. p # Unset
  BY InventoryAssumption
<1>2. ItemShown(i) = IF i.item # Unset THEN i.item
                     ELSE IF i.resource # Unset THEN i.resource
                     ELSE IF i.endpoint # Unset THEN i.endpoint ELSE i.type
  BY Coalesce4Is DEF ItemShown
<1>3. ItemClause("provider", i, p) = ItemProvider(i, p)
  BY DEF ItemClause
<1>4. ItemProvider(i, p) = "true" <=> ItemShown(i) = p
  BY <1>1, <1>2, ItemProviderIs
<1>5. ASSUME StoredItem(i)
      PROVE  ItemProvider(i, p) = "false" <=> ItemShown(i) # p
  BY <1>5, <1>2, ItemProviderIs DEF StoredItem, StoredResource
<1> QED BY <1>3, <1>4, <1>5, ItemProviderIs, NotIs

\* and of endpoints as far as they name a provider.
LEMMA EndpointClausesHold ==
    ASSUME NEW p \in ProviderNames, NEW e \in EndpointRows
    PROVE  /\ EndpointShown(e) = p => EndpointClause("provider", e, p) = "true"
           /\ StoredEndpoint(e) =>
                 (Not(EndpointClause("provider", e, p)) = "true" <=>
                     /\ e.endpoint # Unset
                     /\ p \notin {e.endpoint} \cup {ChildShown(c) : c \in e.children})
<1> DEFINE own == Equals(e.endpoint, p)
           any == \E c \in e.children : ChildProvider(c, p) = "true"
           shown == {ChildShown(c) : c \in e.children} \ {Unset}
           child == IF Cardinality(shown) = 1 THEN CHOOSE q \in shown : TRUE ELSE Unset
<1>1. e.endpoint \in MaybeProvider /\ p # Unset
  BY InventoryAssumption DEF EndpointRows
<1>2. \A c \in e.children : c.resource \in MaybeProvider /\ c.type \in MaybeProvider
  BY DEF EndpointRows
<1>3. any <=> \E c \in e.children : ChildShown(c) = p
  BY <1>2, ChildProviderIs
<1>4. /\ own \in Sql
      /\ own = "true" <=> e.endpoint = p
      /\ own = "false" <=> e.endpoint # Unset /\ e.endpoint # p
  BY <1>1, EqualsIs
<1>5. EndpointClause("provider", e, p) = Some({own, Is(any)})
  BY DEF EndpointClause, EndpointProvider
<1>6. EndpointShown(e) = IF e.endpoint # Unset THEN e.endpoint ELSE child
  <2>1. EndpointShown(e) = Coalesce(<<e.endpoint, child>>)
    BY DEF EndpointShown
  <2> HIDE DEF child
  <2> QED BY <2>1, Coalesce2Is
<1>7. child = p => any
  <2>1. CASE Cardinality(shown) = 1
    BY <2>1, FS_EmptySet, <1>3
  <2>2. CASE Cardinality(shown) # 1
    BY <2>2, <1>1
  <2> QED BY <2>1, <2>2
<1>8. any \in BOOLEAN
  OBVIOUS
<1> HIDE DEF own, any, child
<1>9. Is(any) \in Sql /\ (Is(any) = "true" <=> any) /\ (Is(any) = "false" <=> ~any)
  BY <1>8, IsIs
<1>10. /\ Some({own, Is(any)}) \in Sql
       /\ Some({own, Is(any)}) = "true" <=> own = "true" \/ Is(any) = "true"
       /\ Some({own, Is(any)}) = "false" <=> own = "false" /\ Is(any) = "false"
  BY <1>4, <1>9, Some2Is
<1>11. EndpointShown(e) = p => EndpointClause("provider", e, p) = "true"
  BY <1>4, <1>5, <1>6, <1>7, <1>9, <1>10
<1>12. p \notin {e.endpoint} \cup {ChildShown(c) : c \in e.children} <=> e.endpoint # p /\ ~any
  BY <1>3
<1>13. Not(EndpointClause("provider", e, p)) = "true" <=> own = "false" /\ ~any
  BY <1>5, <1>9, <1>10, NotIs
<1> QED BY <1>4, <1>11, <1>12, <1>13

\* Text columns are asked and negated without NULLs, whichever row has them.
LEMMA ColumnClausesHold ==
    ASSUME NEW p \in ProviderNames, NEW one \in [columns : [1..2 -> MaybeProvider]]
    PROVE  LET differs == \A n \in 1..2 : one.columns[n] # p IN
           /\ Not(ItemClause("text", one, p)) = "true" <=> differs
           /\ \A field \in {"text", "resources"} :
                 Not(EndpointClause(field, one, p)) = "true" <=> differs
           /\ Not(ResourceClause("text", one, p)) = "true" <=> differs
<1> DEFINE columns == one.columns
           differs == \A n \in 1..2 : columns[n] # p
           some == \E n \in DOMAIN columns : Text(columns[n], p) = "true"
<1>1. columns \in [1..2 -> MaybeProvider]
  OBVIOUS
<1>2. TextClause(columns, p) \in Sql /\ (TextClause(columns, p) = "false" <=> differs)
  BY <1>1, TextClauseIs
<1>3. Not(TextClause(columns, p)) = "true" <=> differs
  BY <1>2, NotIs
<1>4. some <=> ~differs
  BY <1>1, EqualsIs
<1>5. Not(Is(some)) = "true" <=> differs
  <2>1. some \in BOOLEAN
    OBVIOUS
  <2> HIDE DEF some, differs
  <2> QED BY <2>1, <1>4, IsIs, NotIs
<1>6. /\ ItemClause("text", one, p) = TextClause(columns, p)
      /\ ResourceClause("text", one, p) = TextClause(columns, p)
      /\ EndpointClause("text", one, p) = TextClause(columns, p)
      /\ EndpointClause("resources", one, p) = Is(some)
  BY DEF ItemClause, ResourceClause, EndpointClause
<1> HIDE DEF some
<1> QED BY <1>3, <1>5, <1>6

\* So are the items below a row.
LEMMA ChildClausesHold ==
    ASSUME NEW p \in ProviderNames,
           NEW one \in [children : SUBSET [value : MaybeProvider, deleted : BOOLEAN]]
    PROVE  LET differs == \A c \in one.children : c.deleted \/ c.value # p IN
           /\ Not(ResourceClause("items", one, p)) = "true" <=> differs
           /\ Not(EndpointClause("items", one, p)) = "true" <=> differs
<1>1. one.children \in SUBSET [value : MaybeProvider, deleted : BOOLEAN]
  OBVIOUS
<1>2. /\ ResourceClause("items", one, p) = ItemsClause(one.children, p)
      /\ EndpointClause("items", one, p) = ItemsClause(one.children, p)
  BY DEF ResourceClause, EndpointClause
<1>3. Not(ItemsClause(one.children, p)) = "true" <=>
          \A c \in one.children : c.deleted \/ c.value # p
  BY <1>1, ItemsClauseIs, NotIs
<1> QED BY <1>2, <1>3

\* The provider a query asks for is the provider shown, and of what the worker stores NOT
\* selects the rows the comparison does not, for any set of provider names.
THEOREM ClausesHold == ClausesSelectComplements
BY ResourceClausesHold, ItemClausesHold, EndpointClausesHold, ColumnClausesHold,
   ChildClausesHold DEF ClausesSelectComplements

-----------------------------------------------------------------------------
(* Queries: what is parsed is what is read                                 *)

Texts == Seq(Tokens) \ {<<>>}
\* A token says a word; ORs and the ends are bounds; two bounds are neighbours.
IsAt(tokens, k, word) == k \in 1..Len(tokens) /\ tokens[k].word = word
Bound(tokens, k) == k = 0 \/ k = Len(tokens) + 1 \/ IsAt(tokens, k, "OR")
Adjacent(tokens, a, b) ==
    /\ a \in 0..Len(tokens) + 1 /\ b \in 0..Len(tokens) + 1 /\ a < b
    /\ Bound(tokens, a) /\ Bound(tokens, b)
    /\ \A k \in a + 1..b - 1 : ~IsAt(tokens, k, "OR")

\* Token k may follow the one before it.
Fits(tokens, k) ==
    /\ IsAt(tokens, k, "AND") \/ IsAt(tokens, k, "OR") => IsAt(tokens, k - 1, "clause")
    /\ IsAt(tokens, k, "NOT") => ~IsAt(tokens, k - 1, "NOT")

\* What a token may be.
LEMMA TokenWords ==
    ASSUME NEW tokens \in Texts
    PROVE  /\ tokens \in Seq(Tokens) /\ Len(tokens) \in Nat \ {0}
           /\ \A k \in 1..Len(tokens) :
                 /\ tokens[k] \in Tokens
                 /\ tokens[k].word \in {"AND", "OR", "NOT", "clause"}
                 /\ tokens[k].word = "clause" =>
                       tokens[k].atom \in Atoms /\ tokens[k].negated \in BOOLEAN
<1>1. tokens \in Seq(Tokens) /\ Len(tokens) \in Nat \ {0}
  BY DEF Texts
<1>2. ASSUME NEW k \in 1..Len(tokens)
      PROVE  /\ tokens[k] \in Tokens
             /\ tokens[k].word \in {"AND", "OR", "NOT", "clause"}
             /\ tokens[k].word = "clause" =>
                   tokens[k].atom \in Atoms /\ tokens[k].negated \in BOOLEAN
  BY <1>1 DEF Tokens, Clauses, Word
<1> QED BY <1>1, <1>2

\* Before every place there is a nearest bound,
LEMMA NearestBefore ==
    ASSUME NEW tokens \in Texts, NEW k \in 1..Len(tokens) + 1
    PROVE  \E a \in 0..k - 1 : /\ Bound(tokens, a)
                               /\ \A j \in a + 1..k - 1 : ~IsAt(tokens, j, "OR")
<1> DEFINE N == Len(tokens)
           T == {d \in 1..k : k - d = 0 \/ IsAt(tokens, k - d, "OR")}
<1>1. N \in Nat /\ k \in Nat /\ k > 0
  BY TokenWords
<1>2. T \in SUBSET Nat /\ k \in T
  BY <1>1
<1>3. PICK d \in T : \A e \in T : d <= e
  <2> HIDE DEF T
  <2> QED BY <1>2, LeastNumber
<1>4. k - d \in 0..k - 1 /\ Bound(tokens, k - d)
  BY <1>1, <1>3 DEF Bound
<1>5. ASSUME NEW j \in k - d + 1..k - 1, IsAt(tokens, j, "OR") PROVE FALSE
  BY <1>1, <1>3, <1>5
<1> QED BY <1>4, <1>5

\* and after it.
LEMMA NearestAfter ==
    ASSUME NEW tokens \in Texts, NEW k \in 1..Len(tokens) + 1
    PROVE  \E b \in k..Len(tokens) + 1 : /\ Bound(tokens, b)
                                         /\ \A j \in k..b - 1 : ~IsAt(tokens, j, "OR")
<1> DEFINE N == Len(tokens)
           T == {b \in k..N + 1 : b = N + 1 \/ IsAt(tokens, b, "OR")}
<1>1. N \in Nat /\ k \in Nat
  BY TokenWords
<1>2. T \in SUBSET Nat /\ N + 1 \in T
  BY <1>1
<1>3. PICK b \in T : \A e \in T : b <= e
  <2> HIDE DEF T
  <2> QED BY <1>2, LeastNumber
<1>4. b \in k..N + 1 /\ Bound(tokens, b)
  BY <1>3 DEF Bound
<1>5. ASSUME NEW j \in k..b - 1, IsAt(tokens, j, "OR") PROVE FALSE
  BY <1>1, <1>4, <1>5, <1>3
<1> QED BY <1>4, <1>5

\* Every token that is no OR stands between two of them, or the ends.
LEMMA StandsBetween ==
    ASSUME NEW tokens \in Texts, NEW k \in 1..Len(tokens), ~IsAt(tokens, k, "OR")
    PROVE  \E a \in 0..k - 1, b \in k + 1..Len(tokens) + 1 : Adjacent(tokens, a, b)
<1>1. Len(tokens) \in Nat
  BY TokenWords
<1>2. PICK a \in 0..k - 1 : /\ Bound(tokens, a)
                            /\ \A j \in a + 1..k - 1 : ~IsAt(tokens, j, "OR")
  BY <1>1, NearestBefore
<1>3. PICK b \in k + 1..Len(tokens) + 1 : /\ Bound(tokens, b)
                                          /\ \A j \in k + 1..b - 1 : ~IsAt(tokens, j, "OR")
  <2>1. k + 1 \in 1..Len(tokens) + 1
    BY <1>1
  <2> QED BY <2>1, NearestAfter
<1>4. ASSUME NEW j \in a + 1..b - 1 PROVE ~IsAt(tokens, j, "OR")
  <2>1. CASE j < k
    BY <2>1, <1>1, <1>2
  <2>2. CASE j > k
    BY <2>2, <1>1, <1>3
  <2> QED BY <2>1, <2>2, <1>1
<1>5. a \in 0..Len(tokens) + 1 /\ b \in 0..Len(tokens) + 1 /\ a < b
  BY <1>1, <1>2, <1>3
<1> QED BY <1>2, <1>3, <1>4, <1>5 DEF Adjacent

\* Before an OR, and before the end, stands an alternative.
LEMMA EndsAlternative ==
    ASSUME NEW tokens \in Texts, NEW b \in 1..Len(tokens) + 1, Bound(tokens, b)
    PROVE  \E a \in 0..b - 1 : Adjacent(tokens, a, b)
<1>1. Len(tokens) \in Nat
  BY TokenWords
<1>2. PICK a \in 0..b - 1 : /\ Bound(tokens, a)
                            /\ \A j \in a + 1..b - 1 : ~IsAt(tokens, j, "OR")
  BY NearestBefore
<1>3. a \in 0..Len(tokens) + 1 /\ b \in 0..Len(tokens) + 1 /\ a < b
  BY <1>1, <1>2
<1> QED BY <1>2, <1>3 DEF Adjacent

\* The alternatives of a query are what stands between neighbouring bounds.
LEMMA BetweenIs ==
    ASSUME NEW tokens \in Texts
    PROVE  \A part : part \in Between(tokens) <=>
              \E a, b : Adjacent(tokens, a, b) /\ part = SubSeq(tokens, a + 1, b - 1)
<1> DEFINE N == Len(tokens)
           ors == {0, N + 1} \cup {n \in DOMAIN tokens : tokens[n].word = "OR"}
           Near(q) == q[1] < q[2] /\ ~\E k \in ors : q[1] < k /\ k < q[2]
           pairs == {q \in ors \X ors : Near(q)}
<1>1. N \in Nat /\ DOMAIN tokens = 1..N
  BY TokenWords
<1>2. \A k : k \in ors <=> k \in 0..N + 1 /\ Bound(tokens, k)
  BY <1>1 DEF Bound, IsAt
<1>3. \A part : part \in Between(tokens) <=>
                   \E q \in pairs : part = SubSeq(tokens, q[1] + 1, q[2] - 1)
  BY DEF Between
<1> HIDE DEF ors
<1>4. ASSUME NEW a \in ors, NEW b \in ors
      PROVE  Near(<<a, b>>) <=> Adjacent(tokens, a, b)
  <2>1. a \in 0..N + 1 /\ b \in 0..N + 1 /\ Bound(tokens, a) /\ Bound(tokens, b)
    BY <1>2
  <2>2. (\E k \in ors : a < k /\ k < b) <=> \E k \in a + 1..b - 1 : IsAt(tokens, k, "OR")
    BY <2>1, <1>1, <1>2 DEF Bound
  <2>3. Near(<<a, b>>) <=> a < b /\ ~\E k \in ors : a < k /\ k < b
    OBVIOUS
  <2> HIDE DEF Near
  <2> QED BY <2>1, <2>2, <2>3 DEF Adjacent
<1>5. \A a, b : Adjacent(tokens, a, b) => a \in ors /\ b \in ors
  BY <1>2 DEF Adjacent
<1>6. ASSUME NEW a, NEW b, Adjacent(tokens, a, b) PROVE <<a, b>> \in pairs
  <2>1. a \in ors /\ b \in ors
    BY <1>5, <1>6
  <2>2. Near(<<a, b>>)
    BY <2>1, <1>4, <1>6
  <2> HIDE DEF Near
  <2> QED BY <2>1, <2>2
<1>7. ASSUME NEW q \in pairs
      PROVE  Adjacent(tokens, q[1], q[2])
  <2>1. q[1] \in ors /\ q[2] \in ors /\ q = <<q[1], q[2]>> /\ Near(q)
    OBVIOUS
  <2> HIDE DEF Near
  <2> QED BY <2>1, <1>4
<1>8. ASSUME NEW part
      PROVE  (\E q \in pairs : part = SubSeq(tokens, q[1] + 1, q[2] - 1)) <=>
             \E a, b : Adjacent(tokens, a, b) /\ part = SubSeq(tokens, a + 1, b - 1)
  <2> HIDE DEF pairs
  <2>1. ASSUME NEW q \in pairs, part = SubSeq(tokens, q[1] + 1, q[2] - 1)
        PROVE  \E a, b : Adjacent(tokens, a, b) /\ part = SubSeq(tokens, a + 1, b - 1)
    BY <2>1, <1>7
  <2>2. ASSUME NEW a, NEW b, Adjacent(tokens, a, b), part = SubSeq(tokens, a + 1, b - 1)
        PROVE  \E q \in pairs : part = SubSeq(tokens, q[1] + 1, q[2] - 1)
    <3>1. <<a, b>>[1] = a /\ <<a, b>>[2] = b /\ <<a, b>> \in pairs
      BY <2>2, <1>6
    <3> QED BY <3>1, <2>2
  <2> QED BY <2>1, <2>2
<1> QED BY <1>3, <1>8

\* The tokens between two places.
Part(tokens, a, b) == SubSeq(tokens, a + 1, b - 1)
\* The part of a query between two places, place by place.
Parted(tokens, a, b, part) ==
    /\ a \in Nat /\ b \in Nat /\ b - a - 1 \in Nat
    /\ a + 1..b - 1 \subseteq 1..Len(tokens)
    /\ part \in Seq(Tokens) /\ Len(part) = b - a - 1
    /\ \A k \in 1..b - a - 1 : part[k] = tokens[a + k] /\ a + k \in a + 1..b - 1
    /\ \A j \in a + 1..b - 1 : j - a \in 1..b - a - 1 /\ part[j - a] = tokens[j]

\* Places in an alternative and places in the query.
LEMMA PartIs ==
    ASSUME NEW tokens \in Texts, NEW a, NEW b, Adjacent(tokens, a, b)
    PROVE  Parted(tokens, a, b, Part(tokens, a, b))
<1> DEFINE N == Len(tokens)
           part == SubSeq(tokens, a + 1, b - 1)
<1>1. N \in Nat /\ tokens \in Seq(Tokens)
  BY TokenWords
<1>2. a \in 0..N + 1 /\ b \in 0..N + 1 /\ a < b
  BY DEF Adjacent
<1>3. a + 1..b - 1 \subseteq 1..N /\ b - a - 1 \in Nat /\ a + 1 \in Nat /\ b - 1 \in Nat
  BY <1>1, <1>2
<1>4. \A j \in a + 1..b - 1 : tokens[j] \in Tokens
  BY <1>1, <1>3
<1>5. part \in Seq(Tokens) /\ Len(part) = b - 1 - (a + 1) + 1
      /\ \A k \in 1..Len(part) : part[k] = tokens[a + 1 + k - 1]
  <2>1. part = [k \in 1..b - 1 - (a + 1) + 1 |-> tokens[k + (a + 1) - 1]]
    BY <1>1, <1>3
  <2> HIDE DEF part
  <2>2. \A k \in 1..b - 1 - (a + 1) + 1 : k + (a + 1) - 1 \in a + 1..b - 1
    BY <1>1, <1>2
  <2>3. part \in [1..b - 1 - (a + 1) + 1 -> Tokens]
    BY <2>1, <2>2, <1>4
  <2>4. b - 1 - (a + 1) + 1 \in Nat
    BY <1>2, <1>3
  <2>5. part \in Seq(Tokens) /\ Len(part) = b - 1 - (a + 1) + 1
    BY <2>3, <2>4
  <2>6. \A k \in 1..Len(part) : part[k] = tokens[a + 1 + k - 1]
    BY <2>1, <2>5, <1>2
  <2> QED BY <2>5, <2>6
<1> HIDE DEF part
<1>6. Len(part) = b - a - 1
  BY <1>2, <1>5
<1>7. \A k \in 1..b - a - 1 : part[k] = tokens[a + k] /\ a + k \in a + 1..b - 1
  <2> SUFFICES ASSUME NEW k \in 1..b - a - 1 PROVE part[k] = tokens[a + k] /\ a + k \in a + 1..b - 1
    OBVIOUS
  <2>1. a + 1 + k - 1 = a + k /\ k \in 1..Len(part)
    BY <1>2, <1>6
  <2>2. a + k \in a + 1..b - 1
    BY <1>2
  <2> QED BY <2>1, <2>2, <1>5
<1>8. \A j \in a + 1..b - 1 : j - a \in 1..b - a - 1 /\ part[j - a] = tokens[j]
  <2> SUFFICES ASSUME NEW j \in a + 1..b - 1 PROVE j - a \in 1..b - a - 1 /\ part[j - a] = tokens[j]
    OBVIOUS
  <2>1. j - a \in 1..b - a - 1 /\ a + (j - a) = j
    BY <1>2
  <2> QED BY <2>1, <1>7
<1>9. a \in Nat /\ b \in Nat
  BY <1>1, <1>2
<1>10. Parted(tokens, a, b, part)
  BY <1>3, <1>5, <1>6, <1>7, <1>8, <1>9 DEF Parted
<1> QED BY <1>10 DEF part, Part

\* An alternative, told by the places of its tokens.
AlternativeAt(tokens, a, b) ==
    /\ a + 1 < b /\ IsAt(tokens, b - 1, "clause") /\ ~IsAt(tokens, a + 1, "AND")
    /\ \A k \in a + 1..b - 1 :
          /\ IsAt(tokens, k, "NOT") => IsAt(tokens, k + 1, "clause")
          /\ IsAt(tokens, k, "AND") => ~IsAt(tokens, k + 1, "AND")

\* The grammar of an alternative, told by places in the query.
LEMMA AlternativeIs ==
    ASSUME NEW tokens \in Texts, NEW a, NEW b, Adjacent(tokens, a, b)
    PROVE  Alternative(Part(tokens, a, b)) <=> AlternativeAt(tokens, a, b)
<1> DEFINE part == Part(tokens, a, b)
           L == b - a - 1
<1>1. /\ a \in Nat /\ b \in Nat /\ L \in Nat
      /\ a + 1..b - 1 \subseteq 1..Len(tokens)
      /\ part \in Seq(Tokens) /\ Len(part) = L
      /\ \A k \in 1..L : part[k] = tokens[a + k] /\ a + k \in a + 1..b - 1
      /\ \A j \in a + 1..b - 1 : j - a \in 1..L /\ part[j - a] = tokens[j]
  BY PartIs DEF Parted
<1> HIDE DEF part
<1>2. part # <<>> <=> L > 0
  BY <1>1
<1>3. DOMAIN part = 1..L
  BY <1>1
<1>4. CASE L = 0
  BY <1>1, <1>2, <1>4 DEF Alternative, AlternativeAt, part
<1>5. CASE L > 0
  <2>1. /\ a + 1 < b /\ L \in 1..L /\ 1 \in 1..L /\ a + L = b - 1 /\ b - 1 \in a + 1..b - 1
        /\ a + 1 \in a + 1..b - 1
    BY <1>1, <1>5
  <2>2. part[Len(part)] = tokens[b - 1] /\ part[1] = tokens[a + 1]
    BY <2>1, <1>1
  <2>3. /\ part[Len(part)].word = "clause" <=> IsAt(tokens, b - 1, "clause")
        /\ part[1].word # "AND" <=> ~IsAt(tokens, a + 1, "AND")
    BY <2>1, <2>2, <1>1 DEF IsAt
  <2>4. ASSUME part[Len(part)].word = "clause"
        PROVE  (\A n \in DOMAIN part :
                   /\ part[n].word = "NOT" => part[n + 1].word = "clause"
                   /\ part[n].word = "AND" => part[n + 1].word # "AND") <=>
               (\A k \in a + 1..b - 1 :
                   /\ IsAt(tokens, k, "NOT") => IsAt(tokens, k + 1, "clause")
                   /\ IsAt(tokens, k, "AND") => ~IsAt(tokens, k + 1, "AND"))
    <3>1. ASSUME NEW n \in 1..L
          PROVE  ((/\ part[n].word = "NOT" => part[n + 1].word = "clause"
                   /\ part[n].word = "AND" => part[n + 1].word # "AND") <=>
                  (/\ IsAt(tokens, a + n, "NOT") => IsAt(tokens, a + n + 1, "clause")
                   /\ IsAt(tokens, a + n, "AND") => ~IsAt(tokens, a + n + 1, "AND")))
      <4>1. part[n] = tokens[a + n] /\ a + n \in 1..Len(tokens)
        BY <1>1
      <4>2. CASE n = L
        BY <2>4, <4>2, <1>1, <4>1 DEF IsAt
      <4>3. CASE n # L
        <5>1. n + 1 \in 1..L /\ a + (n + 1) = a + n + 1
          BY <1>1, <4>3
        <5>2. part[n + 1] = tokens[a + n + 1] /\ a + n + 1 \in 1..Len(tokens)
          BY <5>1, <1>1
        <5> QED BY <4>1, <5>2 DEF IsAt
      <4> QED BY <4>2, <4>3
    <3>2. \A k \in a + 1..b - 1 : k - a \in 1..L /\ a + (k - a) = k
      BY <1>1
    <3>3. \A n \in 1..L : a + n \in a + 1..b - 1
      BY <1>1
    <3> QED BY <1>3, <3>1, <3>2, <3>3
  <2> QED BY <1>2, <1>5, <2>1, <2>3, <2>4 DEF Alternative, AlternativeAt, part
<1> QED BY <1>1, <1>4, <1>5

\* and only one.
LEMMA OneWord ==
    ASSUME NEW tokens, NEW k, NEW v, NEW w, v # w, IsAt(tokens, k, v)
    PROVE  ~IsAt(tokens, k, w)
BY DEF IsAt

\* Every token says one of four words,
LEMMA SomeWord ==
    ASSUME NEW tokens \in Texts, NEW k \in 1..Len(tokens)
    PROVE  \/ IsAt(tokens, k, "AND") \/ IsAt(tokens, k, "OR")
           \/ IsAt(tokens, k, "NOT") \/ IsAt(tokens, k, "clause")
<1>1. tokens[k].word \in {"AND", "OR", "NOT", "clause"}
  BY TokenWords
<1> QED BY <1>1 DEF IsAt

\* In a query of well-formed alternatives every token may follow the one before it, and the
\* last is a clause.
LEMMA WellFormedFits ==
    ASSUME NEW tokens \in Texts, \A a, b : Adjacent(tokens, a, b) => AlternativeAt(tokens, a, b)
    PROVE  (\A k \in 1..Len(tokens) : Fits(tokens, k)) /\ IsAt(tokens, Len(tokens), "clause")
<1> DEFINE N == Len(tokens)
<1>1. N \in Nat \ {0}
  BY TokenWords
<1>2. IsAt(tokens, N, "clause")
  <2>1. N + 1 \in 1..N + 1 /\ Bound(tokens, N + 1)
    BY <1>1 DEF Bound
  <2>2. PICK a \in 0..N : Adjacent(tokens, a, N + 1)
    BY <2>1, EndsAlternative, <1>1
  <2>3. N + 1 - 1 = N
    BY <1>1
  <2> QED BY <2>2, <2>3 DEF AlternativeAt
<1>3. ASSUME NEW k \in 1..N, IsAt(tokens, k, "AND") PROVE IsAt(tokens, k - 1, "clause")
  <2>1. ~IsAt(tokens, k, "OR")
    BY <1>3, OneWord
  <2>2. PICK a \in 0..k - 1, b \in k + 1..N + 1 : Adjacent(tokens, a, b)
    BY <2>1, StandsBetween
  <2>3. AlternativeAt(tokens, a, b)
    BY <2>2
  <2>4. a + 1 # k
    BY <2>3, <1>3 DEF AlternativeAt
  <2>5. k - 1 \in a + 1..b - 1 /\ k - 1 \in 1..N /\ k - 1 + 1 = k
    BY <2>2, <2>4, <1>1
  <2>6. ~IsAt(tokens, k - 1, "OR")
    BY <2>2, <2>5 DEF Adjacent
  <2>7. ~IsAt(tokens, k - 1, "AND") /\ ~IsAt(tokens, k - 1, "NOT")
    BY <1>3, OneWord, <2>3, <2>5 DEF AlternativeAt
  <2> QED BY <2>5, <2>6, <2>7, SomeWord
<1>4. ASSUME NEW k \in 1..N, IsAt(tokens, k, "OR") PROVE IsAt(tokens, k - 1, "clause")
  <2>1. k \in 1..N + 1 /\ Bound(tokens, k)
    BY <1>1, <1>4 DEF Bound
  <2>2. PICK a \in 0..k - 1 : Adjacent(tokens, a, k)
    BY <2>1, EndsAlternative
  <2> QED BY <2>2 DEF AlternativeAt
<1>5. ASSUME NEW k \in 1..N, IsAt(tokens, k, "NOT"), IsAt(tokens, k - 1, "NOT") PROVE FALSE
  <2>1. k - 1 \in 1..N /\ ~IsAt(tokens, k - 1, "OR") /\ k - 1 + 1 = k
    BY <1>5, OneWord DEF IsAt
  <2>2. PICK a \in 0..k - 1 - 1, b \in k - 1 + 1..N + 1 : Adjacent(tokens, a, b)
    BY <2>1, StandsBetween
  <2>3. k - 1 \in a + 1..b - 1
    BY <2>1, <2>2
  <2>4. IsAt(tokens, k, "clause")
    BY <2>1, <2>2, <2>3, <1>5 DEF AlternativeAt
  <2> QED BY <2>4, <1>5, OneWord
<1> QED BY <1>2, <1>3, <1>4, <1>5 DEF Fits

\* The converse: what fits token by token is well formed between bounds.
LEMMA FitsWellFormed ==
    ASSUME NEW tokens \in Texts, \A k \in 1..Len(tokens) : Fits(tokens, k),
           IsAt(tokens, Len(tokens), "clause"), NEW a, NEW b, Adjacent(tokens, a, b)
    PROVE  AlternativeAt(tokens, a, b)
<1> DEFINE N == Len(tokens)
<1>1. N \in Nat \ {0}
  BY TokenWords
<1>2. /\ a \in 0..N + 1 /\ b \in 0..N + 1 /\ a < b /\ Bound(tokens, a) /\ Bound(tokens, b)
      /\ \A k \in a + 1..b - 1 : ~IsAt(tokens, k, "OR")
  BY DEF Adjacent
<1>3. ~IsAt(tokens, a, "clause")
  BY <1>1, <1>2, OneWord DEF Bound, IsAt
<1>4. IsAt(tokens, b - 1, "clause")
  <2>1. CASE b = N + 1
    BY <2>1, <1>1
  <2>2. CASE b # N + 1
    BY <2>2, <1>1, <1>2 DEF Bound, Fits
  <2> QED BY <2>1, <2>2
<1>5. a + 1 < b
  BY <1>3, <1>4, <1>1, <1>2
<1>6. ~IsAt(tokens, a + 1, "AND")
  <2> SUFFICES ASSUME IsAt(tokens, a + 1, "AND") PROVE FALSE
    OBVIOUS
  <2>1. PICK k \in 1..N : k = a + 1 /\ k - 1 = a
    BY <1>1, <1>2, <1>5
  <2>2. IsAt(tokens, k - 1, "clause")
    BY <2>1 DEF Fits
  <2> QED BY <2>1, <2>2, <1>3
<1>7. ASSUME NEW k \in a + 1..b - 1, IsAt(tokens, k, "NOT") PROVE IsAt(tokens, k + 1, "clause")
  BY <1>4, <1>7, OneWord, <1>1, <1>2, SomeWord DEF Fits
<1>8. ASSUME NEW k \in a + 1..b - 1, IsAt(tokens, k, "AND"), IsAt(tokens, k + 1, "AND") PROVE FALSE
  <2>1. k + 1 \in 1..N /\ k + 1 - 1 = k
    BY <1>1, <1>2, <1>8 DEF IsAt
  <2>2. IsAt(tokens, k, "clause")
    BY <2>1, <1>8 DEF Fits
  <2> QED BY <2>2, <1>8, OneWord
<1> QED BY <1>4, <1>5, <1>6, <1>7, <1>8 DEF AlternativeAt

\* So a query's grammar can be told while it is read from left to right.
LEMMA WellFormedIs ==
    ASSUME NEW tokens \in Texts
    PROVE  WellFormed(tokens) <=>
              (\A k \in 1..Len(tokens) : Fits(tokens, k)) /\ IsAt(tokens, Len(tokens), "clause")
<1>1. WellFormed(tokens) <=> \A a, b : Adjacent(tokens, a, b) => Alternative(Part(tokens, a, b))
  <2>1. \A part : part \in Between(tokens) <=>
            \E a, b : Adjacent(tokens, a, b) /\ part = Part(tokens, a, b)
    BY BetweenIs DEF Part
  <2> QED BY <2>1 DEF WellFormed
<1>2. \A a, b : Adjacent(tokens, a, b) =>
          (Alternative(Part(tokens, a, b)) <=> AlternativeAt(tokens, a, b))
  BY AlternativeIs
<1>3. WellFormed(tokens) <=> \A a, b : Adjacent(tokens, a, b) => AlternativeAt(tokens, a, b)
  BY <1>1, <1>2
<1> QED BY <1>3, WellFormedFits, FitsWellFormed


\* The clause at a place, with the sign a NOT before it gives; those between two places; all that
\* there may be; and whether one is satisfied by what is true of a row.
LitAt(tokens, k) ==
    [atom |-> tokens[k].atom, negated |-> (tokens[k].negated # IsAt(tokens, k - 1, "NOT"))]
LitsIn(tokens, a, b) == {LitAt(tokens, k) : k \in {j \in a + 1..b - 1 : IsAt(tokens, j, "clause")}}
Literals == [atom : Atoms, negated : BOOLEAN]
Satisfied(l, truth) == (l.atom \in truth) # l.negated

\* A clause of a query is a clause of an alternative.
LEMMA LitAtTyped ==
    ASSUME NEW tokens \in Texts, NEW k \in 1..Len(tokens), IsAt(tokens, k, "clause")
    PROVE  LitAt(tokens, k) \in Literals
<1>1. tokens[k].atom \in Atoms /\ tokens[k].negated \in BOOLEAN
  BY TokenWords DEF IsAt
<1> QED BY <1>1 DEF LitAt, Literals

\* When the clause at a place is satisfied.
LEMMA SatisfiedIs ==
    ASSUME NEW tokens, NEW k, NEW truth
    PROVE  Satisfied(LitAt(tokens, k), truth) <=>
              ((tokens[k].atom \in truth) # (tokens[k].negated # IsAt(tokens, k - 1, "NOT")))
<1>1. LitAt(tokens, k).atom = tokens[k].atom
  BY DEF LitAt
<1>2. LitAt(tokens, k).negated = (tokens[k].negated # IsAt(tokens, k - 1, "NOT"))
  BY DEF LitAt
<1> QED BY <1>1, <1>2 DEF Satisfied

\* An alternative holds when its clauses are satisfied, with their signs combined.
LEMMA HoldsIs ==
    ASSUME NEW tokens \in Texts, NEW a, NEW b, Adjacent(tokens, a, b), NEW truth
    PROVE  Holds(Part(tokens, a, b), truth) <=> \A l \in LitsIn(tokens, a, b) : Satisfied(l, truth)
<1> DEFINE part == Part(tokens, a, b)
           L == b - a - 1
           Good(k) == IsAt(tokens, k, "clause") => Satisfied(LitAt(tokens, k), truth)
<1>1. /\ a \in Nat /\ b \in Nat /\ L \in Nat
      /\ a + 1..b - 1 \subseteq 1..Len(tokens)
      /\ part \in Seq(Tokens) /\ Len(part) = L
      /\ \A k \in 1..L : part[k] = tokens[a + k] /\ a + k \in a + 1..b - 1
      /\ \A j \in a + 1..b - 1 : j - a \in 1..L /\ part[j - a] = tokens[j]
  BY PartIs DEF Parted
<1>2. ~IsAt(tokens, a, "NOT")
  BY TokenWords, OneWord DEF Adjacent, Bound, IsAt
<1> HIDE DEF part
<1>3. ASSUME NEW n \in 1..L
      PROVE  (part[n].word = "clause" =>
                 ((part[n].atom \in truth) = (part[n].negated = (n > 1 /\ part[n - 1].word = "NOT"))))
             <=> Good(a + n)
  <2>1. part[n] = tokens[a + n] /\ a + n \in 1..Len(tokens)
    BY <1>1
  <2>2. (n > 1 /\ part[n - 1].word = "NOT") <=> IsAt(tokens, a + n - 1, "NOT")
    <3>1. CASE n = 1
      BY <3>1, <1>1, <1>2
    <3>2. CASE n # 1
      BY <3>2, <1>1 DEF IsAt
    <3> QED BY <3>1, <3>2
  <2>3. CASE part[n].word # "clause"
    BY <2>1, <2>3 DEF IsAt
  <2>4. CASE part[n].word = "clause"
    <3>1. IsAt(tokens, a + n, "clause")
      BY <2>1, <2>4 DEF IsAt
    <3>2. tokens[a + n].negated \in BOOLEAN
      BY <2>1, <2>4, TokenWords
    <3>3. Satisfied(LitAt(tokens, a + n), truth) <=>
             ((tokens[a + n].atom \in truth) # (tokens[a + n].negated # IsAt(tokens, a + n - 1, "NOT")))
      <4>1. PICK k \in Int : k = a + n /\ k - 1 = a + n - 1
        BY <1>1
      <4>2. Satisfied(LitAt(tokens, k), truth) <=>
               ((tokens[k].atom \in truth) # (tokens[k].negated # IsAt(tokens, k - 1, "NOT")))
        BY SatisfiedIs
      <4> QED BY <4>1, <4>2
    <3>4. IsAt(tokens, a + n - 1, "NOT") \in BOOLEAN
      BY DEF IsAt
    <3>5. Good(a + n) <=> Satisfied(LitAt(tokens, a + n), truth)
      BY <3>1
    <3> HIDE DEF Good
    <3> QED BY <2>1, <2>2, <2>4, <3>2, <3>3, <3>4, <3>5
  <2> QED BY <2>3, <2>4
<1>4. DOMAIN part = 1..L
  BY <1>1
<1>5. Holds(part, truth) <=> \A n \in 1..L : Good(a + n)
  <2> HIDE DEF Good
  <2> QED BY <1>3, <1>4 DEF Holds
<1>6. (\A n \in 1..L : Good(a + n)) <=> \A k \in a + 1..b - 1 : Good(k)
  <2> HIDE DEF Good
  <2>1. \A k \in a + 1..b - 1 : k - a \in 1..L /\ a + (k - a) = k
    BY <1>1
  <2>2. \A n \in 1..L : a + n \in a + 1..b - 1
    BY <1>1
  <2> QED BY <2>1, <2>2
<1>7. (\A k \in a + 1..b - 1 : Good(k)) <=> \A l \in LitsIn(tokens, a, b) : Satisfied(l, truth)
  BY DEF LitsIn
<1> QED BY <1>5, <1>6, <1>7 DEF part

\* The states of the parser.
Parsing == [groups : Seq(Seq(Literals)), conn : {"AND", "OR"}, not : BOOLEAN,
            expect : {"clause", "connective", "error"}, count : Nat]

\* S is what one of the first m alternatives holds.
InGroups(groups, m, S) == \E i \in 1..m : S = ToSet(groups[i])
\* What the last alternative holds.
LastGroup(groups) == ToSet(groups[Len(groups)])

\* t is s and one more, x.
Grown(X, s, x, t) ==
    /\ t \in Seq(X) /\ Len(t) = Len(s) + 1
    /\ \A i \in 1..Len(s) : t[i] = s[i]
    /\ t[Len(s) + 1] = x
    /\ ToSet(t) = ToSet(s) \cup {x}

\* A list and one more.
LEMMA AppendIs ==
    ASSUME NEW X, NEW s \in Seq(X), NEW x \in X
    PROVE  Grown(X, s, x, Append(s, x))
<1>1. /\ Append(s, x) \in Seq(X) /\ Len(Append(s, x)) = Len(s) + 1
      /\ \A i \in 1..Len(s) : Append(s, x)[i] = s[i]
      /\ Append(s, x)[Len(s) + 1] = x
      /\ Len(s) \in Nat
  OBVIOUS
<1> DEFINE t == Append(s, x)
<1> HIDE DEF t
<1>2. ASSUME NEW y PROVE y \in ToSet(t) <=> y \in ToSet(s) \cup {x}
  BY <1>1 DEF ToSet, t
<1>3. ToSet(t) = ToSet(s) \cup {x}
  BY <1>2
<1> QED BY <1>1, <1>3 DEF t, Grown

\* A clause that begins an alternative.
LEMMA AddedApart ==
    ASSUME NEW groups \in Seq(Seq(Literals)), NEW conn, NEW c \in Literals,
           groups = <<>> \/ conn = "OR"
    PROVE  LET r == Added(groups, conn, c) IN
           /\ r \in Seq(Seq(Literals)) /\ r # <<>> /\ LastGroup(r) = {c}
           /\ \A S : InGroups(r, Len(r) - 1, S) <=> InGroups(groups, Len(groups), S)
<1> DEFINE r == Added(groups, conn, c)
<1>1. r = Append(groups, <<c>>)
  <2>1. CASE groups = <<>>
    <3> DEFINE x == <<c>>
    <3>1. r = <<x>>
      BY <2>1 DEF Added
    <3> HIDE DEF r, x
    <3>2. Append(<<>>, x) = <<x>>
      OBVIOUS
    <3> QED BY <2>1, <3>1, <3>2 DEF x
  <2>2. CASE groups # <<>>
    BY <2>2 DEF Added
  <2> QED BY <2>1, <2>2
<1>2. <<c>> \in Seq(Literals) /\ ToSet(<<c>>) = {c}
  BY DEF ToSet
<1>3. /\ r \in Seq(Seq(Literals)) /\ Len(r) = Len(groups) + 1
      /\ \A i \in 1..Len(groups) : r[i] = groups[i]
      /\ r[Len(groups) + 1] = <<c>>
  <2>1. Grown(Seq(Literals), groups, <<c>>, r)
    BY <1>1, <1>2, AppendIs
  <2> HIDE DEF r
  <2> QED BY <2>1 DEF Grown
<1> HIDE DEF r
<1>4. Len(groups) \in Nat /\ Len(r) - 1 = Len(groups) /\ r # <<>>
  BY <1>3
<1>5. LastGroup(r) = {c}
  BY <1>2, <1>3 DEF LastGroup
<1>6. ASSUME NEW S PROVE InGroups(r, Len(r) - 1, S) <=> InGroups(groups, Len(groups), S)
  BY <1>3, <1>4 DEF InGroups
<1> QED BY <1>3, <1>4, <1>5, <1>6 DEF r

\* A clause of the last alternative.
Beside(groups, c, r) ==
    /\ r \in Seq(Seq(Literals)) /\ r # <<>> /\ LastGroup(r) = LastGroup(groups) \cup {c}
    /\ \A S : InGroups(r, Len(r) - 1, S) <=> InGroups(groups, Len(groups) - 1, S)

\* It leaves the other alternatives as they are.
LEMMA AddedBeside ==
    ASSUME NEW groups \in Seq(Seq(Literals)), NEW c \in Literals, groups # <<>>
    PROVE  Beside(groups, c, Added(groups, "AND", c))
<1> DEFINE r == Added(groups, "AND", c)
           L == Len(groups)
<1>1. r = [groups EXCEPT ![L] = Append(groups[L], c)]
  BY DEF Added
<1>2. L \in Nat \ {0} /\ L \in 1..L /\ groups \in [1..L -> Seq(Literals)]
  OBVIOUS
<1>3. /\ Append(groups[L], c) \in Seq(Literals)
      /\ ToSet(Append(groups[L], c)) = ToSet(groups[L]) \cup {c}
  BY <1>2, AppendIs DEF Grown
<1> HIDE DEF r, L
<1>4. r \in [1..L -> Seq(Literals)] /\ r[L] = Append(groups[L], c)
      /\ \A i \in 1..L - 1 : r[i] = groups[i]
  <2> DEFINE X == Seq(Literals)
             x == Append(groups[L], c)
  <2>1. x \in X /\ groups \in [1..L -> X] /\ L \in 1..L /\ r = [groups EXCEPT ![L] = x]
    BY <1>1, <1>2, <1>3
  <2>2. \A i \in 1..L - 1 : i \in 1..L /\ i # L
    BY <1>2
  <2> HIDE DEF X, x
  <2>3. r \in [1..L -> X] /\ r[L] = x /\ \A i \in 1..L - 1 : r[i] = groups[i]
    BY <2>1, <2>2
  <2> QED BY <2>3 DEF X, x
<1>5. r \in Seq(Seq(Literals)) /\ Len(r) = L /\ r # <<>>
  <2> DEFINE X == Seq(Literals)
  <2>1. r \in [1..L -> X]
    BY <1>4
  <2> HIDE DEF X
  <2>2. r \in Seq(X) /\ Len(r) = L /\ r # <<>>
    BY <2>1, <1>2
  <2> QED BY <2>2 DEF X
<1>6. LastGroup(r) = LastGroup(groups) \cup {c}
  BY <1>3, <1>4, <1>5 DEF LastGroup, L
<1>7. ASSUME NEW S PROVE InGroups(r, Len(r) - 1, S) <=> InGroups(groups, L - 1, S)
  BY <1>4, <1>5 DEF InGroups
<1> QED BY <1>5, <1>6, <1>7 DEF r, L, Beside

\* What a turn of the loop does, told by what it reads.
LEMMA ReadsAndOr ==
    ASSUME NEW p \in Parsing, NEW token, token.word \in {"AND", "OR"}
    PROVE  LET q == ReadToken(p, token) IN
           /\ q \in Parsing
           /\ p.expect = "connective" =>
                 /\ q.conn = token.word /\ q.expect = "clause"
                 /\ q.groups = p.groups /\ q.not = p.not /\ q.count = p.count
           /\ p.expect # "connective" => q.expect = "error"
<1> DEFINE q == ReadToken(p, token)
<1>1. CASE p.expect = "connective"
  <2>1. q = [p EXCEPT !.conn = token.word, !.expect = "clause"]
    BY <1>1 DEF ReadToken, Joined
  <2> HIDE DEF q
  <2> QED BY <1>1, <2>1 DEF Parsing, q
<1>2. CASE p.expect = "error"
  <2>1. q = p
    BY <1>2 DEF ReadToken
  <2> HIDE DEF q
  <2> QED BY <1>2, <2>1 DEF q
<1>3. CASE p.expect = "clause"
  <2>1. q = [p EXCEPT !.expect = "error"]
    BY <1>3 DEF ReadToken
  <2> HIDE DEF q
  <2> QED BY <1>3, <2>1 DEF Parsing, q
<1> QED BY <1>1, <1>2, <1>3 DEF Parsing

\* Reading NOT.
LEMMA ReadsNot ==
    ASSUME NEW p \in Parsing, NEW token, token.word = "NOT"
    PROVE  LET q == ReadToken(p, token) IN
           /\ q \in Parsing
           /\ p.expect # "error" /\ ~p.not =>
                 /\ q.conn = (IF p.expect = "connective" THEN "AND" ELSE p.conn)
                 /\ q.expect = "clause" /\ q.not /\ q.groups = p.groups /\ q.count = p.count
           /\ p.expect = "error" \/ p.not => q.expect = "error"
<1> DEFINE q == ReadToken(p, token)
           conn == IF p.expect = "connective" THEN "AND" ELSE p.conn
<1>1. CASE p.expect = "error"
  <2>1. q = p
    BY <1>1 DEF ReadToken
  <2> HIDE DEF q
  <2> QED BY <1>1, <2>1 DEF q
<1>2. CASE p.expect # "error" /\ ~p.not
  <2>1. q = [p EXCEPT !.conn = conn, !.not = TRUE, !.expect = "clause"]
    BY <1>2 DEF ReadToken, Joined
  <2>2. conn \in {"AND", "OR"}
    BY DEF Parsing
  <2> HIDE DEF q, conn
  <2> QED BY <1>2, <2>1, <2>2 DEF Parsing, q, conn
<1>3. CASE p.expect # "error" /\ p.not
  <2>1. q = [p EXCEPT !.expect = "error"]
    BY <1>3 DEF ReadToken
  <2> HIDE DEF q
  <2> QED BY <1>3, <2>1 DEF Parsing, q
<1> QED BY <1>1, <1>2, <1>3

\* Reading a clause.
LEMMA ReadsClause ==
    ASSUME NEW p \in Parsing, NEW token, token.word = "clause", token.atom \in Atoms,
           token.negated \in BOOLEAN
    PROVE  LET q == ReadToken(p, token)
               conn == IF p.expect = "connective" THEN "AND" ELSE p.conn
               c == [atom |-> token.atom, negated |-> (token.negated # p.not)]
           IN
           /\ q \in Parsing
           /\ p.expect # "error" /\ p.count < MaxClauses =>
                 /\ q.conn = conn /\ q.expect = "connective" /\ ~q.not
                 /\ q.groups = Added(p.groups, conn, c) /\ q.count = p.count + 1
           /\ p.expect = "error" \/ ~ (p.count < MaxClauses) => q.expect = "error"
<1> DEFINE q == ReadToken(p, token)
           conn == IF p.expect = "connective" THEN "AND" ELSE p.conn
           c == [atom |-> token.atom, negated |-> (token.negated # p.not)]
<1>1. CASE p.expect = "error"
  <2>1. q = p
    BY <1>1 DEF ReadToken
  <2> HIDE DEF q
  <2> QED BY <1>1, <2>1 DEF q
<1>2. CASE p.expect # "error" /\ p.count < MaxClauses
  <2>1. q = [groups |-> Added(p.groups, conn, c), conn |-> conn, not |-> FALSE,
             expect |-> "connective", count |-> p.count + 1]
    BY <1>2 DEF ReadToken, Joined
  <2>2. conn \in {"AND", "OR"} /\ p.groups \in Seq(Seq(Literals)) /\ p.count + 1 \in Nat
    BY DEF Parsing
  <2>3. c \in Literals
    BY DEF Literals, Parsing
  <2> HIDE DEF q, conn, c
  <2>4. Added(p.groups, conn, c) \in Seq(Seq(Literals))
    <3>1. CASE p.groups = <<>> \/ conn = "OR"
      BY <3>1, <2>2, <2>3, AddedApart
    <3>2. CASE p.groups # <<>> /\ conn = "AND"
      BY <3>2, <2>2, <2>3, AddedBeside DEF Beside
    <3> QED BY <3>1, <3>2, <2>2
  <2> QED BY <1>2, <2>1, <2>2, <2>4 DEF Parsing, q, conn, c
<1>3. CASE p.expect # "error" /\ ~ (p.count < MaxClauses)
  <2>1. q = [p EXCEPT !.expect = "error"]
    BY <1>3 DEF ReadToken
  <2> HIDE DEF q
  <2> QED BY <1>3, <2>1 DEF Parsing, q
<1> QED BY <1>1, <1>2, <1>3

\* The parser starts as parsers are.
LEMMA NothingParsedTyped == NothingParsed \in Parsing
BY DEF NothingParsed, Parsing

\* The clauses up to a token, and the alternatives closed by then; whether the query is refused.
ClausesTo(tokens, n) == {k \in 1..n : IsAt(tokens, k, "clause")}
CountTo(tokens, n) == Cardinality(ClausesTo(tokens, n))
ClosedAt(tokens, n, S) ==
    \E a, b : Adjacent(tokens, a, b) /\ b <= n /\ S = LitsIn(tokens, a, b)
Refused(tokens, n) ==
    (\E k \in 1..n : ~Fits(tokens, k)) \/ CountTo(tokens, n) > MaxClauses
\* An alternative begins after token cur, or with the query.
Begins(tokens, n, cur) ==
    /\ cur \in 0..n /\ (cur = 0 \/ IsAt(tokens, cur, "OR"))
    /\ \A k \in cur + 1..n : ~IsAt(tokens, k, "OR")
\* The alternative that stands is empty as yet, or it is the last of those parsed.
Standing(tokens, n, p, cur) ==
    /\ Begins(tokens, n, cur)
    /\ LitsIn(tokens, cur, n + 1) = {} =>
          /\ \A S : InGroups(p.groups, Len(p.groups), S) <=> ClosedAt(tokens, n, S)
          /\ cur = 0 => p.groups = <<>>
          /\ cur # 0 => p.conn = "OR" /\ p.expect = "clause"
    /\ LitsIn(tokens, cur, n + 1) # {} =>
          /\ p.groups # <<>>
          /\ \A S : InGroups(p.groups, Len(p.groups) - 1, S) <=> ClosedAt(tokens, n, S)
          /\ LastGroup(p.groups) = LitsIn(tokens, cur, n + 1)
          /\ p.expect = "clause" => p.conn = "AND"
\* What the parser expects, and how it stands, told by the token it has just read.
Reading(tokens, n, p) ==
    /\ p.expect = "connective" <=> IsAt(tokens, n, "clause")
    /\ p.not <=> IsAt(tokens, n, "NOT")
    /\ p.count = CountTo(tokens, n)
    /\ \E cur \in Nat : Standing(tokens, n, p, cur)
\* The invariant of the parser after n tokens.
ParsedTo(tokens, n, p) ==
    /\ p \in Parsing
    /\ p.expect = "error" <=> Refused(tokens, n)
    /\ p.expect # "error" => Reading(tokens, n, p)

\* One token more: the clauses counted,
LEMMA CountStep ==
    ASSUME NEW tokens \in Texts, NEW m \in Nat
    PROVE  /\ CountTo(tokens, m) \in Nat
           /\ IsAt(tokens, m + 1, "clause") => CountTo(tokens, m + 1) = CountTo(tokens, m) + 1
           /\ ~IsAt(tokens, m + 1, "clause") => CountTo(tokens, m + 1) = CountTo(tokens, m)
<1> DEFINE A == ClausesTo(tokens, m)
           B == ClausesTo(tokens, m + 1)
<1>1. IsFiniteSet(A) /\ Cardinality(A) \in Nat
  BY CountedTo, FS_Subset, FS_CardinalityType DEF ClausesTo
<1>2. CASE IsAt(tokens, m + 1, "clause")
  <2>1. B = A \cup {m + 1} /\ m + 1 \notin A
    BY <1>2 DEF ClausesTo
  <2>2. Cardinality(B) = Cardinality(A) + 1
    BY <1>1, <2>1, FS_AddElement
  <2> QED BY <1>1, <1>2, <2>2 DEF CountTo
<1>3. CASE ~IsAt(tokens, m + 1, "clause")
  BY <1>3, <1>1 DEF ClausesTo, CountTo
<1> QED BY <1>2, <1>3

\* the clauses of the alternative that stands,
LEMMA LitsStep ==
    ASSUME NEW tokens \in Texts, NEW m \in Nat, NEW cur \in 0..m
    PROVE  /\ IsAt(tokens, m + 1, "clause") =>
                 LitsIn(tokens, cur, m + 1 + 1) =
                     LitsIn(tokens, cur, m + 1) \cup {LitAt(tokens, m + 1)}
           /\ ~IsAt(tokens, m + 1, "clause") =>
                 LitsIn(tokens, cur, m + 1 + 1) = LitsIn(tokens, cur, m + 1)
<1>1. cur + 1..m + 1 + 1 - 1 = (cur + 1..m + 1 - 1) \cup {m + 1}
  OBVIOUS
<1> DEFINE K == cur + 1..m + 1 - 1
           f(k) == LitAt(tokens, k)
           P(k) == IsAt(tokens, k, "clause")
<1>2. /\ LitsIn(tokens, cur, m + 1 + 1) = {f(k) : k \in {j \in K \cup {m + 1} : P(j)}}
      /\ LitsIn(tokens, cur, m + 1) = {f(k) : k \in {j \in K : P(j)}}
  BY <1>1 DEF LitsIn
<1> HIDE DEF K, f, P
<1>3. {f(k) : k \in {j \in K \cup {m + 1} : P(j)}} =
          {f(k) : k \in {j \in K : P(j)}} \cup (IF P(m + 1) THEN {f(m + 1)} ELSE {})
  OBVIOUS
<1> QED BY <1>2, <1>3 DEF P, f

\* whether the query is refused,
LEMMA RefusedStep ==
    ASSUME NEW tokens \in Texts, NEW m \in Nat
    PROVE  Refused(tokens, m + 1) <=>
              \/ Refused(tokens, m) \/ ~Fits(tokens, m + 1)
              \/ CountTo(tokens, m + 1) > MaxClauses
<1>1. /\ CountTo(tokens, m) \in Nat /\ CountTo(tokens, m + 1) \in Nat
      /\ CountTo(tokens, m) <= CountTo(tokens, m + 1)
  BY CountStep
<1>2. \A k : k \in 1..m + 1 <=> k \in 1..m \/ k = m + 1
  OBVIOUS
<1>3. MaxClauses \in Nat
  BY InventoryAssumption
<1>4. (\E k \in 1..m + 1 : ~Fits(tokens, k)) <=> (\E k \in 1..m : ~Fits(tokens, k)) \/ ~Fits(tokens, m + 1)
  BY <1>2
<1>5. CountTo(tokens, m) > MaxClauses => CountTo(tokens, m + 1) > MaxClauses
  BY <1>1, <1>3
<1> QED BY <1>4, <1>5 DEF Refused

\* The alternative that ends at the next token is the one that stands.
LEMMA BeginsOnce ==
    ASSUME NEW tokens \in Texts, NEW m \in Nat, m <= Len(tokens), NEW cur, Begins(tokens, m, cur),
           NEW a, Adjacent(tokens, a, m + 1)
    PROVE  a = cur
<1>1. Len(tokens) \in Nat /\ m + 1 - 1 = m
  BY TokenWords
<1>2. cur \in 0..m /\ \A k \in cur + 1..m : ~IsAt(tokens, k, "OR")
  BY DEF Begins
<1>3. /\ a \in 0..Len(tokens) + 1 /\ a < m + 1 /\ Bound(tokens, a)
      /\ \A k \in a + 1..m : ~IsAt(tokens, k, "OR")
  BY <1>1 DEF Adjacent
<1>4. ~ (a < cur)
  <2> SUFFICES ASSUME a < cur PROVE FALSE
    OBVIOUS
  <2>1. cur \in a + 1..m /\ cur # 0
    BY <1>1, <1>2, <1>3
  <2>2. IsAt(tokens, cur, "OR")
    BY <2>1 DEF Begins
  <2> QED BY <2>1, <2>2, <1>3
<1>5. ~ (cur < a)
  <2> SUFFICES ASSUME cur < a PROVE FALSE
    OBVIOUS
  <2>1. a \in cur + 1..m /\ a # 0 /\ a # Len(tokens) + 1
    BY <1>1, <1>2, <1>3
  <2>2. IsAt(tokens, a, "OR")
    BY <2>1, <1>3 DEF Bound
  <2> QED BY <2>1, <2>2, <1>2
<1> QED BY <1>1, <1>2, <1>3, <1>4, <1>5

\* and it does end there.
LEMMA BeginsAdjacent ==
    ASSUME NEW tokens \in Texts, NEW m \in Nat, m <= Len(tokens), NEW cur, Begins(tokens, m, cur),
           Bound(tokens, m + 1)
    PROVE  Adjacent(tokens, cur, m + 1)
<1>1. Len(tokens) \in Nat /\ m + 1 - 1 = m
  BY TokenWords
<1>2. cur \in 0..m /\ Bound(tokens, cur) /\ \A k \in cur + 1..m : ~IsAt(tokens, k, "OR")
  BY DEF Begins, Bound
<1>3. cur \in 0..Len(tokens) + 1 /\ m + 1 \in 0..Len(tokens) + 1 /\ cur < m + 1
  BY <1>1, <1>2
<1> QED BY <1>1, <1>2, <1>3 DEF Adjacent

\* the alternatives that are closed: only an OR closes one.
LEMMA ClosedStep ==
    ASSUME NEW tokens \in Texts, NEW m \in Nat, m < Len(tokens), NEW S
    PROVE  /\ ~IsAt(tokens, m + 1, "OR") => (ClosedAt(tokens, m + 1, S) <=> ClosedAt(tokens, m, S))
           /\ \A cur : IsAt(tokens, m + 1, "OR") /\ Begins(tokens, m, cur) =>
                 (ClosedAt(tokens, m + 1, S) <=>
                     ClosedAt(tokens, m, S) \/ S = LitsIn(tokens, cur, m + 1))
<1>0. Len(tokens) \in Nat
  BY TokenWords
<1>1. ClosedAt(tokens, m, S) => ClosedAt(tokens, m + 1, S)
  <2> SUFFICES ASSUME NEW a, NEW b, Adjacent(tokens, a, b), b <= m, S = LitsIn(tokens, a, b)
               PROVE  ClosedAt(tokens, m + 1, S)
    BY DEF ClosedAt
  <2>1. b \in 0..Len(tokens) + 1
    BY DEF Adjacent
  <2>2. b <= m + 1
    BY <2>1, <1>0
  <2> QED BY <2>2 DEF ClosedAt
<1>2. ASSUME ~IsAt(tokens, m + 1, "OR"), ClosedAt(tokens, m + 1, S) PROVE ClosedAt(tokens, m, S)
  <2>1. PICK a, b : Adjacent(tokens, a, b) /\ b <= m + 1 /\ S = LitsIn(tokens, a, b)
    BY <1>2 DEF ClosedAt
  <2>2. b # m + 1
    BY <2>1, <1>0, <1>2 DEF Adjacent, Bound
  <2>3. b <= m
    BY <2>1, <2>2, <1>0 DEF Adjacent
  <2> QED BY <2>1, <2>3 DEF ClosedAt
<1>3. ASSUME NEW cur, IsAt(tokens, m + 1, "OR"), Begins(tokens, m, cur)
      PROVE  ClosedAt(tokens, m + 1, S) <=>
                 ClosedAt(tokens, m, S) \/ S = LitsIn(tokens, cur, m + 1)
  <2>1. m <= Len(tokens)
    BY <1>0
  <2>2. Adjacent(tokens, cur, m + 1)
    BY <2>1, <1>3, BeginsAdjacent DEF Bound
  <2>3. S = LitsIn(tokens, cur, m + 1) => ClosedAt(tokens, m + 1, S)
    BY <2>2 DEF ClosedAt
  <2>4. ASSUME ClosedAt(tokens, m + 1, S), S # LitsIn(tokens, cur, m + 1)
        PROVE  ClosedAt(tokens, m, S)
    <3>1. PICK a, b : Adjacent(tokens, a, b) /\ b <= m + 1 /\ S = LitsIn(tokens, a, b)
      BY <2>4 DEF ClosedAt
    <3>2. b # m + 1
      BY <3>1, <2>1, <2>4, <1>3, BeginsOnce
    <3>3. b \in Nat
      BY <3>1, <1>0 DEF Adjacent
    <3>4. b <= m
      BY <3>1, <3>2, <3>3
    <3> QED BY <3>1, <3>4 DEF ClosedAt
  <2> QED BY <2>3, <2>4, <1>1
<1> QED BY <1>1, <1>2, <1>3

\* The invariant holds before the first token.
LEMMA NothingParsedReads ==
    ASSUME NEW tokens \in Texts
    PROVE  ParsedTo(tokens, 0, NothingParsed)
<1> DEFINE p == NothingParsed
<1>0. Len(tokens) \in Nat /\ MaxClauses \in Nat
  BY TokenWords, InventoryAssumption
<1>1. p \in Parsing
  BY NothingParsedTyped
<1>2. CountTo(tokens, 0) = 0
  BY FS_EmptySet DEF ClausesTo, CountTo
<1>3. ~Refused(tokens, 0)
  BY <1>0, <1>2 DEF Refused
<1>4. \A word : ~IsAt(tokens, 0, word)
  BY DEF IsAt
<1>5. p.expect = "clause" /\ p.not = FALSE /\ p.count = 0 /\ p.groups = <<>>
  BY DEF NothingParsed
<1>6. Standing(tokens, 0, p, 0)
  <2>1. Begins(tokens, 0, 0)
    BY DEF Begins
  <2>2. LitsIn(tokens, 0, 0 + 1) = {}
    BY DEF LitsIn
  <2>3. ASSUME NEW S PROVE ~InGroups(p.groups, Len(p.groups), S) /\ ~ClosedAt(tokens, 0, S)
    BY <1>5, <1>0 DEF Adjacent, InGroups, ClosedAt
  <2> HIDE DEF p
  <2> QED BY <2>1, <2>2, <2>3, <1>5 DEF Standing
<1> HIDE DEF p
<1>7. Reading(tokens, 0, p)
  BY <1>2, <1>4, <1>5, <1>6 DEF Reading
<1> QED BY <1>1, <1>3, <1>5, <1>7 DEF ParsedTo, p

\* AND goes on with the alternative that stands, OR closes it; both need a clause before them.
LEMMA AndOrKeeps ==
    ASSUME NEW tokens \in Texts, NEW m \in Nat, m < Len(tokens), NEW p, ParsedTo(tokens, m, p),
           tokens[m + 1].word \in {"AND", "OR"}
    PROVE  ParsedTo(tokens, m + 1, ReadToken(p, tokens[m + 1]))
<1> DEFINE token == tokens[m + 1]
           q == ReadToken(p, token)
<1>0. Len(tokens) \in Nat /\ MaxClauses \in Nat /\ m + 1 \in 1..Len(tokens) /\ m + 1 - 1 = m
  BY TokenWords, InventoryAssumption
<1>1. p \in Parsing
  BY DEF ParsedTo
<1>2. /\ IsAt(tokens, m + 1, "AND") \/ IsAt(tokens, m + 1, "OR")
      /\ ~IsAt(tokens, m + 1, "NOT") /\ ~IsAt(tokens, m + 1, "clause")
  BY <1>0 DEF IsAt
<1>3. /\ q \in Parsing
      /\ p.expect = "connective" =>
            /\ q.conn = token.word /\ q.expect = "clause"
            /\ q.groups = p.groups /\ q.not = p.not /\ q.count = p.count
      /\ p.expect # "connective" => q.expect = "error"
  BY <1>1, ReadsAndOr
<1> HIDE DEF q
<1>4. Fits(tokens, m + 1) <=> IsAt(tokens, m, "clause")
  BY <1>0, <1>2 DEF Fits
<1>5. CountTo(tokens, m + 1) = CountTo(tokens, m) /\ CountTo(tokens, m) \in Nat
  BY <1>2, CountStep
<1>6. Refused(tokens, m + 1) <=> Refused(tokens, m) \/ ~IsAt(tokens, m, "clause")
  BY <1>4, <1>5, RefusedStep DEF Refused
<1>7. CASE p.expect # "connective"
  BY <1>6, <1>7, <1>3 DEF ParsedTo, Reading, q
<1>8. CASE p.expect = "connective"
  <2>1. Reading(tokens, m, p) /\ ~Refused(tokens, m)
    BY <1>8 DEF ParsedTo
  <2>2. IsAt(tokens, m, "clause") /\ ~p.not /\ p.count = CountTo(tokens, m)
    BY <2>1, <1>8, OneWord DEF Reading
  <2>3. PICK cur \in Nat : Standing(tokens, m, p, cur)
    BY <2>1 DEF Reading
  <2>4. Begins(tokens, m, cur) /\ cur \in 0..m
    BY <2>3 DEF Standing, Begins
  <2>5. LitsIn(tokens, cur, m + 1) # {}
    <3> SUFFICES ASSUME LitsIn(tokens, cur, m + 1) = {} PROVE FALSE
      OBVIOUS
    <3>1. cur = 0
      BY <2>3, <1>8 DEF Standing
    <3>2. m \in 1..m
      BY <2>2 DEF IsAt
    <3>3. m \in cur + 1..m + 1 - 1
      BY <3>1, <3>2
    <3>4. LitAt(tokens, m) \in LitsIn(tokens, cur, m + 1)
      BY <3>3, <2>2 DEF LitsIn
    <3> QED BY <3>4
  <2>6. /\ p.groups # <<>> /\ LastGroup(p.groups) = LitsIn(tokens, cur, m + 1)
        /\ \A S : InGroups(p.groups, Len(p.groups) - 1, S) <=> ClosedAt(tokens, m, S)
    BY <2>3, <2>5 DEF Standing
  <2>7. \E c \in Nat : Standing(tokens, m + 1, q, c)
    <3>1. CASE token.word = "AND"
      <4>1. ~IsAt(tokens, m + 1, "OR")
        BY <3>1 DEF IsAt
      <4>2. Begins(tokens, m + 1, cur)
        BY <2>4, <4>1 DEF Begins
      <4>3. LitsIn(tokens, cur, m + 1 + 1) = LitsIn(tokens, cur, m + 1)
        BY <1>2, <2>4, LitsStep
      <4>4. \A S : ClosedAt(tokens, m + 1, S) <=> ClosedAt(tokens, m, S)
        BY <4>1, ClosedStep
      <4> HIDE DEF token
      <4>5. Standing(tokens, m + 1, q, cur)
        BY <4>2, <4>3, <4>4, <2>5, <2>6, <1>3, <1>8, <3>1 DEF Standing
      <4> QED BY <4>5
    <3>2. CASE token.word = "OR"
      <4>1. IsAt(tokens, m + 1, "OR")
        BY <3>2, <1>0 DEF IsAt
      <4>2. Begins(tokens, m + 1, m + 1)
        BY <4>1 DEF Begins
      <4>3. LitsIn(tokens, m + 1, m + 1 + 1) = {}
        BY DEF LitsIn
      <4>4. ASSUME NEW S
            PROVE  ClosedAt(tokens, m + 1, S) <=>
                       ClosedAt(tokens, m, S) \/ S = LitsIn(tokens, cur, m + 1)
        BY <4>1, <2>4, ClosedStep
      <4>5. ASSUME NEW S
            PROVE  InGroups(p.groups, Len(p.groups), S) <=>
                       InGroups(p.groups, Len(p.groups) - 1, S) \/ S = LastGroup(p.groups)
        <5>1. p.groups \in Seq(Seq(Literals)) /\ Len(p.groups) \in Nat \ {0}
          BY <2>6, <1>1 DEF Parsing
        <5>2. \A i : i \in 1..Len(p.groups) <=> i \in 1..(Len(p.groups) - 1) \/ i = Len(p.groups)
          BY <5>1
        <5> QED BY <5>2 DEF InGroups, LastGroup
      <4>6. \A S : InGroups(q.groups, Len(q.groups), S) <=> ClosedAt(tokens, m + 1, S)
        BY <4>4, <4>5, <2>6, <1>3, <1>8
      <4>7. m + 1 \in Nat /\ m + 1 # 0
        OBVIOUS
      <4> HIDE DEF token
      <4>8. q.conn = "OR" /\ q.expect = "clause"
        BY <1>3, <1>8, <3>2
      <4>9. Standing(tokens, m + 1, q, m + 1)
        BY <4>2, <4>3, <4>6, <4>7, <4>8 DEF Standing
      <4> QED BY <4>7, <4>9
    <3> QED BY <3>1, <3>2
  <2> HIDE DEF token
  <2>8. Reading(tokens, m + 1, q)
    BY <2>2, <2>7, <1>2, <1>3, <1>5, <1>8 DEF Reading
  <2>9. ~Refused(tokens, m + 1)
    BY <2>1, <2>2, <1>6
  <2> QED BY <2>8, <2>9, <1>3, <1>8 DEF ParsedTo, q, token
<1> QED BY <1>7, <1>8

\* NOT goes on with the alternative that stands, and may not follow itself.
LEMMA NotKeeps ==
    ASSUME NEW tokens \in Texts, NEW m \in Nat, m < Len(tokens), NEW p, ParsedTo(tokens, m, p),
           tokens[m + 1].word = "NOT"
    PROVE  ParsedTo(tokens, m + 1, ReadToken(p, tokens[m + 1]))
<1> DEFINE token == tokens[m + 1]
           q == ReadToken(p, token)
<1>0. Len(tokens) \in Nat /\ MaxClauses \in Nat /\ m + 1 \in 1..Len(tokens) /\ m + 1 - 1 = m
  BY TokenWords, InventoryAssumption
<1>1. p \in Parsing
  BY DEF ParsedTo
<1>2. /\ IsAt(tokens, m + 1, "NOT") /\ ~IsAt(tokens, m + 1, "AND")
      /\ ~IsAt(tokens, m + 1, "OR") /\ ~IsAt(tokens, m + 1, "clause")
  BY <1>0 DEF IsAt
<1>3. /\ q \in Parsing
      /\ p.expect # "error" /\ ~p.not =>
            /\ q.conn = (IF p.expect = "connective" THEN "AND" ELSE p.conn)
            /\ q.expect = "clause" /\ q.not /\ q.groups = p.groups /\ q.count = p.count
      /\ p.expect = "error" \/ p.not => q.expect = "error"
  BY <1>1, ReadsNot
<1> HIDE DEF q
<1>4. Fits(tokens, m + 1) <=> ~IsAt(tokens, m, "NOT")
  BY <1>0, <1>2 DEF Fits
<1>5. CountTo(tokens, m + 1) = CountTo(tokens, m) /\ CountTo(tokens, m) \in Nat
  BY <1>2, CountStep
<1>6. Refused(tokens, m + 1) <=> Refused(tokens, m) \/ IsAt(tokens, m, "NOT")
  BY <1>4, <1>5, RefusedStep DEF Refused
<1>7. CASE p.expect = "error" \/ p.not
  BY <1>6, <1>7, <1>3 DEF ParsedTo, Reading, q
<1>8. CASE p.expect # "error" /\ ~p.not
  <2>1. Reading(tokens, m, p) /\ ~Refused(tokens, m)
    BY <1>8 DEF ParsedTo
  <2>2. ~IsAt(tokens, m, "NOT") /\ p.count = CountTo(tokens, m)
    BY <2>1, <1>8 DEF Reading
  <2>3. PICK cur \in Nat : Standing(tokens, m, p, cur)
    BY <2>1 DEF Reading
  <2>4. Begins(tokens, m, cur) /\ cur \in 0..m
    BY <2>3 DEF Standing, Begins
  <2>5. Begins(tokens, m + 1, cur)
    BY <2>4, <1>2 DEF Begins
  <2>6. LitsIn(tokens, cur, m + 1 + 1) = LitsIn(tokens, cur, m + 1)
    BY <1>2, <2>4, LitsStep
  <2>7. \A S : ClosedAt(tokens, m + 1, S) <=> ClosedAt(tokens, m, S)
    BY <1>2, ClosedStep
  <2> HIDE DEF token
  <2>8. p.expect = "clause" \/ p.expect = "connective"
    BY <1>1, <1>8 DEF Parsing
  <2>9. Standing(tokens, m + 1, q, cur)
    <3>1. CASE LitsIn(tokens, cur, m + 1) = {}
      <4>1. cur # 0 => q.conn = "OR"
        BY <3>1, <2>3, <1>3, <1>8 DEF Standing
      <4> QED BY <4>1, <3>1, <2>3, <2>5, <2>6, <2>7, <1>3, <1>8 DEF Standing
    <3>2. CASE LitsIn(tokens, cur, m + 1) # {}
      <4>1. q.conn = "AND"
        BY <3>2, <2>3, <2>8, <1>3, <1>8 DEF Standing
      <4> QED BY <4>1, <3>2, <2>3, <2>5, <2>6, <2>7, <1>3, <1>8 DEF Standing
    <3> QED BY <3>1, <3>2
  <2>10. Reading(tokens, m + 1, q)
    BY <2>2, <2>9, <1>2, <1>3, <1>5, <1>8 DEF Reading
  <2>11. ~Refused(tokens, m + 1)
    BY <2>1, <2>2, <1>6
  <2> QED BY <2>10, <2>11, <1>3, <1>8 DEF ParsedTo, q, token
<1> QED BY <1>7, <1>8

\* A clause is added to the alternative that stands, or begins it.
LEMMA ClauseKeeps ==
    ASSUME NEW tokens \in Texts, NEW m \in Nat, m < Len(tokens), NEW p, ParsedTo(tokens, m, p),
           tokens[m + 1].word = "clause"
    PROVE  ParsedTo(tokens, m + 1, ReadToken(p, tokens[m + 1]))
<1> DEFINE token == tokens[m + 1]
           q == ReadToken(p, token)
           conn == IF p.expect = "connective" THEN "AND" ELSE p.conn
           c == [atom |-> token.atom, negated |-> (token.negated # p.not)]
<1>0. Len(tokens) \in Nat /\ MaxClauses \in Nat /\ m + 1 \in 1..Len(tokens) /\ m + 1 - 1 = m
  BY TokenWords, InventoryAssumption
<1>1. p \in Parsing
  BY DEF ParsedTo
<1>2. /\ IsAt(tokens, m + 1, "clause") /\ ~IsAt(tokens, m + 1, "AND")
      /\ ~IsAt(tokens, m + 1, "OR") /\ ~IsAt(tokens, m + 1, "NOT")
  BY <1>0 DEF IsAt
<1>3. /\ q \in Parsing
      /\ p.expect # "error" /\ p.count < MaxClauses =>
            /\ q.conn = conn /\ q.expect = "connective" /\ ~q.not
            /\ q.groups = Added(p.groups, conn, c) /\ q.count = p.count + 1
      /\ p.expect = "error" \/ ~ (p.count < MaxClauses) => q.expect = "error"
  BY <1>0, TokenWords, <1>1, ReadsClause
<1>4. Fits(tokens, m + 1)
  BY <1>2 DEF Fits
<1>5. CountTo(tokens, m + 1) = CountTo(tokens, m) + 1 /\ CountTo(tokens, m) \in Nat
  BY <1>2, CountStep
<1>6. Refused(tokens, m + 1) <=> Refused(tokens, m) \/ CountTo(tokens, m) + 1 > MaxClauses
  BY <1>4, <1>5, RefusedStep
<1>7. CASE p.expect = "error" \/ ~ (p.count < MaxClauses)
  <2>1. Refused(tokens, m + 1)
    <3>1. CASE p.expect = "error"
      BY <3>1, <1>6 DEF ParsedTo
    <3>2. CASE p.expect # "error"
      BY <3>2, <1>7, <1>0, <1>5, <1>6 DEF ParsedTo, Reading
    <3> QED BY <3>1, <3>2
  <2> HIDE DEF q, conn, c
  <2> QED BY <2>1, <1>3, <1>7 DEF ParsedTo, q
<1>8. CASE p.expect # "error" /\ p.count < MaxClauses
  <2>1. Reading(tokens, m, p) /\ ~Refused(tokens, m)
    BY <1>8 DEF ParsedTo
  <2>2. (p.not <=> IsAt(tokens, m, "NOT")) /\ p.count = CountTo(tokens, m)
        /\ p.groups \in Seq(Seq(Literals)) /\ p.not \in BOOLEAN
    BY <2>1, <1>1 DEF Reading, Parsing
  <2>3. PICK cur \in Nat : Standing(tokens, m, p, cur)
    BY <2>1 DEF Reading
  <2>4. Begins(tokens, m, cur) /\ cur \in 0..m
    BY <2>3 DEF Standing, Begins
  <2>5. Begins(tokens, m + 1, cur)
    BY <2>4, <1>2 DEF Begins
  <2>6. c = LitAt(tokens, m + 1) /\ c \in Literals
    <3>1. c = LitAt(tokens, m + 1)
      BY <2>2, <1>0 DEF IsAt, LitAt
    <3>2. LitAt(tokens, m + 1) \in Literals
      BY <1>0, <1>2, LitAtTyped
    <3> QED BY <3>1, <3>2
  <2>7. LitsIn(tokens, cur, m + 1 + 1) = LitsIn(tokens, cur, m + 1) \cup {c}
    BY <1>2, <2>4, <2>6, LitsStep
  <2>8. \A S : ClosedAt(tokens, m + 1, S) <=> ClosedAt(tokens, m, S)
    BY <1>2, ClosedStep
  <2> HIDE DEF token, c, conn, q
  <2>9. q.expect = "connective" /\ q.groups = Added(p.groups, conn, c)
    BY <1>3, <1>8
  <2>10. Standing(tokens, m + 1, q, cur)
    <3>1. CASE LitsIn(tokens, cur, m + 1) = {}
      <4>1. p.groups = <<>> \/ conn = "OR"
        BY <3>1, <2>3 DEF Standing, conn
      <4>2. /\ \A S : InGroups(q.groups, Len(q.groups) - 1, S) <=>
                         InGroups(p.groups, Len(p.groups), S)
            /\ q.groups # <<>> /\ LastGroup(q.groups) = {c}
        BY <4>1, <2>2, <2>6, <2>9, AddedApart
      <4>3. \A S : InGroups(p.groups, Len(p.groups), S) <=> ClosedAt(tokens, m, S)
        BY <3>1, <2>3 DEF Standing
      <4>4. LitsIn(tokens, cur, m + 1 + 1) = {c}
        BY <3>1, <2>7
      <4> QED BY <4>2, <4>3, <4>4, <2>5, <2>8, <2>9 DEF Standing
    <3>2. CASE LitsIn(tokens, cur, m + 1) # {}
      <4>1. p.groups # <<>> /\ LastGroup(p.groups) = LitsIn(tokens, cur, m + 1)
            /\ (p.expect = "clause" => p.conn = "AND")
            /\ \A S : InGroups(p.groups, Len(p.groups) - 1, S) <=> ClosedAt(tokens, m, S)
        BY <3>2, <2>3 DEF Standing
      <4>2. conn = "AND"
        BY <4>1, <1>1, <1>8 DEF conn, Parsing
      <4>3. /\ \A S : InGroups(q.groups, Len(q.groups) - 1, S) <=>
                         InGroups(p.groups, Len(p.groups) - 1, S)
            /\ q.groups # <<>> /\ LastGroup(q.groups) = LastGroup(p.groups) \cup {c}
        <5>1. Beside(p.groups, c, q.groups)
          BY <4>1, <4>2, <2>2, <2>6, <2>9, AddedBeside
        <5> QED BY <5>1 DEF Beside
      <4>4. LitsIn(tokens, cur, m + 1 + 1) # {}
        BY <2>7
      <4> QED BY <4>1, <4>3, <4>4, <2>5, <2>7, <2>8, <2>9 DEF Standing
    <3> QED BY <3>1, <3>2
  <2>11. Reading(tokens, m + 1, q)
    BY <2>2, <2>10, <1>2, <1>3, <1>5, <1>8 DEF Reading
  <2>12. ~Refused(tokens, m + 1)
    BY <2>1, <2>2, <1>0, <1>5, <1>6, <1>8
  <2> QED BY <2>9, <2>11, <2>12, <1>3, <1>8 DEF ParsedTo, q, token
<1> QED BY <1>7, <1>8

\* Reading any token keeps the invariant.
LEMMA ReadTokenKeeps ==
    ASSUME NEW tokens \in Texts, NEW n \in 1..Len(tokens), NEW p, ParsedTo(tokens, n - 1, p)
    PROVE  ParsedTo(tokens, n, ReadToken(p, tokens[n]))
<1>1. PICK m \in Nat : m < Len(tokens) /\ m + 1 = n /\ n - 1 = m
  BY TokenWords
<1>2. tokens[n].word \in {"AND", "OR", "NOT", "clause"}
  BY TokenWords
<1> QED BY <1>1, <1>2, AndOrKeeps, NotKeeps, ClauseKeeps

\* Whatever is read, the parser stays as parsers are.
LEMMA ReadTokenTyped ==
    ASSUME NEW tokens \in Texts, NEW n \in 1..Len(tokens), NEW p \in Parsing
    PROVE  ReadToken(p, tokens[n]) \in Parsing
<1>1. /\ tokens[n].word \in {"AND", "OR", "NOT", "clause"}
      /\ tokens[n].word = "clause" => tokens[n].atom \in Atoms /\ tokens[n].negated \in BOOLEAN
  BY TokenWords
<1> DEFINE token == tokens[n]
<1> HIDE DEF token
<1>2. CASE token.word \in {"AND", "OR"}
  BY <1>2, ReadsAndOr DEF token
<1>3. CASE token.word = "NOT"
  BY <1>3, ReadsNot DEF token
<1>4. CASE token.word = "clause"
  BY <1>1, <1>4, ReadsClause DEF token
<1> QED BY <1>1, <1>2, <1>3, <1>4 DEF token

\* Parsing is reading the tokens, one after another.
LEMMA ParseFollows ==
    ASSUME NEW tokens \in Texts
    PROVE  \E after :
              /\ Parse(tokens) = (IF after[Len(tokens)].expect = "connective"
                                  THEN after[Len(tokens)].groups ELSE BadQuery)
              /\ after[0] = NothingParsed
              /\ \A n \in 1..Len(tokens) : after[n] = ReadToken(after[n - 1], tokens[n])
<1> DEFINE N == Len(tokens)
           z == NothingParsed
           F(n, p) == ReadToken(p, tokens[n])
           Body(h) == [n \in 0..N |-> IF n = 0 THEN z ELSE F(n, h[n - 1])]
           g == CHOOSE h : h = Body(h)
           step == [n \in Nat |-> [p \in Parsing |-> IF n \in 1..N THEN F(n, p) ELSE p]]
<1>1. N \in Nat
  BY TokenWords
<1>2. step \in [Nat -> [Parsing -> Parsing]]
  <2>1. ASSUME NEW n \in Nat, NEW p \in Parsing
        PROVE  (IF n \in 1..N THEN F(n, p) ELSE p) \in Parsing
    BY ReadTokenTyped
  <2> HIDE DEF F
  <2> QED BY <2>1
<1>3. \A n \in 1..N : \A p \in Parsing : step[n][p] = F(n, p)
  <2> HIDE DEF F
  <2> QED BY <1>1
<1>4. z \in Parsing
  BY NothingParsedTyped
<1>5. Parse(tokens) = IF g[N].expect = "connective" THEN g[N].groups ELSE BadQuery
  BY DEF Texts, Parse, N, F
<1> HIDE DEF step, F, z, N
<1>6. PICK h : Iterated(h, N, Parsing, z, step)
  BY <1>1, <1>2, <1>4, Recursion
<1>7. /\ h \in [0..N -> Parsing] /\ h[0] = z
      /\ \A i \in 1..N : h[i] = step[i][h[i - 1]]
  BY <1>6 DEF Iterated
<1>8. h = Body(h)
  <2>1. ASSUME NEW n \in 0..N
        PROVE  h[n] = IF n = 0 THEN z ELSE F(n, h[n - 1])
    <3>1. CASE n = 0
      BY <3>1, <1>7
    <3>2. CASE n # 0
      BY <3>2, <1>1, <1>3, <1>7
    <3> QED BY <3>1, <3>2
  <2> QED BY <2>1, <1>7
<1>9. g = Body(g)
  BY <1>8
<1> HIDE DEF g
<1>10. g[0] = z
  BY <1>9, <1>1
<1>11. ASSUME NEW n \in 1..N PROVE g[n] = F(n, g[n - 1])
  BY <1>9, <1>1
<1> QED BY <1>5, <1>10, <1>11 DEF N, F, z

\* The row of which the atoms in truth are true is selected.
Chosen(groups, truth) == LET Condition(atom) == Is(atom \in truth) IN Selected(groups, Condition)

\* What the SQL of parsed alternatives selects: the rows of which one alternative is satisfied.
LEMMA SelectedIs ==
    ASSUME NEW groups \in Seq(Seq(Literals)), groups # <<>>, NEW truth
    PROVE  Chosen(groups, truth) <=>
               \E S : InGroups(groups, Len(groups), S) /\ \A l \in S : Satisfied(l, truth)
<1> DEFINE Condition(atom) == Is(atom \in truth)
           f(l) == IF l.negated THEN Not(Condition(l.atom)) ELSE Condition(l.atom)
           clauses(n) == {f(groups[n][m]) : m \in DOMAIN groups[n]}
           alternatives == {Every(clauses(n)) : n \in DOMAIN groups}
<1>1. Chosen(groups, truth) <=> Some(alternatives) = "true"
  BY DEF Chosen, Selected
<1>2. DOMAIN groups = 1..Len(groups) /\ \A n \in 1..Len(groups) : groups[n] \in Seq(Literals)
  OBVIOUS
<1>3. ASSUME NEW l \in Literals PROVE f(l) \in Sql /\ (f(l) = "true" <=> Satisfied(l, truth))
  <2>1. l.negated \in BOOLEAN
    BY DEF Literals
  <2>2. (l.atom \in truth) \in BOOLEAN
    OBVIOUS
  <2>3. /\ Condition(l.atom) \in Sql
        /\ Condition(l.atom) = "true" <=> l.atom \in truth
        /\ Condition(l.atom) = "false" <=> ~ (l.atom \in truth)
    BY <2>2, IsIs
  <2> HIDE DEF Condition
  <2>4. CASE l.negated
    BY <2>3, <2>4, NotIs DEF Satisfied
  <2>5. CASE ~l.negated
    BY <2>1, <2>3, <2>5 DEF Satisfied
  <2> QED BY <2>4, <2>5
<1> HIDE DEF f
<1>4. ASSUME NEW n \in 1..Len(groups)
      PROVE  /\ Every(clauses(n)) \in Sql
             /\ Every(clauses(n)) = "true" <=> \A l \in ToSet(groups[n]) : Satisfied(l, truth)
  <2> DEFINE s == groups[n]
  <2>1. s \in Seq(Literals)
    BY <1>2
  <2> HIDE DEF s
  <2>2. \A m \in DOMAIN s : s[m] \in Literals
    BY <2>1
  <2>3. clauses(n) = {f(s[m]) : m \in DOMAIN s}
    BY DEF s
  <2>4. clauses(n) \in SUBSET Sql
    BY <2>2, <2>3, <1>3
  <2>5. (\A a \in clauses(n) : a = "true") <=> \A m \in DOMAIN s : Satisfied(s[m], truth)
    BY <2>2, <2>3, <1>3
  <2>6. (\A m \in DOMAIN s : Satisfied(s[m], truth)) <=> \A l \in ToSet(s) : Satisfied(l, truth)
    BY DEF ToSet
  <2> HIDE DEF clauses
  <2> QED BY <2>4, <2>5, <2>6, EveryIs DEF s
<1> HIDE DEF clauses
<1>5. alternatives \in SUBSET Sql
  BY <1>2, <1>4
<1>6. Some(alternatives) = "true" <=> "true" \in alternatives
  BY <1>5, SomeIs
<1>7. "true" \in alternatives <=>
          \E n \in 1..Len(groups) : \A l \in ToSet(groups[n]) : Satisfied(l, truth)
  BY <1>2, <1>4
<1> HIDE DEF alternatives
<1> QED BY <1>1, <1>6, <1>7 DEF InGroups

\* A query of any length is refused exactly when its grammar or its size says so, and selects
\* the rows of which one of its alternatives holds.
LEMMA QueriesRead ==
    ASSUME NEW tokens \in Texts
    PROVE  /\ Parse(tokens) = BadQuery <=> ~WellFormed(tokens) \/ ClauseCount(tokens) > MaxClauses
           /\ Parse(tokens) # BadQuery => \A truth :
                 Chosen(Parse(tokens), truth) <=> \E part \in Between(tokens) : Holds(part, truth)
<1> DEFINE N == Len(tokens)
<1>0. N \in Nat \ {0} /\ MaxClauses \in Nat
  BY TokenWords, InventoryAssumption
<1>1. PICK after :
          /\ Parse(tokens) = (IF after[N].expect = "connective" THEN after[N].groups ELSE BadQuery)
          /\ after[0] = NothingParsed
          /\ \A n \in 1..N : after[n] = ReadToken(after[n - 1], tokens[n])
  BY ParseFollows
<1> DEFINE I == {n \in 0..N : ParsedTo(tokens, n, after[n])}
           end == after[N]
           groups == end.groups
<1>2. ParsedTo(tokens, N, end)
  <2>1. 0 \in I
    BY <1>0, <1>1, NothingParsedReads
  <2>2. \A n \in 1..N : n - 1 \in I => n \in I
    BY <1>1, ReadTokenKeeps
  <2> HIDE DEF I
  <2>3. \A n \in 0..N : n \in I
    BY <1>0, <2>1, <2>2, Upward
  <2>4. N \in I
    BY <1>0, <2>3
  <2> QED BY <2>4 DEF I
<1> HIDE DEF I
<1>3. end.expect = "connective" <=> ~Refused(tokens, N) /\ IsAt(tokens, N, "clause")
  <2> HIDE DEF end
  <2> QED BY <1>2 DEF ParsedTo, Reading
<1>4. ClauseCount(tokens) = CountTo(tokens, N)
  <2>1. {n \in DOMAIN tokens : tokens[n].word = "clause"} = ClausesTo(tokens, N)
    BY TokenWords DEF ClausesTo, IsAt
  <2> QED BY <2>1 DEF ClauseCount, CountTo
<1>5. groups \in Seq(Seq(Literals)) /\ groups # BadQuery
  <2>1. groups \in Seq(Seq(Literals))
    <3> HIDE DEF end
    <3> QED BY <1>2 DEF ParsedTo, Parsing
  <2> HIDE DEF groups
  <2> QED BY <2>1, InventoryAssumption DEF Literals
<1>6. Parse(tokens) = BadQuery <=> ~WellFormed(tokens) \/ ClauseCount(tokens) > MaxClauses
  <2>1. Parse(tokens) = BadQuery <=> end.expect # "connective"
    BY <1>1, <1>5
  <2> HIDE DEF end
  <2> QED BY <2>1, <1>3, <1>4, WellFormedIs DEF Refused
<1>7. ASSUME Parse(tokens) # BadQuery, NEW truth
      PROVE  Chosen(Parse(tokens), truth) <=> \E part \in Between(tokens) : Holds(part, truth)
  <2>1. Parse(tokens) = groups /\ end.expect = "connective"
    BY <1>1, <1>7
  <2> HIDE DEF end
  <2>2. Reading(tokens, N, end) /\ IsAt(tokens, N, "clause")
    BY <2>1, <1>2, <1>3 DEF ParsedTo
  <2>3. PICK cur \in Nat : Standing(tokens, N, end, cur)
    BY <2>2 DEF Reading
  <2>4. Begins(tokens, N, cur) /\ cur \in 0..N
    BY <2>3 DEF Standing, Begins
  <2>5. cur # N
    BY <2>2, <2>4, <1>0, OneWord DEF Begins
  <2>6. LitsIn(tokens, cur, N + 1) # {}
    BY <2>4, <2>5, <1>0, <2>2 DEF LitsIn
  <2>7. /\ groups # <<>> /\ LastGroup(groups) = LitsIn(tokens, cur, N + 1)
        /\ \A S : InGroups(groups, Len(groups) - 1, S) <=> ClosedAt(tokens, N, S)
    BY <2>3, <2>6 DEF Standing
  <2>8. Adjacent(tokens, cur, N + 1)
    BY <1>0, <2>4, BeginsAdjacent DEF Bound
  <2>9. ASSUME NEW S
        PROVE  InGroups(groups, Len(groups), S) <=>
                   \E a, b : Adjacent(tokens, a, b) /\ S = LitsIn(tokens, a, b)
    <3> HIDE DEF groups
    <3>1. Len(groups) \in Nat \ {0}
      BY <1>5, <2>7
    <3>2. \A i : i \in 1..Len(groups) <=> i \in 1..Len(groups) - 1 \/ i = Len(groups)
      BY <3>1
    <3>3. InGroups(groups, Len(groups), S) <=>
              ClosedAt(tokens, N, S) \/ S = LitsIn(tokens, cur, N + 1)
      BY <3>2, <2>7 DEF InGroups, LastGroup
    <3>4. ASSUME NEW a, NEW b, Adjacent(tokens, a, b), S = LitsIn(tokens, a, b)
          PROVE  ClosedAt(tokens, N, S) \/ S = LitsIn(tokens, cur, N + 1)
      <4>1. CASE b <= N
        BY <4>1, <3>4 DEF ClosedAt
      <4>2. CASE b = N + 1
        BY <1>0, <4>2, <3>4, <2>4, BeginsOnce
      <4>3. b \in 0..N + 1
        BY <3>4 DEF Adjacent
      <4> QED BY <4>1, <4>2, <4>3, <1>0
    <3> QED BY <3>3, <3>4, <2>8 DEF ClosedAt
  <2>10. Chosen(groups, truth) <=>
             \E S : InGroups(groups, Len(groups), S) /\ \A l \in S : Satisfied(l, truth)
    BY <1>5, <2>7, SelectedIs
  <2>11. (\E S : InGroups(groups, Len(groups), S) /\ \A l \in S : Satisfied(l, truth)) <=>
             \E a, b : Adjacent(tokens, a, b) /\ \A l \in LitsIn(tokens, a, b) : Satisfied(l, truth)
    BY <2>9
  <2>12. (\E part \in Between(tokens) : Holds(part, truth)) <=>
             \E a, b : Adjacent(tokens, a, b) /\ Holds(Part(tokens, a, b), truth)
    <3>1. \A part : part \in Between(tokens) <=>
              \E a, b : Adjacent(tokens, a, b) /\ part = Part(tokens, a, b)
      BY BetweenIs DEF Part
    <3> QED BY <3>1
  <2>13. \A a, b : Adjacent(tokens, a, b) =>
             (Holds(Part(tokens, a, b), truth) <=>
                 \A l \in LitsIn(tokens, a, b) : Satisfied(l, truth))
    BY HoldsIs
  <2> QED BY <2>1, <2>10, <2>11, <2>12, <2>13
<1> QED BY <1>6, <1>7

\* A query means what it reads, whatever its length, the atoms it names, the connectives it
\* leaves out and however its signs combine.
THEOREM QueriesMean == QueryMeansWhatItReads
<1>1. ASSUME NEW tokens \in Queries \ {<<>>} PROVE tokens \in Texts
  <2>1. PICK n \in 0..MaxTokens : tokens \in [1..n -> Tokens]
    BY DEF Queries
  <2>2. n \in Nat
    BY <2>1, InventoryAssumption
  <2> QED BY <2>1, <2>2 DEF Texts
<1>2. ASSUME NEW groups, NEW truth PROVE Chosen(groups, truth) \in BOOLEAN
  BY DEF Chosen, Selected
<1>3. ASSUME NEW tokens \in Queries \ {<<>>}
      PROVE  LET groups == Parse(tokens) IN
             /\ groups = BadQuery <=> ~WellFormed(tokens) \/ ClauseCount(tokens) > MaxClauses
             /\ groups # BadQuery => \A truth \in SUBSET Atoms :
                   LET Condition(atom) == Is(atom \in truth) IN
                   Selected(groups, Condition) = (\E part \in Between(tokens) : Holds(part, truth))
  <2> DEFINE groups == Parse(tokens)
  <2>1. tokens \in Texts
    BY <1>1
  <2>2. groups = BadQuery <=> ~WellFormed(tokens) \/ ClauseCount(tokens) > MaxClauses
    BY <2>1, QueriesRead
  <2>3. ASSUME NEW truth \in SUBSET Atoms, groups # BadQuery
        PROVE  LET Condition(atom) == Is(atom \in truth) IN
               Selected(groups, Condition) = (\E part \in Between(tokens) : Holds(part, truth))
    <3> DEFINE b == \E part \in Between(tokens) : Holds(part, truth)
    <3>1. b \in BOOLEAN
      OBVIOUS
    <3>2. Chosen(groups, truth) <=> b
      BY <2>1, <2>3, QueriesRead
    <3> HIDE DEF b, groups
    <3>3. Chosen(groups, truth) = b
      BY <3>1, <3>2, <1>2
    <3> QED BY <3>3 DEF Chosen, b
  <2> QED BY <2>2, <2>3
<1> QED BY <1>3 DEF QueryMeansWhatItReads

-----------------------------------------------------------------------------
(* Records: what the merges of a sequence share                            *)

\* Two iterations that agree at the start and then step alike agree at the end.
Alike(a, b, N) == a[0] = b[0] /\ \A i \in 1..N : a[i - 1] = b[i - 1] => a[i] = b[i]

LEMMA Agrees ==
    ASSUME NEW N \in Nat, NEW a, NEW b, Alike(a, b, N)
    PROVE  \A i \in 0..N : a[i] = b[i]
<1> DEFINE I == {n \in 0..N : a[n] = b[n]}
<1>1. 0 \in I
  BY DEF Alike
<1>2. ASSUME NEW n \in 1..N, n - 1 \in I PROVE n \in I
  BY <1>2 DEF Alike
<1> HIDE DEF I
<1>3. \A n \in 0..N : n \in I
  BY <1>1, <1>2, Upward
<1> QED BY <1>3 DEF I

\* g[0], g[1], ... are what is left of z after each record of t; the table gives the merge
\* of a row and a record.
Merging(g, table, S, z, t) ==
    /\ g \in [0..Len(t) -> S] /\ g[0] = z
    /\ \A i \in 1..Len(t) : g[i] = table[g[i - 1]][t[i]]

LEMMA MergingExists ==
    ASSUME NEW S, NEW T, NEW table \in [S -> [T -> S]], NEW z \in S, NEW t \in Seq(T)
    PROVE  \E g : Merging(g, table, S, z, t)
<1> DEFINE N == Len(t)
           step == [i \in Nat |-> [x \in S |-> IF i \in 1..N THEN table[x][t[i]] ELSE x]]
<1>1. N \in Nat
  OBVIOUS
<1>2. step \in [Nat -> [S -> S]]
  <2>1. ASSUME NEW i \in Nat, NEW x \in S
        PROVE  (IF i \in 1..N THEN table[x][t[i]] ELSE x) \in S
    <3>1. CASE i \in 1..N
      BY <3>1
    <3> QED BY <3>1
  <2> QED BY <2>1
<1>3. \A i \in 1..N : \A x \in S : step[i][x] = table[x][t[i]]
  BY <1>1
<1> HIDE DEF step
<1>4. PICK g : Iterated(g, N, S, z, step)
  BY <1>1, <1>2, Recursion
<1>5. /\ g \in [0..N -> S] /\ g[0] = z
      /\ \A i \in 1..N : g[i] = step[i][g[i - 1]]
  BY <1>4 DEF Iterated
<1>6. ASSUME NEW i \in 1..N PROVE g[i] = table[g[i - 1]][t[i]]
  <2>1. i - 1 \in 0..N
    BY <1>1
  <2> QED BY <2>1, <1>3, <1>5
<1> QED BY <1>5, <1>6 DEF Merging

LEMMA MergingParts ==
    ASSUME NEW S, NEW T, NEW table, NEW z \in S, NEW t \in Seq(T), NEW g, Merging(g, table, S, z, t)
    PROVE  /\ Len(t) \in Nat /\ g \in [0..Len(t) -> S] /\ g[0] = z
           /\ \A i \in 1..Len(t) : /\ g[i] = table[g[i - 1]][t[i]]
                                  /\ g[i - 1] \in S /\ t[i] \in T
<1> DEFINE N == Len(t)
<1>1. N \in Nat /\ \A i \in 1..N : t[i] \in T
  OBVIOUS
<1>2. g \in [0..N -> S] /\ g[0] = z /\ \A i \in 1..N : g[i] = table[g[i - 1]][t[i]]
  BY DEF Merging
<1> HIDE DEF N
<1>3. \A i \in 1..N : i - 1 \in 0..N
  BY <1>1
<1> QED BY <1>1, <1>2, <1>3 DEF N

\* Records that leave a row as it is leave it as it is one after the other.
LEMMA Unmoved ==
    ASSUME NEW S, NEW T, NEW table \in [S -> [T -> S]], NEW z \in S, NEW t \in Seq(T),
           NEW g, Merging(g, table, S, z, t), \A i \in 1..Len(t) : table[z][t[i]] = z
    PROVE  g[Len(t)] = z
<1> DEFINE N == Len(t)
           still == [i \in 0..N |-> z]
<1>1. N \in Nat
  OBVIOUS
<1>2. g[0] = z /\ \A i \in 1..N : g[i] = table[g[i - 1]][t[i]]
  BY DEF Merging
<1>3. \A i \in 1..N : table[z][t[i]] = z
  OBVIOUS
<1> HIDE DEF N
<1>4. ASSUME NEW i \in 1..N, g[i - 1] = still[i - 1] PROVE g[i] = still[i]
  <2>1. still[i - 1] = z /\ still[i] = z
    BY <1>1
  <2> HIDE DEF still
  <2> QED BY <2>1, <1>2, <1>3, <1>4
<1>5. still[0] = z /\ still[N] = z
  BY <1>1
<1> HIDE DEF still
<1>6. \A i \in 0..N : g[i] = still[i]
  <2>1. g[0] = still[0]
    BY <1>2, <1>5
  <2>2. \A i \in 1..N : g[i - 1] = still[i - 1] => g[i] = still[i]
    BY <1>4
  <2>3. Alike(g, still, N)
    BY <2>1, <2>2 DEF Alike
  <2> QED BY <1>1, <2>3, Agrees
<1>7. N \in 0..N
  BY <1>1
<1> QED BY <1>5, <1>6, <1>7 DEF N

\* f[1], f[2], ... are what the first, the first two, ... records of a sequence make.
Folding(f, table, S, said) ==
    /\ f \in [1..Len(said) -> S] /\ f[1] = said[1]
    /\ \A k \in 2..Len(said) : f[k] = table[f[k - 1]][said[k]]

Sequences(S) == {said \in Seq(S) : said # <<>>}

LEMMA SequencesNonempty ==
    ASSUME NEW S, NEW said \in SequencesUpTo(S)
    PROVE  said \in Sequences(S)
<1>1. PICK n \in 1..MaxObservations : said \in [1..n -> S]
  BY DEF SequencesUpTo
<1>2. n \in Nat \ {0}
  BY <1>1, RecordAssumption
<1>3. said \in Seq(S) /\ Len(said) = n
  BY <1>1, <1>2
<1> QED BY <1>2, <1>3 DEF Sequences

LEMMA SequenceParts ==
    ASSUME NEW S, NEW said \in Sequences(S)
    PROVE  /\ Len(said) \in Nat \ {0} /\ said \in [1..Len(said) -> S]
           /\ Head(said) = said[1] /\ Head(said) \in S
           /\ Tail(said) \in Seq(S) /\ Len(Tail(said)) = Len(said) - 1
           /\ \A i \in 1..Len(said) - 1 : Tail(said)[i] = said[i + 1]
BY DEF Sequences

LEMMA SuffixOf ==
    ASSUME NEW S, NEW said \in Sequences(S), NEW n \in 1..Len(said)
    PROVE  /\ SubSeq(said, n, Len(said)) \in Seq(S)
           /\ Len(SubSeq(said, n, Len(said))) = Len(said) - n + 1
           /\ \A i \in 1..Len(said) - n + 1 : SubSeq(said, n, Len(said))[i] = said[n + i - 1]
BY DEF Sequences

LEMMA SuffixUnmoved ==
    ASSUME NEW S, NEW table \in [S -> [S -> S]], NEW z \in S, NEW said \in Sequences(S),
           \A i \in 1..Len(said) : table[z][said[i]] = z, NEW n \in 1..Len(said)
    PROVE  /\ SubSeq(said, n, Len(said)) \in Seq(S)
           /\ \A g : Merging(g, table, S, z, SubSeq(said, n, Len(said)))
                      => g[Len(SubSeq(said, n, Len(said)))] = z
<1> DEFINE t == SubSeq(said, n, Len(said))
<1>1. Len(said) \in Nat
  BY SequenceParts
<1>2. t \in Seq(S) /\ \A i \in 1..Len(t) : t[i] = said[n + i - 1] /\ n + i - 1 \in 1..Len(said)
  BY <1>1, SuffixOf
<1> HIDE DEF t
<1>3. \A i \in 1..Len(t) : table[z][t[i]] = z
  BY <1>2
<1>4. \A g : Merging(g, table, S, z, t) => g[Len(t)] = z
  BY <1>2, <1>3, Unmoved
<1> QED BY <1>2, <1>4 DEF t

\* Merging the rest into the first gives such a fold.
LEMMA MergingFolds ==
    ASSUME NEW S, NEW table \in [S -> [S -> S]], NEW said \in Sequences(S),
           NEW g, Merging(g, table, S, Head(said), Tail(said))
    PROVE  /\ Folding([k \in 1..Len(said) |-> g[k - 1]], table, S, said)
           /\ g[Len(Tail(said))] = [k \in 1..Len(said) |-> g[k - 1]][Len(said)]
<1> DEFINE N == Len(said)
           f == [k \in 1..N |-> g[k - 1]]
<1>1. /\ N \in Nat \ {0} /\ Head(said) = said[1] /\ Len(Tail(said)) = N - 1
      /\ \A i \in 1..N - 1 : Tail(said)[i] = said[i + 1]
  BY SequenceParts
<1>2. g \in [0..N - 1 -> S] /\ g[0] = said[1]
  BY <1>1 DEF Merging
<1>3. ASSUME NEW k \in 2..N PROVE f[k] = table[f[k - 1]][said[k]]
  BY <1>1 DEF Merging
<1>4. f \in [1..N -> S] /\ f[1] = said[1] /\ f[N] = g[N - 1]
  BY <1>1, <1>2
<1> QED BY <1>1, <1>3, <1>4 DEF Folding

\* What holds of the first record and is kept by each one that follows holds of the whole.
LEMMA FoldingKeeps ==
    ASSUME NEW N \in Nat \ {0}, NEW I, 1 \in I, \A k \in 2..N : k - 1 \in I => k \in I
    PROVE  \A k \in 1..N : k \in I
<1> DEFINE J == {i \in 0..N - 1 : i + 1 \in I}
<1>1. 0 \in J /\ N - 1 \in Nat
  OBVIOUS
<1>2. ASSUME NEW i \in 1..N - 1, i - 1 \in J PROVE i \in J
  BY <1>2
<1> HIDE DEF J
<1>3. \A i \in 0..N - 1 : i \in J
  BY <1>1, <1>2, Upward
<1>4. ASSUME NEW k \in 1..N PROVE k \in I
  BY <1>3 DEF J
<1> QED BY <1>4

\* A merge whose result already says what was merged, and stays so whatever is merged later.
Absorbing(table, S) ==
    /\ \A x \in S : table[x][x] = x
    /\ \A x, y \in S : table[table[x][y]][y] = table[x][y]
    /\ \A x, y, s \in S : table[x][s] = x => table[table[x][y]][s] = table[x][y]

LEMMA FoldAbsorbs ==
    ASSUME NEW S, NEW table \in [S -> [S -> S]], Absorbing(table, S),
           NEW said \in Sequences(S), NEW f, Folding(f, table, S, said)
    PROVE  \A i \in 1..Len(said) : table[f[Len(said)]][said[i]] = f[Len(said)]
<1> DEFINE N == Len(said)
           Absorbed(k) == \A i \in 1..k : table[f[k]][said[i]] = f[k]
           I == {k \in 1..N : Absorbed(k)}
<1>1. N \in Nat \ {0} /\ said \in [1..N -> S]
  BY SequenceParts
<1>2. f \in [1..N -> S] /\ f[1] = said[1] /\ \A k \in 2..N : f[k] = table[f[k - 1]][said[k]]
  BY DEF Folding
<1> HIDE DEF N
<1>3. 1 \in I
  BY <1>1, <1>2 DEF Absorbing
<1>4. ASSUME NEW k \in 2..N, k - 1 \in I PROVE k \in I
  <2> DEFINE x == f[k - 1]
             y == said[k]
  <2>1. x \in S /\ y \in S /\ f[k] = table[x][y] /\ k \in 1..N
    BY <1>1, <1>2
  <2>2. ASSUME NEW i \in 1..k PROVE table[f[k]][said[i]] = f[k]
    <3>1. CASE i = k
      BY <3>1, <2>1 DEF Absorbing
    <3>2. CASE i # k
      <4>1. i \in 1..k - 1 /\ said[i] \in S
        BY <3>2, <1>1
      <4>2. table[x][said[i]] = x
        BY <4>1, <1>4
      <4> HIDE DEF x, y
      <4>3. table[table[x][y]][said[i]] = table[x][y]
        BY <4>1, <4>2, <2>1 DEF Absorbing
      <4> QED BY <4>3, <2>1
    <3> QED BY <3>1, <3>2
  <2> QED BY <2>1, <2>2
<1> HIDE DEF I
<1>5. \A k \in 1..N : k \in I
  BY <1>1, <1>3, <1>4, FoldingKeeps
<1>6. N \in I
  BY <1>1, <1>5
<1> QED BY <1>6 DEF I, N

-----------------------------------------------------------------------------
(* Records: the access level of a share                                    *)

Seeable  == {"read_file", "list", "tree_connect"}
Accesses == {Access(raw) : raw \in [level : LevelSet, observed : SUBSET Seeable]}

LEMMA LevelRanks ==
    /\ LevelSet = {"unknown", "no_access", "list_only", "readable"}
    /\ LevelRank("unknown") = 1 /\ LevelRank("no_access") = 2
    /\ LevelRank("list_only") = 3 /\ LevelRank("readable") = 4
<1>1. /\ Levels[1] = "unknown" /\ Levels[2] = "no_access"
      /\ Levels[3] = "list_only" /\ Levels[4] = "readable"
  BY DEF Levels
<1>2. \A n \in 1..4 : n = 1 \/ n = 2 \/ n = 3 \/ n = 4
  OBVIOUS
<1>3. LevelSet = {"unknown", "no_access", "list_only", "readable"}
  BY <1>1, <1>2 DEF LevelSet
<1>4. ASSUME NEW n \in 1..4 PROVE LevelRank(Levels[n]) = n
  BY <1>1, <1>2 DEF LevelRank
<1> QED BY <1>1, <1>3, <1>4

\* The stronger of two levels, and what observations make of one, in cases.
LEMMA StrongerIs ==
    ASSUME NEW a \in LevelSet, NEW b \in LevelSet
    PROVE  Stronger(a, b) =
              IF "readable" \in {a, b} THEN "readable" ELSE IF "list_only" \in {a, b} THEN "list_only"
              ELSE IF "no_access" \in {a, b} THEN "no_access" ELSE "unknown"
BY LevelRanks DEF Stronger

LEMMA ReconciledIs ==
    ASSUME NEW l \in LevelSet, NEW observed
    PROVE  /\ Reconciled(l, observed) \in LevelSet
           /\ Reconciled(l, observed) =
                 IF "read_file" \in observed \/ l = "readable" THEN "readable"
                 ELSE IF "list" \in observed \/ l = "list_only" THEN "list_only"
                 ELSE IF l = "no_access" /\ observed = {} THEN "no_access" ELSE "unknown"
<1>1. /\ "readable" \in LevelSet /\ "list_only" \in LevelSet
      /\ LevelSet = {"unknown", "no_access", "list_only", "readable"}
  BY LevelRanks
<1>2. /\ Stronger(l, "readable") = "readable"
      /\ Stronger(l, "list_only") = IF l = "readable" THEN "readable" ELSE "list_only"
  BY <1>1, StrongerIs
<1> QED BY <1>1, <1>2 DEF Reconciled

LEMMA AccessIs ==
    ASSUME NEW x
    PROVE  x \in Accesses <=>
              /\ x \in [level : LevelSet, observed : SUBSET Seeable]
              /\ x.level = Reconciled(x.level, x.observed)
<1>1. ASSUME NEW raw \in [level : LevelSet, observed : SUBSET Seeable]
      PROVE  /\ Access(raw) \in [level : LevelSet, observed : SUBSET Seeable]
             /\ Access(raw).level = Reconciled(Access(raw).level, Access(raw).observed)
  <2> DEFINE l == Reconciled(raw.level, raw.observed)
  <2>1. Access(raw) = [level |-> l, observed |-> raw.observed]
    BY DEF Access
  <2>2. l \in LevelSet /\ Reconciled(l, raw.observed) = l
    BY ReconciledIs
  <2> HIDE DEF l
  <2> QED BY <2>1, <2>2
<1>2. ASSUME x \in [level : LevelSet, observed : SUBSET Seeable],
             x.level = Reconciled(x.level, x.observed)
      PROVE  x = Access(x)
  BY <1>2 DEF Access
<1> QED BY <1>1, <1>2 DEF Accesses

LEMMA AccessTyped == \A x, y \in Accesses : MergeAccess(x, y) \in Accesses
<1> SUFFICES ASSUME NEW x \in Accesses, NEW y \in Accesses PROVE MergeAccess(x, y) \in Accesses
  OBVIOUS
<1>1. /\ x.level \in LevelSet /\ y.level \in LevelSet
      /\ x.observed \cup y.observed \in SUBSET Seeable
  BY AccessIs
<1>2. Stronger(x.level, y.level) \in LevelSet
  BY <1>1 DEF Stronger
<1>3. MergeAccess(x, y) =
         Access([level |-> Stronger(x.level, y.level), observed |-> x.observed \cup y.observed])
  BY DEF MergeAccess, Access
<1> QED BY <1>1, <1>2, <1>3 DEF Accesses

\* The merge as a table, and what merging a sequence by it leaves.
AccessTable == [x \in Accesses |-> [y \in Accesses |-> MergeAccess(x, y)]]

LEMMA AccessTableTyped == AccessTable \in [Accesses -> [Accesses -> Accesses]]
BY AccessTyped DEF AccessTable

LEMMA AccessMerges ==
    ASSUME NEW z \in Accesses, NEW t \in Seq(Accesses)
    PROVE  \E g : Merging(g, AccessTable, Accesses, z, t) /\ MergedInto(MergeAccess, z, t) = g[Len(t)]
<1> DEFINE N == Len(t)
           Body(h) == [n \in 0..N |-> IF n = 0 THEN z ELSE MergeAccess(h[n - 1], t[n])]
           after == CHOOSE h : h = Body(h)
<1>1. PICK g : Merging(g, AccessTable, Accesses, z, t)
  BY AccessTableTyped, MergingExists
<1>2. MergedInto(MergeAccess, z, t) = after[N]
  BY DEF MergedInto
<1>3. /\ N \in Nat /\ g \in [0..N -> Accesses] /\ g[0] = z
      /\ \A i \in 1..N : /\ g[i] = AccessTable[g[i - 1]][t[i]]
                        /\ g[i - 1] \in Accesses /\ t[i] \in Accesses
  BY <1>1, MergingParts
<1> HIDE DEF N
<1>4. \A i \in 1..N : g[i] = MergeAccess(g[i - 1], t[i])
  BY <1>3 DEF AccessTable
<1>5. g = Body(g)
  BY <1>3, <1>4
<1>6. after = Body(after)
  BY <1>5
<1> HIDE DEF after
<1>7. after[0] = z /\ \A i \in 1..N : after[i] = MergeAccess(after[i - 1], t[i])
  BY <1>3, <1>6
<1>8. Alike(after, g, N) /\ N \in 0..N
  BY <1>3, <1>4, <1>7 DEF Alike
<1> QED BY <1>1, <1>2, <1>3, <1>8, Agrees DEF N

LEMMA AccessFolds ==
    ASSUME NEW said \in Sequences(Accesses)
    PROVE  \E f : Folding(f, AccessTable, Accesses, said) /\ Folded(MergeAccess, said) = f[Len(said)]
<1>1. Head(said) \in Accesses /\ Tail(said) \in Seq(Accesses)
  BY SequenceParts
<1>2. PICK g : /\ Merging(g, AccessTable, Accesses, Head(said), Tail(said))
               /\ MergedInto(MergeAccess, Head(said), Tail(said)) = g[Len(Tail(said))]
  BY <1>1, AccessMerges
<1> DEFINE f == [k \in 1..Len(said) |-> g[k - 1]]
<1>3. Folding(f, AccessTable, Accesses, said) /\ g[Len(Tail(said))] = f[Len(said)]
  BY <1>2, AccessTableTyped, MergingFolds
<1> HIDE DEF f
<1>4. Folded(MergeAccess, said) = f[Len(said)]
  BY <1>2, <1>3 DEF Folded
<1> QED BY <1>3, <1>4

\* The level of a merge, in cases.
LEMMA MergedLevel ==
    ASSUME NEW x \in Accesses, NEW y \in Accesses
    PROVE  LET observed == x.observed \cup y.observed IN
           /\ MergeAccess(x, y).observed = observed
           /\ MergeAccess(x, y).level =
                 IF "read_file" \in observed \/ "readable" \in {x.level, y.level} THEN "readable"
                 ELSE IF "list" \in observed \/ "list_only" \in {x.level, y.level} THEN "list_only"
                 ELSE IF "no_access" \in {x.level, y.level} /\ observed = {} THEN "no_access"
                 ELSE "unknown"
<1> DEFINE l == Stronger(x.level, y.level)
           observed == x.observed \cup y.observed
<1>1. x.level \in LevelSet /\ y.level \in LevelSet
  BY AccessIs
<1>2. l = IF "readable" \in {x.level, y.level} THEN "readable"
          ELSE IF "list_only" \in {x.level, y.level} THEN "list_only"
          ELSE IF "no_access" \in {x.level, y.level} THEN "no_access" ELSE "unknown"
  BY <1>1, StrongerIs
<1>3. l \in LevelSet
  BY <1>1 DEF Stronger
<1>4. MergeAccess(x, y) = [level |-> Reconciled(l, observed), observed |-> observed]
  BY DEF MergeAccess
<1>5. Reconciled(l, observed) =
         IF "read_file" \in observed \/ l = "readable" THEN "readable"
         ELSE IF "list" \in observed \/ l = "list_only" THEN "list_only"
         ELSE IF l = "no_access" /\ observed = {} THEN "no_access" ELSE "unknown"
  BY <1>3, ReconciledIs
<1> HIDE DEF l, observed
<1>6. MergeAccess(x, y).observed = observed /\ MergeAccess(x, y).level = Reconciled(l, observed)
  BY <1>4
<1>7. MergeAccess(x, y).level =
         IF "read_file" \in observed \/ "readable" \in {x.level, y.level} THEN "readable"
         ELSE IF "list" \in observed \/ "list_only" \in {x.level, y.level} THEN "list_only"
         ELSE IF "no_access" \in {x.level, y.level} /\ observed = {} THEN "no_access"
         ELSE "unknown"
  BY <1>2, <1>5, <1>6
<1> QED BY <1>6, <1>7 DEF observed

\* The level of an access that was merged or reported, in cases.
LEMMA AccessLevel ==
    ASSUME NEW x \in Accesses
    PROVE  /\ x.level \in {"unknown", "no_access", "list_only", "readable"}
           /\ x = [level |-> x.level, observed |-> x.observed]
           /\ "read_file" \in x.observed => x.level = "readable"
           /\ "list" \in x.observed => x.level \in {"readable", "list_only"}
           /\ x.observed # {} => x.level # "no_access"
<1>1. /\ x \in [level : LevelSet, observed : SUBSET Seeable]
      /\ x.level = Reconciled(x.level, x.observed)
  BY AccessIs
<1>2. x.level \in LevelSet
  BY <1>1
<1>3. x.level = IF "read_file" \in x.observed \/ x.level = "readable" THEN "readable"
                ELSE IF "list" \in x.observed \/ x.level = "list_only" THEN "list_only"
                ELSE IF x.level = "no_access" /\ x.observed = {} THEN "no_access" ELSE "unknown"
  BY <1>1, <1>2, ReconciledIs
<1> QED BY <1>1, <1>2, <1>3, LevelRanks

LEMMA SameAccess ==
    ASSUME NEW x \in Accesses, NEW y \in Accesses, x.level = y.level, x.observed = y.observed
    PROVE  x = y
BY AccessLevel

LEMMA AccessAbsorbs == Absorbing(AccessTable, Accesses)
<1>1. ASSUME NEW x \in Accesses PROVE MergeAccess(x, x) = x
  <2>1. MergeAccess(x, x) \in Accesses
    BY AccessTyped
  <2>2. x.observed \cup x.observed = x.observed /\ {x.level, x.level} = {x.level}
    OBVIOUS
  <2>3. MergeAccess(x, x).observed = x.observed
    BY <2>2, MergedLevel
  <2>4. MergeAccess(x, x).level = x.level
    BY <2>2, MergedLevel, AccessLevel
  <2> QED BY <2>1, <2>3, <2>4, SameAccess
<1>2. ASSUME NEW x \in Accesses, NEW y \in Accesses
      PROVE  MergeAccess(MergeAccess(x, y), y) = MergeAccess(x, y)
  <2> DEFINE z == MergeAccess(x, y)
  <2>1. z \in Accesses /\ MergeAccess(z, y) \in Accesses
    BY AccessTyped
  <2>2. z.observed = x.observed \cup y.observed
    BY MergedLevel
  <2>3. z.level = "readable" \/ y.level # "readable"
    BY MergedLevel
  <2>4. z.level \in {"readable", "list_only"} \/ y.level # "list_only"
    BY MergedLevel
  <2>5. z.observed = {} => z.level = "no_access" \/ z.level \in {"readable", "list_only"}
                           \/ y.level # "no_access"
    BY <2>2, MergedLevel
  <2> HIDE DEF z
  <2>6. MergeAccess(z, y).observed = z.observed
    BY <2>1, <2>2, MergedLevel
  <2>7. MergeAccess(z, y).level = z.level
    BY <2>2, <2>1, <2>3, <2>4, <2>5, MergedLevel, AccessLevel
  <2> QED BY <2>1, <2>6, <2>7, SameAccess DEF z
<1>3. ASSUME NEW x \in Accesses, NEW y \in Accesses, NEW s \in Accesses, MergeAccess(x, s) = x
      PROVE  MergeAccess(MergeAccess(x, y), s) = MergeAccess(x, y)
  <2> DEFINE z == MergeAccess(x, y)
  <2>1. z \in Accesses /\ MergeAccess(z, s) \in Accesses
    BY AccessTyped
  <2>2. z.observed = x.observed \cup y.observed /\ x.observed = x.observed \cup s.observed
    BY <1>3, MergedLevel
  <2>3. (s.level = "readable" => x.level = "readable") /\ (x.level = "readable" => z.level = "readable")
    BY <1>3, MergedLevel
  <2>4. /\ s.level = "list_only" => x.level \in {"readable", "list_only"}
        /\ x.level = "list_only" => z.level \in {"readable", "list_only"}
    BY <1>3, MergedLevel
  <2>5. z.observed = {} => /\ s.level = "no_access" => x.level \in {"readable", "list_only", "no_access"}
                           /\ x.level = "no_access" => z.level # "unknown"
    BY <2>2, <1>3, MergedLevel
  <2> HIDE DEF z
  <2>6. z.observed \cup s.observed = z.observed
    BY <2>2
  <2>7. MergeAccess(z, s).observed = z.observed
    BY <2>1, <2>6, MergedLevel
  <2>8. MergeAccess(z, s).level = z.level
    BY <2>1, <2>3, <2>4, <2>5, <2>6, MergedLevel, AccessLevel
  <2> QED BY <2>1, <2>7, <2>8, SameAccess DEF z
<1>4. \A x, y \in Accesses : AccessTable[x][y] = MergeAccess(x, y)
  BY DEF AccessTable
<1>5. \A x, y \in Accesses : AccessTable[x][y] \in Accesses
  BY <1>4, AccessTyped
<1>6. \A x \in Accesses : AccessTable[x][x] = x
  BY <1>1, <1>4
<1>7. \A x, y \in Accesses : AccessTable[AccessTable[x][y]][y] = AccessTable[x][y]
  BY <1>2, <1>4, <1>5
<1>8. ASSUME NEW x \in Accesses, NEW y \in Accesses, NEW s \in Accesses, AccessTable[x][s] = x
      PROVE  AccessTable[AccessTable[x][y]][s] = AccessTable[x][y]
  BY <1>3, <1>4, <1>5, <1>8
<1> QED BY <1>6, <1>7, <1>8 DEF Absorbing

LEMMA AccessHarmless ==
    ASSUME NEW said \in Sequences(Accesses)
    PROVE  Harmless(MergeAccess, said)
<1>1. PICK f : Folding(f, AccessTable, Accesses, said) /\ Folded(MergeAccess, said) = f[Len(said)]
  BY AccessFolds
<1> DEFINE z == f[Len(said)]
<1>2. DOMAIN said = 1..Len(said) /\ z \in Accesses
  BY <1>1, SequenceParts DEF Folding
<1>4. \A i \in 1..Len(said) : AccessTable[z][said[i]] = z
  BY <1>1, AccessTableTyped, AccessAbsorbs, FoldAbsorbs
<1> HIDE DEF z
<1>3. ASSUME NEW n \in 1..Len(said) PROVE MergedInto(MergeAccess, z, SubSeq(said, n, Len(said))) = z
  <2> DEFINE t == SubSeq(said, n, Len(said))
  <2>1. t \in Seq(Accesses) /\ \A g : Merging(g, AccessTable, Accesses, z, t) => g[Len(t)] = z
    BY <1>2, <1>4, AccessTableTyped, SuffixUnmoved
  <2> HIDE DEF t
  <2>2. MergedInto(MergeAccess, z, t) = z
    BY <1>2, <2>1, AccessMerges
  <2> QED BY <2>2 DEF t
<1> QED BY <1>1, <1>2, <1>3 DEF Harmless, z


\* After each record the level is what was said or seen so far.
SaidBy(said, k) == {said[i].level : i \in 1..k}
SeenBy(said, k) == UNION {said[i].observed : i \in 1..k}
LevelOf(reported, observed) ==
    IF "readable" \in reported \/ "read_file" \in observed THEN "readable"
    ELSE IF "list_only" \in reported \/ "list" \in observed THEN "list_only"
    ELSE IF "no_access" \in reported /\ observed = {} THEN "no_access" ELSE "unknown"

LEMMA AccessFollows ==
    ASSUME NEW said \in Sequences(Accesses), NEW f, Folding(f, AccessTable, Accesses, said)
    PROVE  \A k \in 1..Len(said) : /\ f[k].observed = SeenBy(said, k)
                                   /\ f[k].level = LevelOf(SaidBy(said, k), SeenBy(said, k))
<1> DEFINE N == Len(said)
           Right(k) == /\ f[k].observed = SeenBy(said, k)
                         /\ f[k].level = LevelOf(SaidBy(said, k), SeenBy(said, k))
           I == {k \in 1..N : Right(k)}
<1>1. N \in Nat \ {0} /\ said \in [1..N -> Accesses]
  BY SequenceParts
<1>2. /\ f \in [1..N -> Accesses] /\ f[1] = said[1]
      /\ \A k \in 2..N : f[k] = AccessTable[f[k - 1]][said[k]]
  BY DEF Folding
<1> HIDE DEF N
<1>3. 1 \in I
  BY <1>1, AccessLevel, <1>2 DEF SaidBy, SeenBy, LevelOf
<1>4. ASSUME NEW k \in 2..N, k - 1 \in I PROVE k \in I
  <2> DEFINE x == f[k - 1]
             y == said[k]
  <2>1. k - 1 \in 1..N /\ k \in 1..N /\ 1..k = (1..k - 1) \cup {k}
    BY <1>1
  <2>2. x \in Accesses /\ y \in Accesses /\ f[k] = MergeAccess(x, y)
    BY <2>1, <1>1, <1>2 DEF AccessTable
  <2>3. /\ SaidBy(said, k) = SaidBy(said, k - 1) \cup {y.level}
        /\ SeenBy(said, k) = SeenBy(said, k - 1) \cup y.observed
    BY <2>1 DEF SaidBy, SeenBy
  <2>4. /\ x.observed = SeenBy(said, k - 1)
        /\ x.level = LevelOf(SaidBy(said, k - 1), SeenBy(said, k - 1))
    BY <1>4
  <2> DEFINE reported == SaidBy(said, k - 1)
             observed == SeenBy(said, k - 1)
             all == observed \cup y.observed
  <2>5. /\ f[k].observed = all
        /\ f[k].level = IF "read_file" \in all \/ "readable" \in {x.level, y.level} THEN "readable"
                        ELSE IF "list" \in all \/ "list_only" \in {x.level, y.level} THEN "list_only"
                        ELSE IF "no_access" \in {x.level, y.level} /\ all = {} THEN "no_access"
                        ELSE "unknown"
    BY <2>2, <2>4, MergedLevel
  <2>6. /\ x.level = LevelOf(reported, observed)
        /\ y.level \in {"unknown", "no_access", "list_only", "readable"}
    BY <2>2, <2>4, AccessLevel
  <2>7. all = {} => observed = {}
    OBVIOUS
  <2>8. "read_file" \in observed => "read_file" \in all
    OBVIOUS
  <2>9. "list" \in observed => "list" \in all
    OBVIOUS
  <2> HIDE DEF x, reported, observed, all
  <2>10. f[k].level = LevelOf(reported \cup {y.level}, all)
    BY <2>5, <2>6, <2>7, <2>8, <2>9 DEF LevelOf
  <2> QED BY <2>1, <2>3, <2>5, <2>10 DEF reported, observed, all
<1> HIDE DEF I
<1>5. \A k \in 1..N : k \in I
  BY <1>1, <1>3, <1>4, FoldingKeeps
<1> QED BY <1>5 DEF I, N

\* What is left of the records of a share is the level that was said or seen.
LEMMA AccessesJoin ==
    ASSUME NEW said \in Sequences(Accesses)
    PROVE  /\ Harmless(MergeAccess, said)
           /\ Folded(MergeAccess, said).level =
                 LevelOf({s.level : s \in ToSet(said)}, UNION {s.observed : s \in ToSet(said)})
<1>1. PICK f : /\ Folding(f, AccessTable, Accesses, said)
               /\ Folded(MergeAccess, said) = f[Len(said)]
  BY AccessFolds
<1>2. Len(said) \in Nat \ {0} /\ DOMAIN said = 1..Len(said)
  BY SequenceParts
<1>3. f[Len(said)].level = LevelOf(SaidBy(said, Len(said)), SeenBy(said, Len(said)))
  BY <1>1, <1>2, AccessFollows
<1>4. ToSet(said) = {said[i] : i \in 1..Len(said)}
  BY <1>2 DEF ToSet
<1>5. /\ SaidBy(said, Len(said)) = {s.level : s \in ToSet(said)}
      /\ SeenBy(said, Len(said)) = UNION {s.observed : s \in ToSet(said)}
  BY <1>4 DEF SaidBy, SeenBy
<1> QED BY <1>1, <1>3, <1>5, AccessHarmless

-----------------------------------------------------------------------------
(* Records: exposure, of which the last known value stays                  *)

Exposures == {Nothing, "UNKNOWN", "PRIVATE", "PUBLIC"}

\* A known value is written and is not lost; a row keeps what it makes of an unknown one.
Overwriting(table, S) ==
    /\ \A x, y \in S : y \notin Unsaid => table[x][y] = y
    /\ \A x, y \in S : x \notin Unsaid => table[x][y] \notin Unsaid
    /\ \A x, s \in S : s \in Unsaid => table[s][s] = s /\ table[table[x][s]][s] = table[x][s]
    /\ \A x, y, s \in S : s \in Unsaid /\ table[x][s] = x => table[table[x][y]][s] = table[x][y]

LEMMA FoldOverwrites ==
    ASSUME NEW S, NEW table \in [S -> [S -> S]], Overwriting(table, S),
           NEW said \in Sequences(S), NEW f, Folding(f, table, S, said)
    PROVE  \A i \in 1..Len(said) :
              IF said[i] \in Unsaid THEN table[f[Len(said)]][said[i]] = f[Len(said)]
              ELSE f[Len(said)] \notin Unsaid
<1> DEFINE N == Len(said)
           Told(k, i) == IF said[i] \in Unsaid THEN table[f[k]][said[i]] = f[k]
                         ELSE f[k] \notin Unsaid
           I == {k \in 1..N : \A i \in 1..k : Told(k, i)}
<1>1. N \in Nat \ {0} /\ said \in [1..N -> S]
  BY SequenceParts
<1>2. f \in [1..N -> S] /\ f[1] = said[1] /\ \A k \in 2..N : f[k] = table[f[k - 1]][said[k]]
  BY DEF Folding
<1> HIDE DEF N
<1>3. 1 \in I
  BY <1>1, <1>2 DEF Overwriting
<1>4. ASSUME NEW k \in 2..N, k - 1 \in I PROVE k \in I
  <2> DEFINE x == f[k - 1]
             y == said[k]
  <2>1. x \in S /\ y \in S /\ f[k] = table[x][y] /\ k \in 1..N
    BY <1>1, <1>2
  <2>2. ASSUME NEW i \in 1..k PROVE Told(k, i)
    <3>1. CASE i = k
      <4>1. y \in Unsaid => table[table[x][y]][y] = table[x][y]
        BY <2>1 DEF Overwriting
      <4>2. y \notin Unsaid => table[x][y] = y
        BY <2>1 DEF Overwriting
      <4> HIDE DEF x
      <4> QED BY <4>1, <4>2, <2>1, <3>1
    <3>2. CASE i # k
      <4>1. i \in 1..k - 1 /\ said[i] \in S
        BY <3>2, <1>1
      <4>2. IF said[i] \in Unsaid THEN table[x][said[i]] = x ELSE x \notin Unsaid
        BY <4>1, <1>4
      <4> DEFINE v == said[i]
      <4>3. v \in S
        BY <4>1
      <4> HIDE DEF x, y, v
      <4>4. v \in Unsaid /\ table[x][v] = x => table[table[x][y]][v] = table[x][y]
        BY <2>1, <4>3 DEF Overwriting
      <4>5. x \notin Unsaid => table[x][y] \notin Unsaid
        BY <2>1 DEF Overwriting
      <4>6. IF v \in Unsaid THEN table[table[x][y]][v] = table[x][y]
            ELSE table[x][y] \notin Unsaid
        BY <4>2, <4>4, <4>5 DEF v
      <4> QED BY <4>6, <2>1 DEF v
    <3> QED BY <3>1, <3>2
  <2> QED BY <2>1, <2>2
<1> HIDE DEF I
<1>5. \A k \in 1..N : k \in I
  BY <1>1, <1>3, <1>4, FoldingKeeps
<1>6. N \in I
  BY <1>1, <1>5
<1> QED BY <1>6 DEF I, N

\* Stored again, each record leaves the last value or the one it left the first time.
LEMMA OverwrittenAgain ==
    ASSUME NEW S, NEW table \in [S -> [S -> S]], Overwriting(table, S),
           NEW said \in Sequences(S), NEW f, Folding(f, table, S, said),
           NEW n \in 1..Len(said), NEW g,
           Merging(g, table, S, f[Len(said)], SubSeq(said, n, Len(said)))
    PROVE  g[Len(SubSeq(said, n, Len(said)))] = f[Len(said)]
<1> DEFINE N == Len(said)
           t == SubSeq(said, n, N)
           L == N - n + 1
           z == f[N]
           I == {i \in 0..L : g[i] = z \/ (n + i - 1 \in 1..N /\ g[i] = f[n + i - 1])}
<1>1. N \in Nat \ {0} /\ said \in [1..N -> S]
  BY SequenceParts
<1>2. L \in Nat /\ Len(t) = L /\ \A i \in 1..L : t[i] = said[n + i - 1] /\ n + i - 1 \in 1..N
  BY <1>1, SuffixOf
<1>3. f \in [1..N -> S] /\ f[1] = said[1] /\ \A k \in 2..N : f[k] = table[f[k - 1]][said[k]]
  BY DEF Folding
<1>4. g \in [0..L -> S] /\ g[0] = z /\ \A i \in 1..L : g[i] = table[g[i - 1]][t[i]]
  BY <1>2 DEF Merging
<1>5. \A i \in 1..N : said[i] \in Unsaid => table[z][said[i]] = z
  BY FoldOverwrites
<1>6. z \in S /\ n \in 1..N
  BY <1>1, <1>3
<1> HIDE DEF N, L, t, z
<1>7. 0 \in I
  BY <1>2, <1>4
<1>8. ASSUME NEW i \in 1..L, i - 1 \in I PROVE i \in I
  <2> DEFINE k == n + i - 1
  <2>1. k \in 1..N /\ t[i] = said[k] /\ said[k] \in S /\ n \in Nat
    BY <1>1, <1>2, <1>6
  <2>2. g[i] = table[g[i - 1]][said[k]]
    BY <1>4, <2>1
  <2>3. CASE g[i - 1] = z
    <3>1. CASE said[k] \in Unsaid
      BY <3>1, <2>1, <2>2, <2>3, <1>5
    <3>2. CASE said[k] \notin Unsaid
      <4>1. g[i] = said[k]
        BY <3>2, <2>1, <2>2, <2>3, <1>6 DEF Overwriting
      <4>2. f[k] = said[k]
        <5>1. CASE k = 1
          BY <5>1, <1>3
        <5>2. CASE k # 1
          BY <5>2, <2>1, <1>1, <1>3, <3>2 DEF Overwriting
        <5> QED BY <5>1, <5>2
      <4> QED BY <4>1, <4>2, <2>1
    <3> QED BY <3>1, <3>2
  <2>4. CASE n + (i - 1) - 1 \in 1..N /\ g[i - 1] = f[n + (i - 1) - 1]
    BY <2>1, <2>4, <2>2, <1>3
  <2> QED BY <2>3, <2>4, <1>8
<1>9. \A i \in 0..L : i \in I
  <2> HIDE DEF I
  <2> QED BY <1>2, <1>7, <1>8, Upward
<1>10. n + L - 1 = N
  BY <1>1, <1>6 DEF L
<1>11. g[L] = z
  BY <1>2, <1>9, <1>10 DEF z
<1> QED BY <1>2, <1>11 DEF z, t, N

LEMMA ExposureTyped == \A x, y \in Exposures : MergeExposure(x, y) \in Exposures
BY DEF MergeExposure, Exposures

\* The merge of the exposure of a resource.
ExposureTable == [x \in Exposures |-> [y \in Exposures |-> MergeExposure(x, y)]]

LEMMA ExposureTableTyped == ExposureTable \in [Exposures -> [Exposures -> Exposures]]
BY ExposureTyped DEF ExposureTable

LEMMA ExposureMerges ==
    ASSUME NEW z \in Exposures, NEW t \in Seq(Exposures)
    PROVE  \E g : Merging(g, ExposureTable, Exposures, z, t) /\ MergedInto(MergeExposure, z, t) = g[Len(t)]
<1> DEFINE N == Len(t)
           Body(h) == [n \in 0..N |-> IF n = 0 THEN z ELSE MergeExposure(h[n - 1], t[n])]
           after == CHOOSE h : h = Body(h)
<1>1. PICK g : Merging(g, ExposureTable, Exposures, z, t)
  BY ExposureTableTyped, MergingExists
<1>2. MergedInto(MergeExposure, z, t) = after[N]
  BY DEF MergedInto
<1>3. /\ N \in Nat /\ g \in [0..N -> Exposures] /\ g[0] = z
      /\ \A i \in 1..N : /\ g[i] = ExposureTable[g[i - 1]][t[i]]
                        /\ g[i - 1] \in Exposures /\ t[i] \in Exposures
  BY <1>1, MergingParts
<1> HIDE DEF N
<1>4. \A i \in 1..N : g[i] = MergeExposure(g[i - 1], t[i])
  BY <1>3 DEF ExposureTable
<1>5. g = Body(g)
  BY <1>3, <1>4
<1>6. after = Body(after)
  BY <1>5
<1> HIDE DEF after
<1>7. after[0] = z /\ \A i \in 1..N : after[i] = MergeExposure(after[i - 1], t[i])
  BY <1>3, <1>6
<1>8. Alike(after, g, N) /\ N \in 0..N
  BY <1>3, <1>4, <1>7 DEF Alike
<1> QED BY <1>1, <1>2, <1>3, <1>8, Agrees DEF N

LEMMA ExposureFolds ==
    ASSUME NEW said \in Sequences(Exposures)
    PROVE  \E f : Folding(f, ExposureTable, Exposures, said) /\ Folded(MergeExposure, said) = f[Len(said)]
<1>1. Head(said) \in Exposures /\ Tail(said) \in Seq(Exposures)
  BY SequenceParts
<1>2. PICK g : /\ Merging(g, ExposureTable, Exposures, Head(said), Tail(said))
               /\ MergedInto(MergeExposure, Head(said), Tail(said)) = g[Len(Tail(said))]
  BY <1>1, ExposureMerges
<1> DEFINE f == [k \in 1..Len(said) |-> g[k - 1]]
<1>3. Folding(f, ExposureTable, Exposures, said) /\ g[Len(Tail(said))] = f[Len(said)]
  BY <1>2, ExposureTableTyped, MergingFolds
<1> HIDE DEF f
<1>4. Folded(MergeExposure, said) = f[Len(said)]
  BY <1>2, <1>3 DEF Folded
<1> QED BY <1>3, <1>4

LEMMA ExposureOverwrites == Overwriting(ExposureTable, Exposures)
<1>1. \A x, y \in Exposures : ExposureTable[x][y] = MergeExposure(x, y)
  BY DEF ExposureTable
<1>2. \A x, y \in Exposures : ExposureTable[x][y] \in Exposures
  BY <1>1, ExposureTyped
<1>3. \A x, y \in Exposures : y \notin Unsaid => MergeExposure(x, y) = y
  BY DEF MergeExposure, Unsaid
<1>4. \A x, y \in Exposures : x \notin Unsaid => MergeExposure(x, y) \notin Unsaid
  BY DEF MergeExposure, Unsaid
<1>5. \A x, s \in Exposures : s \in Unsaid => MergeExposure(s, s) = s
                              /\ MergeExposure(MergeExposure(x, s), s) = MergeExposure(x, s)
  BY DEF MergeExposure, Unsaid
<1>6. \A x, y, s \in Exposures :
         s \in Unsaid /\ MergeExposure(x, s) = x => MergeExposure(MergeExposure(x, y), s) = MergeExposure(x, y)
  BY DEF MergeExposure, Unsaid
<1> QED BY <1>1, <1>2, <1>3, <1>4, <1>5, <1>6 DEF Overwriting

LEMMA ExposuresStay ==
    ASSUME NEW said \in Sequences(Exposures)
    PROVE  /\ Harmless(MergeExposure, said)
           /\ \A n \in DOMAIN said : said[n] \notin Unsaid => Folded(MergeExposure, said) \notin Unsaid
<1>1. PICK f : Folding(f, ExposureTable, Exposures, said) /\ Folded(MergeExposure, said) = f[Len(said)]
  BY ExposureFolds
<1> DEFINE N == Len(said)
           z == f[N]
<1>2. N \in Nat \ {0} /\ DOMAIN said = 1..N
  BY SequenceParts
<1>3. z \in Exposures
  BY <1>1, <1>2 DEF Folding
<1>4. \A i \in 1..N : said[i] \notin Unsaid => z \notin Unsaid
  BY <1>1, ExposureTableTyped, ExposureOverwrites, FoldOverwrites
<1>5. ASSUME NEW n \in 1..N
      PROVE  MergedInto(MergeExposure, z, SubSeq(said, n, N)) = z
  <2> DEFINE t == SubSeq(said, n, N)
  <2>1. t \in Seq(Exposures)
    BY <1>2, SuffixOf
  <2>2. PICK g : Merging(g, ExposureTable, Exposures, z, t) /\ MergedInto(MergeExposure, z, t) = g[Len(t)]
    BY <1>3, <2>1, ExposureMerges
  <2>3. g[Len(t)] = z
    BY <1>1, <2>2, ExposureTableTyped, ExposureOverwrites, OverwrittenAgain
  <2> QED BY <2>2, <2>3
<1> QED BY <1>1, <1>2, <1>4, <1>5 DEF Harmless

LEMMA ItemExposureTyped == \A x, y \in Exposures : MergeItemExposure(x, y) \in Exposures
BY DEF MergeItemExposure, Exposures

\* The merge of the exposure of an item.
ItemExposureTable == [x \in Exposures |-> [y \in Exposures |-> MergeItemExposure(x, y)]]

LEMMA ItemExposureTableTyped == ItemExposureTable \in [Exposures -> [Exposures -> Exposures]]
BY ItemExposureTyped DEF ItemExposureTable

LEMMA ItemExposureMerges ==
    ASSUME NEW z \in Exposures, NEW t \in Seq(Exposures)
    PROVE  \E g : Merging(g, ItemExposureTable, Exposures, z, t)
                  /\ MergedInto(MergeItemExposure, z, t) = g[Len(t)]
<1> DEFINE N == Len(t)
           Body(h) == [n \in 0..N |-> IF n = 0 THEN z ELSE MergeItemExposure(h[n - 1], t[n])]
           after == CHOOSE h : h = Body(h)
<1>1. PICK g : Merging(g, ItemExposureTable, Exposures, z, t)
  BY ItemExposureTableTyped, MergingExists
<1>2. MergedInto(MergeItemExposure, z, t) = after[N]
  BY DEF MergedInto
<1>3. /\ N \in Nat /\ g \in [0..N -> Exposures] /\ g[0] = z
      /\ \A i \in 1..N : /\ g[i] = ItemExposureTable[g[i - 1]][t[i]]
                        /\ g[i - 1] \in Exposures /\ t[i] \in Exposures
  BY <1>1, MergingParts
<1> HIDE DEF N
<1>4. \A i \in 1..N : g[i] = MergeItemExposure(g[i - 1], t[i])
  BY <1>3 DEF ItemExposureTable
<1>5. g = Body(g)
  BY <1>3, <1>4
<1>6. after = Body(after)
  BY <1>5
<1> HIDE DEF after
<1>7. after[0] = z /\ \A i \in 1..N : after[i] = MergeItemExposure(after[i - 1], t[i])
  BY <1>3, <1>6
<1>8. Alike(after, g, N) /\ N \in 0..N
  BY <1>3, <1>4, <1>7 DEF Alike
<1> QED BY <1>1, <1>2, <1>3, <1>8, Agrees DEF N

LEMMA ItemExposureFolds ==
    ASSUME NEW said \in Sequences(Exposures)
    PROVE  \E f : Folding(f, ItemExposureTable, Exposures, said)
                  /\ Folded(MergeItemExposure, said) = f[Len(said)]
<1>1. Head(said) \in Exposures /\ Tail(said) \in Seq(Exposures)
  BY SequenceParts
<1>2. PICK g : /\ Merging(g, ItemExposureTable, Exposures, Head(said), Tail(said))
               /\ MergedInto(MergeItemExposure, Head(said), Tail(said)) = g[Len(Tail(said))]
  BY <1>1, ItemExposureMerges
<1> DEFINE f == [k \in 1..Len(said) |-> g[k - 1]]
<1>3. Folding(f, ItemExposureTable, Exposures, said) /\ g[Len(Tail(said))] = f[Len(said)]
  BY <1>2, ItemExposureTableTyped, MergingFolds
<1> HIDE DEF f
<1>4. Folded(MergeItemExposure, said) = f[Len(said)]
  BY <1>2, <1>3 DEF Folded
<1> QED BY <1>3, <1>4

LEMMA ItemExposureOverwrites == Overwriting(ItemExposureTable, Exposures)
<1>1. \A x, y \in Exposures : ItemExposureTable[x][y] = MergeItemExposure(x, y)
  BY DEF ItemExposureTable
<1>2. \A x, y \in Exposures : ItemExposureTable[x][y] \in Exposures
  BY <1>1, ItemExposureTyped
<1>3. \A x, y \in Exposures : y \notin Unsaid => MergeItemExposure(x, y) = y
  BY DEF MergeItemExposure, Unsaid
<1>4. \A x, y \in Exposures : x \notin Unsaid => MergeItemExposure(x, y) \notin Unsaid
  BY DEF MergeItemExposure, Unsaid
<1>5. \A x, s \in Exposures : s \in Unsaid => MergeItemExposure(s, s) = s
                              /\ MergeItemExposure(MergeItemExposure(x, s), s) = MergeItemExposure(x, s)
  BY DEF MergeItemExposure, Unsaid
<1>6. \A x, y, s \in Exposures :
         s \in Unsaid /\ MergeItemExposure(x, s) = x
             => MergeItemExposure(MergeItemExposure(x, y), s) = MergeItemExposure(x, y)
  BY DEF MergeItemExposure, Unsaid
<1> QED BY <1>1, <1>2, <1>3, <1>4, <1>5, <1>6 DEF Overwriting

LEMMA ItemExposuresStay ==
    ASSUME NEW said \in Sequences(Exposures)
    PROVE  /\ Harmless(MergeItemExposure, said)
           /\ \A n \in DOMAIN said : said[n] \notin Unsaid => Folded(MergeItemExposure, said) \notin Unsaid
<1>1. PICK f : Folding(f, ItemExposureTable, Exposures, said) /\ Folded(MergeItemExposure, said) = f[Len(said)]
  BY ItemExposureFolds
<1> DEFINE N == Len(said)
           z == f[N]
<1>2. N \in Nat \ {0} /\ DOMAIN said = 1..N
  BY SequenceParts
<1>3. z \in Exposures
  BY <1>1, <1>2 DEF Folding
<1>4. \A i \in 1..N : said[i] \notin Unsaid => z \notin Unsaid
  BY <1>1, ItemExposureTableTyped, ItemExposureOverwrites, FoldOverwrites
<1>5. ASSUME NEW n \in 1..N
      PROVE  MergedInto(MergeItemExposure, z, SubSeq(said, n, N)) = z
  <2> DEFINE t == SubSeq(said, n, N)
  <2>1. t \in Seq(Exposures)
    BY <1>2, SuffixOf
  <2>2. PICK g : Merging(g, ItemExposureTable, Exposures, z, t)
                 /\ MergedInto(MergeItemExposure, z, t) = g[Len(t)]
    BY <1>3, <2>1, ItemExposureMerges
  <2>3. g[Len(t)] = z
    BY <1>1, <2>2, ItemExposureTableTyped, ItemExposureOverwrites, OverwrittenAgain
  <2> QED BY <2>2, <2>3
<1> QED BY <1>1, <1>2, <1>4, <1>5 DEF Harmless

\* Access levels and exposures are joined in whatever order they are stored.
THEOREM AccessesHold == AccessJoins
<1>1. ASSUME NEW said \in SequencesUpTo({Access(raw) : raw \in [level : LevelSet,
                        observed : SUBSET {"read_file", "list", "tree_connect"}]})
      PROVE  LET reported == {s.level : s \in ToSet(said)}
                 observed == UNION {s.observed : s \in ToSet(said)} IN
             /\ Harmless(MergeAccess, said)
             /\ Folded(MergeAccess, said).level =
                   IF "readable" \in reported \/ "read_file" \in observed THEN "readable"
                   ELSE IF "list_only" \in reported \/ "list" \in observed THEN "list_only"
                   ELSE IF "no_access" \in reported /\ observed = {} THEN "no_access" ELSE "unknown"
  BY SequencesNonempty, AccessesJoin DEF Accesses, Seeable, LevelOf
<1>2. ASSUME NEW said \in SequencesUpTo({Nothing, "UNKNOWN", "PRIVATE", "PUBLIC"})
      PROVE  /\ Harmless(MergeExposure, said) /\ Harmless(MergeItemExposure, said)
             /\ \A n \in DOMAIN said : said[n] \notin Unsaid =>
                   /\ Folded(MergeExposure, said) \notin Unsaid
                   /\ Folded(MergeItemExposure, said) \notin Unsaid
  BY SequencesNonempty, ExposuresStay, ItemExposuresStay DEF Exposures
<1> QED BY <1>1, <1>2 DEF AccessJoins

-----------------------------------------------------------------------------
(* Records: capabilities                                                   *)

Counts == [Outcomes -> 0..OutcomeLimit]
\* What counts alone conclude.
Tested(counts) == Concluded("not_tested", counts)
Seeing(counts, reason) == [conclusion |-> Tested(counts), counts |-> counts, reason |-> reason]
Reasons      == {Nothing, "granted", "refused", "multiple_outcomes"}
Observations ==
    {x \in [conclusion : Conclusions, counts : Counts, reason : Reasons] :
        x.conclusion = Tested(x.counts)}

\* The place of the least number of a set of the first four.
LEMMA FirstOfFour ==
    ASSUME NEW T \in SUBSET (1..4), NEW m \in T, \A n \in 1..m - 1 : n \notin T
    PROVE  Min(T) = m
<1>1. m \in T /\ \A y \in T : m =< y
  BY m \in 1..4
<1>2. \A x \in T : (\A y \in T : x =< y) => x = m
  BY <1>1
<1> QED BY <1>1, <1>2 DEF Min

\* The strongest of some conclusions, in cases.
LEMMA StrongestIs ==
    ASSUME NEW said \in SUBSET Conclusions, said # {}
    PROVE  Strongest(said) =
              IF "mixed" \in said \/ ("allowed" \in said /\ "denied" \in said) THEN "mixed"
              ELSE IF "allowed" \in said THEN "allowed" ELSE IF "denied" \in said THEN "denied"
              ELSE IF "inconclusive" \in said THEN "inconclusive" ELSE "not_tested"
<1> DEFINE order == <<"allowed", "denied", "inconclusive", "not_tested">>
           T == {n \in 1..4 : order[n] \in said}
           mixed == "mixed" \in said \/ ("allowed" \in said /\ "denied" \in said)
<1>1. /\ order[1] = "allowed" /\ order[2] = "denied"
      /\ order[3] = "inconclusive" /\ order[4] = "not_tested"
  OBVIOUS
<1>2. Strongest(said) = IF mixed THEN "mixed" ELSE order[Min(T)]
  BY DEF Strongest
<1> HIDE DEF order
<1>3. /\ T \in SUBSET (1..4)
      /\ 1 \in T <=> "allowed" \in said
      /\ 2 \in T <=> "denied" \in said
      /\ 3 \in T <=> "inconclusive" \in said
      /\ 4 \in T <=> "not_tested" \in said
  BY <1>1
<1>4. ~mixed => 1 \in T \/ 2 \in T \/ 3 \in T \/ 4 \in T
  BY <1>3 DEF Conclusions, Outcomes
<1>5. /\ 1..(1 - 1) = {} /\ 1..(2 - 1) = {1} /\ 1..(3 - 1) = {1, 2} /\ 1..(4 - 1) = {1, 2, 3}
  OBVIOUS
<1> HIDE DEF T, mixed
<1>6. 1 \in T => Min(T) = 1
  BY <1>3, <1>5, FirstOfFour
<1>7. 1 \notin T /\ 2 \in T => Min(T) = 2
  BY <1>3, <1>5, FirstOfFour
<1>8. 1 \notin T /\ 2 \notin T /\ 3 \in T => Min(T) = 3
  BY <1>3, <1>5, FirstOfFour
<1>9. 1 \notin T /\ 2 \notin T /\ 3 \notin T /\ 4 \in T => Min(T) = 4
  BY <1>3, <1>5, FirstOfFour
<1> QED BY <1>1, <1>2, <1>3, <1>4, <1>6, <1>7, <1>8, <1>9 DEF mixed

\* What counts conclude, in cases.
LEMMA TestedIs ==
    ASSUME NEW counts \in [Outcomes -> Nat]
    PROVE  /\ Tested(counts) =
                 IF counts["allowed"] > 0 /\ counts["denied"] > 0 THEN "mixed"
                 ELSE IF counts["allowed"] > 0 THEN "allowed"
                 ELSE IF counts["denied"] > 0 THEN "denied"
                 ELSE IF counts["inconclusive"] > 0 THEN "inconclusive" ELSE "not_tested"
           /\ \A reported : Concluded(reported, counts) =
                 IF \A o \in Outcomes : counts[o] = 0 THEN reported ELSE Tested(counts)
<1> DEFINE counted == {o \in Outcomes : counts[o] > 0}
<1>1. /\ "allowed" \in counted <=> counts["allowed"] > 0
      /\ "denied" \in counted <=> counts["denied"] > 0
      /\ "inconclusive" \in counted <=> counts["inconclusive"] > 0
      /\ "mixed" \notin counted /\ counted \in SUBSET Conclusions
  BY DEF Outcomes, Conclusions
<1>2. counted = {} <=> \A o \in Outcomes : counts[o] = 0
  OBVIOUS
<1>3. counted = {} <=> "allowed" \notin counted /\ "denied" \notin counted /\ "inconclusive" \notin counted
  BY DEF Outcomes
<1>4. \A reported : Concluded(reported, counts) = IF counted = {} THEN reported ELSE Strongest(counted)
  BY DEF Concluded
<1>5. Tested(counts) = IF counted = {} THEN "not_tested" ELSE Strongest(counted)
  BY <1>4 DEF Tested
<1> HIDE DEF counted
<1>6. counted # {} => Strongest(counted) =
              IF "mixed" \in counted \/ ("allowed" \in counted /\ "denied" \in counted) THEN "mixed"
              ELSE IF "allowed" \in counted THEN "allowed" ELSE IF "denied" \in counted THEN "denied"
              ELSE IF "inconclusive" \in counted THEN "inconclusive" ELSE "not_tested"
  BY <1>1, StrongestIs
<1>7. Tested(counts) =
         IF counts["allowed"] > 0 /\ counts["denied"] > 0 THEN "mixed"
         ELSE IF counts["allowed"] > 0 THEN "allowed"
         ELSE IF counts["denied"] > 0 THEN "denied"
         ELSE IF counts["inconclusive"] > 0 THEN "inconclusive" ELSE "not_tested"
  BY <1>1, <1>3, <1>5, <1>6
<1> QED BY <1>2, <1>4, <1>5, <1>7

LEMMA MaxOfTwo ==
    ASSUME NEW a \in Nat, NEW b \in Nat
    PROVE  Max({a, b}) = IF a <= b THEN b ELSE a
<1> DEFINE c == IF a <= b THEN b ELSE a
<1>1. c \in {a, b} /\ \A y \in {a, b} : c >= y
  OBVIOUS
<1>2. \A x \in {a, b} : (\A y \in {a, b} : x >= y) => x = c
  BY <1>1
<1> HIDE DEF c
<1>3. Max({a, b}) = c
  BY <1>1, <1>2 DEF Max
<1> QED BY <1>3 DEF c

LEMMA LimitedIs ==
    ASSUME NEW counts \in [Outcomes -> Nat]
    PROVE  /\ Limited(counts) \in Counts
           /\ counts \in Counts => Limited(counts) = counts
           /\ \A o \in Outcomes : Limited(counts)[o] = 0 <=> counts[o] = 0
<1>1. OutcomeLimit \in Nat \ {0}
  BY RecordAssumption
<1>2. ASSUME NEW o \in Outcomes
      PROVE  /\ Min({counts[o], OutcomeLimit}) \in 0..OutcomeLimit
             /\ counts[o] \in 0..OutcomeLimit => Min({counts[o], OutcomeLimit}) = counts[o]
             /\ Min({counts[o], OutcomeLimit}) = 0 <=> counts[o] = 0
  <2>1. counts[o] \in Nat
    OBVIOUS
  <2> DEFINE c == counts[o]
  <2> HIDE DEF c
  <2>2. c \in Nat
    BY <2>1 DEF c
  <2>3. Min({c, OutcomeLimit}) = IF c <= OutcomeLimit THEN c ELSE OutcomeLimit
    BY <1>1, <2>2, MinOfTwo
  <2>4. /\ Min({c, OutcomeLimit}) \in 0..OutcomeLimit
        /\ c \in 0..OutcomeLimit => Min({c, OutcomeLimit}) = c
        /\ Min({c, OutcomeLimit}) = 0 <=> c = 0
    BY <1>1, <2>2, <2>3
  <2> QED BY <2>4 DEF c
<1>3. Limited(counts) = [o \in Outcomes |-> Min({counts[o], OutcomeLimit})]
  BY DEF Limited
<1>4. Limited(counts) \in Counts
  BY <1>2, <1>3 DEF Counts
<1>5. ASSUME counts \in Counts PROVE Limited(counts) = counts
  BY <1>2, <1>3, <1>5, <1>4 DEF Counts
<1>6. \A o \in Outcomes : Limited(counts)[o] = 0 <=> counts[o] = 0
  BY <1>2, <1>3
<1> QED BY <1>4, <1>5, <1>6

LEMMA CountsAre == \A counts \in Counts : counts \in [Outcomes -> Nat]
BY RecordAssumption DEF Counts

LEMMA TestedTyped == \A counts \in [Outcomes -> Nat] : Tested(counts) \in Conclusions
BY TestedIs DEF Conclusions, Outcomes

LEMMA SeeingTyped ==
    ASSUME NEW counts \in Counts, NEW text \in Reasons
    PROVE  Seeing(counts, text) \in Observations
<1>1. Tested(counts) \in Conclusions
  BY CountsAre, TestedTyped
<1> DEFINE c == Tested(counts)
<1>2. [conclusion |-> c, counts |-> counts, reason |-> text] \in Observations
  <2>1. c \in Conclusions /\ c = Tested(counts)
    BY <1>1
  <2> HIDE DEF c
  <2> QED BY <2>1 DEF Observations
<1> QED BY <1>2 DEF Seeing

Reported(counts, text) ==
    Capability([conclusion |-> Concluded("not_tested", counts), counts |-> counts, reason |-> text])

\* What collectors report are such observations.
LEMMA CapabilitiesAre == Capabilities \subseteq Observations
<1> SUFFICES ASSUME NEW x \in Capabilities PROVE x \in Observations
  OBVIOUS
<1>0. PICK counts \in [Outcomes -> 0..(OutcomeLimit + 1)], text \in {Nothing, "granted", "refused"} :
             x = Capability([conclusion |-> Concluded("not_tested", counts), counts |-> counts,
                             reason |-> text])
  <2> DEFINE C == [Outcomes -> 0..(OutcomeLimit + 1)]
             T == {Nothing, "granted", "refused"}
  <2>1. Capabilities = {Reported(counts, text) : counts \in C, text \in T}
    BY DEF Capabilities, Reported
  <2> HIDE DEF C, T
  <2>2. \E counts \in C, text \in T : x = Reported(counts, text)
    BY <2>1
  <2> QED BY <2>2 DEF Reported, C, T
<1>1. counts \in [Outcomes -> Nat]
  BY RecordAssumption
<1> DEFINE few == Limited(counts)
<1>2. few \in Counts /\ few \in [Outcomes -> Nat]
  BY <1>1, LimitedIs, CountsAre
<1>3. \A o \in Outcomes : few[o] = 0 <=> counts[o] = 0
  BY <1>1, LimitedIs
<1>4. x = [conclusion |-> Concluded(Tested(counts), few), counts |-> few, reason |-> text]
  BY <1>0 DEF Capability, Tested
<1> HIDE DEF few
<1>5. Concluded(Tested(counts), few) = Tested(few)
  <2>1. CASE \A o \in Outcomes : few[o] = 0
    <3>1. Tested(counts) = "not_tested"
      BY <2>1, <1>3, <1>1, TestedIs DEF Tested
    <3> QED BY <3>1 DEF Tested
  <2>2. CASE ~ \A o \in Outcomes : few[o] = 0
    BY <2>2, <1>2, TestedIs
  <2> QED BY <2>1, <2>2
<1>6. text \in Reasons
  BY DEF Reasons
<1>7. x = Seeing(few, text)
  BY <1>4, <1>5 DEF Seeing
<1> QED BY <1>2, <1>6, <1>7, SeeingTyped

\* The larger of the counts of two observations, and the evidence of two.
Most(a, b) == [o \in Outcomes |-> IF a[o] <= b[o] THEN b[o] ELSE a[o]]
Several(p, q) == IF p = Nothing THEN q ELSE IF q = Nothing \/ p = q THEN p ELSE "multiple_outcomes"
Decided(i, j, p, q) == IF j > i THEN q ELSE IF i > j THEN p ELSE Several(p, q)
Ranking(counts) == Rank(Tested(counts))

LEMMA RankingIs ==
    ASSUME NEW counts \in [Outcomes -> Nat]
    PROVE  /\ Ranking(counts) \in 0..3
           /\ Ranking(counts) =
                 IF counts["allowed"] > 0 /\ counts["denied"] > 0 THEN 3
                 ELSE IF counts["allowed"] > 0 \/ counts["denied"] > 0 THEN 2
                 ELSE IF counts["inconclusive"] > 0 THEN 1 ELSE 0
<1>1. /\ Rank("not_tested") = 0 /\ Rank("inconclusive") = 1 /\ Rank("mixed") = 3
      /\ Rank("allowed") = 2 /\ Rank("denied") = 2
  BY DEF Rank
<1>2. Tested(counts) =
         IF counts["allowed"] > 0 /\ counts["denied"] > 0 THEN "mixed"
         ELSE IF counts["allowed"] > 0 THEN "allowed"
         ELSE IF counts["denied"] > 0 THEN "denied"
         ELSE IF counts["inconclusive"] > 0 THEN "inconclusive" ELSE "not_tested"
  BY TestedIs
<1>3. Ranking(counts) = Rank(Tested(counts))
  BY DEF Ranking
<1>4. Ranking(counts) =
                 IF counts["allowed"] > 0 /\ counts["denied"] > 0 THEN 3
                 ELSE IF counts["allowed"] > 0 \/ counts["denied"] > 0 THEN 2
                 ELSE IF counts["inconclusive"] > 0 THEN 1 ELSE 0
  BY <1>1, <1>2, <1>3
<1> QED BY <1>4

\* More observations never conclude less.
LEMMA RankingGrows ==
    ASSUME NEW a \in [Outcomes -> Nat], NEW b \in [Outcomes -> Nat],
           \A o \in Outcomes : a[o] <= b[o]
    PROVE  Ranking(a) <= Ranking(b)
<1>1. /\ "allowed" \in Outcomes /\ "denied" \in Outcomes /\ "inconclusive" \in Outcomes
  BY DEF Outcomes
<1> DEFINE a1 == a["allowed"]  a2 == a["denied"]  a3 == a["inconclusive"]
           b1 == b["allowed"]  b2 == b["denied"]  b3 == b["inconclusive"]
<1>2. /\ a1 \in Nat /\ a2 \in Nat /\ a3 \in Nat /\ b1 \in Nat /\ b2 \in Nat /\ b3 \in Nat
      /\ a1 <= b1 /\ a2 <= b2 /\ a3 <= b3
  BY <1>1
<1>3. Ranking(a) = IF a1 > 0 /\ a2 > 0 THEN 3 ELSE IF a1 > 0 \/ a2 > 0 THEN 2
                   ELSE IF a3 > 0 THEN 1 ELSE 0
  BY RankingIs
<1>4. Ranking(b) = IF b1 > 0 /\ b2 > 0 THEN 3 ELSE IF b1 > 0 \/ b2 > 0 THEN 2
                   ELSE IF b3 > 0 THEN 1 ELSE 0
  BY RankingIs
<1> HIDE DEF a1, a2, a3, b1, b2, b3
<1> QED BY <1>2, <1>3, <1>4

LEMMA MostIs ==
    ASSUME NEW a \in Counts, NEW b \in Counts
    PROVE  /\ Most(a, b) \in Counts
           /\ \A o \in Outcomes : a[o] <= Most(a, b)[o] /\ b[o] <= Most(a, b)[o]
           /\ Most(a, b) = [o \in Outcomes |-> Max({a[o], b[o]})]
           /\ Limited(Most(a, b)) = Most(a, b)
<1>1. a \in [Outcomes -> Nat] /\ b \in [Outcomes -> Nat]
  BY CountsAre
<1>2. ASSUME NEW o \in Outcomes
      PROVE  /\ Max({a[o], b[o]}) = IF a[o] <= b[o] THEN b[o] ELSE a[o]
             /\ (IF a[o] <= b[o] THEN b[o] ELSE a[o]) \in 0..OutcomeLimit
             /\ a[o] <= IF a[o] <= b[o] THEN b[o] ELSE a[o]
             /\ b[o] <= IF a[o] <= b[o] THEN b[o] ELSE a[o]
  <2>1. a[o] \in Nat /\ b[o] \in Nat /\ a[o] \in 0..OutcomeLimit /\ b[o] \in 0..OutcomeLimit
    BY <1>1 DEF Counts
  <2> DEFINE p == a[o]
             q == b[o]
  <2> HIDE DEF p, q
  <2>2. p \in Nat /\ q \in Nat /\ p \in 0..OutcomeLimit /\ q \in 0..OutcomeLimit
    BY <2>1 DEF p, q
  <2>3. Max({p, q}) = IF p <= q THEN q ELSE p
    BY <2>2, MaxOfTwo
  <2>4. /\ (IF p <= q THEN q ELSE p) \in 0..OutcomeLimit
        /\ p <= IF p <= q THEN q ELSE p
        /\ q <= IF p <= q THEN q ELSE p
    BY <2>2
  <2> QED BY <2>3, <2>4 DEF p, q
<1>3. Most(a, b) \in Counts
  BY <1>2 DEF Most, Counts
<1>4. Most(a, b) = [o \in Outcomes |-> Max({a[o], b[o]})]
  BY <1>2 DEF Most
<1>5. Limited(Most(a, b)) = Most(a, b)
  BY <1>3, CountsAre, LimitedIs
<1> QED BY <1>2, <1>3, <1>4, <1>5 DEF Most

\* The evidence of two observations.
LEMMA EvidenceIs ==
    ASSUME NEW x \in Observations, NEW y \in Observations
    PROVE  /\ Evidence(x, y) = Decided(Ranking(x.counts), Ranking(y.counts), x.reason, y.reason)
           /\ Evidence(x, y) \in Reasons
<1>1. /\ x.counts \in Counts /\ x.reason \in Reasons /\ x.conclusion = Tested(x.counts)
      /\ y.counts \in Counts /\ y.reason \in Reasons /\ y.conclusion = Tested(y.counts)
  BY DEF Observations
<1>2. Rank(x.conclusion) = Ranking(x.counts) /\ Rank(y.conclusion) = Ranking(y.counts)
  BY <1>1 DEF Ranking
<1> DEFINE p == x.reason
           q == y.reason
           both == {p, q} \ {Nothing}
<1>3. p \in Reasons /\ q \in Reasons
  BY <1>1
<1>4. Evidence(x, y) = IF Ranking(y.counts) > Ranking(x.counts) THEN q
                       ELSE IF Ranking(x.counts) > Ranking(y.counts) THEN p
                       ELSE IF both = {} THEN Nothing
                       ELSE IF Cardinality(both) = 1 THEN CHOOSE r \in both : TRUE
                       ELSE "multiple_outcomes"
  BY <1>2 DEF Evidence
<1> HIDE DEF p, q
<1>5. (IF both = {} THEN Nothing ELSE IF Cardinality(both) = 1 THEN CHOOSE r \in both : TRUE
       ELSE "multiple_outcomes") = Several(p, q)
  <2>1. CASE both = {}
    BY <2>1 DEF Several
  <2>2. ASSUME NEW r, both = {r}
        PROVE  Cardinality(both) = 1 /\ (CHOOSE v \in both : TRUE) = r
    BY <2>2, FS_Singleton
  <2>3. CASE p = Nothing /\ q # Nothing
    <3>1. both = {q}
      BY <2>3
    <3> HIDE DEF both
    <3> QED BY <2>2, <2>3, <3>1 DEF Several
  <2>4. CASE p # Nothing /\ (q = Nothing \/ q = p)
    <3>1. both = {p}
      BY <2>4
    <3> HIDE DEF both
    <3> QED BY <2>2, <2>4, <3>1 DEF Several
  <2>5. CASE p # Nothing /\ q # Nothing /\ p # q
    <3>1. both = {p, q}
      BY <2>5
    <3>2. Cardinality({p, q}) = 2
      <4>1. IsFiniteSet({q}) /\ Cardinality({q}) = 1 /\ p \notin {q}
        BY <2>5, FS_Singleton
      <4>2. Cardinality({q} \cup {p}) = Cardinality({q}) + 1
        BY <4>1, FS_AddElement
      <4>3. {q} \cup {p} = {p, q}
        OBVIOUS
      <4> QED BY <4>1, <4>2, <4>3
    <3> HIDE DEF both
    <3> QED BY <2>5, <3>1, <3>2 DEF Several
  <2> QED BY <2>1, <2>3, <2>4, <2>5
<1> HIDE DEF both
<1>6. Evidence(x, y) = Decided(Ranking(x.counts), Ranking(y.counts), p, q)
  BY <1>4, <1>5 DEF Decided
<1>7. Decided(Ranking(x.counts), Ranking(y.counts), p, q) \in Reasons
  BY <1>3 DEF Decided, Several, Reasons
<1> QED BY <1>6, <1>7 DEF p, q

\* The merge of two observations sees the larger counts, and has the evidence of both.
LEMMA CapabilityIs ==
    ASSUME NEW x \in Observations, NEW y \in Observations
    PROVE  MergeCapability(x, y) = Seeing(Most(x.counts, y.counts),
                Decided(Ranking(x.counts), Ranking(y.counts), x.reason, y.reason))
<1>1. /\ x.counts \in Counts /\ x.conclusion = Tested(x.counts) /\ x.conclusion \in Conclusions
      /\ y.counts \in Counts /\ y.conclusion = Tested(y.counts) /\ y.conclusion \in Conclusions
  BY DEF Observations
<1> DEFINE m == Most(x.counts, y.counts)
<1>2. /\ m \in Counts /\ Limited(m) = m /\ m = [o \in Outcomes |-> Max({x.counts[o], y.counts[o]})]
      /\ \A o \in Outcomes : x.counts[o] <= m[o] /\ y.counts[o] <= m[o]
  BY <1>1, MostIs
<1>3. MergeCapability(x, y) =
         [conclusion |-> Concluded(Strongest({x.conclusion, y.conclusion}), m),
          counts |-> m, reason |-> Evidence(x, y)]
  BY <1>2 DEF MergeCapability
<1> HIDE DEF m
<1>4. Concluded(Strongest({x.conclusion, y.conclusion}), m) = Tested(m)
  <2>1. m \in [Outcomes -> Nat]
    BY <1>2, CountsAre
  <2>2. CASE ~ \A o \in Outcomes : m[o] = 0
    BY <2>1, <2>2, TestedIs
  <2>3. CASE \A o \in Outcomes : m[o] = 0
    <3>1. x.counts \in [Outcomes -> Nat] /\ y.counts \in [Outcomes -> Nat]
      BY <1>1, CountsAre
    <3>2. ASSUME NEW o \in Outcomes PROVE x.counts[o] = 0 /\ y.counts[o] = 0
      <4>1. x.counts[o] \in Nat /\ y.counts[o] \in Nat
        BY <3>1
      <4>2. x.counts[o] <= 0 /\ y.counts[o] <= 0
        BY <1>2, <2>3
      <4> QED BY <4>1, <4>2
    <3>3. "allowed" \in Outcomes /\ "denied" \in Outcomes /\ "inconclusive" \in Outcomes
      BY DEF Outcomes
    <3>4. Tested(x.counts) = "not_tested" /\ Tested(y.counts) = "not_tested" /\ Tested(m) = "not_tested"
      BY <3>1, <3>2, <3>3, <2>1, <2>3, TestedIs
    <3>5. {x.conclusion, y.conclusion} = {"not_tested"}
      BY <3>4, <1>1
    <3>6. Strongest({"not_tested"}) = "not_tested"
      BY StrongestIs DEF Conclusions
    <3>7. Concluded("not_tested", m) = "not_tested"
      BY <3>4 DEF Tested
    <3> QED BY <3>4, <3>5, <3>6, <3>7
  <2> QED BY <2>2, <2>3
<1>5. Evidence(x, y) = Decided(Ranking(x.counts), Ranking(y.counts), x.reason, y.reason)
  BY EvidenceIs
<1> QED BY <1>3, <1>4, <1>5 DEF Seeing, m

LEMMA CapabilityTyped == \A x, y \in Observations : MergeCapability(x, y) \in Observations
<1> SUFFICES ASSUME NEW x \in Observations, NEW y \in Observations
             PROVE  MergeCapability(x, y) \in Observations
  OBVIOUS
<1>1. x.counts \in Counts /\ y.counts \in Counts
  BY DEF Observations
<1>2. Most(x.counts, y.counts) \in Counts
  BY <1>1, MostIs
<1>3. Decided(Ranking(x.counts), Ranking(y.counts), x.reason, y.reason) \in Reasons
  BY EvidenceIs
<1> QED BY <1>2, <1>3, CapabilityIs, SeeingTyped

\* The merge of a capability.
CapabilityTable == [x \in Observations |-> [y \in Observations |-> MergeCapability(x, y)]]

LEMMA CapabilityTableTyped == CapabilityTable \in [Observations -> [Observations -> Observations]]
BY CapabilityTyped DEF CapabilityTable

LEMMA CapabilityMerges ==
    ASSUME NEW z \in Observations, NEW t \in Seq(Observations)
    PROVE  \E g : Merging(g, CapabilityTable, Observations, z, t)
                  /\ MergedInto(MergeCapability, z, t) = g[Len(t)]
<1> DEFINE N == Len(t)
           Body(h) == [n \in 0..N |-> IF n = 0 THEN z ELSE MergeCapability(h[n - 1], t[n])]
           after == CHOOSE h : h = Body(h)
<1>1. PICK g : Merging(g, CapabilityTable, Observations, z, t)
  BY CapabilityTableTyped, MergingExists
<1>2. MergedInto(MergeCapability, z, t) = after[N]
  BY DEF MergedInto
<1>3. /\ N \in Nat /\ g \in [0..N -> Observations] /\ g[0] = z
      /\ \A i \in 1..N : /\ g[i] = CapabilityTable[g[i - 1]][t[i]]
                        /\ g[i - 1] \in Observations /\ t[i] \in Observations
  BY <1>1, MergingParts
<1> HIDE DEF N
<1>4. \A i \in 1..N : g[i] = MergeCapability(g[i - 1], t[i])
  BY <1>3 DEF CapabilityTable
<1>5. g = Body(g)
  BY <1>3, <1>4
<1>6. after = Body(after)
  BY <1>5
<1> HIDE DEF after
<1>7. after[0] = z /\ \A i \in 1..N : after[i] = MergeCapability(after[i - 1], t[i])
  BY <1>3, <1>6
<1>8. Alike(after, g, N) /\ N \in 0..N
  BY <1>3, <1>4, <1>7 DEF Alike
<1> QED BY <1>1, <1>2, <1>3, <1>8, Agrees DEF N

LEMMA CapabilityFolds ==
    ASSUME NEW said \in Sequences(Observations)
    PROVE  \E f : Folding(f, CapabilityTable, Observations, said)
                  /\ Folded(MergeCapability, said) = f[Len(said)]
<1>1. Head(said) \in Observations /\ Tail(said) \in Seq(Observations)
  BY SequenceParts
<1>2. PICK g : /\ Merging(g, CapabilityTable, Observations, Head(said), Tail(said))
               /\ MergedInto(MergeCapability, Head(said), Tail(said)) = g[Len(Tail(said))]
  BY <1>1, CapabilityMerges
<1> DEFINE f == [k \in 1..Len(said) |-> g[k - 1]]
<1>3. Folding(f, CapabilityTable, Observations, said) /\ g[Len(Tail(said))] = f[Len(said)]
  BY <1>2, CapabilityTableTyped, MergingFolds
<1> HIDE DEF f
<1>4. Folded(MergeCapability, said) = f[Len(said)]
  BY <1>2, <1>3 DEF Folded
<1> QED BY <1>3, <1>4

LEMMA SameObservation ==
    ASSUME NEW x \in Observations, NEW y \in Observations,
           x.counts = y.counts, x.reason = y.reason
    PROVE  x = y
BY DEF Observations

LEMMA DecidedSays ==
    ASSUME NEW i \in Nat, NEW j \in Nat, NEW k \in Nat, NEW l \in Nat,
           NEW p \in Reasons, NEW q \in Reasons, NEW r \in Reasons, i <= k, j <= k
    PROVE  /\ Decided(i, i, p, p) = p
           /\ Decided(k, j, Decided(i, j, p, q), q) = Decided(i, j, p, q)
           /\ l <= i /\ Decided(i, l, p, r) = p =>
                  Decided(k, l, Decided(i, j, p, q), r) = Decided(i, j, p, q)
<1>1. Nothing # "multiple_outcomes"
  BY RecordAssumption
<1>2. Decided(i, i, p, p) = p
  BY DEF Decided, Several
<1>3. Decided(k, j, Decided(i, j, p, q), q) = Decided(i, j, p, q)
  BY <1>1 DEF Decided, Several
<1>4. ASSUME l <= i, Decided(i, l, p, r) = p
      PROVE  Decided(k, l, Decided(i, j, p, q), r) = Decided(i, j, p, q)
  <2>1. l < i \/ Several(p, r) = p
    BY <1>4 DEF Decided
  <2>2. CASE l < k
    BY <2>2 DEF Decided
  <2>3. CASE l = k
    <3>1. i = k /\ l = k /\ Several(p, r) = p
      BY <2>1, <2>3, <1>4
    <3>2. CASE j < i
      BY <3>1, <3>2 DEF Decided
    <3>3. CASE j = i
      BY <3>1, <1>1, <3>3 DEF Several, Decided
    <3> QED BY <3>1, <3>2, <3>3
  <2> QED BY <2>2, <2>3, <1>4
<1> QED BY <1>2, <1>3, <1>4

LEMMA MostSays ==
    ASSUME NEW a \in Counts, NEW b \in Counts, NEW c \in Counts
    PROVE  /\ Most(a, a) = a
           /\ Most(Most(a, b), b) = Most(a, b)
           /\ Most(a, c) = a => /\ Most(Most(a, b), c) = Most(a, b)
                                /\ \A o \in Outcomes : c[o] <= a[o]
<1>1. /\ a \in [Outcomes -> Nat] /\ b \in [Outcomes -> Nat] /\ c \in [Outcomes -> Nat]
      /\ Most(a, b) \in [Outcomes -> Nat] /\ Most(a, b) \in Counts
  BY CountsAre, MostIs
<1>2. Most(a, a) = a
  BY <1>1 DEF Most
<1>3. ASSUME NEW o \in Outcomes
      PROVE  a[o] \in Nat /\ b[o] \in Nat /\ c[o] \in Nat /\ a[o] <= Most(a, b)[o]
             /\ b[o] <= Most(a, b)[o] /\ Most(a, b)[o] \in Nat
  BY <1>1, MostIs
<1> DEFINE m == Most(a, b)
<1> HIDE DEF m
<1>4. ASSUME NEW o \in Outcomes
      PROVE  a[o] \in Nat /\ b[o] \in Nat /\ c[o] \in Nat /\ m[o] \in Nat /\ a[o] <= m[o] /\ b[o] <= m[o]
  BY <1>3 DEF m
<1>5. m \in [Outcomes -> Nat]
  BY <1>1 DEF m
<1>6. Most(m, b) = m
  BY <1>4, <1>5 DEF Most
<1>7. ASSUME Most(a, c) = a
      PROVE  Most(m, c) = m /\ \A o \in Outcomes : c[o] <= a[o]
  <2>1. ASSUME NEW o \in Outcomes PROVE c[o] <= a[o]
    BY <1>7, <1>4 DEF Most
  <2>2. \A o \in Outcomes : (IF m[o] <= c[o] THEN c[o] ELSE m[o]) = m[o]
    BY <1>4, <2>1
  <2> QED BY <2>1, <2>2, <1>5 DEF Most
<1> QED BY <1>2, <1>6, <1>7 DEF m

\* What a merge of two observations has of each.
LEMMA CapabilityParts ==
    ASSUME NEW x \in Observations, NEW y \in Observations
    PROVE  /\ x.counts \in Counts /\ x.reason \in Reasons
           /\ MergeCapability(x, y) \in Observations
           /\ MergeCapability(x, y).counts = Most(x.counts, y.counts)
           /\ MergeCapability(x, y).reason =
                 Decided(Ranking(x.counts), Ranking(y.counts), x.reason, y.reason)
           /\ Ranking(x.counts) \in Nat
           /\ Ranking(x.counts) <= Ranking(Most(x.counts, y.counts))
           /\ Ranking(y.counts) <= Ranking(Most(x.counts, y.counts))
<1>1. x.counts \in Counts /\ x.reason \in Reasons /\ y.counts \in Counts
  BY DEF Observations
<1>2. MergeCapability(x, y) \in Observations
  BY CapabilityTyped
<1>3. MergeCapability(x, y) = Seeing(Most(x.counts, y.counts),
                Decided(Ranking(x.counts), Ranking(y.counts), x.reason, y.reason))
  BY CapabilityIs
<1>4. /\ MergeCapability(x, y).counts = Most(x.counts, y.counts)
      /\ MergeCapability(x, y).reason =
             Decided(Ranking(x.counts), Ranking(y.counts), x.reason, y.reason)
  BY <1>3 DEF Seeing
<1>5. /\ x.counts \in [Outcomes -> Nat] /\ y.counts \in [Outcomes -> Nat]
      /\ Most(x.counts, y.counts) \in [Outcomes -> Nat]
      /\ \A o \in Outcomes : /\ x.counts[o] <= Most(x.counts, y.counts)[o]
                             /\ y.counts[o] <= Most(x.counts, y.counts)[o]
  BY <1>1, CountsAre, MostIs
<1>6. /\ Ranking(x.counts) <= Ranking(Most(x.counts, y.counts))
      /\ Ranking(y.counts) <= Ranking(Most(x.counts, y.counts))
  BY <1>5, RankingGrows
<1>7. Ranking(x.counts) \in Nat
  BY <1>5, RankingIs
<1> QED BY <1>1, <1>2, <1>4, <1>6, <1>7

LEMMA CapabilityAbsorbs == Absorbing(CapabilityTable, Observations)
<1>1. \A x, y \in Observations : CapabilityTable[x][y] = MergeCapability(x, y)
  BY DEF CapabilityTable
<1>2. \A x, y \in Observations : MergeCapability(x, y) \in Observations
  BY CapabilityTyped
<1>3. ASSUME NEW x \in Observations PROVE MergeCapability(x, x) = x
  BY CapabilityParts, MostSays, DecidedSays, <1>2, SameObservation
<1>4. ASSUME NEW x \in Observations, NEW y \in Observations
      PROVE  MergeCapability(MergeCapability(x, y), y) = MergeCapability(x, y)
  <2> DEFINE m == MergeCapability(x, y)
             i == Ranking(x.counts)
             j == Ranking(y.counts)
             k == Ranking(m.counts)
  <2>1. /\ m \in Observations /\ m.counts = Most(x.counts, y.counts)
        /\ m.reason = Decided(i, j, x.reason, y.reason) /\ i <= k /\ j <= k
    BY CapabilityParts
  <2> HIDE DEF m
  <2>2. /\ MergeCapability(m, y) \in Observations
        /\ MergeCapability(m, y).counts = Most(m.counts, y.counts)
        /\ MergeCapability(m, y).reason = Decided(k, j, m.reason, y.reason)
    BY <2>1, CapabilityParts
  <2>3. Most(m.counts, y.counts) = m.counts
    BY <2>1, CapabilityParts, MostSays
  <2>4. i \in Nat /\ j \in Nat /\ k \in Nat /\ x.reason \in Reasons /\ y.reason \in Reasons
    BY <2>1, CapabilityParts
  <2> HIDE DEF i, j, k
  <2>5. Decided(k, j, Decided(i, j, x.reason, y.reason), y.reason) = Decided(i, j, x.reason, y.reason)
    BY <2>1, <2>4, DecidedSays
  <2>6. MergeCapability(m, y) = m
    BY <2>1, <2>2, <2>3, <2>5, SameObservation
  <2> QED BY <2>6 DEF m
<1>5. ASSUME NEW x \in Observations, NEW y \in Observations, NEW s \in Observations,
             MergeCapability(x, s) = x
      PROVE  MergeCapability(MergeCapability(x, y), s) = MergeCapability(x, y)
  <2> DEFINE m == MergeCapability(x, y)
             i == Ranking(x.counts)
             j == Ranking(y.counts)
             k == Ranking(m.counts)
             l == Ranking(s.counts)
  <2>1. /\ m \in Observations /\ m.counts = Most(x.counts, y.counts)
        /\ m.reason = Decided(i, j, x.reason, y.reason) /\ i <= k /\ j <= k
    BY CapabilityParts
  <2> HIDE DEF m
  <2>2. /\ MergeCapability(m, s) \in Observations
        /\ MergeCapability(m, s).counts = Most(m.counts, s.counts)
        /\ MergeCapability(m, s).reason = Decided(k, l, m.reason, s.reason)
    BY <2>1, CapabilityParts
  <2>3. Most(x.counts, s.counts) = x.counts /\ Decided(i, l, x.reason, s.reason) = x.reason
    BY <1>5, CapabilityParts
  <2>4. i \in Nat /\ j \in Nat /\ k \in Nat /\ l \in Nat
        /\ x.reason \in Reasons /\ y.reason \in Reasons /\ s.reason \in Reasons
        /\ x.counts \in Counts /\ y.counts \in Counts /\ s.counts \in Counts
    BY <2>1, CapabilityParts
  <2>5. Most(m.counts, s.counts) = m.counts /\ \A o \in Outcomes : s.counts[o] <= x.counts[o]
    BY <2>1, <2>3, <2>4, MostSays
  <2>6. l <= i
    BY <2>4, <2>5, CountsAre, RankingGrows
  <2> HIDE DEF i, j, k, l
  <2>7. Decided(k, l, Decided(i, j, x.reason, y.reason), s.reason) = Decided(i, j, x.reason, y.reason)
    BY <2>1, <2>3, <2>4, <2>6, DecidedSays
  <2>8. MergeCapability(m, s) = m
    BY <2>1, <2>2, <2>5, <2>7, SameObservation
  <2> QED BY <2>8 DEF m
<1>6. \A x \in Observations : CapabilityTable[x][x] = x
  BY <1>1, <1>3
<1>7. ASSUME NEW x \in Observations, NEW y \in Observations
      PROVE  CapabilityTable[CapabilityTable[x][y]][y] = CapabilityTable[x][y]
  <2>1. /\ CapabilityTable[x][y] = MergeCapability(x, y) /\ MergeCapability(x, y) \in Observations
        /\ MergeCapability(MergeCapability(x, y), y) = MergeCapability(x, y)
    BY <1>1, <1>2, <1>4
  <2> QED BY <2>1, <1>1
<1>8. ASSUME NEW x \in Observations, NEW y \in Observations, NEW s \in Observations,
             CapabilityTable[x][s] = x
      PROVE  CapabilityTable[CapabilityTable[x][y]][s] = CapabilityTable[x][y]
  <2>1. MergeCapability(x, s) = x
    BY <1>1, <1>8
  <2>2. MergeCapability(MergeCapability(x, y), s) = MergeCapability(x, y)
    BY <2>1, <1>5
  <2> QED BY <2>2, <1>1, <1>2
<1> HIDE DEF CapabilityTable
<1> QED BY <1>6, <1>7, <1>8 DEF Absorbing

LEMMA CapabilityHarmless ==
    ASSUME NEW said \in Sequences(Observations)
    PROVE  Harmless(MergeCapability, said)
<1>1. PICK f : Folding(f, CapabilityTable, Observations, said) /\ Folded(MergeCapability, said) = f[Len(said)]
  BY CapabilityFolds
<1> DEFINE z == f[Len(said)]
<1>2. DOMAIN said = 1..Len(said) /\ z \in Observations
  BY <1>1, SequenceParts DEF Folding
<1>4. \A i \in 1..Len(said) : CapabilityTable[z][said[i]] = z
  BY <1>1, CapabilityTableTyped, CapabilityAbsorbs, FoldAbsorbs
<1> HIDE DEF z
<1>3. ASSUME NEW n \in 1..Len(said) PROVE MergedInto(MergeCapability, z, SubSeq(said, n, Len(said))) = z
  <2> DEFINE t == SubSeq(said, n, Len(said))
  <2>1. t \in Seq(Observations) /\ \A g : Merging(g, CapabilityTable, Observations, z, t) => g[Len(t)] = z
    BY <1>2, <1>4, CapabilityTableTyped, SuffixUnmoved
  <2> HIDE DEF t
  <2>2. MergedInto(MergeCapability, z, t) = z
    BY <1>2, <2>1, CapabilityMerges
  <2> QED BY <2>2 DEF t
<1> QED BY <1>1, <1>2, <1>3 DEF Harmless, z

LEMMA GreatestIs ==
    ASSUME NEW S \in SUBSET Nat, NEW m \in S, \A y \in S : y <= m
    PROVE  Max(S) = m
<1>1. m \in S /\ \A y \in S : m >= y
  OBVIOUS
<1>2. \A x \in S : (\A y \in S : x >= y) => x = m
  <2> SUFFICES ASSUME NEW x \in S, \A y \in S : x >= y PROVE x = m
    OBVIOUS
  <2>1. x \in Nat /\ m \in Nat /\ x >= m /\ x <= m
    BY <1>1
  <2> QED BY <2>1
<1> QED BY <1>1, <1>2 DEF Max

\* What is left of observations has, of each outcome, the count of one of them and none less.
LEMMA CountsOfAll ==
    ASSUME NEW said \in Sequences(Observations), NEW f,
           Folding(f, CapabilityTable, Observations, said)
    PROVE  \A o \in Outcomes :
              /\ \E i \in 1..Len(said) : f[Len(said)].counts[o] = said[i].counts[o]
              /\ \A i \in 1..Len(said) : said[i].counts[o] <= f[Len(said)].counts[o]
<1> DEFINE N == Len(said)
           One(k, o) == \E i \in 1..N : f[k].counts[o] = said[i].counts[o]
<1>1. N \in Nat \ {0} /\ said \in [1..N -> Observations]
  BY SequenceParts
<1>2. /\ f \in [1..N -> Observations] /\ f[1] = said[1]
      /\ \A k \in 2..N : f[k] = CapabilityTable[f[k - 1]][said[k]]
  BY DEF Folding
<1>3. \A i \in 1..N : CapabilityTable[f[N]][said[i]] = f[N]
  BY CapabilityTableTyped, CapabilityAbsorbs, FoldAbsorbs
<1> HIDE DEF N
<1> SUFFICES ASSUME NEW o \in Outcomes
             PROVE  One(N, o) /\ \A i \in 1..N : said[i].counts[o] <= f[N].counts[o]
  BY DEF N
<1>4. ASSUME NEW i \in 1..N PROVE said[i].counts[o] <= f[N].counts[o]
  <2>1. f[N] \in Observations /\ said[i] \in Observations
    BY <1>1, <1>2
  <2>2. MergeCapability(f[N], said[i]) = f[N]
    BY <2>1, <1>3 DEF CapabilityTable
  <2>3. Most(f[N].counts, said[i].counts) = f[N].counts
    BY <2>1, <2>2, CapabilityParts
  <2>4. f[N].counts \in Counts /\ said[i].counts \in Counts
    BY <2>1, CapabilityParts
  <2> QED BY <2>3, <2>4, MostSays
<1> DEFINE I == {k \in 1..N : One(k, o)}
<1>5. 1 \in I
  BY <1>1, <1>2
<1>6. ASSUME NEW k \in 2..N, k - 1 \in I PROVE k \in I
  <2> DEFINE x == f[k - 1]
             y == said[k]
  <2>1. x \in Observations /\ y \in Observations /\ f[k] = CapabilityTable[x][y] /\ k \in 1..N
    BY <1>1, <1>2
  <2>2. PICK i \in 1..N : x.counts[o] = said[i].counts[o]
    BY <1>6
  <2> HIDE DEF x
  <2>3. f[k].counts = Most(x.counts, y.counts)
    <3>1. f[k] = MergeCapability(x, y)
      BY <2>1 DEF CapabilityTable
    <3> HIDE DEF y
    <3> QED BY <2>1, <3>1, CapabilityParts
  <2>4. f[k].counts[o] = x.counts[o] \/ f[k].counts[o] = y.counts[o]
    BY <2>3 DEF Most
  <2> QED BY <2>1, <2>2, <2>4
<1> HIDE DEF I
<1>7. \A k \in 1..N : k \in I
  BY <1>1, <1>5, <1>6, FoldingKeeps
<1>8. N \in I
  BY <1>1, <1>7
<1> QED BY <1>4, <1>8 DEF I

\* The strongest of what observations conclude is what the counts of all of them conclude.
LEMMA ConcludedOfAll ==
    ASSUME NEW said \in SUBSET Observations, said # {}, NEW m \in Counts,
           \A o \in Outcomes : m[o] > 0 <=> \E s \in said : s.counts[o] > 0
    PROVE  Tested(m) = Strongest({s.conclusion : s \in said})
<1> DEFINE C == {s.conclusion : s \in said}
<1>1. \A s \in said : s.conclusion \in Conclusions /\ s.conclusion = Tested(s.counts)
                      /\ s.counts \in [Outcomes -> Nat]
  BY CountsAre DEF Observations
<1>2. C \in SUBSET Conclusions /\ C # {}
  BY <1>1
<1>3. \A s \in said : Tested(s.counts) =
         IF s.counts["allowed"] > 0 /\ s.counts["denied"] > 0 THEN "mixed"
         ELSE IF s.counts["allowed"] > 0 THEN "allowed"
         ELSE IF s.counts["denied"] > 0 THEN "denied"
         ELSE IF s.counts["inconclusive"] > 0 THEN "inconclusive" ELSE "not_tested"
  BY <1>1, TestedIs
<1> DEFINE A(s) == s.counts["allowed"] > 0
           D(s) == s.counts["denied"] > 0
           U(s) == s.counts["inconclusive"] > 0
           Wording(s) == s.conclusion
<1>4. \A s \in said : Wording(s) =
         IF A(s) /\ D(s) THEN "mixed" ELSE IF A(s) THEN "allowed" ELSE IF D(s) THEN "denied"
         ELSE IF U(s) THEN "inconclusive" ELSE "not_tested"
  BY <1>1, <1>3
<1>5. /\ m["allowed"] > 0 <=> \E s \in said : A(s)
      /\ m["denied"] > 0 <=> \E s \in said : D(s)
      /\ m["inconclusive"] > 0 <=> \E s \in said : U(s)
  BY DEF Outcomes
<1>6. C = {Wording(s) : s \in said}
  OBVIOUS
<1> HIDE DEF A, D, U, Wording, C
<1>7. /\ "mixed" \in C <=> \E s \in said : A(s) /\ D(s)
      /\ "allowed" \in C <=> \E s \in said : A(s) /\ ~D(s)
      /\ "denied" \in C <=> \E s \in said : D(s) /\ ~A(s)
      /\ "inconclusive" \in C <=> \E s \in said : U(s) /\ ~A(s) /\ ~D(s)
  BY <1>4, <1>6
<1>8. Strongest(C) =
              IF "mixed" \in C \/ ("allowed" \in C /\ "denied" \in C) THEN "mixed"
              ELSE IF "allowed" \in C THEN "allowed" ELSE IF "denied" \in C THEN "denied"
              ELSE IF "inconclusive" \in C THEN "inconclusive" ELSE "not_tested"
  BY <1>2, StrongestIs
<1>9. Tested(m) =
         IF m["allowed"] > 0 /\ m["denied"] > 0 THEN "mixed"
         ELSE IF m["allowed"] > 0 THEN "allowed"
         ELSE IF m["denied"] > 0 THEN "denied"
         ELSE IF m["inconclusive"] > 0 THEN "inconclusive" ELSE "not_tested"
  BY CountsAre, TestedIs
<1> DEFINE a == \E s \in said : A(s)
           d == \E s \in said : D(s)
           u == \E s \in said : U(s)
<1>10. Tested(m) = IF a /\ d THEN "mixed" ELSE IF a THEN "allowed" ELSE IF d THEN "denied"
                   ELSE IF u THEN "inconclusive" ELSE "not_tested"
  BY <1>5, <1>9
<1>11. /\ a /\ d => "mixed" \in C \/ ("allowed" \in C /\ "denied" \in C)
       /\ ~a => "mixed" \notin C /\ "allowed" \notin C
       /\ ~d => "mixed" \notin C /\ "denied" \notin C
       /\ a /\ ~d => "allowed" \in C
       /\ d /\ ~a => "denied" \in C
       /\ ~a /\ ~d => ("inconclusive" \in C <=> u)
  BY <1>7
<1> HIDE DEF a, d, u
<1>14. Tested(m) = Strongest(C)
  BY <1>8, <1>10, <1>11
<1> QED BY <1>14 DEF C

\* A capability is observed when something was allowed.
LEMMA ObservedIs ==
    ASSUME NEW x \in Observations
    PROVE  Observed(x) <=> x.counts["allowed"] > 0
<1>1. x.conclusion = Tested(x.counts) /\ x.counts \in [Outcomes -> Nat]
  BY CountsAre DEF Observations
<1> QED BY <1>1, TestedIs DEF Observed

\* The observations of a capability join: what is left of them concludes the strongest of
\* what each concluded, counts the largest sample, and is observed when one of them is.
THEOREM ObservationsAreJoined == ObservationsJoin
<1> SUFFICES ASSUME NEW said \in SequencesUpTo(Capabilities)
             PROVE  LET merged == Folded(MergeCapability, said) IN
                    /\ Harmless(MergeCapability, said)
                    /\ merged.counts = [o \in Outcomes |-> Max({s.counts[o] : s \in ToSet(said)})]
                    /\ merged.conclusion = Strongest({s.conclusion : s \in ToSet(said)})
                    /\ Observed(merged) <=> \E s \in ToSet(said) : Observed(s)
  BY DEF ObservationsJoin
<1>1. said \in Sequences(Observations)
  BY SequencesNonempty, CapabilitiesAre DEF Sequences
<1>2. Harmless(MergeCapability, said)
  BY <1>1, CapabilityHarmless
<1>3. PICK f : /\ Folding(f, CapabilityTable, Observations, said)
               /\ Folded(MergeCapability, said) = f[Len(said)]
  BY <1>1, CapabilityFolds
<1> DEFINE N == Len(said)
           z == Folded(MergeCapability, said)
           S == ToSet(said)
<1>4. N \in Nat \ {0} /\ said \in [1..N -> Observations] /\ DOMAIN said = 1..N
  BY <1>1, SequenceParts
<1>5. S = {said[i] : i \in 1..N} /\ S \in SUBSET Observations /\ S # {}
  BY <1>4 DEF ToSet
<1>6. \A o \in Outcomes : /\ \E i \in 1..N : z.counts[o] = said[i].counts[o]
                          /\ \A i \in 1..N : said[i].counts[o] <= z.counts[o]
  BY <1>1, <1>3, CountsOfAll
<1>7. z \in Observations
  BY <1>3, <1>4 DEF Folding
<1> HIDE DEF N, z, S
<1>8. z.counts \in Counts /\ z.counts \in [Outcomes -> Nat] /\ z.conclusion = Tested(z.counts)
  BY <1>7, CountsAre DEF Observations
<1>9. ASSUME NEW o \in Outcomes
      PROVE  /\ z.counts[o] = Max({s.counts[o] : s \in S})
             /\ z.counts[o] > 0 <=> \E s \in S : s.counts[o] > 0
  <2> DEFINE T == {s.counts[o] : s \in S}
  <2>1. \A s \in S : s.counts \in [Outcomes -> Nat]
    BY <1>5, CountsAre DEF Observations
  <2>2. T \in SUBSET Nat
    BY <2>1
  <2>3. z.counts[o] \in T /\ \A y \in T : y <= z.counts[o]
    BY <1>5, <1>6
  <2>4. \A s \in S : s.counts[o] \in T
    OBVIOUS
  <2>5. \A y \in T : \E s \in S : s.counts[o] = y
    OBVIOUS
  <2> HIDE DEF T
  <2>6. z.counts[o] = Max(T)
    BY <2>2, <2>3, GreatestIs
  <2>7. z.counts[o] > 0 <=> \E s \in S : s.counts[o] > 0
    <3>1. z.counts[o] > 0 => \E s \in S : s.counts[o] > 0
      BY <2>3, <2>5
    <3>2. ASSUME NEW s \in S, s.counts[o] > 0 PROVE z.counts[o] > 0
      <4>1. s.counts[o] \in Nat /\ z.counts[o] \in Nat /\ s.counts[o] <= z.counts[o]
        BY <2>2, <2>3, <2>4
      <4> QED BY <4>1, <3>2
    <3> QED BY <3>1, <3>2
  <2> QED BY <2>6, <2>7 DEF T
<1>10. z.counts = [o \in Outcomes |-> Max({s.counts[o] : s \in S})]
  BY <1>8, <1>9
<1>11. z.conclusion = Strongest({s.conclusion : s \in S})
  BY <1>5, <1>8, <1>9, ConcludedOfAll
<1>12. Observed(z) <=> \E s \in S : Observed(s)
  BY <1>5, ObservedIs, <1>7, <1>9 DEF Outcomes
<1> QED BY <1>2, <1>10, <1>11, <1>12 DEF z, S

-----------------------------------------------------------------------------
(* Records: summaries                                                      *)

SummaryTexts == {Nothing, 1, 2}
Flags == {Nothing, TRUE, FALSE}
Lesser == [p \in SummaryTexts |-> [q \in SummaryTexts |->
              IF p = Nothing THEN q ELSE IF q = Nothing THEN p ELSE IF p = 1 THEN 1 ELSE q]]
Either == [p \in Flags |-> [q \in Flags |->
              IF p = Nothing THEN q ELSE IF q = Nothing THEN p ELSE IF p = TRUE THEN TRUE ELSE q]]

\* Which summary is believed: a final one, then a complete one.
Level(s) == IF s.finalized THEN IF s.complete THEN 3 ELSE 2 ELSE IF s.complete THEN 1 ELSE 0
\* What is left of a field: what the believed summary says, else what both say.
Believed(i, j, p, q, both) ==
    IF j > i /\ q # Nothing THEN q ELSE IF i > j /\ p # Nothing THEN p ELSE both[p][q]

\* A merge of values that an absent value leaves alone.
Joining(both, V) ==
    /\ both \in [V -> [V -> V]] /\ Nothing \in V
    /\ \A p \in V : both[p][p] = p /\ both[p][Nothing] = p /\ both[Nothing][p] = p
    /\ \A p, q \in V : both[both[p][q]][q] = both[p][q]
    /\ \A p, q \in V : both[p][q] = Nothing => p = Nothing /\ q = Nothing
    /\ \A p, q, r \in V : both[p][r] = p => both[both[p][q]][r] = both[p][q]

LEMMA LesserJoins == Joining(Lesser, SummaryTexts)
<1>1. Nothing # 1 /\ Nothing # 2
  BY RecordAssumption
<1>2. \A p, q \in SummaryTexts : Lesser[p][q] = IF p = Nothing THEN q ELSE IF q = Nothing THEN p
                                         ELSE IF p = 1 THEN 1 ELSE q
  BY DEF Lesser
<1>3. Lesser \in [SummaryTexts -> [SummaryTexts -> SummaryTexts]]
  BY DEF Lesser, SummaryTexts
<1>4. Nothing \in SummaryTexts /\ \A p \in SummaryTexts : Lesser[p][p] = p
      /\ Lesser[p][Nothing] = p /\ Lesser[Nothing][p] = p
  BY <1>2 DEF SummaryTexts
<1> DEFINE less(p, q) == IF p = Nothing THEN q ELSE IF q = Nothing THEN p ELSE IF p = 1 THEN 1 ELSE q
<1>5. \A p, q \in SummaryTexts : less(p, q) \in SummaryTexts /\ Lesser[p][q] = less(p, q)
  BY <1>2 DEF SummaryTexts
<1>6. ASSUME NEW p \in SummaryTexts, NEW q \in SummaryTexts
      PROVE  /\ Lesser[Lesser[p][q]][q] = Lesser[p][q]
             /\ Lesser[p][q] = Nothing => p = Nothing /\ q = Nothing
  BY <1>1, <1>5 DEF SummaryTexts
<1>7. ASSUME NEW p \in SummaryTexts, NEW q \in SummaryTexts, NEW r \in SummaryTexts, Lesser[p][r] = p
      PROVE  Lesser[Lesser[p][q]][r] = Lesser[p][q]
  BY <1>5, <1>7, <1>1 DEF SummaryTexts
<1> QED BY <1>3, <1>4, <1>6, <1>7 DEF Joining

LEMMA EitherJoins == Joining(Either, Flags)
<1>1. Nothing # TRUE /\ Nothing # FALSE
  BY RecordAssumption
<1>2. \A p, q \in Flags : Either[p][q] = IF p = Nothing THEN q ELSE IF q = Nothing THEN p
                                         ELSE IF p = TRUE THEN TRUE ELSE q
  BY DEF Either
<1>3. Either \in [Flags -> [Flags -> Flags]]
  BY DEF Either, Flags
<1>4. Nothing \in Flags /\ \A p \in Flags : Either[p][p] = p /\ Either[p][Nothing] = p /\ Either[Nothing][p] = p
  BY <1>2 DEF Flags
<1> DEFINE or(p, q) == IF p = Nothing THEN q ELSE IF q = Nothing THEN p ELSE IF p = TRUE THEN TRUE ELSE q
<1>5. \A p, q \in Flags : or(p, q) \in Flags /\ Either[p][q] = or(p, q)
  BY <1>2 DEF Flags
<1>6. ASSUME NEW p \in Flags, NEW q \in Flags
      PROVE  /\ Either[Either[p][q]][q] = Either[p][q]
             /\ Either[p][q] = Nothing => p = Nothing /\ q = Nothing
  <2>1. or(or(p, q), q) = or(p, q) /\ (or(p, q) = Nothing => p = Nothing /\ q = Nothing)
    BY <1>1 DEF Flags
  <2>2. or(p, q) \in Flags /\ Either[p][q] = or(p, q)
    BY <1>5
  <2> DEFINE v == or(p, q)
  <2>3. v \in Flags /\ Either[p][q] = v /\ or(v, q) = v /\ (v = Nothing => p = Nothing /\ q = Nothing)
    BY <2>1, <2>2
  <2>4. Either[v][q] = or(v, q)
    <3> HIDE DEF v, or
    <3> QED BY <1>5, <2>3
  <2> HIDE DEF v, or
  <2> QED BY <2>3, <2>4
<1>7. ASSUME NEW p \in Flags, NEW q \in Flags, NEW r \in Flags, Either[p][r] = p
      PROVE  Either[Either[p][q]][r] = Either[p][q]
  <2>1. or(p, r) = p
    BY <1>5, <1>7
  <2>2. or(or(p, q), r) = or(p, q)
    BY <1>1, <2>1 DEF Flags
  <2>3. or(p, q) \in Flags /\ Either[p][q] = or(p, q)
    BY <1>5
  <2> HIDE DEF or
  <2>4. Either[or(p, q)][r] = or(or(p, q), r)
    BY <1>5, <2>3
  <2> QED BY <2>2, <2>3, <2>4
<1> QED BY <1>3, <1>4, <1>6, <1>7 DEF Joining

LEMMA BelievedSays ==
    ASSUME NEW V, NEW both, Joining(both, V), NEW p \in V, NEW q \in V, NEW r \in V,
           NEW i \in Nat, NEW j \in Nat, NEW k \in Nat, NEW l \in Nat, i <= k, j <= k
    PROVE  /\ Believed(i, j, p, q, both) \in V
           /\ Believed(i, i, p, p, both) = p
           /\ Believed(k, j, Believed(i, j, p, q, both), q, both) = Believed(i, j, p, q, both)
           /\ l <= i /\ Believed(i, l, p, r, both) = p =>
                 Believed(k, l, Believed(i, j, p, q, both), r, both) = Believed(i, j, p, q, both)
<1> DEFINE v == Believed(i, j, p, q, both)
<1>1. /\ both[p][q] \in V /\ both[p][p] = p /\ both[p][Nothing] = p /\ both[Nothing][p] = p
      /\ both[q][q] = q /\ both[q][Nothing] = q /\ both[Nothing][q] = q
      /\ both[Nothing][r] = r /\ both[r][Nothing] = r /\ both[Nothing][Nothing] = Nothing
      /\ both[both[p][q]][q] = both[p][q] /\ both[both[p][q]][Nothing] = both[p][q]
      /\ both[p][q] = Nothing => p = Nothing /\ q = Nothing
  BY DEF Joining
<1>2. both[p][r] = p => both[both[p][q]][r] = both[p][q]
  BY DEF Joining
<1>3. v = IF j > i /\ q # Nothing THEN q ELSE IF i > j /\ p # Nothing THEN p ELSE both[p][q]
  BY DEF Believed
<1>4. v = Nothing => p = Nothing /\ q = Nothing
  BY <1>1, <1>3
<1>5. v \in V /\ Believed(i, i, p, p, both) = p
  BY <1>1, <1>3 DEF Believed
<1> HIDE DEF v
<1>6. Believed(k, j, v, q, both) = v
  <2>1. Believed(k, j, v, q, both) =
           IF j > k /\ q # Nothing THEN q ELSE IF k > j /\ v # Nothing THEN v ELSE both[v][q]
    BY DEF Believed
  <2>2. CASE k > j
    BY <2>1, <2>2, <1>1, <1>4
  <2>3. CASE k = j
    BY <2>1, <2>3, <1>3, <1>1
  <2> QED BY <2>2, <2>3
<1>7. ASSUME l <= i, Believed(i, l, p, r, both) = p
      PROVE  Believed(k, l, v, r, both) = v
  <2>1. Believed(k, l, v, r, both) =
           IF l > k /\ r # Nothing THEN r ELSE IF k > l /\ v # Nothing THEN v ELSE both[v][r]
    BY DEF Believed
  <2>2. p = IF l > i /\ r # Nothing THEN r ELSE IF i > l /\ p # Nothing THEN p ELSE both[p][r]
    BY <1>7 DEF Believed
  <2>3. p = Nothing => r = Nothing
    BY <2>2, <1>1, <1>7
  <2>4. both[v][Nothing] = v
    BY <1>5 DEF Joining
  <2>5. CASE k > l
    BY <2>1, <2>3, <2>4, <2>5, <1>4
  <2>6. CASE k = l
    BY <2>1, <2>2, <2>6, <1>7, <1>3, <1>2
  <2> QED BY <2>5, <2>6, <1>7
<1> QED BY <1>5, <1>6, <1>7 DEF v

\* Said again, and said earlier.
LEMMA BelievedAgain ==
    ASSUME NEW V, NEW both, Joining(both, V), NEW p \in V, NEW q \in V,
           NEW i \in Nat, NEW j \in Nat, NEW k \in Nat, i <= k, j <= k
    PROVE  Believed(k, j, Believed(i, j, p, q, both), q, both) = Believed(i, j, p, q, both)
BY BelievedSays

LEMMA BelievedEarlier ==
    ASSUME NEW V, NEW both, Joining(both, V), NEW p \in V, NEW q \in V, NEW r \in V,
           NEW i \in Nat, NEW j \in Nat, NEW k \in Nat, NEW l \in Nat, i <= k, j <= k,
           l <= i, Believed(i, l, p, r, both) = p
    PROVE  Believed(k, l, Believed(i, j, p, q, both), r, both) = Believed(i, j, p, q, both)
BY BelievedSays

LEMMA LevelIs ==
    ASSUME NEW x \in Summaries, NEW y \in Summaries
    PROVE  /\ Level(x) \in Nat
           /\ Level(x) > Level(y) => Authority(x, y) = {x}
           /\ Level(y) > Level(x) => Authority(x, y) = {y}
           /\ Level(x) = Level(y) => Authority(x, y) = {}
<1>1. x.finalized \in BOOLEAN /\ x.complete \in BOOLEAN /\ y.finalized \in BOOLEAN /\ y.complete \in BOOLEAN
  BY DEF Summaries
<1>2. Level(x) \in Nat /\ Level(y) \in Nat
  BY DEF Level
<1>3. Authority(x, y) =
        IF x.finalized # y.finalized THEN {s \in {x, y} : s.finalized}
        ELSE IF x.complete # y.complete THEN {s \in {x, y} : s.complete} ELSE {}
  BY DEF Authority
<1>4. CASE x.finalized /\ ~y.finalized
  <2>1. {s \in {x, y} : s.finalized} = {x}
    BY <1>4
  <2>2. Level(x) > Level(y)
    BY <1>4 DEF Level
  <2>3. Authority(x, y) = {x}
    BY <1>3, <1>4, <2>1
  <2> QED BY <1>2, <2>2, <2>3
<1>5. CASE ~x.finalized /\ y.finalized
  <2>1. {s \in {x, y} : s.finalized} = {y}
    BY <1>5
  <2>2. Level(y) > Level(x)
    BY <1>5 DEF Level
  <2>3. Authority(x, y) = {y}
    BY <1>3, <1>5, <2>1
  <2> QED BY <1>2, <2>2, <2>3
<1>6. CASE x.finalized = y.finalized /\ x.complete /\ ~y.complete
  <2>1. {s \in {x, y} : s.complete} = {x}
    BY <1>6
  <2>2. Level(x) > Level(y)
    BY <1>1, <1>6 DEF Level
  <2>3. Authority(x, y) = {x}
    BY <1>1, <1>3, <1>6, <2>1
  <2> QED BY <1>2, <2>2, <2>3
<1>7. CASE x.finalized = y.finalized /\ ~x.complete /\ y.complete
  <2>1. {s \in {x, y} : s.complete} = {y}
    BY <1>7
  <2>2. Level(y) > Level(x)
    BY <1>1, <1>7 DEF Level
  <2>3. Authority(x, y) = {y}
    BY <1>1, <1>3, <1>7, <2>1
  <2> QED BY <1>2, <2>2, <2>3
<1>8. CASE x.finalized = y.finalized /\ x.complete = y.complete
  BY <1>1, <1>8, <1>3, <1>2 DEF Level
<1> QED BY <1>1, <1>4, <1>5, <1>6, <1>7, <1>8

\* The text, and the flag, of two summaries.
TextOf(x, y) == Believed(Level(x), Level(y), x.text, y.text, Lesser)
FlagOf(x, y) == Believed(Level(x), Level(y), x.flag, y.flag, Either)

LEMMA TextIs ==
    ASSUME NEW x \in Summaries, NEW y \in Summaries
    PROVE  LET believed == {s.text : s \in Authority(x, y)} \ {Nothing}
               texts == {x.text, y.text} \ {Nothing} IN
           (IF believed # {} THEN CHOOSE t \in believed : TRUE
            ELSE IF texts = {} THEN Nothing ELSE Min(texts)) = TextOf(x, y)
<1> DEFINE p == x.text
           q == y.text
           believed == {s.text : s \in Authority(x, y)} \ {Nothing}
           texts == {p, q} \ {Nothing}
           t == IF believed # {} THEN CHOOSE v \in believed : TRUE
                ELSE IF texts = {} THEN Nothing ELSE Min(texts)
<1>1. p \in SummaryTexts /\ q \in SummaryTexts
  BY DEF Summaries, SummaryTexts
<1>2. Level(x) \in Nat /\ Level(y) \in Nat
  BY LevelIs
<1>3. /\ Level(x) > Level(y) => believed = {p} \ {Nothing}
      /\ Level(y) > Level(x) => believed = {q} \ {Nothing}
      /\ Level(x) = Level(y) => believed = {}
  BY LevelIs
<1>4. TextOf(x, y) = IF Level(y) > Level(x) /\ q # Nothing THEN q
                     ELSE IF Level(x) > Level(y) /\ p # Nothing THEN p ELSE Lesser[p][q]
  BY DEF TextOf, Believed
<1>5. Lesser[p][q] = IF p = Nothing THEN q ELSE IF q = Nothing THEN p ELSE IF p = 1 THEN 1 ELSE q
  BY <1>1 DEF Lesser
<1>6. Nothing # 1 /\ Nothing # 2
  BY RecordAssumption
<1> HIDE DEF p, q, believed
<1>7. (IF texts = {} THEN Nothing ELSE Min(texts)) = Lesser[p][q]
  <2>1. CASE p = Nothing /\ q = Nothing
    BY <2>1, <1>5
  <2>2. ASSUME NEW n \in Nat PROVE Min({n}) = n
    BY MinOfTwo
  <2>3. CASE p # Nothing /\ (q = Nothing \/ q = p)
    BY <2>3, <1>1, <2>2, <1>5 DEF SummaryTexts
  <2>4. CASE p = Nothing /\ q # Nothing
    BY <2>4, <1>1, <2>2, <1>5 DEF SummaryTexts
  <2>5. CASE p # Nothing /\ q # Nothing /\ p # q
    <3>1. texts = {p, q} /\ texts # {} /\ p \in {1, 2} /\ q \in {1, 2}
      BY <2>5, <1>1 DEF SummaryTexts
    <3>2. Min({p, q}) = IF p <= q THEN p ELSE q
      BY <3>1, MinOfTwo
    <3>3. (IF p <= q THEN p ELSE q) = IF p = 1 THEN 1 ELSE q
      BY <3>1, <2>5
    <3>4. Lesser[p][q] = IF p = 1 THEN 1 ELSE q
      BY <2>5, <1>5
    <3> HIDE DEF texts
    <3> QED BY <3>1, <3>2, <3>3, <3>4
  <2> QED BY <2>1, <2>3, <2>4, <2>5
<1>8. ASSUME NEW v, believed = {v} PROVE t = v
  BY <1>8
<1>9. ASSUME believed = {} PROVE t = Lesser[p][q]
  BY <1>7, <1>9
<1> HIDE DEF t
<1>10. t = TextOf(x, y)
  <2>1. CASE Level(x) > Level(y)
    <3>1. CASE p = Nothing
      BY <2>1, <3>1, <1>3, <1>2, <1>4, <1>9
    <3>2. CASE p # Nothing
      BY <2>1, <3>2, <1>3, <1>2, <1>4, <1>8
    <3> QED BY <3>1, <3>2
  <2>2. CASE Level(y) > Level(x)
    <3>1. CASE q = Nothing
      BY <2>2, <3>1, <1>3, <1>2, <1>4, <1>9
    <3>2. CASE q # Nothing
      BY <2>2, <3>2, <1>3, <1>2, <1>4, <1>8
    <3> QED BY <3>1, <3>2
  <2>3. CASE Level(x) = Level(y)
    BY <2>3, <1>2, <1>3, <1>4, <1>9
  <2> QED BY <2>1, <2>2, <2>3, <1>2
<1> QED BY <1>10 DEF t, texts, believed, p, q

LEMMA NotAmong == ASSUME NEW e, NEW S, e \notin S PROVE (e \in S) = FALSE
OBVIOUS

LEMMA FlagIs ==
    ASSUME NEW x \in Summaries, NEW y \in Summaries
    PROVE  LET believed == {s.flag : s \in Authority(x, y)} \ {Nothing}
               flags == {x.flag, y.flag} \ {Nothing} IN
           (IF believed # {} THEN CHOOSE t \in believed : TRUE
            ELSE IF flags = {} THEN Nothing ELSE TRUE \in flags) = FlagOf(x, y)
<1> DEFINE p == x.flag
           q == y.flag
           believed == {s.flag : s \in Authority(x, y)} \ {Nothing}
           flags == {p, q} \ {Nothing}
           t == IF believed # {} THEN CHOOSE v \in believed : TRUE
                ELSE IF flags = {} THEN Nothing ELSE TRUE \in flags
<1>1. p \in Flags /\ q \in Flags
  BY DEF Summaries, Flags
<1>2. Level(x) \in Nat /\ Level(y) \in Nat
  BY LevelIs
<1>3. /\ Level(x) > Level(y) => believed = {p} \ {Nothing}
      /\ Level(y) > Level(x) => believed = {q} \ {Nothing}
      /\ Level(x) = Level(y) => believed = {}
  BY LevelIs
<1>4. FlagOf(x, y) = IF Level(y) > Level(x) /\ q # Nothing THEN q
                     ELSE IF Level(x) > Level(y) /\ p # Nothing THEN p ELSE Either[p][q]
  BY DEF FlagOf, Believed
<1>5. Either[p][q] = IF p = Nothing THEN q ELSE IF q = Nothing THEN p ELSE IF p = TRUE THEN TRUE ELSE q
  BY <1>1 DEF Either
<1>6. Nothing # TRUE /\ Nothing # FALSE
  BY RecordAssumption
<1> HIDE DEF p, q, believed
<1>7. (IF flags = {} THEN Nothing ELSE TRUE \in flags) = Either[p][q]
  <2>1. CASE p = Nothing /\ q = Nothing
    BY <2>1, <1>5
  <2>2. CASE p = TRUE \/ q = TRUE
    BY <2>2, <1>1, <1>5, <1>6 DEF Flags
  <2>3. CASE p \in {FALSE, Nothing} /\ q \in {FALSE, Nothing} /\ ~(p = Nothing /\ q = Nothing)
    <3>1. Either[p][q] = FALSE
      BY <2>3, <1>5, <1>6
    <3>2. flags = {FALSE}
      BY <2>3, <1>6
    <3>3. flags # {} /\ ~(TRUE \in flags)
      BY <3>2
    <3> HIDE DEF flags
    <3> DEFINE u == TRUE \in flags
    <3>4. u = FALSE
      BY <3>3, NotAmong
    <3>5. (IF flags = {} THEN Nothing ELSE u) = FALSE
      <4> HIDE DEF u
      <4> QED BY <3>3, <3>4
    <3> QED BY <3>1, <3>5
  <2> QED BY <2>1, <2>2, <2>3, <1>1 DEF Flags
<1>8. ASSUME NEW v, believed = {v} PROVE t = v
  BY <1>8
<1>9. ASSUME believed = {} PROVE t = Either[p][q]
  BY <1>7, <1>9
<1> HIDE DEF t
<1>10. t = FlagOf(x, y)
  <2>1. CASE Level(x) > Level(y)
    <3>1. CASE p = Nothing
      BY <2>1, <3>1, <1>3, <1>2, <1>4, <1>9
    <3>2. CASE p # Nothing
      BY <2>1, <3>2, <1>3, <1>2, <1>4, <1>8
    <3> QED BY <3>1, <3>2
  <2>2. CASE Level(y) > Level(x)
    <3>1. CASE q = Nothing
      BY <2>2, <3>1, <1>3, <1>2, <1>4, <1>9
    <3>2. CASE q # Nothing
      BY <2>2, <3>2, <1>3, <1>2, <1>4, <1>8
    <3> QED BY <3>1, <3>2
  <2>3. CASE Level(x) = Level(y)
    BY <2>3, <1>2, <1>3, <1>4, <1>9
  <2> QED BY <2>1, <2>2, <2>3, <1>2
<1> QED BY <1>10 DEF t, flags, believed, p, q

\* The merge of two summaries.
LEMMA SummaryIs ==
    ASSUME NEW x \in Summaries, NEW y \in Summaries
    PROVE  /\ MergeSummary(x, y) =
                 [complete |-> x.complete \/ y.complete, finalized |-> x.finalized \/ y.finalized,
                  text |-> TextOf(x, y), flag |-> FlagOf(x, y)]
           /\ MergeSummary(x, y) \in Summaries
<1>1. MergeSummary(x, y) =
         [complete |-> x.complete \/ y.complete, finalized |-> x.finalized \/ y.finalized,
          text |-> TextOf(x, y), flag |-> FlagOf(x, y)]
  BY TextIs, FlagIs, Zenon DEF MergeSummary
<1>2. TextOf(x, y) \in SummaryTexts
  <2>1. x.text \in SummaryTexts /\ y.text \in SummaryTexts
    BY DEF Summaries, SummaryTexts
  <2>2. Level(x) \in Nat /\ Level(y) \in Nat /\ Level(x) <= Level(x) + Level(y)
        /\ Level(y) <= Level(x) + Level(y) /\ Level(x) + Level(y) \in Nat
    BY LevelIs
  <2>3. Believed(Level(x), Level(y), x.text, y.text, Lesser) \in SummaryTexts
    BY <2>1, <2>2, LesserJoins, BelievedSays
  <2> QED BY <2>3 DEF TextOf
<1>3. FlagOf(x, y) \in Flags
  <2>1. x.flag \in Flags /\ y.flag \in Flags
    BY DEF Summaries, Flags
  <2>2. Level(x) \in Nat /\ Level(y) \in Nat /\ Level(x) <= Level(x) + Level(y)
        /\ Level(y) <= Level(x) + Level(y) /\ Level(x) + Level(y) \in Nat
    BY LevelIs
  <2>3. Believed(Level(x), Level(y), x.flag, y.flag, Either) \in Flags
    BY <2>1, <2>2, EitherJoins, BelievedSays
  <2> QED BY <2>3 DEF FlagOf
<1>4. (x.complete \/ y.complete) \in BOOLEAN /\ (x.finalized \/ y.finalized) \in BOOLEAN
  OBVIOUS
<1> DEFINE t == TextOf(x, y)
           v == FlagOf(x, y)
           c == x.complete \/ y.complete
           d == x.finalized \/ y.finalized
<1>5. t \in SummaryTexts /\ v \in Flags /\ c \in BOOLEAN /\ d \in BOOLEAN
  BY <1>2, <1>3, <1>4
<1> HIDE DEF t, v, c, d
<1>6. [complete |-> c, finalized |-> d, text |-> t, flag |-> v] \in Summaries
  BY <1>5 DEF Summaries, SummaryTexts, Flags
<1> QED BY <1>1, <1>6 DEF t, v, c, d

LEMMA SummaryTyped == \A x, y \in Summaries : MergeSummary(x, y) \in Summaries
BY SummaryIs

\* The merge of a summary.
SummaryTable == [x \in Summaries |-> [y \in Summaries |-> MergeSummary(x, y)]]

LEMMA SummaryTableTyped == SummaryTable \in [Summaries -> [Summaries -> Summaries]]
BY SummaryTyped DEF SummaryTable

LEMMA SummaryMerges ==
    ASSUME NEW z \in Summaries, NEW t \in Seq(Summaries)
    PROVE  \E g : Merging(g, SummaryTable, Summaries, z, t) /\ MergedInto(MergeSummary, z, t) = g[Len(t)]
<1> DEFINE N == Len(t)
           Body(h) == [n \in 0..N |-> IF n = 0 THEN z ELSE MergeSummary(h[n - 1], t[n])]
           after == CHOOSE h : h = Body(h)
<1>1. PICK g : Merging(g, SummaryTable, Summaries, z, t)
  BY SummaryTableTyped, MergingExists
<1>2. MergedInto(MergeSummary, z, t) = after[N]
  BY DEF MergedInto
<1>3. /\ N \in Nat /\ g \in [0..N -> Summaries] /\ g[0] = z
      /\ \A i \in 1..N : /\ g[i] = SummaryTable[g[i - 1]][t[i]]
                        /\ g[i - 1] \in Summaries /\ t[i] \in Summaries
  BY <1>1, MergingParts
<1> HIDE DEF N
<1>4. \A i \in 1..N : g[i] = MergeSummary(g[i - 1], t[i])
  BY <1>3 DEF SummaryTable
<1>5. g = Body(g)
  BY <1>3, <1>4
<1>6. after = Body(after)
  BY <1>5
<1> HIDE DEF after
<1>7. after[0] = z /\ \A i \in 1..N : after[i] = MergeSummary(after[i - 1], t[i])
  BY <1>3, <1>6
<1>8. Alike(after, g, N) /\ N \in 0..N
  BY <1>3, <1>4, <1>7 DEF Alike
<1> QED BY <1>1, <1>2, <1>3, <1>8, Agrees DEF N

LEMMA SummaryFolds ==
    ASSUME NEW said \in Sequences(Summaries)
    PROVE  \E f : Folding(f, SummaryTable, Summaries, said) /\ Folded(MergeSummary, said) = f[Len(said)]
<1>1. Head(said) \in Summaries /\ Tail(said) \in Seq(Summaries)
  BY SequenceParts
<1>2. PICK g : /\ Merging(g, SummaryTable, Summaries, Head(said), Tail(said))
               /\ MergedInto(MergeSummary, Head(said), Tail(said)) = g[Len(Tail(said))]
  BY <1>1, SummaryMerges
<1> DEFINE f == [k \in 1..Len(said) |-> g[k - 1]]
<1>3. Folding(f, SummaryTable, Summaries, said) /\ g[Len(Tail(said))] = f[Len(said)]
  BY <1>2, SummaryTableTyped, MergingFolds
<1> HIDE DEF f
<1>4. Folded(MergeSummary, said) = f[Len(said)]
  BY <1>2, <1>3 DEF Folded
<1> QED BY <1>3, <1>4

LEMMA SameSummary ==
    ASSUME NEW x \in Summaries, NEW y \in Summaries, x.complete = y.complete,
           x.finalized = y.finalized, x.text = y.text, x.flag = y.flag
    PROVE  x = y
BY DEF Summaries

\* What a merge of two summaries has of each.
LEMMA SummaryParts ==
    ASSUME NEW x \in Summaries, NEW y \in Summaries
    PROVE  /\ MergeSummary(x, y) \in Summaries
           /\ MergeSummary(x, y).complete <=> x.complete \/ y.complete
           /\ MergeSummary(x, y).finalized <=> x.finalized \/ y.finalized
           /\ MergeSummary(x, y).text = Believed(Level(x), Level(y), x.text, y.text, Lesser)
           /\ MergeSummary(x, y).flag = Believed(Level(x), Level(y), x.flag, y.flag, Either)
           /\ Level(x) \in Nat /\ Level(y) \in Nat /\ Level(MergeSummary(x, y)) \in Nat
           /\ Level(x) <= Level(MergeSummary(x, y)) /\ Level(y) <= Level(MergeSummary(x, y))
           /\ x.text \in SummaryTexts /\ x.flag \in Flags /\ x.complete \in BOOLEAN /\ x.finalized \in BOOLEAN
<1> DEFINE m == MergeSummary(x, y)
<1>1. /\ m \in Summaries
      /\ m.complete = (x.complete \/ y.complete) /\ m.finalized = (x.finalized \/ y.finalized)
      /\ m.text = TextOf(x, y) /\ m.flag = FlagOf(x, y)
  <2> DEFINE c == x.complete \/ y.complete
             d == x.finalized \/ y.finalized
  <2>1. m = [complete |-> c, finalized |-> d, text |-> TextOf(x, y), flag |-> FlagOf(x, y)]
        /\ m \in Summaries
    BY SummaryIs
  <2> HIDE DEF m, c, d
  <2>2. m.complete = c /\ m.finalized = d /\ m.text = TextOf(x, y) /\ m.flag = FlagOf(x, y)
    BY <2>1
  <2> QED BY <2>1, <2>2 DEF c, d
<1>2. /\ x.text \in SummaryTexts /\ x.flag \in Flags /\ x.complete \in BOOLEAN /\ x.finalized \in BOOLEAN
      /\ y.complete \in BOOLEAN /\ y.finalized \in BOOLEAN
  BY DEF Summaries, SummaryTexts, Flags
<1> HIDE DEF m
<1>3. (m.complete <=> x.complete \/ y.complete) /\ (m.finalized <=> x.finalized \/ y.finalized)
  BY <1>1
<1>4. Level(x) \in Nat /\ Level(y) \in Nat /\ Level(m) \in Nat
  BY <1>1, LevelIs
<1>5. Level(x) <= Level(m) /\ Level(y) <= Level(m)
  BY <1>2, <1>3 DEF Level
<1> QED BY <1>1, <1>2, <1>3, <1>4, <1>5 DEF m, TextOf, FlagOf

LEMMA SummaryAbsorbs == Absorbing(SummaryTable, Summaries)
<1>1. \A x, y \in Summaries : SummaryTable[x][y] = MergeSummary(x, y)
  BY DEF SummaryTable
<1>2. \A x, y \in Summaries : MergeSummary(x, y) \in Summaries
  BY SummaryTyped
<1>3. ASSUME NEW x \in Summaries PROVE MergeSummary(x, x) = x
  <2>1. /\ MergeSummary(x, x) \in Summaries
        /\ MergeSummary(x, x).complete = x.complete /\ MergeSummary(x, x).finalized = x.finalized
    BY SummaryParts, SummaryIs DEF Summaries
  <2>2. /\ MergeSummary(x, x).text = x.text /\ MergeSummary(x, x).flag = x.flag
    BY SummaryParts, BelievedSays, LesserJoins, EitherJoins
  <2> QED BY <2>1, <2>2, SameSummary
<1>4. ASSUME NEW x \in Summaries, NEW y \in Summaries
      PROVE  MergeSummary(MergeSummary(x, y), y) = MergeSummary(x, y)
  <2> DEFINE m == MergeSummary(x, y)
             n == MergeSummary(m, y)
             i == Level(x)
             j == Level(y)
             k == Level(m)
  <2>1. /\ m \in Summaries /\ i \in Nat /\ j \in Nat /\ k \in Nat /\ i <= k /\ j <= k
        /\ m.complete <=> x.complete \/ y.complete
        /\ m.finalized <=> x.finalized \/ y.finalized
        /\ m.text = Believed(i, j, x.text, y.text, Lesser)
        /\ m.flag = Believed(i, j, x.flag, y.flag, Either)
    BY SummaryParts
  <2> HIDE DEF m
  <2>2. /\ n \in Summaries
        /\ n.complete <=> m.complete \/ y.complete
        /\ n.finalized <=> m.finalized \/ y.finalized
        /\ n.text = Believed(k, j, m.text, y.text, Lesser)
        /\ n.flag = Believed(k, j, m.flag, y.flag, Either)
    BY <2>1, SummaryParts
  <2> HIDE DEF n, i, j, k
  <2>3. x.text \in SummaryTexts /\ y.text \in SummaryTexts /\ x.flag \in Flags /\ y.flag \in Flags
    BY SummaryParts
  <2>4. Believed(k, j, Believed(i, j, x.text, y.text, Lesser), y.text, Lesser)
           = Believed(i, j, x.text, y.text, Lesser)
    BY <2>1, <2>3, BelievedAgain, LesserJoins
  <2>5. Believed(k, j, Believed(i, j, x.flag, y.flag, Either), y.flag, Either)
           = Believed(i, j, x.flag, y.flag, Either)
    BY <2>1, <2>3, BelievedAgain, EitherJoins
  <2>6. n.text = m.text /\ n.flag = m.flag
    BY <2>1, <2>2, <2>4, <2>5
  <2>7. n.complete = m.complete /\ n.finalized = m.finalized
    BY <2>1, <2>2 DEF Summaries
  <2>8. n = m
    BY <2>1, <2>2, <2>6, <2>7, SameSummary
  <2> QED BY <2>8 DEF m, n
<1>5. ASSUME NEW x \in Summaries, NEW y \in Summaries, NEW s \in Summaries,
             MergeSummary(x, s) = x
      PROVE  MergeSummary(MergeSummary(x, y), s) = MergeSummary(x, y)
  <2> DEFINE m == MergeSummary(x, y)
             n == MergeSummary(m, s)
             i == Level(x)
             j == Level(y)
             k == Level(m)
             l == Level(s)
  <2>1. /\ m \in Summaries /\ i \in Nat /\ j \in Nat /\ k \in Nat /\ i <= k /\ j <= k
        /\ m.complete <=> x.complete \/ y.complete
        /\ m.finalized <=> x.finalized \/ y.finalized
        /\ m.text = Believed(i, j, x.text, y.text, Lesser)
        /\ m.flag = Believed(i, j, x.flag, y.flag, Either)
    BY SummaryParts
  <2> HIDE DEF m
  <2>2. /\ n \in Summaries /\ l \in Nat
        /\ n.complete <=> m.complete \/ s.complete
        /\ n.finalized <=> m.finalized \/ s.finalized
        /\ n.text = Believed(k, l, m.text, s.text, Lesser)
        /\ n.flag = Believed(k, l, m.flag, s.flag, Either)
    BY <2>1, SummaryParts
  <2>3. /\ x.complete <=> x.complete \/ s.complete
        /\ x.finalized <=> x.finalized \/ s.finalized
        /\ x.text = Believed(i, l, x.text, s.text, Lesser)
        /\ x.flag = Believed(i, l, x.flag, s.flag, Either)
        /\ l <= i
    BY <1>5, SummaryParts
  <2> HIDE DEF n, i, j, k, l
  <2>4. /\ x.text \in SummaryTexts /\ y.text \in SummaryTexts /\ s.text \in SummaryTexts
        /\ x.flag \in Flags /\ y.flag \in Flags /\ s.flag \in Flags
    BY SummaryParts
  <2>5. Believed(k, l, Believed(i, j, x.text, y.text, Lesser), s.text, Lesser)
           = Believed(i, j, x.text, y.text, Lesser)
    BY <2>1, <2>2, <2>3, <2>4, BelievedEarlier, LesserJoins
  <2>6. Believed(k, l, Believed(i, j, x.flag, y.flag, Either), s.flag, Either)
           = Believed(i, j, x.flag, y.flag, Either)
    BY <2>1, <2>2, <2>3, <2>4, BelievedEarlier, EitherJoins
  <2>7. n.text = m.text /\ n.flag = m.flag
    BY <2>1, <2>2, <2>5, <2>6
  <2>8. n.complete = m.complete /\ n.finalized = m.finalized
    BY <2>1, <2>2, <2>3 DEF Summaries
  <2>9. n = m
    BY <2>1, <2>2, <2>7, <2>8, SameSummary
  <2> QED BY <2>9 DEF m, n
<1>6. \A x \in Summaries : SummaryTable[x][x] = x
  BY <1>1, <1>3
<1>7. ASSUME NEW x \in Summaries, NEW y \in Summaries
      PROVE  SummaryTable[SummaryTable[x][y]][y] = SummaryTable[x][y]
  <2>1. /\ SummaryTable[x][y] = MergeSummary(x, y) /\ MergeSummary(x, y) \in Summaries
        /\ MergeSummary(MergeSummary(x, y), y) = MergeSummary(x, y)
    BY <1>1, <1>2, <1>4
  <2> QED BY <2>1, <1>1
<1>8. ASSUME NEW x \in Summaries, NEW y \in Summaries, NEW s \in Summaries,
             SummaryTable[x][s] = x
      PROVE  SummaryTable[SummaryTable[x][y]][s] = SummaryTable[x][y]
  <2>1. MergeSummary(x, s) = x
    BY <1>1, <1>8
  <2>2. MergeSummary(MergeSummary(x, y), s) = MergeSummary(x, y)
    BY <2>1, <1>5
  <2> QED BY <2>2, <1>1, <1>2
<1> HIDE DEF SummaryTable
<1> QED BY <1>6, <1>7, <1>8 DEF Absorbing

LEMMA SummaryHarmless ==
    ASSUME NEW said \in Sequences(Summaries)
    PROVE  Harmless(MergeSummary, said)
<1>1. PICK f : Folding(f, SummaryTable, Summaries, said) /\ Folded(MergeSummary, said) = f[Len(said)]
  BY SummaryFolds
<1> DEFINE z == f[Len(said)]
<1>2. DOMAIN said = 1..Len(said) /\ z \in Summaries
  BY <1>1, SequenceParts DEF Folding
<1>4. \A i \in 1..Len(said) : SummaryTable[z][said[i]] = z
  BY <1>1, SummaryTableTyped, SummaryAbsorbs, FoldAbsorbs
<1> HIDE DEF z
<1>3. ASSUME NEW n \in 1..Len(said) PROVE MergedInto(MergeSummary, z, SubSeq(said, n, Len(said))) = z
  <2> DEFINE t == SubSeq(said, n, Len(said))
  <2>1. t \in Seq(Summaries) /\ \A g : Merging(g, SummaryTable, Summaries, z, t) => g[Len(t)] = z
    BY <1>2, <1>4, SummaryTableTyped, SuffixUnmoved
  <2> HIDE DEF t
  <2>2. MergedInto(MergeSummary, z, t) = z
    BY <1>2, <2>1, SummaryMerges
  <2> QED BY <2>2 DEF t
<1> QED BY <1>1, <1>2, <1>3 DEF Harmless, z

\* A row that has what the final summary says, and one no summary that is final was merged into.
Won(x, s) == /\ x.finalized /\ (x.complete <=> s.complete)
             /\ s.text # Nothing => x.text = s.text
             /\ s.flag # Nothing => x.flag = s.flag
Preliminary(x) == ~x.finalized /\ ~x.complete

LEMMA FinalIsBelieved ==
    ASSUME NEW s \in Summaries, s.finalized, NEW x \in Summaries, NEW y \in Summaries
    PROVE  /\ Preliminary(x) /\ Preliminary(y) => Preliminary(MergeSummary(x, y))
           /\ Preliminary(x) => Won(MergeSummary(x, s), s)
           /\ Won(x, s) /\ Preliminary(y) => Won(MergeSummary(x, y), s)
           /\ Won(x, s) => Won(MergeSummary(x, s), s)
<1>1. /\ x.complete \in BOOLEAN /\ x.finalized \in BOOLEAN
      /\ y.complete \in BOOLEAN /\ y.finalized \in BOOLEAN
      /\ s.complete \in BOOLEAN /\ s.finalized \in BOOLEAN
  BY SummaryParts
<1>2. ASSUME Preliminary(x), Preliminary(y) PROVE Preliminary(MergeSummary(x, y))
  BY <1>2, SummaryParts DEF Preliminary
<1>3. ASSUME Preliminary(x) PROVE Won(MergeSummary(x, s), s)
  BY <1>3, SummaryParts DEF Preliminary, Level, Won, Believed
<1>4. ASSUME Won(x, s), Preliminary(y) PROVE Won(MergeSummary(x, y), s)
  BY <1>4, SummaryParts DEF Preliminary, Won, Level, Believed
<1>5. ASSUME Won(x, s) PROVE Won(MergeSummary(x, s), s)
  BY <1>1, <1>5, SummaryParts, LesserJoins, EitherJoins DEF Won, Level, Joining, Believed
<1> QED BY <1>2, <1>3, <1>4, <1>5

\* The summary of the last record of a share, the only one that is final, wins over those
\* written while the share was read, and records stored again change nothing.
THEOREM FinalSummaryStays == FinalSummaryWins
<1> SUFFICES ASSUME NEW said \in SequencesUpTo(Summaries)
             PROVE  LET merged == Folded(MergeSummary, said)
                        final == {s \in ToSet(said) : s.finalized} IN
                    /\ Harmless(MergeSummary, said)
                    /\ (/\ Cardinality(final) = 1
                        /\ \A s \in ToSet(said) \ final : ~s.complete) =>
                          \A s \in final : /\ s.text # Nothing => merged.text = s.text
                                           /\ s.flag # Nothing => merged.flag = s.flag
  BY DEF FinalSummaryWins
<1>1. said \in Sequences(Summaries)
  BY SequencesNonempty
<1>2. Harmless(MergeSummary, said)
  BY <1>1, SummaryHarmless
<1>3. PICK f : /\ Folding(f, SummaryTable, Summaries, said)
               /\ Folded(MergeSummary, said) = f[Len(said)]
  BY <1>1, SummaryFolds
<1> DEFINE N == Len(said)
           S == ToSet(said)
           final == {s \in S : s.finalized}
<1>4. N \in Nat \ {0} /\ said \in [1..N -> Summaries] /\ DOMAIN said = 1..N
  BY <1>1, SequenceParts
<1>5. S = {said[i] : i \in 1..N} /\ S \in SUBSET Summaries
  BY <1>4 DEF ToSet
<1>6. /\ f \in [1..N -> Summaries] /\ f[1] = said[1]
      /\ \A k \in 2..N : f[k] = SummaryTable[f[k - 1]][said[k]]
  BY <1>3 DEF Folding
<1> HIDE DEF N, S
<1>7. ASSUME Cardinality(final) = 1, \A s \in S \ final : ~s.complete, NEW s \in final
      PROVE  Won(f[N], s)
  <2>1. final = {s}
    <3>1. IsFiniteSet(final)
      <4>1. IsFiniteSet(1..N)
        BY <1>4, FS_Interval
      <4>2. said \in Surjection(1..N, S)
        BY <1>4, <1>5 DEF Surjection
      <4>3. IsFiniteSet(S)
        BY <4>1, <4>2, FS_Surjection
      <4> QED BY <4>3, FS_Subset
    <3>2. PICK w : final = {w}
      BY <3>1, <1>7, FS_Singleton
    <3> QED BY <3>2
  <2>2. s \in Summaries /\ s.finalized /\ s \in S
    BY <1>5
  <2>3. \A i \in 1..N : said[i] \in Summaries /\ (said[i] = s \/ Preliminary(said[i]))
    <3> SUFFICES ASSUME NEW i \in 1..N, said[i] # s PROVE said[i] \in Summaries /\ Preliminary(said[i])
      BY <1>4
    <3>1. said[i] \in S /\ said[i] \in Summaries
      BY <1>4, <1>5
    <3>2. said[i] \notin final
      BY <2>1
    <3>3. ~said[i].finalized /\ ~said[i].complete
      BY <3>1, <3>2, <1>7
    <3> QED BY <3>1, <3>3 DEF Preliminary
  <2> HIDE DEF final
  <2> DEFINE I == {k \in 1..N : Won(f[k], s) \/ (Preliminary(f[k]) /\ \A i \in 1..k : said[i] # s)}
  <2>4. 1 \in I
    <3>1. 1 \in 1..N /\ 1..1 = {1}
      BY <1>4
    <3>2. CASE said[1] = s
      BY <3>1, <3>2, <1>6, <2>2 DEF Won
    <3>3. CASE said[1] # s
      BY <3>1, <3>3, <1>6, <2>3
    <3> QED BY <3>2, <3>3
  <2>5. ASSUME NEW k \in 2..N, k - 1 \in I PROVE k \in I
    <3> DEFINE x == f[k - 1]
               y == said[k]
    <3>1. /\ x \in Summaries /\ y \in Summaries /\ f[k] = MergeSummary(x, y) /\ k \in 1..N
          /\ y = s \/ Preliminary(y)
          /\ Won(x, s) \/ (Preliminary(x) /\ \A i \in 1..k - 1 : said[i] # s)
      <4>1. k \in 1..N /\ k - 1 \in 1..N
        BY <1>4
      <4>2. x \in Summaries /\ y \in Summaries /\ (y = s \/ Preliminary(y))
        BY <4>1, <1>6, <2>3
      <4>3. f[k] = MergeSummary(x, y)
        BY <4>2, <1>6 DEF SummaryTable
      <4> QED BY <4>1, <4>2, <4>3, <2>5
    <3>2. Won(f[k], s) \/ (Preliminary(f[k]) /\ Preliminary(x) /\ y # s)
      <4> HIDE DEF x, y
      <4>1. /\ Preliminary(x) /\ Preliminary(y) => Preliminary(MergeSummary(x, y))
            /\ Preliminary(x) => Won(MergeSummary(x, s), s)
            /\ Won(x, s) /\ Preliminary(y) => Won(MergeSummary(x, y), s)
            /\ Won(x, s) => Won(MergeSummary(x, s), s)
        BY <3>1, <2>2, FinalIsBelieved
      <4> QED BY <3>1, <4>1
    <3>3. CASE Won(f[k], s)
      BY <3>1, <3>3
    <3>4. CASE Preliminary(f[k]) /\ Preliminary(x) /\ y # s
      BY <3>4, <3>1 DEF Won, Preliminary
    <3> QED BY <3>2, <3>3, <3>4
  <2> HIDE DEF I
  <2>6. \A k \in 1..N : k \in I
    BY <1>4, <2>4, <2>5, FoldingKeeps
  <2>7. N \in I
    BY <1>4, <2>6
  <2>8. PICK i \in 1..N : said[i] = s
    BY <1>5, <2>2
  <2> QED BY <2>7, <2>8 DEF I
<1>8. ASSUME Cardinality(final) = 1, \A s \in S \ final : ~s.complete, NEW s \in final
      PROVE  /\ s.text # Nothing => f[N].text = s.text
             /\ s.flag # Nothing => f[N].flag = s.flag
  BY <1>7, <1>8 DEF Won
<1> QED BY <1>2, <1>3, <1>8 DEF S, N

-----------------------------------------------------------------------------
(* Records: endpoints                                                      *)

Names     == {Nothing, 1, 2}
Details   == {Nothing, 1}
Hellos    == [id : Names, proof : Names, detail : Details]
Endpoints == [id : Names, proof : Names, detail : Details, failed : BOOLEAN]

\* The provenance a record gives, and whether the record contradicts the endpoint.
ProofOf(y) == IF y.id = Nothing THEN Nothing ELSE y.proof
Clash(x, y) ==
    /\ x.id # Nothing
    /\ \/ y.id # Nothing /\ y.id # x.id
       \/ x.proof # Nothing /\ ProofOf(y) # Nothing /\ ProofOf(y) # x.proof
Or(p, q) == IF q = Nothing THEN p ELSE q

\* What a record makes of an endpoint.
LEMMA EndpointParts ==
    ASSUME NEW x \in Endpoints, NEW y \in Hellos
    PROVE  /\ UpsertEndpoint(x, y) \in Endpoints
           /\ UpsertEndpoint(x, y).failed <=> x.failed \/ Clash(x, y)
           /\ x.failed \/ Clash(x, y) =>
                 /\ UpsertEndpoint(x, y).id = x.id /\ UpsertEndpoint(x, y).proof = x.proof
                 /\ UpsertEndpoint(x, y).detail = x.detail
           /\ ~(x.failed \/ Clash(x, y)) =>
                 /\ UpsertEndpoint(x, y).id = Or(x.id, y.id)
                 /\ UpsertEndpoint(x, y).proof = Or(x.proof, ProofOf(y))
                 /\ UpsertEndpoint(x, y).detail = Or(x.detail, y.detail)
<1> DEFINE told == Identified(y)
<1>1. /\ told.id = y.id /\ told.proof = ProofOf(y) /\ told.detail = y.detail
      /\ y.id \in Names /\ ProofOf(y) \in Names /\ y.detail \in Details
  BY DEF Identified, ProofOf, Hellos, Names
<1>2. /\ x.id \in Names /\ x.proof \in Names /\ x.detail \in Details /\ x.failed \in BOOLEAN
      /\ x = [id |-> x.id, proof |-> x.proof, detail |-> x.detail, failed |-> x.failed]
  BY DEF Endpoints
<1>3. Conflicts(x, told) <=> Clash(x, y)
  BY <1>1 DEF Conflicts, Clash
<1>4. UpsertEndpoint(x, y) =
         IF x.failed \/ Conflicts(x, told) THEN [x EXCEPT !.failed = TRUE]
         ELSE [x EXCEPT !.id = IF told.id = Nothing THEN x.id ELSE told.id,
                        !.proof = IF told.proof = Nothing THEN x.proof ELSE told.proof,
                        !.detail = IF told.detail = Nothing THEN x.detail ELSE told.detail]
  BY DEF UpsertEndpoint
<1> HIDE DEF told
<1>5. CASE x.failed \/ Clash(x, y)
  BY <1>3, <1>4, <1>5, <1>2 DEF Endpoints
<1>6. CASE ~(x.failed \/ Clash(x, y))
  <2>1. UpsertEndpoint(x, y) =
           [id |-> Or(x.id, y.id), proof |-> Or(x.proof, ProofOf(y)),
            detail |-> Or(x.detail, y.detail), failed |-> x.failed]
    BY <1>1, <1>3, <1>4, <1>6, <1>2 DEF Or, Endpoints
  <2>2. Or(x.id, y.id) \in Names /\ Or(x.proof, ProofOf(y)) \in Names /\ Or(x.detail, y.detail) \in Details
    BY <1>1, <1>2 DEF Or
  <2> QED BY <2>1, <2>2, <1>2, <1>6 DEF Endpoints
<1> QED BY <1>5, <1>6

LEMMA EndpointTyped == \A x \in Endpoints, y \in Hellos : UpsertEndpoint(x, y) \in Endpoints
BY EndpointParts

\* The merge of a record into an endpoint.
EndpointTable == [x \in Endpoints |-> [y \in Hellos |-> UpsertEndpoint(x, y)]]

LEMMA EndpointTableTyped == EndpointTable \in [Endpoints -> [Hellos -> Endpoints]]
BY EndpointTyped DEF EndpointTable

LEMMA EndpointMerges ==
    ASSUME NEW z \in Endpoints, NEW t \in Seq(Hellos)
    PROVE  \E g : Merging(g, EndpointTable, Endpoints, z, t) /\ MergedInto(UpsertEndpoint, z, t) = g[Len(t)]
<1> DEFINE N == Len(t)
           Body(h) == [n \in 0..N |-> IF n = 0 THEN z ELSE UpsertEndpoint(h[n - 1], t[n])]
           after == CHOOSE h : h = Body(h)
<1>1. PICK g : Merging(g, EndpointTable, Endpoints, z, t)
  BY EndpointTableTyped, MergingExists
<1>2. MergedInto(UpsertEndpoint, z, t) = after[N]
  BY DEF MergedInto
<1>3. /\ N \in Nat /\ g \in [0..N -> Endpoints] /\ g[0] = z
      /\ \A i \in 1..N : /\ g[i] = EndpointTable[g[i - 1]][t[i]]
                        /\ g[i - 1] \in Endpoints /\ t[i] \in Hellos
  BY <1>1, MergingParts
<1> HIDE DEF N
<1>4. \A i \in 1..N : g[i] = UpsertEndpoint(g[i - 1], t[i])
  BY <1>3 DEF EndpointTable
<1>5. g = Body(g)
  BY <1>3, <1>4
<1>6. after = Body(after)
  BY <1>5
<1> HIDE DEF after
<1>7. after[0] = z /\ \A i \in 1..N : after[i] = UpsertEndpoint(after[i - 1], t[i])
  BY <1>3, <1>6
<1>8. Alike(after, g, N) /\ N \in 0..N
  BY <1>3, <1>4, <1>7 DEF Alike
<1> QED BY <1>1, <1>2, <1>3, <1>8, Agrees DEF N

LEMMA SameEndpoint ==
    ASSUME NEW x \in Endpoints, NEW y \in Endpoints, x.id = y.id, x.proof = y.proof,
           x.detail = y.detail, x.failed = y.failed
    PROVE  x = y
BY DEF Endpoints

\* An endpoint that has an identity keeps it and its provenance.
LEMMA IdentityIsKept ==
    ASSUME NEW x \in Endpoints, NEW y \in Hellos, x.id # Nothing
    PROVE  /\ UpsertEndpoint(x, y).id = x.id
           /\ x.proof # Nothing => UpsertEndpoint(x, y).proof = x.proof
<1> DEFINE m == UpsertEndpoint(x, y)
<1>1. /\ x.failed \/ Clash(x, y) => m.id = x.id /\ m.proof = x.proof
      /\ ~(x.failed \/ Clash(x, y)) => m.id = Or(x.id, y.id) /\ m.proof = Or(x.proof, ProofOf(y))
  BY EndpointParts
<1> HIDE DEF m
<1>2. CASE x.failed \/ Clash(x, y)
  BY <1>1, <1>2 DEF m
<1>3. CASE ~(x.failed \/ Clash(x, y))
  BY <1>1, <1>3 DEF m, Clash, Or
<1> QED BY <1>2, <1>3

\* A record that did not fail the run may be stored again, then and later.
LEMMA EndpointAgain ==
    ASSUME NEW x \in Endpoints, NEW y \in Hellos, ~UpsertEndpoint(x, y).failed
    PROVE  /\ ~x.failed /\ (y.id # Nothing => UpsertEndpoint(x, y).id = y.id)
           /\ x.id # Nothing => UpsertEndpoint(x, y).id = x.id
           /\ UpsertEndpoint(UpsertEndpoint(x, y), y) = UpsertEndpoint(x, y)
           /\ \A s \in Hellos : UpsertEndpoint(x, s) = x =>
                 UpsertEndpoint(UpsertEndpoint(x, y), s) = UpsertEndpoint(x, y)
<1> DEFINE m == UpsertEndpoint(x, y)
<1>1. /\ m \in Endpoints /\ ~m.failed /\ ~x.failed /\ ~Clash(x, y)
      /\ m.id = Or(x.id, y.id) /\ m.proof = Or(x.proof, ProofOf(y)) /\ m.detail = Or(x.detail, y.detail)
  BY EndpointParts
<1> HIDE DEF m
<1>2. \A v \in Endpoints, s \in Hellos :
          /\ v.detail \in Details /\ s.detail \in Details
          /\ v.failed \in BOOLEAN /\ UpsertEndpoint(v, s).failed \in BOOLEAN
          /\ UpsertEndpoint(v, s) \in Endpoints
  BY EndpointTyped DEF Endpoints, Hellos
<1>3. ASSUME NEW s \in Hellos, ~Clash(m, s),
             Or(m.id, s.id) = m.id, Or(m.proof, ProofOf(s)) = m.proof, Or(m.detail, s.detail) = m.detail
      PROVE  UpsertEndpoint(m, s) = m
  BY <1>1, <1>3, EndpointParts, <1>2, SameEndpoint
<1>4. UpsertEndpoint(m, y) = m
  BY <1>1, <1>3 DEF Clash, Or
<1>5. ASSUME NEW s \in Hellos, UpsertEndpoint(x, s) = x
      PROVE  UpsertEndpoint(m, s) = m
  <2>1. /\ ~Clash(x, s)
        /\ x.id = Or(x.id, s.id) /\ x.proof = Or(x.proof, ProofOf(s)) /\ x.detail = Or(x.detail, s.detail)
    BY <1>1, <1>5, EndpointParts
  <2>5. ProofOf(s) # Nothing => s.id # Nothing
    BY DEF ProofOf
  <2>2. ~Clash(m, s) /\ Or(m.id, s.id) = m.id /\ Or(m.proof, ProofOf(s)) = m.proof
    BY <1>1, <2>5, <2>1 DEF Or, Clash
  <2>3. x.detail \in Details /\ y.detail \in Details /\ s.detail \in Details
    BY DEF Endpoints, Hellos
  <2>4. Or(m.detail, s.detail) = m.detail
    BY <1>1, <2>1, <2>3 DEF Or, Details
  <2> QED BY <1>3, <2>2, <2>4
<1>6. ~x.failed /\ (y.id # Nothing => m.id = y.id) /\ (x.id # Nothing => m.id = x.id)
  BY <1>1 DEF Or, Clash
<1> QED BY <1>4, <1>5, <1>6 DEF m

\* What the first n records make of an endpoint, for each n.
LEMMA EndpointAfter ==
    ASSUME NEW said \in Sequences(Hellos), NEW z \in Endpoints,
           NEW g, Merging(g, EndpointTable, Endpoints, z, said), NEW n \in 1..Len(said)
    PROVE  MergedInto(UpsertEndpoint, z, SubSeq(said, 1, n)) = g[n]
<1> DEFINE t == SubSeq(said, 1, n)
           N == Len(said)
<1>1. /\ N \in Nat \ {0} /\ said \in [1..N -> Hellos] /\ said \in Seq(Hellos)
  BY SequenceParts DEF Sequences
<1>2. t \in Seq(Hellos) /\ Len(t) = n /\ \A i \in 1..n : t[i] = said[i]
  BY <1>1
<1> HIDE DEF t
<1>3. PICK h : Merging(h, EndpointTable, Endpoints, z, t) /\ MergedInto(UpsertEndpoint, z, t) = h[Len(t)]
  BY <1>2, EndpointMerges
<1>4. /\ h \in [0..n -> Endpoints] /\ h[0] = z
      /\ \A i \in 1..n : h[i] = EndpointTable[h[i - 1]][t[i]]
  BY <1>2, <1>3 DEF Merging
<1>5. /\ g[0] = z /\ \A i \in 1..N : g[i] = EndpointTable[g[i - 1]][said[i]]
  BY DEF Merging
<1>6. n \in Nat /\ n \in 0..n /\ \A i \in 1..n : i \in 1..N
  BY <1>1
<1> HIDE DEF N
<1>7. Alike(h, g, n)
  BY <1>2, <1>4, <1>5, <1>6 DEF Alike
<1>8. h[n] = g[n]
  BY <1>6, <1>7, Agrees
<1> QED BY <1>2, <1>3, <1>8 DEF t

LEMMA EndpointTableIs ==
    \A x \in Endpoints, y \in Hellos : EndpointTable[x][y] = UpsertEndpoint(x, y)
BY DEF EndpointTable

LEMMA PlaceholderTyped == Placeholder \in Endpoints
BY DEF Placeholder, Endpoints, Names, Details

\* Once known, an identity and its provenance stay.
LEMMA IdentityStays ==
    ASSUME NEW said \in Sequences(Hellos), NEW g,
           Merging(g, EndpointTable, Endpoints, Placeholder, said),
           NEW n \in 1..Len(said), NEW m \in 1..Len(said), n <= m, g[n].id # Nothing
    PROVE  /\ g[m].id = g[n].id
           /\ g[n].proof # Nothing => g[m].proof = g[n].proof
<1> DEFINE N == Len(said)
           Kept(k) == g[k].id = g[n].id /\ (g[n].proof # Nothing => g[k].proof = g[n].proof)
           I == {k \in 1..N : k < n \/ Kept(k)}
<1>1. N \in Nat \ {0} /\ said \in [1..N -> Hellos]
  BY SequenceParts
<1>2. g \in [0..N -> Endpoints] /\ \A i \in 1..N : g[i] = EndpointTable[g[i - 1]][said[i]]
  BY DEF Merging
<1> HIDE DEF N
<1>3. n \in 1..N /\ m \in 1..N
  BY DEF N
<1>4. 1 \in I
  BY <1>1, <1>3
<1>5. ASSUME NEW k \in 2..N, k - 1 \in I PROVE k \in I
  <2>1. k \in 1..N /\ k - 1 \in 1..N /\ k - 1 \in 0..N
    BY <1>1
  <2>2. CASE k <= n
    BY <2>1, <2>2, <1>3
  <2>3. CASE n < k
    <3>1. Kept(k - 1)
      BY <2>3, <1>3, <1>5
    <3> DEFINE x == g[k - 1]
    <3>2. x \in Endpoints /\ said[k] \in Hellos /\ x.id # Nothing
      BY <2>1, <3>1, <1>1, <1>2
    <3>3. g[k] = UpsertEndpoint(x, said[k])
      BY <2>1, <3>2, <1>2, EndpointTableIs
    <3> HIDE DEF x
    <3>4. g[k].id = x.id /\ (x.proof # Nothing => g[k].proof = x.proof)
      BY <3>2, <3>3, IdentityIsKept
    <3>5. Kept(k)
      BY <3>1, <3>4 DEF x
    <3> QED BY <2>1, <3>5
  <2> QED BY <2>2, <2>3, <1>3
<1> HIDE DEF I
<1>6. \A k \in 1..N : k \in I
  BY <1>1, <1>4, <1>5, FoldingKeeps
<1>7. m \in I
  BY <1>3, <1>6
<1> QED BY <1>3, <1>7 DEF I

\* What did not fail the run agrees with the endpoint, and may be stored again.
LEMMA EndpointAgrees ==
    ASSUME NEW said \in Sequences(Hellos), NEW g,
           Merging(g, EndpointTable, Endpoints, Placeholder, said), ~g[Len(said)].failed
    PROVE  \A i \in 1..Len(said) :
              /\ said[i].id # Nothing => g[Len(said)].id = said[i].id
              /\ UpsertEndpoint(g[Len(said)], said[i]) = g[Len(said)]
<1> DEFINE N == Len(said)
           Same(k, i) == /\ said[i].id # Nothing => g[k].id = said[i].id
                         /\ UpsertEndpoint(g[k], said[i]) = g[k]
           I == {k \in 0..N : g[k].failed \/ \A i \in 1..k : Same(k, i)}
<1>1. N \in Nat \ {0} /\ said \in [1..N -> Hellos]
  BY SequenceParts
<1>2. g \in [0..N -> Endpoints] /\ \A i \in 1..N : g[i] = EndpointTable[g[i - 1]][said[i]]
  BY DEF Merging
<1> HIDE DEF N
<1>3. 0 \in I
  BY <1>1
<1>4. ASSUME NEW k \in 1..N, k - 1 \in I PROVE k \in I
  <2>1. k \in 0..N /\ k - 1 \in 0..N
    BY <1>1
  <2> DEFINE x == g[k - 1]
             y == said[k]
             m == UpsertEndpoint(x, y)
  <2>2. x \in Endpoints /\ y \in Hellos
    BY <2>1, <1>1, <1>2
  <2>3. g[k] = m
    BY <2>2, <1>2, EndpointTableIs
  <2> SUFFICES ASSUME ~m.failed, NEW i \in 1..k PROVE Same(k, i)
    BY <2>1, <2>3
  <2>4. /\ ~x.failed /\ (y.id # Nothing => m.id = y.id) /\ (x.id # Nothing => m.id = x.id)
        /\ UpsertEndpoint(m, y) = m
        /\ \A s \in Hellos : UpsertEndpoint(x, s) = x => UpsertEndpoint(m, s) = m
    BY <2>2, EndpointAgain
  <2>5. CASE i = k
    BY <2>3, <2>4, <2>5
  <2>6. CASE i # k
    <3>1. i \in 1..k - 1 /\ said[i] \in Hellos
      BY <2>6, <1>1
    <3>2. /\ said[i].id # Nothing => x.id = said[i].id
          /\ UpsertEndpoint(x, said[i]) = x
      BY <3>1, <2>4, <1>4
    <3> HIDE DEF x, y, m
    <3> QED BY <3>1, <3>2, <2>3, <2>4
  <2> QED BY <2>5, <2>6
<1> HIDE DEF I
<1>5. \A k \in 0..N : k \in I
  BY <1>1, <1>3, <1>4, Upward
<1>6. N \in I
  BY <1>1, <1>5
<1> QED BY <1>6 DEF I, N

LEMMA EndpointUnmoved ==
    ASSUME NEW z \in Endpoints, NEW t \in Seq(Hellos),
           \A i \in 1..Len(t) : UpsertEndpoint(z, t[i]) = z
    PROVE  MergedInto(UpsertEndpoint, z, t) = z
<1>1. PICK h : /\ Merging(h, EndpointTable, Endpoints, z, t)
               /\ MergedInto(UpsertEndpoint, z, t) = h[Len(t)]
  BY EndpointMerges
<1>2. \A i \in 1..Len(t) : t[i] \in Hellos
  OBVIOUS
<1>3. \A i \in 1..Len(t) : EndpointTable[z][t[i]] = z
  BY <1>2, EndpointTableIs
<1>4. h[Len(t)] = z
  BY <1>1, <1>3, EndpointTableTyped, Unmoved
<1> QED BY <1>1, <1>4

\* An endpoint keeps its identity and its provenance, contradictions fail the run, and what
\* does not contradict may be stored again.
THEOREM IdentityIsKeptByEndpoints == EndpointsKeepIdentity
<1> SUFFICES ASSUME NEW said \in SequencesUpTo(Hellos)
             PROVE  LET After(n) == MergedInto(UpsertEndpoint, Placeholder, SubSeq(said, 1, n))
                        merged == After(Len(said)) IN
                    /\ \A n \in 1..Len(said), m \in 1..Len(said) : n <= m /\ After(n).id # Nothing =>
                          /\ After(m).id = After(n).id
                          /\ After(n).proof # Nothing => After(m).proof = After(n).proof
                    /\ Cardinality({s.id : s \in ToSet(said)} \ {Nothing}) > 1 => merged.failed
                    /\ ~merged.failed => \A n \in DOMAIN said :
                          MergedInto(UpsertEndpoint, merged, SubSeq(said, n, Len(said))) = merged
  BY DEF EndpointsKeepIdentity, Hellos, Names, Details
<1>1. said \in Sequences(Hellos)
  BY SequencesNonempty
<1> DEFINE N == Len(said)
           After(n) == MergedInto(UpsertEndpoint, Placeholder, SubSeq(said, 1, n))
           z == After(N)
           ids == {s.id : s \in ToSet(said)} \ {Nothing}
<1>2. N \in Nat \ {0} /\ said \in [1..N -> Hellos] /\ DOMAIN said = 1..N /\ said \in Seq(Hellos)
  BY <1>1, SequenceParts DEF Sequences
<1>3. PICK g : Merging(g, EndpointTable, Endpoints, Placeholder, said)
  BY <1>2, PlaceholderTyped, EndpointMerges
<1>4. \A n \in 1..N : After(n) = g[n]
  BY <1>1, <1>3, PlaceholderTyped, EndpointAfter
<1> HIDE DEF After
<1>5. \A n, m \in 1..N : n <= m /\ After(n).id # Nothing =>
          /\ After(m).id = After(n).id
          /\ After(n).proof # Nothing => After(m).proof = After(n).proof
  BY <1>1, <1>3, <1>4, IdentityStays
<1>6. z = g[N] /\ z \in Endpoints
  BY <1>2, <1>3, <1>4 DEF Merging
<1>7. ~z.failed => \A i \in 1..N : /\ said[i].id # Nothing => z.id = said[i].id
                                   /\ UpsertEndpoint(z, said[i]) = z
  BY <1>1, <1>3, <1>6, EndpointAgrees
<1>8. ASSUME ~z.failed PROVE ~(Cardinality(ids) > 1)
  <2>1. ids \subseteq {z.id}
    <3> SUFFICES ASSUME NEW i \in 1..N, said[i].id # Nothing PROVE said[i].id = z.id
      BY <1>2 DEF ToSet
    <3> QED BY <1>7, <1>8
  <2>2. IsFiniteSet({z.id}) /\ Cardinality({z.id}) = 1
    BY FS_Singleton
  <2> HIDE DEF ids
  <2>3. Cardinality(ids) <= 1 /\ Cardinality(ids) \in Nat
    BY <2>1, <2>2, FS_Subset, FS_CardinalityType
  <2> QED BY <2>3
<1> HIDE DEF N, z, ids
<1>9. ASSUME ~z.failed, NEW n \in 1..N
      PROVE  MergedInto(UpsertEndpoint, z, SubSeq(said, n, N)) = z
  <2> DEFINE t == SubSeq(said, n, N)
  <2>1. t \in Seq(Hellos) /\ \A i \in 1..Len(t) : t[i] = said[n + i - 1] /\ n + i - 1 \in 1..N
    BY <1>1, <1>2, SuffixOf DEF N
  <2> HIDE DEF t
  <2>2. \A i \in 1..Len(t) : UpsertEndpoint(z, t[i]) = z
    BY <2>1, <1>7, <1>9
  <2>3. MergedInto(UpsertEndpoint, z, t) = z
    BY <1>6, <2>1, <2>2, EndpointUnmoved
  <2> QED BY <2>3 DEF t
<1> QED BY <1>2, <1>5, <1>8, <1>9 DEF N, z, ids, After

-----------------------------------------------------------------------------
(* Records: the lines of a format, and the keys of its rows                *)

\* The name of a share, the identifier a line of a kind gives of it, and that of an item.
NameOf(format, share) == IF format = "sharepoint" \/ share = 1 THEN "A" ELSE "B"
IdOn(format, kind, share) ==
    IF format = "names" \/ (format = "smb_stream" /\ kind = "item") THEN Nothing ELSE share
ItemOn(format) == IF format = "sharepoint" THEN 1 ELSE Nothing

Written(format, line) ==
    /\ line.kind \in {"resource", "item", "assessment"} /\ line.share \in {1, 2}
    /\ line.name = NameOf(format, line.share) /\ line.id = IdOn(format, line.kind, line.share)
    /\ line.path \in {Nothing, 1, 2}
    /\ line.kind = "resource" => line.path = Nothing
    /\ line.kind = "item" => line.path # Nothing
    /\ line.path # Nothing => line.item = ItemOn(format)

LEMMA SharesWritten ==
    ASSUME NEW format, NEW kind, NEW s \in Shares(format)
    PROVE  /\ s.id \in {1, 2} /\ s.name = NameOf(format, s.id)
           /\ ShareId(format, kind, s) = IdOn(format, kind, s.id)
BY DEF Shares, NameOf, ShareId, IdOn

LEMMA PlacesWritten ==
    ASSUME NEW format, NEW p \in Places
    PROVE  p # Nothing /\ p.path \in {1, 2} /\ p.path # Nothing /\ ItemId(format, p) = ItemOn(format)
<1>1. p # Nothing
  BY PlaceAssumption
<1>2. Nothing \notin Nat
  BY RecordAssumption
<1>3. p.path \in {1, 2} /\ p.item = 1
  BY DEF Places
<1>4. p.path # Nothing
  BY <1>2, <1>3
<1> QED BY <1>1, <1>3, <1>4 DEF ItemId, ItemOn

LEMMA LineWritten ==
    ASSUME NEW format, NEW kind \in {"resource", "item", "assessment"}, NEW s \in Shares(format),
           NEW place, place = Nothing \/ place \in Places,
           kind = "resource" => place = Nothing, kind = "item" => place \in Places
    PROVE  Written(format, Line(format, kind, s, place))
<1> DEFINE l == Line(format, kind, s, place)
<1>1. /\ l.kind = kind /\ l.id = ShareId(format, kind, s) /\ l.name = s.name /\ l.share = s.id
      /\ l.item = IF place = Nothing THEN Nothing ELSE ItemId(format, place)
      /\ l.path = IF place = Nothing THEN Nothing ELSE place.path
  BY DEF Line
<1>2. /\ s.id \in {1, 2} /\ s.name = NameOf(format, s.id)
      /\ ShareId(format, kind, s) = IdOn(format, kind, s.id)
  BY SharesWritten
<1> HIDE DEF l
<1>3. place \in Places => /\ place # Nothing /\ place.path \in {1, 2} /\ place.path # Nothing
                          /\ ItemId(format, place) = ItemOn(format)
  BY PlacesWritten
<1>4. Written(format, l)
  BY <1>1, <1>2, <1>3 DEF Written
<1> QED BY <1>4 DEF l

LEMMA LinesWritten ==
    ASSUME NEW format, NEW line \in LinesOf(format)
    PROVE  Written(format, line)
<1> DEFINE S == Shares(format)
           A == {Line(format, kind, share, Nothing) : kind \in {"resource", "assessment"}, share \in S}
           B == {Line(format, "item", share, place) : share \in S, place \in Places}
           D == {p \in Places : ~p.deleted}
           C == {Line(format, "assessment", share, place) : share \in S, place \in D}
<1>1. LinesOf(format) = A \cup B \cup C
  BY DEF LinesOf
<1> HIDE DEF S
<1>2. CASE line \in A
  <2>1. PICK kind \in {"resource", "assessment"}, share \in S : line = Line(format, kind, share, Nothing)
    BY <1>2
  <2> QED BY <2>1, LineWritten DEF S
<1>3. CASE line \in B
  <2>1. PICK share \in S, place \in Places : line = Line(format, "item", share, place)
    BY <1>3
  <2> QED BY <2>1, LineWritten DEF S
<1>4. CASE line \in C
  <2>1. \A p \in D : p \in Places
    OBVIOUS
  <2> HIDE DEF D
  <2>2. PICK share \in S, place \in D : line = Line(format, "assessment", share, place)
    BY <1>4
  <2> QED BY <2>1, <2>2, LineWritten DEF S
<1> HIDE DEF A, B, C
<1> QED BY <1>1, <1>2, <1>3, <1>4

\* The key of a row, or of a line, and the rows a format makes.
KeyOf(r) == Key(r.id, r.name)
RowSet(format) ==
    {r \in [id : {Nothing, 1, 2}, name : {"A", "B"}] :
        \E s \in {1, 2} : r.name = NameOf(format, s)
                          /\ (r.id = IdOn(format, "resource", s) \/ r.id = IdOn(format, "item", s))}
RowOf(line) == [id |-> line.id, name |-> line.name]

LEMMA KeysAre ==
    ASSUME NEW r, NEW q
    PROVE  /\ KeyOf(r) = KeyOf(q) <=> \/ r.id # Nothing /\ q.id = r.id
                                      \/ r.id = Nothing /\ q.id = Nothing /\ r.name = q.name
BY DEF KeyOf, Key

\* Rows of one key are the same.
LEMMA KeyNamesRow ==
    ASSUME NEW format \in AllFormats, NEW r \in RowSet(format), NEW q \in RowSet(format), KeyOf(r) = KeyOf(q)
    PROVE  r = q
<1>1. PICK s \in {1, 2} : r.name = NameOf(format, s)
                          /\ (r.id = IdOn(format, "resource", s) \/ r.id = IdOn(format, "item", s))
  BY DEF RowSet
<1>2. PICK t \in {1, 2} : q.name = NameOf(format, t)
                          /\ (q.id = IdOn(format, "resource", t) \/ q.id = IdOn(format, "item", t))
  BY DEF RowSet
<1>3. r.id = q.id /\ (r.id = Nothing => r.name = q.name)
  BY KeysAre
<1>4. r.id # Nothing => r.id = s /\ q.id = t
  BY <1>1, <1>2, <1>3 DEF IdOn
<1>5. r.name = q.name
  BY <1>1, <1>2, <1>3, <1>4
<1> QED BY <1>3, <1>5 DEF RowSet

LEMMA RowOfTyped ==
    ASSUME NEW format \in AllFormats, NEW line, Written(format, line), line.kind # "assessment"
    PROVE  RowOf(line) \in RowSet(format) /\ KeyOf(RowOf(line)) = KeyOf(line)
<1>1. /\ line.share \in {1, 2} /\ line.name = NameOf(format, line.share)
      /\ line.id = IdOn(format, line.kind, line.share) /\ line.kind \in {"resource", "item"}
  BY DEF Written
<1>2. line.name \in {"A", "B"} /\ line.id \in {Nothing, 1, 2}
  BY <1>1 DEF NameOf, IdOn
<1>3. line.id = IdOn(format, "resource", line.share) \/ line.id = IdOn(format, "item", line.share)
  BY <1>1
<1>4. RowOf(line) \in [id : {Nothing, 1, 2}, name : {"A", "B"}]
      /\ RowOf(line).id = line.id /\ RowOf(line).name = line.name
  BY <1>2 DEF RowOf
<1> QED BY <1>1, <1>3, <1>4 DEF RowSet, KeyOf

-----------------------------------------------------------------------------
(* Records: the rows of resources                                          *)

Has(rs, key) == \E n \in DOMAIN rs : KeyOf(rs[n]) = key
At(rs, key)  == CHOOSE n \in DOMAIN rs : KeyOf(rs[n]) = key
Touched(rs, line) == IF Has(rs, KeyOf(line)) THEN rs ELSE Append(rs, RowOf(line))

\* One row for each key; the stream names a share without its identifier only after it.
Distinct(rs) == \A m, n \in DOMAIN rs : KeyOf(rs[m]) = KeyOf(rs[n]) => m = n
Led(format, rs) ==
    format = "smb_stream" => \A n \in DOMAIN rs : rs[n].id = Nothing =>
        \E m \in DOMAIN rs : rs[m].id # Nothing /\ rs[m].name = rs[n].name
Sound(format, rs) == rs \in Seq(RowSet(format)) /\ Distinct(rs) /\ Led(format, rs)
Led1(format, rs, line) ==
    format = "smb_stream" /\ line.kind = "item" => \E m \in DOMAIN rs : rs[m].id = line.share

LEMMA AtIs ==
    ASSUME NEW rs, Distinct(rs), NEW key, Has(rs, key)
    PROVE  /\ At(rs, key) \in DOMAIN rs /\ KeyOf(rs[At(rs, key)]) = key
           /\ \A n \in DOMAIN rs : KeyOf(rs[n]) = key <=> n = At(rs, key)
<1>1. At(rs, key) \in DOMAIN rs /\ KeyOf(rs[At(rs, key)]) = key
  BY DEF Has, At
<1> QED BY <1>1 DEF Distinct

LEMMA RowParts ==
    ASSUME NEW format \in AllFormats, NEW r \in RowSet(format)
    PROVE  /\ r.id \in {Nothing, 1, 2} /\ r = [id |-> r.id, name |-> r.name]
           /\ r.id = Nothing => format \in {"names", "smb_stream"}
           /\ r.id # Nothing => format # "names" /\ r.name = NameOf(format, r.id)
<1>1. PICK s \in {1, 2} : r.name = NameOf(format, s)
                          /\ (r.id = IdOn(format, "resource", s) \/ r.id = IdOn(format, "item", s))
  BY DEF RowSet
<1>2. r.id \in {Nothing, 1, 2} /\ r = [id |-> r.id, name |-> r.name]
  BY DEF RowSet
<1>3. Nothing # 1 /\ Nothing # 2
  BY RecordAssumption
<1> QED BY <1>1, <1>2, <1>3 DEF IdOn

\* The rows a line names are those of its key.
LEMMA FoundIs ==
    ASSUME NEW format \in AllFormats, NEW rs, Sound(format, rs), NEW line, Written(format, line)
    PROVE  Found(rs, line) = {n \in DOMAIN rs : KeyOf(rs[n]) = KeyOf(line)}
<1> DEFINE F == {n \in DOMAIN rs : KeyOf(rs[n]) = KeyOf(line)}
<1>1. \A n \in DOMAIN rs : rs[n] \in RowSet(format)
  BY DEF Sound
<1>2. \A n \in DOMAIN rs : KeyOf(rs[n]) = KeyOf(line) <=>
             \/ rs[n].id # Nothing /\ line.id = rs[n].id
             \/ rs[n].id = Nothing /\ line.id = Nothing /\ rs[n].name = line.name
  BY KeysAre
<1>3. CASE line.id = Nothing
  BY <1>3, <1>2 DEF Found, ByName, ById
<1>4. CASE line.id # Nothing
  <2>1. ById(rs, line.id) = F
    BY <1>2, <1>4 DEF ById
  <2>2. ASSUME F = {} PROVE ByName(rs, line.name) = {}
    <3> SUFFICES ASSUME NEW n \in DOMAIN rs, rs[n].id = Nothing, rs[n].name = line.name PROVE FALSE
      BY DEF ByName, ById
    <3>1. format = "smb_stream"
      BY <1>1, <1>4, RowParts DEF Written, IdOn
    <3>2. PICK m \in DOMAIN rs : rs[m].id # Nothing /\ rs[m].name = line.name
      BY <3>1 DEF Sound, Led
    <3>3. rs[m].name = NameOf(format, rs[m].id) /\ rs[m].id \in {1, 2}
      BY <3>2, <1>1, RowParts
    <3>4. line.name = NameOf(format, line.id) /\ line.id \in {1, 2}
      BY <1>4 DEF Written, IdOn
    <3>5. rs[m].id = line.id
      BY <3>1, <3>2, <3>3, <3>4 DEF NameOf
    <3>6. m \in F
      BY <3>2, <3>5, <1>2
    <3> QED BY <3>6, <2>2
  <2> QED BY <2>1, <2>2, <1>4 DEF Found
<1> QED BY <1>3, <1>4

\* A row the stream adds without an identifier follows the one that has it.
LEMMA LedStill ==
    ASSUME NEW format \in AllFormats, NEW rs \in Seq(RowSet(format)), Led(format, rs),
           NEW line, Written(format, line), line.kind # "assessment", Led1(format, rs, line),
           NEW N \in Nat, DOMAIN rs = 1..N, NEW t, DOMAIN t = 1..N + 1,
           t[N + 1] = RowOf(line), \A n \in 1..N : t[n] = rs[n]
    PROVE  Led(format, t)
<1> SUFFICES ASSUME format = "smb_stream", NEW n \in 1..N + 1, t[n].id = Nothing
             PROVE  \E m \in 1..N + 1 : t[m].id # Nothing /\ t[m].name = t[n].name
  BY DEF Led
<1>0. /\ Nothing # 1 /\ Nothing # 2 /\ N + 1 \in 1..N + 1
      /\ \A m \in 1..N : m \in 1..N + 1 /\ m \in DOMAIN rs /\ t[m] = rs[m]
      /\ \A m \in DOMAIN rs : m \in 1..N
  BY RecordAssumption
<1>1. CASE n \in 1..N
  <2>1. n \in DOMAIN rs /\ rs[n].id = Nothing /\ rs[n].name = t[n].name
    BY <1>0, <1>1
  <2>2. PICK m \in DOMAIN rs : rs[m].id # Nothing /\ rs[m].name = rs[n].name
    BY <2>1 DEF Led
  <2>3. m \in 1..N + 1 /\ t[m] = rs[m]
    BY <1>0, <2>2
  <2> QED BY <2>1, <2>2, <2>3
<1>2. CASE n = N + 1
  <2>1. t[n].id = line.id /\ t[n].name = line.name
    BY <1>2 DEF RowOf
  <2>2. line.kind = "item" /\ line.name = NameOf(format, line.share) /\ line.share \in {1, 2}
    BY <2>1, <1>0 DEF Written, IdOn
  <2>3. PICK m \in DOMAIN rs : rs[m].id = line.share
    BY <2>2 DEF Led1
  <2>4. rs[m] \in RowSet(format) /\ rs[m].id # Nothing
    BY <2>2, <2>3, <1>0
  <2>5. rs[m].name = line.name
    BY <2>2, <2>3, <2>4, RowParts
  <2>6. m \in 1..N + 1 /\ t[m] = rs[m]
    BY <1>0, <2>3
  <2> QED BY <2>1, <2>4, <2>5, <2>6
<1>3. n \in 1..N \/ n = N + 1
  OBVIOUS
<1> QED BY <1>1, <1>2, <1>3

LEMMA TouchedHas ==
    ASSUME NEW format \in AllFormats, NEW rs, Sound(format, rs), NEW line, Written(format, line),
           line.kind # "assessment", Led1(format, rs, line)
    PROVE  /\ Sound(format, Touched(rs, line)) /\ Has(Touched(rs, line), KeyOf(line))
           /\ Len(rs) <= Len(Touched(rs, line))
           /\ \A n \in DOMAIN rs : n \in DOMAIN Touched(rs, line) /\ Touched(rs, line)[n] = rs[n]
           /\ \A n \in DOMAIN Touched(rs, line) : n \in DOMAIN rs \/ KeyOf(Touched(rs, line)[n]) = KeyOf(line)
<1>1. rs \in Seq(RowSet(format)) /\ Distinct(rs) /\ Led(format, rs)
  BY DEF Sound
<1>2. RowOf(line) \in RowSet(format) /\ KeyOf(RowOf(line)) = KeyOf(line)
  BY RowOfTyped
<1>3. CASE Has(rs, KeyOf(line))
  BY <1>3, <1>1 DEF Touched
<1>4. CASE ~Has(rs, KeyOf(line))
  <2> DEFINE N == Len(rs)
             t == Append(rs, RowOf(line))
  <2>1. /\ t = Touched(rs, line) /\ t \in Seq(RowSet(format)) /\ Len(t) = N + 1 /\ N \in Nat
        /\ DOMAIN t = 1..N + 1 /\ DOMAIN rs = 1..N /\ t[N + 1] = RowOf(line)
        /\ \A n \in 1..N : t[n] = rs[n]
    BY <1>1, <1>2, <1>4 DEF Touched
  <2> HIDE DEF t, N
  <2>2. \A n \in 1..N : KeyOf(t[n]) # KeyOf(line)
    BY <2>1, <1>4 DEF Has
  <2>3. Distinct(t)
    <3> SUFFICES ASSUME NEW m \in 1..N + 1, NEW n \in 1..N + 1, KeyOf(t[m]) = KeyOf(t[n])
                 PROVE  m = n
      BY <2>1 DEF Distinct
    <3>1. KeyOf(t[N + 1]) = KeyOf(line)
      BY <2>1, <1>2
    <3>2. m = N + 1 <=> n = N + 1
      BY <3>1, <2>1, <2>2
    <3>3. CASE m \in 1..N /\ n \in 1..N
      BY <3>3, <2>1, <1>1 DEF Distinct
    <3> QED BY <3>2, <3>3, <2>1
  <2>4. Led(format, t)
    BY <2>1, <1>1, LedStill
  <2>5. Has(t, KeyOf(line))
    BY <2>1, <1>2 DEF Has
  <2>6. N <= Len(t) /\ \A n \in DOMAIN rs : n \in DOMAIN t /\ t[n] = rs[n]
    BY <2>1
  <2>7. \A n \in DOMAIN t : n \in DOMAIN rs \/ KeyOf(t[n]) = KeyOf(line)
    <3> SUFFICES ASSUME NEW n \in DOMAIN t, n \notin DOMAIN rs PROVE KeyOf(t[n]) = KeyOf(line)
      OBVIOUS
    <3>1. n = N + 1
      BY <2>1
    <3> QED BY <3>1, <2>1, <1>2
  <2> QED BY <2>1, <2>3, <2>4, <2>5, <2>6, <2>7 DEF Sound, N
<1> QED BY <1>3, <1>4

\* A resource is stored in the row of its key, which is made if there is none.
LEMMA ResourceIs ==
    ASSUME NEW format \in AllFormats, NEW rs, Sound(format, rs), NEW line, Written(format, line),
           line.kind # "assessment", Led1(format, rs, line)
    PROVE  UpsertResource(rs, line) =
              [at |-> At(Touched(rs, line), KeyOf(line)), resources |-> Touched(rs, line)]
<1> DEFINE F == {n \in DOMAIN rs : KeyOf(rs[n]) = KeyOf(line)}
           t == Touched(rs, line)
<1>1. Found(rs, line) = F
  BY FoundIs
<1>2. /\ Sound(format, t) /\ Has(t, KeyOf(line)) /\ rs \in Seq(RowSet(format)) /\ Distinct(rs) /\ Distinct(t)
  BY TouchedHas DEF Sound
<1>3. CASE Has(rs, KeyOf(line))
  <2> DEFINE p == CHOOSE n \in F : TRUE
             id == IF line.id = Nothing THEN rs[p].id ELSE line.id
  <2>1. F # {} /\ p \in F
    BY <1>3 DEF Has
  <2>2. t = rs
    BY <1>3 DEF Touched
  <2>3. UpsertResource(rs, line) = [at |-> p, resources |-> [rs EXCEPT ![p] = [id |-> id, name |-> line.name]]]
    BY <1>1, <2>1 DEF UpsertResource
  <2> HIDE DEF p
  <2>4. p \in DOMAIN rs /\ KeyOf(rs[p]) = KeyOf(line)
    BY <2>1
  <2>5. p = At(rs, KeyOf(line))
    BY <2>4, <1>2, <1>3, AtIs
  <2>6. rs[p] = RowOf(line)
    BY <2>4, <1>2, RowOfTyped, KeyNamesRow
  <2>7. [id |-> id, name |-> line.name] = rs[p]
    BY <2>6 DEF RowOf
  <2>8. [rs EXCEPT ![p] = rs[p]] = rs
    BY <2>4, <1>2
  <2> QED BY <2>2, <2>3, <2>5, <2>7, <2>8
<1>4. CASE ~Has(rs, KeyOf(line))
  <2>1. F = {}
    BY <1>4 DEF Has
  <2>2. t = Append(rs, RowOf(line)) /\ Len(rs) + 1 \in DOMAIN t /\ t[Len(rs) + 1] = RowOf(line)
    BY <1>2, <1>4 DEF Touched
  <2>3. UpsertResource(rs, line) = [at |-> Len(rs) + 1, resources |-> t]
    BY <1>1, <2>1, <2>2 DEF UpsertResource, RowOf
  <2>4. KeyOf(t[Len(rs) + 1]) = KeyOf(line)
    BY <2>2, RowOfTyped
  <2> HIDE DEF t
  <2> DEFINE p == Len(rs) + 1
  <2>5. p \in DOMAIN t /\ KeyOf(t[p]) = KeyOf(line) /\ Distinct(t) /\ Has(t, KeyOf(line))
    BY <2>2, <2>4, <1>2
  <2> HIDE DEF p
  <2>6. p = At(t, KeyOf(line))
    BY <2>5, AtIs
  <2> QED BY <2>3, <2>6 DEF p, t
<1> QED BY <1>3, <1>4

-----------------------------------------------------------------------------
(* Records: what a line does to a store                                    *)

Shaped(st) == st = [resources |-> st.resources, items |-> st.items, assessed |-> st.assessed,
                    refused |-> st.refused, cache |-> st.cache]
\* A cache that is right about what it holds.
Recalls(cache, rs) == \A k \in DOMAIN cache : cache[k] \in DOMAIN rs /\ KeyOf(rs[cache[k]]) = k
\* Two rows of one item, and the row a record of an item is about.
SameItem(i, j) == i.resource = j.resource /\ i.item = j.item /\ (j.item = Nothing => i.path = j.path)
Matches(i, at, record) == /\ i.resource = at /\ i.item = record.item
                          /\ record.item = Nothing => i.path = record.path
Held(format, rs, items) ==
    /\ \A i \in items : /\ i = [resource |-> i.resource, item |-> i.item, deleted |-> i.deleted, path |-> i.path]
                        /\ i.resource \in DOMAIN rs /\ i.item = ItemOn(format)
                        /\ format = "smb_stream" => rs[i.resource].id = Nothing
    /\ \A i, j \in items : SameItem(i, j) => i = j
Good(format, st) == /\ Shaped(st) /\ Sound(format, st.resources)
                    /\ Recalls(st.cache, st.resources) /\ Held(format, st.resources, st.items)

\* What an assessment is stored for, and the ones that find nothing.
MarkOf(rs, line) == <<At(rs, KeyOf(line)), IF line.path = Nothing THEN Nothing
                                           ELSE IF line.item # Nothing THEN line.item ELSE line.path>>
Refusable(format, line) == format = "smb_stream" /\ line.path # Nothing
About(i, line) == IF line.item # Nothing THEN i.item = line.item ELSE i.path = line.path
Ready(format, st, line) ==
    /\ Led1(format, st.resources, line)
    /\ line.kind = "assessment" /\ ~Refusable(format, line) =>
          /\ Has(st.resources, KeyOf(line))
          /\ line.path # Nothing =>
                \E i \in st.items : i.resource = At(st.resources, KeyOf(line)) /\ About(i, line)

\* A line does to the rows what does not depend on the cache.
StoredFrom(format, v, line, w) ==
    /\ line.kind # "assessment" => /\ w.resources = Touched(v.resources, line)
                                   /\ w.assessed = v.assessed /\ w.refused = v.refused
    /\ line.kind = "resource" => w.items = v.items
    /\ line.kind = "item" => w.items = UpsertItem(v.items, At(w.resources, KeyOf(line)), line)
    /\ line.kind = "assessment" =>
          /\ w.resources = v.resources /\ w.items = v.items
          /\ IF Refusable(format, line) THEN w.refused = v.refused \cup {line} /\ w.assessed = v.assessed
             ELSE w.assessed = v.assessed \cup {MarkOf(v.resources, line)} /\ w.refused = v.refused

\* The item a record leaves, and the others.
LEMMA ItemUpserted ==
    ASSUME NEW items, NEW at, NEW record
    PROVE  \E i \in UpsertItem(items, at, record) :
              /\ i = [resource |-> at, item |-> record.item, deleted |-> record.deleted, path |-> i.path]
              /\ record.item = Nothing => i.path = record.path
              /\ ~record.deleted => i.path = record.path
              /\ record.deleted => IF \E j \in items : Matches(j, at, record)
                                   THEN \E j \in items : Matches(j, at, record) /\ i.path = j.path
                                   ELSE i.path = record.path
              /\ Matches(i, at, record)
              /\ \A j \in UpsertItem(items, at, record) : j = i \/ (j \in items /\ ~Matches(j, at, record))
              /\ \A j \in items : Matches(j, at, record) \/ j \in UpsertItem(items, at, record)
<1> DEFINE same == {i \in items : Matches(i, at, record)}
           path == IF record.deleted THEN {i.path : i \in same} ELSE {}
           p == IF path = {} THEN record.path ELSE CHOOSE q \in path : TRUE
           new == [resource |-> at, item |-> record.item, deleted |-> record.deleted, path |-> p]
<1>1. UpsertItem(items, at, record) = (items \ same) \cup {new}
  BY DEF UpsertItem, Matches
<1>2. ~record.deleted => p = record.path
  OBVIOUS
<1>3. record.deleted => IF \E j \in items : Matches(j, at, record)
                        THEN \E j \in items : Matches(j, at, record) /\ p = j.path
                        ELSE p = record.path
  <2>1. ASSUME record.deleted, NEW j \in items, Matches(j, at, record)
        PROVE  \E i \in items : Matches(i, at, record) /\ p = i.path
    <3>1. path = {i.path : i \in same} /\ j.path \in path
      BY <2>1
    <3>2. path # {} /\ p = CHOOSE q \in path : TRUE
      BY <3>1
    <3>3. p \in path
      BY <3>2
    <3> HIDE DEF p
    <3> QED BY <3>1, <3>3
  <2>2. ASSUME record.deleted, ~ \E j \in items : Matches(j, at, record) PROVE p = record.path
    BY <2>2
  <2> QED BY <2>1, <2>2
<1> HIDE DEF p
<1>4. record.item = Nothing => p = record.path
  BY <1>2, <1>3 DEF Matches
<1>5. new.resource = at /\ new.item = record.item /\ new.path = p /\ new.deleted = record.deleted
  OBVIOUS
<1>6. Matches(new, at, record)
  BY <1>4, <1>5 DEF Matches
<1>7. new = [resource |-> at, item |-> record.item, deleted |-> record.deleted, path |-> new.path]
  OBVIOUS
<1>8. new \in (items \ same) \cup {new}
  OBVIOUS
<1>9. \A j \in (items \ same) \cup {new} : j = new \/ (j \in items /\ ~Matches(j, at, record))
  OBVIOUS
<1>10. \A j \in items : Matches(j, at, record) \/ j \in (items \ same) \cup {new}
  OBVIOUS
<1> HIDE DEF new, same
<1> QED BY <1>1, <1>2, <1>3, <1>4, <1>5, <1>6, <1>7, <1>8, <1>9, <1>10

LEMMA HeldStill ==
    ASSUME NEW format, NEW rs, NEW ts, NEW items, Held(format, rs, items),
           \A n \in DOMAIN rs : n \in DOMAIN ts /\ ts[n] = rs[n]
    PROVE  Held(format, ts, items)
BY DEF Held

\* An item is stored under the row of its key.
LEMMA ItemHeld ==
    ASSUME NEW format \in AllFormats, NEW rs, Sound(format, rs), NEW items, Held(format, rs, items),
           NEW line, Written(format, line), line.kind = "item", Has(rs, KeyOf(line))
    PROVE  Held(format, rs, UpsertItem(items, At(rs, KeyOf(line)), line))
<1> DEFINE at == At(rs, KeyOf(line))
           U == UpsertItem(items, at, line)
<1>1. at \in DOMAIN rs /\ KeyOf(rs[at]) = KeyOf(line)
  BY AtIs DEF Sound
<1>2. line.item = ItemOn(format) /\ (format = "smb_stream" => line.id = Nothing)
  BY DEF Written, IdOn
<1>3. format = "smb_stream" => rs[at].id = Nothing
  BY <1>1, <1>2, KeysAre
<1> HIDE DEF at
<1>4. PICK new \in U :
              /\ new = [resource |-> at, item |-> line.item, deleted |-> line.deleted, path |-> new.path]
              /\ Matches(new, at, line)
              /\ \A j \in U : j = new \/ (j \in items /\ ~Matches(j, at, line))
  BY ItemUpserted
<1> HIDE DEF U
<1>5. new.resource = at /\ new.item = line.item /\ new.deleted = line.deleted
  BY <1>4
<1>6. new = [resource |-> new.resource, item |-> new.item, deleted |-> new.deleted, path |-> new.path]
  BY <1>4, <1>5
<1>7. ASSUME NEW i \in U
      PROVE  /\ i = [resource |-> i.resource, item |-> i.item, deleted |-> i.deleted, path |-> i.path]
             /\ i.resource \in DOMAIN rs /\ i.item = ItemOn(format)
             /\ format = "smb_stream" => rs[i.resource].id = Nothing
  <2>1. CASE i = new
    BY <2>1, <1>1, <1>2, <1>3, <1>5, <1>6
  <2>2. CASE i \in items
    BY <2>2 DEF Held
  <2> QED BY <2>1, <2>2, <1>4
<1>8. ASSUME NEW i \in U, NEW j \in U, SameItem(i, j) PROVE i = j
  <2>1. CASE i = new /\ j \in items /\ ~Matches(j, at, line)
    BY <2>1, <1>4, <1>5, <1>8 DEF SameItem, Matches
  <2>2. CASE j = new /\ i \in items /\ ~Matches(i, at, line)
    BY <2>2, <1>4, <1>5, <1>8 DEF SameItem, Matches
  <2>3. CASE i \in items /\ j \in items
    BY <2>3, <1>8 DEF Held
  <2> QED BY <2>1, <2>2, <2>3, <1>4
<1>9. Held(format, rs, U)
  BY <1>7, <1>8 DEF Held
<1> QED BY <1>9 DEF U, at

LEMMA Remembered ==
    ASSUME NEW rs, NEW ts, NEW cache, Recalls(cache, rs), NEW line, Distinct(ts), Has(ts, KeyOf(line)),
           \A n \in DOMAIN rs : n \in DOMAIN ts /\ ts[n] = rs[n]
    PROVE  LET after == Remember(cache, line, At(ts, KeyOf(line))) IN
           /\ Recalls(after, ts) /\ KeyOf(line) \in DOMAIN after
           /\ after[KeyOf(line)] = At(ts, KeyOf(line))
<1> DEFINE key == KeyOf(line)
           at == At(ts, key)
           after == Remember(cache, line, at)
<1>1. at \in DOMAIN ts /\ KeyOf(ts[at]) = key
  BY AtIs
<1>2. after = [k \in DOMAIN cache \cup {key} |-> IF k = key THEN at ELSE cache[k]]
  BY DEF Remember, KeyOf
<1> HIDE DEF key, at, after
<1>3. DOMAIN after = DOMAIN cache \cup {key} /\ key \in DOMAIN after /\ after[key] = at
  BY <1>2
<1>4. ASSUME NEW k \in DOMAIN after PROVE after[k] \in DOMAIN ts /\ KeyOf(ts[after[k]]) = k
  <2>1. CASE k = key
    BY <2>1, <1>1, <1>3
  <2>2. CASE k # key
    BY <2>2, <1>2, <1>3 DEF Recalls
  <2> QED BY <2>1, <2>2
<1> QED BY <1>3, <1>4 DEF Recalls, key, at, after

LEMMA ResourceStored ==
    ASSUME NEW format \in AllFormats, NEW st, Good(format, st), NEW line, Written(format, line),
           line.kind # "assessment", Led1(format, st.resources, line), NEW w, w = StoreResource(st, line)
    PROVE  /\ Good(format, w) /\ w.resources = Touched(st.resources, line)
           /\ w.items = st.items /\ w.assessed = st.assessed /\ w.refused = st.refused
           /\ KeyOf(line) \in DOMAIN w.cache /\ w.cache[KeyOf(line)] = At(w.resources, KeyOf(line))
<1> DEFINE rs == st.resources
           ts == Touched(rs, line)
           after == Remember(st.cache, line, At(ts, KeyOf(line)))
<1>1. Shaped(st) /\ Sound(format, rs) /\ Recalls(st.cache, rs) /\ Held(format, rs, st.items)
  BY DEF Good
<1>2. UpsertResource(rs, line) = [at |-> At(ts, KeyOf(line)), resources |-> ts]
  BY <1>1, ResourceIs
<1>3. w = [st EXCEPT !.resources = ts, !.cache = after]
  BY <1>2 DEF StoreResource
<1>4. /\ Sound(format, ts) /\ Has(ts, KeyOf(line)) /\ Distinct(ts)
      /\ \A n \in DOMAIN rs : n \in DOMAIN ts /\ ts[n] = rs[n]
  BY <1>1, TouchedHas DEF Sound
<1>5. /\ Recalls(after, ts) /\ KeyOf(line) \in DOMAIN after /\ after[KeyOf(line)] = At(ts, KeyOf(line))
  BY <1>1, <1>4, Remembered
<1> HIDE DEF ts, after
<1>6. /\ w = [resources |-> ts, items |-> st.items, assessed |-> st.assessed, refused |-> st.refused,
              cache |-> after]
  BY <1>1, <1>3 DEF Shaped
<1>7. /\ w.resources = ts /\ w.items = st.items /\ w.assessed = st.assessed
      /\ w.refused = st.refused /\ w.cache = after
  BY <1>6
<1>8. Shaped(w)
  BY <1>6, <1>7 DEF Shaped
<1>9. Held(format, ts, st.items)
  BY <1>1, <1>4, HeldStill
<1> QED BY <1>4, <1>5, <1>7, <1>8, <1>9 DEF Good, ts

LEMMA ItemStored ==
    ASSUME NEW format \in AllFormats, NEW st, Good(format, st), NEW line, Written(format, line),
           line.kind = "item", Led1(format, st.resources, line), NEW w, w = StoreItem(st, line)
    PROVE  /\ Good(format, w) /\ w.resources = Touched(st.resources, line)
           /\ w.items = UpsertItem(st.items, At(w.resources, KeyOf(line)), line)
           /\ w.assessed = st.assessed /\ w.refused = st.refused
<1> DEFINE key == KeyOf(line)
           kept == IF key \in DOMAIN st.cache THEN st ELSE StoreResource(st, line)
<1>1. w = [kept EXCEPT !.items = UpsertItem(kept.items, kept.cache[key], line)]
  BY DEF StoreItem, KeyOf
<1>2. /\ Good(format, kept) /\ kept.resources = Touched(st.resources, line)
      /\ kept.items = st.items /\ kept.assessed = st.assessed /\ kept.refused = st.refused
      /\ kept.cache[key] = At(kept.resources, key) /\ Has(kept.resources, key)
  <2>1. CASE key \in DOMAIN st.cache
    BY <2>1, AtIs DEF Good, Recalls, Has, Sound, Touched
  <2>2. CASE key \notin DOMAIN st.cache
    <3>1. kept = StoreResource(st, line) /\ line.kind # "assessment"
      BY <2>2
    <3>2. Has(Touched(st.resources, line), key)
      BY TouchedHas DEF Good
    <3> HIDE DEF kept
    <3> QED BY <3>1, <3>2, ResourceStored
  <2> QED BY <2>1, <2>2
<1> HIDE DEF kept
<1> DEFINE U == UpsertItem(st.items, At(kept.resources, key), line)
<1>3. /\ Shaped(kept) /\ Sound(format, kept.resources) /\ Recalls(kept.cache, kept.resources)
      /\ Held(format, kept.resources, st.items)
  BY <1>2 DEF Good
<1>4. w = [kept EXCEPT !.items = U]
  BY <1>1, <1>2
<1>5. Held(format, kept.resources, U)
  BY <1>2, <1>3, ItemHeld
<1> HIDE DEF U
<1>6. w = [resources |-> kept.resources, items |-> U, assessed |-> kept.assessed,
           refused |-> kept.refused, cache |-> kept.cache]
  BY <1>3, <1>4 DEF Shaped
<1>7. /\ w.resources = kept.resources /\ w.items = U /\ w.assessed = kept.assessed
      /\ w.refused = kept.refused /\ w.cache = kept.cache
  BY <1>6
<1>8. Shaped(w)
  BY <1>6, <1>7 DEF Shaped
<1>9. Good(format, w)
  BY <1>3, <1>5, <1>7, <1>8 DEF Good
<1> QED BY <1>2, <1>7, <1>9 DEF U, key

\* The rows an assessment may be about are those of its key.
LEMMA SubjectsAre ==
    ASSUME NEW format \in AllFormats, NEW st, Good(format, st), NEW line, Written(format, line),
           line.kind = "assessment", Ready(format, st, line)
    PROVE  Subjects(st, line) = IF Refusable(format, line) THEN {} ELSE {MarkOf(st.resources, line)}
<1> DEFINE rs == st.resources
           key == KeyOf(line)
           R == IF key \in DOMAIN st.cache THEN {st.cache[key]}
                ELSE IF line.id # Nothing THEN ById(rs, line.id) ELSE ByName(rs, line.name)
           F == {n \in DOMAIN rs : KeyOf(rs[n]) = key}
           Asked(i) == i.resource \in R /\ About(i, line)
           MarkIs(i) == <<i.resource, IF i.item # Nothing THEN i.item ELSE i.path>>
<1>1. Sound(format, rs) /\ Distinct(rs) /\ Recalls(st.cache, rs) /\ Held(format, rs, st.items)
  BY DEF Good, Sound
<1>2. R = F
  <2>1. CASE key \in DOMAIN st.cache
    BY <2>1, <1>1 DEF Recalls, Distinct
  <2>2. CASE key \notin DOMAIN st.cache
    <3>1. \A n \in DOMAIN rs : KeyOf(rs[n]) = key <=>
             \/ rs[n].id # Nothing /\ line.id = rs[n].id
             \/ rs[n].id = Nothing /\ line.id = Nothing /\ rs[n].name = line.name
      BY KeysAre
    <3>2. CASE line.id # Nothing
      BY <2>2, <3>1, <3>2 DEF ById
    <3>3. CASE line.id = Nothing
      BY <2>2, <3>1, <3>3 DEF ById, ByName
    <3> QED BY <3>2, <3>3
  <2> QED BY <2>1, <2>2
<1>3. Subjects(st, line) = IF line.path = Nothing THEN {<<n, Nothing>> : n \in R}
                           ELSE {MarkIs(i) : i \in {j \in st.items : Asked(j)}}
  BY DEF Subjects, KeyOf, About
<1> HIDE DEF R
<1>4. CASE Refusable(format, line)
  <2>1. format = "smb_stream" /\ line.path # Nothing /\ line.id # Nothing
    BY RecordAssumption, <1>4 DEF Refusable, Written, IdOn
  <2>2. \A n \in R : rs[n].id # Nothing
    BY <1>2, <2>1, KeysAre
  <2>3. \A i \in st.items : rs[i.resource].id = Nothing
    BY <1>1, <2>1 DEF Held
  <2>4. {j \in st.items : Asked(j)} = {}
    BY <2>2, <2>3
  <2>5. {MarkIs(i) : i \in {j \in st.items : Asked(j)}} = {}
    BY <2>4
  <2> QED BY <1>3, <1>4, <2>1, <2>5
<1>5. CASE ~Refusable(format, line)
  <2> DEFINE at == At(rs, key)
  <2>1. /\ Has(rs, key)
        /\ line.path # Nothing => \E i \in st.items : i.resource = at /\ About(i, line)
    BY <1>5 DEF Ready
  <2>2. R = {at}
    BY <1>1, <1>2, <2>1, AtIs
  <2>3. MarkOf(rs, line) = <<at, IF line.path = Nothing THEN Nothing
                                 ELSE IF line.item # Nothing THEN line.item ELSE line.path>>
    BY DEF MarkOf
  <2> HIDE DEF at
  <2>4. CASE line.path = Nothing
    BY <2>2, <1>3, <1>5, <2>3, <2>4
  <2>5. CASE line.path # Nothing
    <3> DEFINE J == {j \in st.items : Asked(j)}
    <3>1. \A j \in J : j.resource = at /\ About(j, line) /\ j.item = line.item
      BY <1>1, <2>2, <2>5 DEF Held, Written
    <3>2. \A j \in J : MarkIs(j) = MarkOf(rs, line)
      BY <3>1, <2>3, <2>5 DEF About
    <3>3. PICK j \in st.items : j.resource = at /\ About(j, line)
      BY <2>1, <2>5
    <3>4. j \in J
      BY <3>3, <2>2
    <3> HIDE DEF J, MarkIs
    <3>5. {MarkIs(i) : i \in J} = {MarkOf(rs, line)}
      BY <3>2, <3>4
    <3> QED BY <1>3, <1>5, <2>5, <3>5 DEF J
  <2> QED BY <2>4, <2>5
<1> QED BY <1>4, <1>5

LEMMA AssessmentStored ==
    ASSUME NEW format \in AllFormats, NEW st, Good(format, st), NEW line, Written(format, line),
           line.kind = "assessment", Ready(format, st, line), NEW w, w = StoreAssessment(st, line)
    PROVE  /\ Good(format, w) /\ w.resources = st.resources /\ w.items = st.items
           /\ IF Refusable(format, line) THEN w.refused = st.refused \cup {line} /\ w.assessed = st.assessed
              ELSE w.assessed = st.assessed \cup {MarkOf(st.resources, line)} /\ w.refused = st.refused
<1> DEFINE found == Subjects(st, line)
           mark == MarkOf(st.resources, line)
<1>1. w = IF found = {} THEN [st EXCEPT !.refused = st.refused \cup {line}]
          ELSE [st EXCEPT !.assessed = st.assessed \cup {CHOOSE f \in found : TRUE}]
  BY DEF StoreAssessment
<1>2. found = IF Refusable(format, line) THEN {} ELSE {mark}
  BY SubjectsAre
<1>3. /\ Shaped(st) /\ Sound(format, st.resources) /\ Recalls(st.cache, st.resources)
      /\ Held(format, st.resources, st.items)
  BY DEF Good
<1> HIDE DEF mark, found
<1>4. CASE Refusable(format, line)
  BY <1>1, <1>2, <1>4, <1>3 DEF Shaped, Good
<1>5. CASE ~Refusable(format, line)
  BY <1>1, <1>2, <1>5, <1>3 DEF Shaped, Good, mark
<1> QED BY <1>4, <1>5

\* What a line does to a store, whatever the worker remembers.
LEMMA LineStored ==
    ASSUME NEW format \in AllFormats, NEW st, Good(format, st), NEW line, Written(format, line),
           Ready(format, st, line), NEW b \in BOOLEAN
    PROVE  /\ Good(format, StoreLine(st, line, b))
           /\ StoredFrom(format, st, line, StoreLine(st, line, b))
<1> DEFINE w == Store(st, line)
           v == StoreLine(st, line, b)
<1>1. Good(format, w) /\ StoredFrom(format, st, line, w)
  <2>1. Led1(format, st.resources, line) /\ line.kind \in {"resource", "item", "assessment"}
    BY DEF Ready, Written
  <2>2. CASE line.kind = "resource"
    <3>1. w = StoreResource(st, line)
      BY <2>2 DEF Store
    <3> HIDE DEF w
    <3> QED BY <2>1, <2>2, <3>1, ResourceStored DEF StoredFrom
  <2>3. CASE line.kind = "item"
    <3>1. w = StoreItem(st, line)
      BY <2>3 DEF Store
    <3> HIDE DEF w
    <3> QED BY <2>1, <2>3, <3>1, ItemStored DEF StoredFrom
  <2>4. CASE line.kind = "assessment"
    <3>1. w = StoreAssessment(st, line)
      BY <2>4 DEF Store
    <3> HIDE DEF w
    <3> QED BY <2>1, <2>4, <3>1, AssessmentStored DEF StoredFrom
  <2> QED BY <2>1, <2>2, <2>3, <2>4
<1> HIDE DEF w
<1>2. CASE b
  BY <1>2, <1>1 DEF StoreLine, w
<1>3. CASE ~b
  <2>1. v = [w EXCEPT !.cache = <<>>]
    BY <1>3 DEF StoreLine, w
  <2>2. v = [resources |-> w.resources, items |-> w.items, assessed |-> w.assessed,
             refused |-> w.refused, cache |-> <<>>]
    BY <1>1, <2>1 DEF Good, Shaped
  <2>3. /\ v.resources = w.resources /\ v.items = w.items /\ v.assessed = w.assessed
        /\ v.refused = w.refused /\ v.cache = <<>>
    BY <2>2
  <2>4. Shaped(v)
    BY <2>2, <2>3 DEF Shaped
  <2>5. DOMAIN <<>> = {}
    OBVIOUS
  <2>6. Recalls(v.cache, v.resources)
    BY <2>3, <2>5 DEF Recalls
  <2>7. Good(format, v)
    BY <1>1, <2>3, <2>4, <2>6 DEF Good
  <2>8. StoredFrom(format, st, line, v)
    <3> HIDE DEF v
    <3> QED BY <1>1, <2>3 DEF StoredFrom
  <2> QED BY <2>7, <2>8
<1> QED BY <1>2, <1>3

-----------------------------------------------------------------------------
(* Records: lines stored one after the other                               *)

\* g[0], g[1], ... are the stores the first lines of t leave of st.
Storing(g, st, t, b) ==
    /\ g = [n \in 0..Len(t) |-> g[n]] /\ g[0] = st
    /\ \A i \in 1..Len(t) : g[i] = StoreLine(g[i - 1], t[i], b)

LEMMA StoringExists ==
    ASSUME NEW st, NEW t, Len(t) \in Nat, NEW b
    PROVE  \E g : Storing(g, st, t, b)
<1> DEFINE N == Len(t)
           Starts(g, n) == /\ DOMAIN g = 0..n /\ g[0] = st /\ g = [i \in 0..n |-> g[i]]
                           /\ \A i \in 1..n : g[i] = StoreLine(g[i - 1], t[i], b)
           I == {n \in 0..N : \E g : Starts(g, n)}
<1>0. N \in Nat
  OBVIOUS
<1> HIDE DEF N
<1>1. 0 \in I
  <2> DEFINE h == [i \in 0..0 |-> st]
  <2>1. DOMAIN h = 0..0 /\ h[0] = st /\ 1..0 = {} /\ h = [i \in 0..0 |-> h[i]]
    OBVIOUS
  <2> HIDE DEF h
  <2>2. Starts(h, 0)
    BY <2>1
  <2> HIDE DEF Starts
  <2> QED BY <2>2, <1>0
<1>2. ASSUME NEW n \in 1..N, n - 1 \in I PROVE n \in I
  <2>1. PICK g : Starts(g, n - 1)
    BY <1>2
  <2> DEFINE h == [i \in 0..n |-> IF i = n THEN StoreLine(g[n - 1], t[n], b) ELSE g[i]]
  <2>2. h[0] = st /\ DOMAIN h = 0..n
    BY <2>1
  <2>3. ASSUME NEW i \in 1..n PROVE h[i] = StoreLine(h[i - 1], t[i], b)
    <3>1. h[i - 1] = g[i - 1]
      OBVIOUS
    <3>2. CASE i = n
      BY <3>1, <3>2
    <3>3. CASE i # n
      <4>1. i \in 1..(n - 1) /\ h[i] = g[i]
        BY <3>3
      <4>2. g[i] = StoreLine(g[i - 1], t[i], b)
        BY <2>1, <4>1
      <4> QED BY <3>1, <4>1, <4>2
    <3> QED BY <3>2, <3>3
  <2>4. h = [i \in 0..n |-> h[i]]
    OBVIOUS
  <2> HIDE DEF h
  <2>5. Starts(h, n)
    BY <2>2, <2>3, <2>4
  <2> HIDE DEF Starts
  <2> QED BY <2>5, <1>0
<1> HIDE DEF I
<1>3. \A n \in 0..N : n \in I
  BY <1>0, <1>1, <1>2, Upward
<1>4. N \in I
  BY <1>0, <1>3
<1>5. PICK g : Starts(g, N)
  BY <1>4 DEF I
<1> QED BY <1>5 DEF Storing, N

LEMMA StoreAllIs ==
    ASSUME NEW st, NEW t, Len(t) \in Nat, NEW b
    PROVE  \E g : Storing(g, st, t, b) /\ StoreAll(st, t, b) = g[Len(t)]
<1> DEFINE N == Len(t)
           Body(h) == [n \in 0..N |-> IF n = 0 THEN st ELSE StoreLine(h[n - 1], t[n], b)]
           after == CHOOSE h : h = Body(h)
<1>1. N \in Nat
  OBVIOUS
<1>2. PICK g : Storing(g, st, t, b)
  BY StoringExists
<1>3. StoreAll(st, t, b) = after[N]
  BY DEF StoreAll
<1>4. /\ g = [n \in 0..N |-> g[n]] /\ g[0] = st
      /\ \A i \in 1..N : g[i] = StoreLine(g[i - 1], t[i], b)
  BY <1>2 DEF Storing
<1> HIDE DEF N
<1>7. g = Body(g)
  <2>1. ASSUME NEW n \in 0..N
        PROVE  g[n] = IF n = 0 THEN st ELSE StoreLine(g[n - 1], t[n], b)
    <3>1. CASE n = 0
      BY <3>1, <1>4
    <3>2. CASE n # 0
      <4>1. n \in 1..N
        BY <3>2, <1>1
      <4> QED BY <4>1, <3>2, <1>4
    <3> QED BY <3>1, <3>2
  <2> QED BY <2>1, <1>4
<1>8. after = Body(after)
  BY <1>7
<1> HIDE DEF after
<1>9. after[0] = st
  BY <1>8, <1>1
<1>10. ASSUME NEW i \in 1..N PROVE after[i] = StoreLine(after[i - 1], t[i], b)
  BY <1>8, <1>1
<1>11. Alike(after, g, N)
  BY <1>4, <1>9, <1>10 DEF Alike
<1>12. \A i \in 0..N : after[i] = g[i]
  BY <1>1, <1>11, Agrees
<1>13. after[N] = g[N]
  BY <1>1, <1>12
<1> QED BY <1>2, <1>3, <1>13 DEF N

\* What is stored stays, and what a line that is no assessment leaves.
Below(v, w) ==
    /\ \A n \in DOMAIN v.resources : n \in DOMAIN w.resources /\ w.resources[n] = v.resources[n]
    /\ \A i \in v.items : \E j \in w.items : SameItem(j, i)
    /\ v.assessed \subseteq w.assessed /\ v.refused \subseteq w.refused
Told(st, line) ==
    /\ Has(st.resources, KeyOf(line))
    /\ line.kind = "item" => \E i \in st.items : Matches(i, At(st.resources, KeyOf(line)), line)

LEMMA BelowItself == ASSUME NEW v PROVE Below(v, v)
BY DEF Below, SameItem

LEMMA BelowFollows ==
    ASSUME NEW u, NEW v, NEW w, Below(u, v), Below(v, w)
    PROVE  Below(u, w)
<1>1. \A n \in DOMAIN u.resources : n \in DOMAIN w.resources /\ w.resources[n] = u.resources[n]
  BY DEF Below
<1>2. u.assessed \subseteq w.assessed /\ u.refused \subseteq w.refused
  BY DEF Below
<1>3. ASSUME NEW i \in u.items PROVE \E k \in w.items : SameItem(k, i)
  <2>1. PICK j \in v.items : SameItem(j, i)
    BY DEF Below
  <2>2. PICK k \in w.items : SameItem(k, j)
    BY DEF Below
  <2>3. SameItem(k, i)
    BY <2>1, <2>2 DEF SameItem
  <2> QED BY <2>3
<1> QED BY <1>1, <1>2, <1>3 DEF Below

LEMMA HasStill ==
    ASSUME NEW rs, NEW ts, \A n \in DOMAIN rs : n \in DOMAIN ts /\ ts[n] = rs[n],
           Distinct(ts), NEW key, Has(rs, key)
    PROVE  Has(ts, key) /\ At(ts, key) = At(rs, key)
<1>1. At(rs, key) \in DOMAIN rs /\ KeyOf(rs[At(rs, key)]) = key
  BY DEF Has, At
<1>2. At(rs, key) \in DOMAIN ts /\ KeyOf(ts[At(rs, key)]) = key
  BY <1>1
<1>3. Has(ts, key)
  BY <1>2 DEF Has
<1> QED BY <1>2, <1>3, AtIs

LEMMA ToldStill ==
    ASSUME NEW format, NEW v, NEW w, Below(v, w), Good(format, w), NEW line, Told(v, line)
    PROVE  Told(w, line)
<1>1. \A n \in DOMAIN v.resources : n \in DOMAIN w.resources /\ w.resources[n] = v.resources[n]
  BY DEF Below
<1>2. Distinct(w.resources) /\ Has(v.resources, KeyOf(line))
  BY DEF Good, Sound, Told
<1>3. Has(w.resources, KeyOf(line)) /\ At(w.resources, KeyOf(line)) = At(v.resources, KeyOf(line))
  BY <1>1, <1>2, HasStill
<1>4. ASSUME line.kind = "item" PROVE \E j \in w.items : Matches(j, At(w.resources, KeyOf(line)), line)
  <2>1. PICK i \in v.items : Matches(i, At(v.resources, KeyOf(line)), line)
    BY <1>4 DEF Told
  <2>2. PICK j \in w.items : SameItem(j, i)
    BY DEF Below
  <2>3. Matches(j, At(v.resources, KeyOf(line)), line)
    BY <2>1, <2>2 DEF Matches, SameItem
  <2> QED BY <2>3, <1>3
<1> QED BY <1>3, <1>4 DEF Told

\* A line only adds, and is told afterwards.
LEMMA LineAdds ==
    ASSUME NEW format \in AllFormats, NEW v, Good(format, v), NEW line, Written(format, line),
           Ready(format, v, line), NEW w, Good(format, w), StoredFrom(format, v, line, w)
    PROVE  Below(v, w) /\ (line.kind # "assessment" => Told(w, line))
<1>0. line.kind \in {"resource", "item", "assessment"}
      /\ Led1(format, v.resources, line) /\ Sound(format, v.resources)
  BY DEF Written, Ready, Good
<1>1. CASE line.kind = "assessment"
  BY <1>1 DEF StoredFrom, Below, SameItem
<1>2. ASSUME line.kind # "assessment"
      PROVE  /\ w.resources = Touched(v.resources, line) /\ Has(w.resources, KeyOf(line))
             /\ w.assessed = v.assessed /\ w.refused = v.refused
             /\ \A n \in DOMAIN v.resources : n \in DOMAIN w.resources /\ w.resources[n] = v.resources[n]
  BY <1>2, <1>0, TouchedHas DEF StoredFrom
<1>3. CASE line.kind = "resource"
  BY <1>3, <1>2 DEF StoredFrom, Below, SameItem, Told
<1>4. CASE line.kind = "item"
  <2> DEFINE at == At(w.resources, KeyOf(line))
  <2>1. w.items = UpsertItem(v.items, at, line)
    BY <1>4 DEF StoredFrom
  <2> HIDE DEF at
  <2>2. PICK i \in w.items : /\ Matches(i, at, line)
                             /\ \A j \in v.items : Matches(j, at, line) \/ j \in w.items
    BY <2>1, ItemUpserted
  <2>3. ASSUME NEW j \in v.items PROVE \E k \in w.items : SameItem(k, j)
    <3>1. CASE Matches(j, at, line)
      BY <3>1, <2>2 DEF Matches, SameItem
    <3>2. CASE j \in w.items
      BY <3>2 DEF SameItem
    <3> QED BY <3>1, <3>2, <2>2
  <2>4. Below(v, w)
    BY <1>2, <1>4, <2>3 DEF Below
  <2>5. Told(w, line)
    BY <1>2, <1>4, <2>2 DEF Told, at
  <2> QED BY <2>4, <2>5
<1> QED BY <1>0, <1>1, <1>3, <1>4

LEMMA UpwardFrom ==
    ASSUME NEW k \in Nat, NEW N \in Nat, k <= N, NEW I, k \in I, \A n \in k + 1..N : n - 1 \in I => n \in I
    PROVE  \A n \in k..N : n \in I
<1> DEFINE J == {i \in 0..N - k : i + k \in I}
<1>1. 0 \in J /\ N - k \in Nat
  OBVIOUS
<1>2. ASSUME NEW i \in 1..N - k, i - 1 \in J PROVE i \in J
  BY <1>2
<1> HIDE DEF J
<1>3. \A i \in 0..N - k : i \in J
  BY <1>1, <1>2, Upward
<1>4. ASSUME NEW n \in k..N PROVE n \in I
  BY <1>3 DEF J
<1> QED BY <1>4

LEMMA ArtifactParts ==
    ASSUME NEW format, NEW lines \in Artifacts(format)
    PROVE  /\ Len(lines) \in Nat \ {0} /\ DOMAIN lines = 1..Len(lines) /\ lines \in Seq(LinesOf(format))
           /\ \A n \in DOMAIN lines : Written(format, lines[n])
           /\ SubjectsFirst(lines) /\ (format = "smb_stream" => ResourcesFirst(lines))
<1>1. /\ lines \in SequencesUpTo(LinesOf(format)) /\ SubjectsFirst(lines)
      /\ format = "smb_stream" => ResourcesFirst(lines)
  BY DEF Artifacts
<1>2. PICK n \in 1..MaxObservations : lines \in [1..n -> LinesOf(format)]
  BY <1>1 DEF SequencesUpTo
<1>3. n \in Nat \ {0}
  BY <1>2, RecordAssumption
<1>4. lines \in Seq(LinesOf(format)) /\ Len(lines) = n /\ DOMAIN lines = 1..n
  BY <1>2, <1>3
<1>5. \A i \in DOMAIN lines : lines[i] \in LinesOf(format)
  BY <1>2
<1> QED BY <1>1, <1>3, <1>4, <1>5, LinesWritten

\* What the first n lines told is in the store.
Telling(st, lines, n) == \A k \in 1..n : lines[k].kind # "assessment" => Told(st, lines[k])

\* The next line finds what it needs.
LEMMA NextFits ==
    ASSUME NEW format \in AllFormats, NEW lines \in Artifacts(format), NEW n \in DOMAIN lines,
           NEW st, Good(format, st), Telling(st, lines, n - 1)
    PROVE  Ready(format, st, lines[n])
<1> DEFINE line == lines[n]
           rs == st.resources
<1>1. /\ DOMAIN lines = 1..Len(lines) /\ Len(lines) \in Nat /\ \A i \in DOMAIN lines : Written(format, lines[i])
      /\ SubjectsFirst(lines) /\ (format = "smb_stream" => ResourcesFirst(lines))
  BY ArtifactParts
<1>2. \A k \in 1..n - 1 : k \in DOMAIN lines
  BY <1>1
<1>3. Nothing # 1 /\ Nothing # 2
  BY RecordAssumption
<1>4. Led1(format, rs, line)
  <2> SUFFICES ASSUME format = "smb_stream", line.kind = "item" PROVE \E m \in DOMAIN rs : rs[m].id = line.share
    BY DEF Led1
  <2>1. PICK k \in 1..n - 1 : lines[k].kind = "resource" /\ lines[k].share = line.share
    BY <1>1 DEF ResourcesFirst
  <2>2. Has(rs, KeyOf(lines[k]))
    BY <2>1 DEF Telling, Told
  <2>3. PICK m \in DOMAIN rs : KeyOf(rs[m]) = KeyOf(lines[k])
    BY <2>2 DEF Has
  <2>4. lines[k].id = line.share /\ lines[k].id # Nothing
    BY <1>1, <1>2, <1>3, <2>1 DEF Written, IdOn
  <2>5. rs[m].id = lines[k].id
    BY <2>3, <2>4, KeysAre
  <2> QED BY <2>4, <2>5
<1>5. ASSUME line.kind = "assessment", ~Refusable(format, line)
      PROVE  /\ Has(rs, KeyOf(line))
             /\ line.path # Nothing => \E i \in st.items : i.resource = At(rs, KeyOf(line)) /\ About(i, line)
  <2>1. PICK k \in 1..n - 1 :
          /\ lines[k].share = line.share
          /\ IF line.path = Nothing THEN lines[k].kind = "resource"
             ELSE /\ lines[k].kind = "item"
                  /\ IF line.item # Nothing THEN lines[k].item = line.item ELSE lines[k].path = line.path
    BY <1>1, <1>5 DEF SubjectsFirst
  <2> DEFINE told == lines[k]
  <2>2. Written(format, told) /\ Written(format, line)
    BY <1>1, <1>2
  <2>3. Told(st, told)
    BY <2>1 DEF Telling
  <2>4. told.kind # "resource" => format # "smb_stream"
    BY <1>5, <2>1 DEF Refusable
  <2> HIDE DEF told, line
  <2>5. told.id = line.id /\ told.name = line.name
    BY <1>5, <2>1, <2>2, <2>4 DEF Written, IdOn, told
  <2>6. KeyOf(told) = KeyOf(line)
    BY <2>5 DEF KeyOf
  <2>7. ASSUME line.path # Nothing PROVE \E i \in st.items : i.resource = At(rs, KeyOf(line)) /\ About(i, line)
    <3>1. PICK i \in st.items : Matches(i, At(rs, KeyOf(line)), told)
      BY <2>1, <2>3, <2>6, <2>7 DEF Told, told
    <3>2. told.path # Nothing
      BY <2>1, <2>2, <2>7 DEF Written, told
    <3>3. told.item = line.item
      BY <2>2, <2>7, <3>2 DEF Written
    <3>4. line.item = Nothing => told.path = line.path
      BY <2>1, <2>7 DEF told
    <3> QED BY <3>1, <3>3, <3>4 DEF Matches, About
  <2> QED BY <2>3, <2>6, <2>7 DEF Told
<1> QED BY <1>4, <1>5 DEF Ready

\* Lines k + 1 to N stored one after the other.
Pass(g, lines, k, N, b) == \A i \in k + 1..N : g[i] = StoreLine(g[i - 1], lines[i], b)

LEMMA TellingStill ==
    ASSUME NEW format, NEW v, NEW w, Below(v, w), Good(format, w), NEW lines, NEW n, Telling(v, lines, n)
    PROVE  Telling(w, lines, n)
BY ToldStill DEF Telling

LEMMA PassIs ==
    ASSUME NEW format \in AllFormats, NEW lines \in Artifacts(format), NEW N \in 0..Len(lines),
           NEW k \in 0..N, NEW m \in Nat, NEW b \in BOOLEAN, NEW g, Pass(g, lines, k, N, b),
           Good(format, g[k]), Telling(g[k], lines, k), Telling(g[k], lines, m)
    PROVE  /\ \A n \in k..N : Good(format, g[n]) /\ Telling(g[n], lines, n) /\ Telling(g[n], lines, m)
           /\ \A n \in k + 1..N : /\ StoredFrom(format, g[n - 1], lines[n], g[n]) /\ Below(g[n - 1], g[n])
                                  /\ Ready(format, g[n - 1], lines[n])
<1> DEFINE Fine(n) == Good(format, g[n]) /\ Telling(g[n], lines, n) /\ Telling(g[n], lines, m)
           I == {n \in k..N : Fine(n)}
<1>0. /\ Len(lines) \in Nat /\ DOMAIN lines = 1..Len(lines) /\ N \in Nat /\ k \in Nat /\ k <= N
      /\ \A n \in DOMAIN lines : Written(format, lines[n])
  BY ArtifactParts
<1>1. k \in I
  BY <1>0
<1>2. ASSUME NEW n \in k + 1..N, n - 1 \in I
      PROVE  /\ n \in I /\ StoredFrom(format, g[n - 1], lines[n], g[n]) /\ Below(g[n - 1], g[n])
             /\ Ready(format, g[n - 1], lines[n])
  <2>1. n \in DOMAIN lines /\ n \in 1..N /\ n \in k..N
    BY <1>0
  <2>2. Good(format, g[n - 1]) /\ Telling(g[n - 1], lines, n - 1) /\ Telling(g[n - 1], lines, m)
    BY <1>2
  <2>3. Ready(format, g[n - 1], lines[n]) /\ Written(format, lines[n])
    BY <1>0, <2>1, <2>2, NextFits
  <2>4. g[n] = StoreLine(g[n - 1], lines[n], b)
    BY DEF Pass
  <2>5. Good(format, g[n]) /\ StoredFrom(format, g[n - 1], lines[n], g[n])
    BY <2>2, <2>3, <2>4, LineStored
  <2>6. Below(g[n - 1], g[n]) /\ (lines[n].kind # "assessment" => Told(g[n], lines[n]))
    BY <2>2, <2>3, <2>5, LineAdds
  <2>7. Telling(g[n], lines, n - 1) /\ Telling(g[n], lines, m)
    BY <2>2, <2>5, <2>6, TellingStill
  <2>8. Telling(g[n], lines, n)
    BY <2>1, <2>6, <2>7 DEF Telling
  <2> QED BY <2>1, <2>3, <2>5, <2>6, <2>7, <2>8
<1> HIDE DEF I
<1>3. \A n \in k..N : n \in I
  BY <1>0, <1>1, <1>2, UpwardFrom
<1>4. ASSUME NEW n \in k + 1..N PROVE n - 1 \in I
  BY <1>0, <1>3
<1> QED BY <1>2, <1>3, <1>4 DEF I

\* Nothing is lost on the way.
LEMMA PassAdds ==
    ASSUME NEW g, NEW k \in Nat, NEW N \in Nat, \A n \in k + 1..N : Below(g[n - 1], g[n]), k <= N
    PROVE  \A n \in k..N : Below(g[k], g[n])
<1> DEFINE I == {n \in k..N : Below(g[k], g[n])}
<1>1. k \in I
  BY BelowItself
<1>2. ASSUME NEW n \in k + 1..N, n - 1 \in I PROVE n \in I
  BY <1>2, BelowFollows
<1> HIDE DEF I
<1>3. \A n \in k..N : n \in I
  BY <1>1, <1>2, UpwardFrom
<1> QED BY <1>3 DEF I

-----------------------------------------------------------------------------
(* Records: lines stored again                                             *)

SameRows(v, w) == /\ v.resources = w.resources /\ v.items = w.items
                  /\ v.assessed = w.assessed /\ v.refused = w.refused

\* While lines are stored again in w, a store that was at C: what w has beside the rows of C is
\* of the store v the line left the first time.
Lag(w, v, C) ==
    /\ w.resources = C.resources /\ w.assessed = C.assessed /\ w.refused = C.refused
    /\ \A i \in w.items : \E x \in C.items :
          /\ SameItem(i, x)
          /\ i.path = x.path \/ \E y \in v.items : SameItem(y, i) /\ i.path = y.path
          /\ i.deleted = x.deleted \/ \E y \in v.items : SameItem(y, i) /\ i.deleted = y.deleted
    /\ \A x \in C.items : \E i \in w.items : SameItem(i, x)

LEMMA RowsStepAlike ==
    ASSUME NEW format, NEW v, NEW w, SameRows(v, w), NEW line, Written(format, line), NEW v2, NEW w2,
           StoredFrom(format, v, line, v2), StoredFrom(format, w, line, w2)
    PROVE  SameRows(v2, w2)
<1>0. line.kind \in {"resource", "item", "assessment"}
  BY DEF Written
<1>1. CASE line.kind = "assessment"
  BY <1>1 DEF SameRows, StoredFrom
<1>2. CASE line.kind = "resource"
  BY <1>2 DEF SameRows, StoredFrom
<1>3. CASE line.kind = "item"
  BY <1>3 DEF SameRows, StoredFrom
<1> QED BY <1>0, <1>1, <1>2, <1>3

LEMMA LagEnds ==
    ASSUME NEW format, NEW w, NEW C, Good(format, w), Good(format, C), Lag(w, C, C)
    PROVE  SameRows(w, C)
<1>1. /\ \A i, j \in C.items : SameItem(i, j) => i = j
      /\ \A i \in w.items : i = [resource |-> i.resource, item |-> i.item, deleted |-> i.deleted, path |-> i.path]
      /\ \A i \in C.items : i = [resource |-> i.resource, item |-> i.item, deleted |-> i.deleted, path |-> i.path]
  BY DEF Good, Held
<1>2. ASSUME NEW i \in w.items PROVE i \in C.items
  <2>1. PICK x \in C.items :
        /\ SameItem(i, x)
        /\ i.path = x.path \/ \E y \in C.items : SameItem(y, i) /\ i.path = y.path
        /\ i.deleted = x.deleted \/ \E y \in C.items : SameItem(y, i) /\ i.deleted = y.deleted
    BY DEF Lag
  <2>2. ASSUME NEW y \in C.items, SameItem(y, i) PROVE y = x
    BY <2>1, <2>2, <1>1 DEF SameItem
  <2>3. i.path = x.path /\ i.deleted = x.deleted
    BY <2>1, <2>2
  <2>4. i.resource = x.resource /\ i.item = x.item
    BY <2>1 DEF SameItem
  <2>5. i = x
    BY <1>1, <2>3, <2>4
  <2> QED BY <2>5
<1>3. ASSUME NEW x \in C.items PROVE x \in w.items
  <2>1. PICK i \in w.items : SameItem(i, x)
    BY DEF Lag
  <2>2. i = x
    BY <1>1, <1>2, <2>1
  <2> QED BY <2>2
<1> QED BY <1>2, <1>3 DEF Lag, SameRows

\* The rows a line finds when it is stored again are those it left.
LEMMA LagKept ==
    ASSUME NEW format \in AllFormats, NEW line, Written(format, line),
           NEW v, NEW v2, NEW w, NEW w2, NEW C,
           Good(format, v), Good(format, v2), Good(format, w), Good(format, C),
           Ready(format, v, line), StoredFrom(format, v, line, v2), StoredFrom(format, w, line, w2),
           Below(v, v2), Below(v2, C), Lag(w, v, C)
    PROVE  Lag(w2, v2, C)
<1> DEFINE key == KeyOf(line)
           at == At(C.resources, key)
<1>0. /\ line.kind \in {"resource", "item", "assessment"}
      /\ w.resources = C.resources /\ w.assessed = C.assessed /\ w.refused = C.refused
  BY DEF Written, Lag
<1>1. /\ Distinct(C.resources) /\ Sound(format, v.resources)
      /\ \A n \in DOMAIN v2.resources : n \in DOMAIN C.resources /\ C.resources[n] = v2.resources[n]
      /\ \A n \in DOMAIN v.resources : n \in DOMAIN v2.resources /\ v2.resources[n] = v.resources[n]
  BY DEF Below, Good, Sound
<1>2. CASE line.kind = "assessment"
  <2>1. w2.resources = C.resources /\ w2.items = w.items /\ v2.items = v.items /\ v2.resources = v.resources
    BY <1>0, <1>2 DEF StoredFrom
  <2>2. v2.assessed \subseteq C.assessed /\ v2.refused \subseteq C.refused
    BY DEF Below
  <2>3. w2.assessed = C.assessed /\ w2.refused = C.refused
    <3>1. CASE Refusable(format, line)
      BY <1>0, <1>2, <3>1, <2>2 DEF StoredFrom
    <3>2. CASE ~Refusable(format, line)
      <4>1. Has(v.resources, key)
        BY <1>2, <3>2 DEF Ready
      <4>2. At(v.resources, key) = at
        BY <1>1, <2>1, <4>1, HasStill
      <4>3. MarkOf(v.resources, line) = MarkOf(C.resources, line)
        BY <4>2 DEF MarkOf
      <4>4. /\ w2.assessed = C.assessed \cup {MarkOf(C.resources, line)} /\ w2.refused = C.refused
            /\ MarkOf(C.resources, line) \in v2.assessed
        BY <1>0, <1>2, <3>2, <4>3 DEF StoredFrom
      <4> QED BY <4>4, <2>2
    <3> QED BY <3>1, <3>2
  <2> QED BY <2>1, <2>3 DEF Lag
<1>3. ASSUME line.kind # "assessment"
      PROVE  /\ w2.resources = C.resources /\ w2.assessed = C.assessed /\ w2.refused = C.refused
             /\ Has(v2.resources, key) /\ Has(C.resources, key) /\ At(v2.resources, key) = at
  BY <1>3, LineAdds, <1>1, HasStill, <1>0 DEF Told, StoredFrom, Touched
<1>4. CASE line.kind = "resource"
  BY <1>4, <1>3 DEF StoredFrom, Lag
<1>5. CASE line.kind = "item"
  <2>1. w2.items = UpsertItem(w.items, at, line) /\ v2.items = UpsertItem(v.items, at, line)
    BY <1>3, <1>5 DEF StoredFrom
  <2> HIDE DEF at
  <2>2. PICK i \in w2.items :
            /\ i = [resource |-> at, item |-> line.item, deleted |-> line.deleted, path |-> i.path]
            /\ ~line.deleted => i.path = line.path
            /\ line.deleted => IF \E j \in w.items : Matches(j, at, line)
                               THEN \E j \in w.items : Matches(j, at, line) /\ i.path = j.path
                               ELSE i.path = line.path
            /\ Matches(i, at, line)
            /\ \A j \in w2.items : j = i \/ (j \in w.items /\ ~Matches(j, at, line))
            /\ \A j \in w.items : Matches(j, at, line) \/ j \in w2.items
    BY <2>1, ItemUpserted
  <2>3. PICK y \in v2.items :
            /\ y = [resource |-> at, item |-> line.item, deleted |-> line.deleted, path |-> y.path]
            /\ ~line.deleted => y.path = line.path
            /\ line.deleted => IF \E j \in v.items : Matches(j, at, line)
                               THEN \E j \in v.items : Matches(j, at, line) /\ y.path = j.path
                               ELSE y.path = line.path
            /\ Matches(y, at, line)
            /\ \A j \in v.items : Matches(j, at, line) \/ j \in v2.items
    BY <2>1, ItemUpserted
  <2>4. /\ \A j, m \in C.items : SameItem(j, m) => j = m
        /\ \A j, m \in v.items : SameItem(j, m) => j = m
        /\ \A j, m \in w.items : SameItem(j, m) => j = m
    BY DEF Good, Held
  <2>5. PICK x \in C.items : SameItem(x, y)
    BY DEF Below
  <2>6. SameItem(i, x) /\ SameItem(y, i) /\ i.deleted = y.deleted
    BY <2>2, <2>3, <2>5 DEF SameItem, Matches
  <2>7. i.path = x.path \/ i.path = y.path
    <3>1. CASE ~line.deleted
      BY <3>1, <2>2, <2>3
    <3>2. CASE line.deleted
      <4>1. PICK j \in w.items : SameItem(j, x)
        BY DEF Lag
      <4>2. Matches(j, at, line)
        BY <4>1, <2>2, <2>6 DEF SameItem, Matches
      <4>3. PICK k \in w.items : Matches(k, at, line) /\ i.path = k.path
        BY <4>2, <3>2, <2>2
      <4>4. PICK z \in C.items : /\ SameItem(k, z)
                                 /\ k.path = z.path \/ \E q \in v.items : SameItem(q, k) /\ k.path = q.path
        BY DEF Lag
      <4>5. SameItem(z, x)
        BY <4>3, <4>4, <2>2, <2>6 DEF SameItem, Matches
      <4>6. z = x
        BY <4>5, <2>4
      <4>7. ASSUME NEW q \in v.items, SameItem(q, k) PROVE q.path = y.path
        <5>1. Matches(q, at, line)
          BY <4>3, <4>7 DEF SameItem, Matches
        <5>2. PICK r \in v.items : Matches(r, at, line) /\ y.path = r.path
          BY <5>1, <3>2, <2>3
        <5>3. SameItem(q, r)
          BY <5>1, <5>2 DEF SameItem, Matches
        <5>4. q = r
          BY <5>3, <2>4
        <5> QED BY <5>2, <5>4
      <4> QED BY <4>3, <4>4, <4>6, <4>7
    <3> QED BY <3>1, <3>2
  <2> DEFINE Followed(j, m) ==
                /\ SameItem(j, m)
                /\ j.path = m.path \/ \E q \in v2.items : SameItem(q, j) /\ j.path = q.path
                /\ j.deleted = m.deleted \/ \E q \in v2.items : SameItem(q, j) /\ j.deleted = q.deleted
  <2>8. ASSUME NEW j \in w2.items PROVE \E m \in C.items : Followed(j, m)
    <3>1. CASE j = i
      BY <2>6, <2>7, <3>1
    <3>2. CASE j \in w.items /\ ~Matches(j, at, line)
      <4>1. PICK m \in C.items :
            /\ SameItem(j, m)
            /\ j.path = m.path \/ \E q \in v.items : SameItem(q, j) /\ j.path = q.path
            /\ j.deleted = m.deleted \/ \E q \in v.items : SameItem(q, j) /\ j.deleted = q.deleted
        BY <3>2 DEF Lag
      <4>2. ASSUME NEW q \in v.items, SameItem(q, j) PROVE q \in v2.items
        BY <3>2, <4>2, <2>3 DEF SameItem, Matches
      <4>3. Followed(j, m)
        BY <4>1, <4>2
      <4> QED BY <4>3
    <3> QED BY <3>1, <3>2, <2>2
  <2>9. ASSUME NEW m \in C.items PROVE \E j \in w2.items : SameItem(j, m)
    <3>1. PICK j \in w.items : SameItem(j, m)
      BY DEF Lag
    <3>2. CASE Matches(j, at, line)
      BY <3>1, <3>2, <2>2 DEF SameItem, Matches
    <3>3. CASE j \in w2.items
      BY <3>1, <3>3
    <3> QED BY <3>2, <3>3, <2>2
  <2>10. w2.resources = C.resources /\ w2.assessed = C.assessed /\ w2.refused = C.refused
    BY <1>3, <1>5
  <2> QED BY <2>8, <2>9, <2>10 DEF Lag
<1> QED BY <1>0, <1>2, <1>4, <1>5

LEMMA NothingGood ==
    ASSUME NEW format
    PROVE  Good(format, NothingStored)
<1> DEFINE st == NothingStored
<1>1. /\ st.resources = <<>> /\ st.items = {} /\ st.assessed = {} /\ st.refused = {} /\ st.cache = <<>>
      /\ st = [resources |-> <<>>, items |-> {}, assessed |-> {}, refused |-> {}, cache |-> <<>>]
  BY DEF NothingStored
<1> HIDE DEF st
<1>2. <<>> \in Seq(RowSet(format)) /\ DOMAIN <<>> = {}
  OBVIOUS
<1>3. Sound(format, st.resources)
  BY <1>1, <1>2 DEF Sound, Distinct, Led
<1>4. Recalls(st.cache, st.resources) /\ Held(format, st.resources, st.items)
  BY <1>1, <1>2 DEF Recalls, Held
<1>5. Shaped(st)
  BY <1>1 DEF Shaped
<1> QED BY <1>3, <1>4, <1>5 DEF Good, st

\* A new worker reads the rows into a cache that is right about them.
LEMMA ResumedGood ==
    ASSUME NEW format, NEW st, Good(format, st)
    PROVE  Good(format, Resumed(st)) /\ SameRows(Resumed(st), st)
<1> DEFINE rs == st.resources
           PlacesOf(key) == {n \in DOMAIN rs : Key(rs[n].id, rs[n].name) = key}
           cache == [key \in {Key(r.id, r.name) : r \in ToSet(rs)} |-> Min(PlacesOf(key))]
           w == Resumed(st)
<1>1. w = [st EXCEPT !.cache = cache]
  BY DEF Resumed
<1>2. /\ Shaped(st) /\ Sound(format, rs) /\ Held(format, rs, st.items) /\ Distinct(rs) /\ DOMAIN rs = 1..Len(rs)
      /\ Len(rs) \in Nat
  BY DEF Good, Sound
<1>3. ASSUME NEW key \in DOMAIN cache PROVE cache[key] \in DOMAIN rs /\ KeyOf(rs[cache[key]]) = key
  <2>1. PICK r \in ToSet(rs) : key = Key(r.id, r.name)
    OBVIOUS
  <2>2. PICK n \in DOMAIN rs : r = rs[n]
    BY <2>1 DEF ToSet
  <2>3. KeyOf(rs[n]) = key /\ n \in Nat
    BY <1>2, <2>1, <2>2 DEF KeyOf
  <2>4. PlacesOf(key) = {n}
    BY <1>2, <2>3 DEF Distinct, KeyOf
  <2>5. Min({n, n}) = n
    BY <2>3, MinOfTwo
  <2>6. {n, n} = {n}
    OBVIOUS
  <2>7. cache[key] = Min(PlacesOf(key))
    OBVIOUS
  <2> HIDE DEF cache, PlacesOf
  <2>8. cache[key] = n
    BY <2>4, <2>5, <2>6, <2>7
  <2> QED BY <2>3, <2>8
<1> HIDE DEF cache, w
<1>4. Recalls(cache, rs)
  BY <1>3 DEF Recalls
<1>5. w = [resources |-> rs, items |-> st.items, assessed |-> st.assessed, refused |-> st.refused, cache |-> cache]
  BY <1>1, <1>2 DEF Shaped
<1>6. /\ w.resources = rs /\ w.items = st.items /\ w.assessed = st.assessed /\ w.refused = st.refused
      /\ w.cache = cache
  BY <1>5
<1>7. Shaped(w)
  BY <1>5, <1>6 DEF Shaped
<1>8. Good(format, w) /\ SameRows(w, st)
  BY <1>2, <1>4, <1>6, <1>7 DEF Good, SameRows
<1> QED BY <1>8 DEF w

LEMMA SameRowsTell ==
    ASSUME NEW v, NEW w, SameRows(v, w), NEW lines, NEW n, Telling(v, lines, n)
    PROVE  Telling(w, lines, n)
<1>1. v.resources = w.resources /\ v.items = w.items
  BY DEF SameRows
<1> QED BY <1>1 DEF Telling, Told

\* The artifact stored once, whatever the worker remembers.
LEMMA FirstPass ==
    ASSUME NEW format \in AllFormats, NEW lines \in Artifacts(format), NEW N \in 0..Len(lines),
           NEW b \in BOOLEAN, NEW g, g[0] = NothingStored, Pass(g, lines, 0, N, b)
    PROVE  /\ \A n \in 0..N : Good(format, g[n]) /\ Telling(g[n], lines, n)
           /\ \A n \in 1..N : /\ StoredFrom(format, g[n - 1], lines[n], g[n]) /\ Below(g[n - 1], g[n])
                              /\ Ready(format, g[n - 1], lines[n])
<1>1. Good(format, g[0]) /\ Telling(g[0], lines, 0)
  BY NothingGood DEF Telling
<1>2. Len(lines) \in Nat /\ 0 \in 0..N /\ 0 \in Nat /\ 0 + 1 = 1
  BY ArtifactParts
<1> QED BY <1>1, <1>2, PassIs

LEMMA PassesAgree ==
    ASSUME NEW format, NEW lines \in Artifacts(format), NEW N \in 0..Len(lines), NEW k \in 0..N,
           NEW g, NEW h, SameRows(g[k], h[k]),
           \A n \in k + 1..N : /\ StoredFrom(format, g[n - 1], lines[n], g[n])
                               /\ StoredFrom(format, h[n - 1], lines[n], h[n])
    PROVE  \A n \in k..N : SameRows(g[n], h[n])
<1> DEFINE I == {n \in k..N : SameRows(g[n], h[n])}
<1>0. /\ Len(lines) \in Nat /\ DOMAIN lines = 1..Len(lines) /\ N \in Nat /\ k \in Nat /\ k <= N
      /\ \A n \in DOMAIN lines : Written(format, lines[n])
  BY ArtifactParts
<1>1. k \in I
  BY <1>0
<1>2. ASSUME NEW n \in k + 1..N, n - 1 \in I PROVE n \in I
  BY <1>0, <1>2, RowsStepAlike
<1> HIDE DEF I
<1>3. \A n \in k..N : n \in I
  BY <1>0, <1>1, <1>2, UpwardFrom
<1> QED BY <1>3 DEF I

\* After a crash at line c, the lines from k + 1 on stored again leave what one pass leaves.
LEMMA ReplayLeaves ==
    ASSUME NEW format \in AllFormats, NEW lines \in Artifacts(format), NEW N, N = Len(lines),
           NEW c \in 1..N, NEW k \in 0..c - 1, NEW b \in BOOLEAN, NEW d \in BOOLEAN,
           NEW g, g[0] = NothingStored, Pass(g, lines, 0, N, b),
           NEW h, Good(format, h[k]), SameRows(g[c], h[k]), Pass(h, lines, k, N, d)
    PROVE  SameRows(g[N], h[N])
<1> DEFINE C == g[c]
<1>0. /\ N \in Nat /\ c \in Nat /\ k \in Nat /\ k <= N /\ c <= N /\ k < c /\ k \in 0..N /\ c \in 0..N
      /\ N \in 0..Len(lines) /\ DOMAIN lines = 1..N
      /\ \A n \in DOMAIN lines : Written(format, lines[n])
  BY ArtifactParts
<1>1. /\ \A n \in 0..N : Good(format, g[n]) /\ Telling(g[n], lines, n)
      /\ \A n \in 1..N : /\ StoredFrom(format, g[n - 1], lines[n], g[n]) /\ Below(g[n - 1], g[n])
                         /\ Ready(format, g[n - 1], lines[n])
  BY <1>0, FirstPass
<1>2. ASSUME NEW n \in 0..c PROVE Below(g[n], C)
  <2>1. n \in Nat /\ n <= c /\ c \in n..c /\ \A i \in n + 1..c : i \in 1..N
    BY <1>0
  <2>2. \A i \in n + 1..c : Below(g[i - 1], g[i])
    BY <1>1, <2>1
  <2>3. \A i \in n..c : Below(g[n], g[i])
    BY <1>0, <2>1, <2>2, PassAdds
  <2> QED BY <2>1, <2>3
<1>3. Telling(h[k], lines, c) /\ Telling(h[k], lines, k)
  <2>1. Telling(h[k], lines, c)
    BY <1>0, <1>1, SameRowsTell
  <2>2. \A i \in 1..k : i \in 1..c
    BY <1>0
  <2> QED BY <2>1, <2>2 DEF Telling
<1>4. /\ \A n \in k..N : Good(format, h[n])
      /\ \A n \in k + 1..N : StoredFrom(format, h[n - 1], lines[n], h[n])
  BY <1>0, <1>3, PassIs
<1> HIDE DEF C
<1> DEFINE I == {n \in k..c : Lag(h[n], g[n], C)}
<1>5. k \in I
  BY <1>0 DEF SameRows, C, SameItem, Lag
<1>6. ASSUME NEW n \in k + 1..c, n - 1 \in I PROVE n \in I
  <2>1. n \in 1..N /\ n - 1 \in 0..N /\ n \in 0..N /\ n \in k + 1..N /\ n - 1 \in k..N
        /\ n \in DOMAIN lines /\ n \in 0..c /\ n \in k..c
    BY <1>0
  <2>2. Lag(h[n - 1], g[n - 1], C)
    BY <1>6
  <2>3. /\ Good(format, g[n - 1]) /\ Good(format, g[n]) /\ Good(format, h[n - 1]) /\ Good(format, C)
        /\ Written(format, lines[n])
    BY <2>1, <1>0, <1>1, <1>4 DEF C
  <2>4. /\ StoredFrom(format, g[n - 1], lines[n], g[n]) /\ Below(g[n - 1], g[n])
        /\ Ready(format, g[n - 1], lines[n]) /\ StoredFrom(format, h[n - 1], lines[n], h[n])
    BY <2>1, <1>1, <1>4
  <2>5. Below(g[n], C)
    BY <2>1, <1>2
  <2>6. Lag(h[n], g[n], C)
    BY <2>2, <2>3, <2>4, <2>5, LagKept
  <2> QED BY <2>1, <2>6
<1> HIDE DEF I
<1>7. \A n \in k..c : n \in I
  <2>1. \A n \in k + 1..c : n - 1 \in I => n \in I
    BY <1>6
  <2>2. k \in Nat /\ c \in Nat /\ k <= c
    BY <1>0
  <2> QED BY <1>5, <2>1, <2>2, UpwardFrom
<1>8. c \in k..c /\ c \in k..N
  BY <1>0
<1>9. Lag(h[c], g[c], C)
  BY <1>7, <1>8 DEF I
<1>10. SameRows(h[c], g[c])
  BY <1>0, <1>1, <1>4, <1>8, <1>9, LagEnds DEF C
<1>11. SameRows(g[c], h[c])
  BY <1>10 DEF SameRows
<1>12. \A n \in c + 1..N : n \in 1..N /\ n \in k + 1..N
  BY <1>0
<1>13. \A n \in c..N : SameRows(g[n], h[n])
  BY <1>0, <1>1, <1>4, <1>11, <1>12, PassesAgree
<1>14. N \in c..N
  BY <1>0
<1> QED BY <1>13, <1>14

LEMMA RowsAlike ==
    ASSUME NEW v, NEW w, SameRows(v, w)
    PROVE  Rows(v) = Rows(w)
<1>1. \A f \in {"resources", "items", "assessed", "refused"} : v[f] = w[f]
  BY DEF SameRows
<1> QED BY <1>1 DEF Rows

LEMMA SegmentOf ==
    ASSUME NEW T, NEW t \in Seq(T), NEW m \in 1..Len(t), NEW n \in m..Len(t)
    PROVE  /\ Len(SubSeq(t, m, n)) = n - m + 1 /\ Len(SubSeq(t, m, n)) \in Nat
           /\ \A i \in 1..n - m + 1 : SubSeq(t, m, n)[i] = t[m + i - 1]
OBVIOUS

\* Storing the first n lines is a pass over them.
LEMMA StoredOnce ==
    ASSUME NEW format, NEW lines \in Artifacts(format), NEW n \in 1..Len(lines), NEW b \in BOOLEAN
    PROVE  \E g : /\ g[0] = NothingStored /\ Pass(g, lines, 0, n, b)
                  /\ StoreAll(NothingStored, SubSeq(lines, 1, n), b) = g[n]
<1> DEFINE t == SubSeq(lines, 1, n)
<1>1. lines \in Seq(LinesOf(format)) /\ Len(lines) \in Nat /\ n \in Nat /\ 1 \in 1..Len(lines) /\ n - 1 + 1 = n
  BY ArtifactParts
<1>2. Len(t) = n /\ \A i \in 1..n : t[i] = lines[1 + i - 1] /\ 1 + i - 1 = i
  BY <1>1, SegmentOf
<1>3. \A i \in 1..n : t[i] = lines[i]
  BY <1>2
<1> HIDE DEF t
<1>4. PICK g : Storing(g, NothingStored, t, b) /\ StoreAll(NothingStored, t, b) = g[Len(t)]
  BY <1>1, <1>2, StoreAllIs
<1>5. g[0] = NothingStored /\ \A i \in 1..n : g[i] = StoreLine(g[i - 1], t[i], b)
  BY <1>2, <1>4 DEF Storing
<1>6. Pass(g, lines, 0, n, b)
  BY <1>3, <1>5 DEF Pass
<1> QED BY <1>2, <1>4, <1>5, <1>6 DEF t

\* So is storing the lines from the (k + 1)th on.
LEMMA StoredAgain ==
    ASSUME NEW format, NEW lines \in Artifacts(format), NEW k \in 0..Len(lines) - 1, NEW b \in BOOLEAN, NEW st
    PROVE  \E h : /\ h[k] = st /\ Pass(h, lines, k, Len(lines), b)
                  /\ StoreAll(st, SubSeq(lines, k + 1, Len(lines)), b) = h[Len(lines)]
<1> DEFINE N == Len(lines)
           t == SubSeq(lines, k + 1, N)
<1>1. /\ lines \in Seq(LinesOf(format)) /\ N \in Nat /\ k \in Nat /\ k + 1 \in 1..N /\ N \in k + 1..N
      /\ N - (k + 1) + 1 = N - k
  BY ArtifactParts
<1>2. Len(t) = N - k /\ N - k \in Nat /\ \A i \in 1..N - k : t[i] = lines[(k + 1) + i - 1]
  BY <1>1, SegmentOf
<1> HIDE DEF t
<1>3. PICK g : Storing(g, st, t, b) /\ StoreAll(st, t, b) = g[Len(t)]
  <2>1. Len(t) \in Nat
    BY <1>2
  <2> QED BY <2>1, StoreAllIs
<1>4. g[0] = st /\ \A i \in 1..N - k : g[i] = StoreLine(g[i - 1], t[i], b)
  BY <1>2, <1>3 DEF Storing
<1> DEFINE h == [n \in k..N |-> g[n - k]]
<1> HIDE DEF N
<1>5. h[k] = st /\ h[N] = g[N - k]
  BY <1>1, <1>4
<1>6. ASSUME NEW i \in k + 1..N PROVE h[i] = StoreLine(h[i - 1], lines[i], b)
  <2>1. /\ i \in k..N /\ i - 1 \in k..N /\ i - k \in 1..N - k /\ (i - 1) - k = (i - k) - 1
        /\ (k + 1) + (i - k) - 1 = i
    BY <1>1
  <2>2. h[i] = g[i - k] /\ h[i - 1] = g[(i - k) - 1]
    BY <2>1
  <2>3. t[i - k] = lines[i]
    BY <1>2, <2>1
  <2>4. g[i - k] = StoreLine(g[(i - k) - 1], t[i - k], b)
    BY <1>4, <2>1
  <2> HIDE DEF h
  <2> QED BY <2>2, <2>3, <2>4
<1> HIDE DEF h
<1>7. Pass(h, lines, k, N, b)
  BY <1>6 DEF Pass
<1>8. StoreAll(st, t, b) = h[N]
  BY <1>2, <1>3, <1>5
<1> QED BY <1>5, <1>7, <1>8 DEF t, N

\* Stopping anywhere and going on from an earlier line leaves the rows of one pass.
LEMMA ReplayedArtifact ==
    ASSUME NEW format \in AllFormats, NEW lines \in Artifacts(format), NEW c \in DOMAIN lines,
           NEW k \in Nat, k < c, NEW b \in BOOLEAN
    PROVE  Rows(StoreAll(NothingStored, lines, TRUE)) =
              Rows(StoreAll(Resumed(StoreAll(NothingStored, SubSeq(lines, 1, c), b)),
                            SubSeq(lines, k + 1, Len(lines)), b))
<1> DEFINE N == Len(lines)
           left == StoreAll(NothingStored, SubSeq(lines, 1, c), b)
<1>1. /\ N \in Nat \ {0} /\ lines \in Seq(LinesOf(format)) /\ c \in 1..N /\ c \in Nat /\ N \in 1..N
      /\ k \in 0..N - 1 /\ k \in 0..c - 1 /\ N \in 0..N /\ c \in 0..N /\ 0 \in 0..c /\ 0 + 1 = 1 /\ c \in 0..c
      /\ \A n \in 1..c : n \in 1..N
  BY ArtifactParts
<1>2. SubSeq(lines, 1, N) = lines
  BY <1>1
<1>3. PICK G : /\ G[0] = NothingStored /\ Pass(G, lines, 0, N, TRUE)
               /\ StoreAll(NothingStored, lines, TRUE) = G[N]
  <2>1. N \in 1..Len(lines) /\ TRUE \in BOOLEAN
    BY <1>1
  <2> HIDE DEF N
  <2>2. PICK G : /\ G[0] = NothingStored /\ Pass(G, lines, 0, N, TRUE)
                 /\ StoreAll(NothingStored, SubSeq(lines, 1, N), TRUE) = G[N]
    BY <2>1, StoredOnce
  <2> QED BY <1>2, <2>2
<1>4. PICK g : g[0] = NothingStored /\ Pass(g, lines, 0, c, b) /\ left = g[c]
  <2>1. c \in 1..Len(lines)
    BY <1>1
  <2> QED BY <2>1, StoredOnce
<1>5. \A n \in 1..N : StoredFrom(format, G[n - 1], lines[n], G[n])
  BY <1>1, <1>3, FirstPass
<1>6. /\ \A n \in 0..c : Good(format, g[n])
      /\ \A n \in 1..c : StoredFrom(format, g[n - 1], lines[n], g[n])
  BY <1>1, <1>4, FirstPass
<1>7. SameRows(G[0], g[0])
  BY <1>3, <1>4 DEF SameRows
<1>8. SameRows(G[c], g[c])
  BY <1>1, <1>5, <1>6, <1>7, PassesAgree
<1>9. Good(format, Resumed(left)) /\ SameRows(Resumed(left), left)
  BY <1>1, <1>4, <1>6, ResumedGood
<1> HIDE DEF left
<1>10. PICK h : /\ h[k] = Resumed(left) /\ Pass(h, lines, k, N, b)
                /\ StoreAll(Resumed(left), SubSeq(lines, k + 1, N), b) = h[N]
  <2>1. k \in 0..Len(lines) - 1
    BY <1>1
  <2> HIDE DEF N
  <2>2. \A st : \E h : /\ h[k] = st /\ Pass(h, lines, k, Len(lines), b)
                      /\ StoreAll(st, SubSeq(lines, k + 1, Len(lines)), b) = h[Len(lines)]
    BY <2>1, StoredAgain
  <2> QED BY <2>2 DEF N
<1>11. SameRows(G[c], h[k])
  BY <1>4, <1>8, <1>9, <1>10 DEF SameRows
<1>12. SameRows(G[N], h[N])
  <2>1. Good(format, h[k]) /\ TRUE \in BOOLEAN
    BY <1>9, <1>10
  <2> HIDE DEF N
  <2>2. N = Len(lines)
    BY DEF N
  <2> QED BY <1>1, <1>3, <1>10, <1>11, <2>1, <2>2, ReplayLeaves
<1> QED BY <1>3, <1>10, <1>12, RowsAlike DEF left

\* The rows of an artifact are those of one pass over its lines, wherever the worker crashed
\* and whichever of its lines it stored again (ingest_file).
THEOREM ReplaysLeaveRows == RowsSurviveReplays
<1> SUFFICES ASSUME NEW format \in AllFormats, NEW lines \in Artifacts(format), NEW c \in DOMAIN lines,
                    NEW k \in 0..(MaxObservations - 1), NEW b \in BOOLEAN, k < c
             PROVE  Rows(StoreAll(NothingStored, lines, TRUE)) =
                       Rows(StoreAll(Resumed(StoreAll(NothingStored, SubSeq(lines, 1, c), b)),
                                     SubSeq(lines, k + 1, Len(lines)), b))
  BY DEF RowsSurviveReplays
<1>1. k \in Nat
  BY RecordAssumption
<1> QED BY <1>1, ReplayedArtifact

\* A line and the share it tells of have one key, unless the format names them differently.
LEMMA ShareKey ==
    ASSUME NEW format, format # "smb_stream", NEW line, Written(format, line),
           NEW s \in Shares(format), s.id = line.share
    PROVE  Key(ShareId(format, "resource", s), s.name) = KeyOf(line)
<1>1. s.name = NameOf(format, s.id) /\ ShareId(format, "resource", s) = IdOn(format, "resource", s.id)
  BY SharesWritten
<1>2. line.name = NameOf(format, line.share) /\ line.id = IdOn(format, line.kind, line.share)
  BY DEF Written
<1>3. IdOn(format, line.kind, line.share) = IdOn(format, "resource", line.share)
  BY DEF IdOn
<1>4. ShareId(format, "resource", s) = line.id /\ s.name = line.name
  BY <1>1, <1>2, <1>3
<1> QED BY <1>4 DEF KeyOf

\* Every row is of a line, and nothing is refused.
Named(st, lines, n) ==
    /\ st.refused = {}
    /\ \A m \in DOMAIN st.resources : \E i \in 1..n :
          lines[i].kind # "assessment" /\ KeyOf(st.resources[m]) = KeyOf(lines[i])

LEMMA NamedStill ==
    ASSUME NEW format \in AllFormats, format # "smb_stream", NEW lines, NEW n \in Nat \ {0},
           Written(format, lines[n]), NEW v, NEW w, Good(format, v), Ready(format, v, lines[n]),
           StoredFrom(format, v, lines[n], w), Named(v, lines, n - 1)
    PROVE  Named(w, lines, n)
<1> DEFINE line == lines[n]
<1>0. /\ \A i \in 1..n - 1 : i \in 1..n
      /\ n \in 1..n /\ Led1(format, v.resources, line) /\ Sound(format, v.resources)
  BY DEF Ready, Good
<1>1. /\ v.refused = {}
      /\ \A m \in DOMAIN v.resources : \E i \in 1..n :
            lines[i].kind # "assessment" /\ KeyOf(v.resources[m]) = KeyOf(lines[i])
  BY <1>0 DEF Named
<1>2. CASE line.kind = "assessment"
  BY <1>2, <1>1 DEF StoredFrom, Refusable, Named
<1>3. CASE line.kind # "assessment"
  <2>1. w.resources = Touched(v.resources, line) /\ w.refused = v.refused
    BY <1>3 DEF StoredFrom
  <2>2. /\ \A m \in DOMAIN v.resources : w.resources[m] = v.resources[m]
        /\ \A m \in DOMAIN w.resources : m \in DOMAIN v.resources \/ KeyOf(w.resources[m]) = KeyOf(line)
    BY <1>0, <1>3, <2>1, TouchedHas
  <2>3. ASSUME NEW m \in DOMAIN w.resources
        PROVE  \E i \in 1..n : lines[i].kind # "assessment" /\ KeyOf(w.resources[m]) = KeyOf(lines[i])
    <3>1. CASE m \in DOMAIN v.resources
      BY <3>1, <1>1, <2>2
    <3>2. CASE KeyOf(w.resources[m]) = KeyOf(line)
      BY <3>2, <1>0, <1>3
    <3> QED BY <3>1, <3>2, <2>2
  <2> QED BY <1>1, <2>1, <2>3 DEF Named
<1> QED BY <1>2, <1>3

LEMMA PassNames ==
    ASSUME NEW format \in AllFormats, format # "smb_stream", NEW lines \in Artifacts(format),
           NEW N, N = Len(lines), NEW b \in BOOLEAN, NEW g, g[0] = NothingStored, Pass(g, lines, 0, N, b)
    PROVE  Good(format, g[N]) /\ Telling(g[N], lines, N) /\ Named(g[N], lines, N)
<1> DEFINE I == {n \in 0..N : Named(g[n], lines, n)}
<1>0. /\ N \in Nat /\ N \in 0..Len(lines) /\ N \in 0..N /\ DOMAIN lines = 1..N
      /\ \A n \in DOMAIN lines : Written(format, lines[n])
  BY ArtifactParts
<1>1. /\ \A n \in 0..N : Good(format, g[n]) /\ Telling(g[n], lines, n)
      /\ \A n \in 1..N : StoredFrom(format, g[n - 1], lines[n], g[n]) /\ Ready(format, g[n - 1], lines[n])
  BY <1>0, FirstPass
<1>2. 0 \in I
  BY <1>0 DEF NothingStored, Named
<1>3. ASSUME NEW n \in 1..N, n - 1 \in I PROVE n \in I
  BY <1>0, <1>1, <1>3, NamedStill
<1> HIDE DEF I
<1>4. \A n \in 0..N : n \in I
  BY <1>0, <1>2, <1>3, Upward
<1> QED BY <1>0, <1>1, <1>4 DEF I

\* The rows are as many as the keys, for they have different ones.
LEMMA RowsCounted ==
    ASSUME NEW rs, NEW S, rs \in Seq(S), Distinct(rs), NEW keys, keys = {KeyOf(rs[n]) : n \in DOMAIN rs}
    PROVE  Len(rs) = Cardinality(keys)
<1> DEFINE N == Len(rs)
           f == [n \in 1..N |-> KeyOf(rs[n])]
<1>1. N \in Nat /\ DOMAIN rs = 1..N
  OBVIOUS
<1>2. f \in [1..N -> keys] /\ (\A m, n \in 1..N : f[m] = f[n] => m = n)
      /\ \A k \in keys : \E n \in 1..N : f[n] = k
  BY <1>1 DEF Distinct
<1> HIDE DEF f, N
<1>3. f \in Bijection(1..N, keys)
  BY <1>2 DEF Bijection, Injection, Surjection, IsInjective
<1>4. ExistsBijection(1..N, keys)
  BY <1>3 DEF ExistsBijection
<1>5. Cardinality(keys) = N
  BY <1>1, <1>4, FS_CountingElements
<1> QED BY <1>5 DEF N

LEMMA ArtifactStoredAsTold ==
    ASSUME NEW format \in AllFormats, format # "smb_stream", NEW lines \in Artifacts(format), NEW b \in BOOLEAN
    PROVE  StoredAsTold(format, lines, StoreAll(NothingStored, lines, b))
<1> DEFINE N == Len(lines)
           st == StoreAll(NothingStored, lines, b)
           rs == st.resources
           teller == {t \in Shares(format) : \E n \in DOMAIN lines : lines[n].share = t.id}
           told == {Key(ShareId(format, "resource", s), s.name) : s \in teller}
<1>1. /\ N \in Nat \ {0} /\ lines \in Seq(LinesOf(format)) /\ DOMAIN lines = 1..N /\ N \in 1..Len(lines)
      /\ \A n \in 1..N : Written(format, lines[n])
      /\ SubjectsFirst(lines)
  BY ArtifactParts
<1>2. SubSeq(lines, 1, N) = lines
  BY <1>1
<1>3. Good(format, st) /\ Telling(st, lines, N) /\ Named(st, lines, N)
  <2> HIDE DEF N
  <2>1. PICK g : /\ g[0] = NothingStored /\ Pass(g, lines, 0, N, b)
                 /\ StoreAll(NothingStored, SubSeq(lines, 1, N), b) = g[N]
    BY <1>1, StoredOnce
  <2>2. Good(format, g[N]) /\ Telling(g[N], lines, N) /\ Named(g[N], lines, N)
    BY <2>1, PassNames DEF N
  <2>3. st = g[N]
    BY <1>2, <2>1
  <2> HIDE DEF st
  <2> QED BY <2>2, <2>3
<1> HIDE DEF st, N
<1>4. Distinct(rs) /\ rs \in Seq(RowSet(format)) /\ st.refused = {}
  BY <1>3 DEF Good, Sound, Named
<1>5. \A s \in {1, 2} : \E t \in Shares(format) : t.id = s
  BY DEF Shares
<1>6. {KeyOf(rs[n]) : n \in DOMAIN rs} = told
  <2>1. ASSUME NEW m \in DOMAIN rs PROVE KeyOf(rs[m]) \in told
    <3>1. PICK i \in 1..N : KeyOf(rs[m]) = KeyOf(lines[i])
      BY <1>3 DEF Named
    <3>2. lines[i].share \in {1, 2} /\ Written(format, lines[i])
      BY <1>1 DEF Written
    <3>3. PICK s \in Shares(format) : s.id = lines[i].share
      BY <1>5, <3>2
    <3>4. s \in teller
      BY <1>1, <3>3
    <3>5. Key(ShareId(format, "resource", s), s.name) = KeyOf(lines[i])
      BY <3>2, <3>3, ShareKey
    <3> HIDE DEF teller
    <3> QED BY <3>1, <3>4, <3>5
  <2>2. ASSUME NEW s \in teller PROVE \E m \in DOMAIN rs : KeyOf(rs[m]) = Key(ShareId(format, "resource", s), s.name)
    <3>1. s \in Shares(format) /\ \E n \in 1..N : lines[n].share = s.id
      BY <1>1
    <3>2. PICK n \in 1..N : lines[n].share = s.id
      BY <3>1
    <3>3. \E k \in 1..N : lines[k].share = s.id /\ lines[k].kind # "assessment"
      <4>1. CASE lines[n].kind = "assessment"
        <5>1. PICK k \in 1..(n - 1) : lines[k].share = lines[n].share /\ lines[k].kind \in {"resource", "item"}
          BY <1>1, <4>1 DEF SubjectsFirst
        <5>2. k \in 1..N
          BY <1>1
        <5> QED BY <3>2, <5>1, <5>2
      <4>2. CASE lines[n].kind # "assessment"
        BY <3>2, <4>2
      <4> QED BY <4>1, <4>2
    <3>4. PICK k \in 1..N : lines[k].share = s.id /\ lines[k].kind # "assessment"
      BY <3>3
    <3>5. Has(rs, KeyOf(lines[k]))
      BY <1>3, <3>4 DEF Telling, Told
    <3>6. Key(ShareId(format, "resource", s), s.name) = KeyOf(lines[k])
      BY <1>1, <3>1, <3>4, ShareKey
    <3> QED BY <3>5, <3>6 DEF Has
  <2> HIDE DEF teller
  <2> QED BY <2>1, <2>2
<1> HIDE DEF told
<1>7. Len(rs) = Cardinality(told)
  BY <1>4, <1>6, RowsCounted
<1>8. ASSUME NEW n \in DOMAIN lines, lines[n].kind = "item"
      PROVE  \E i \in st.items :
                /\ KeyOf(rs[i.resource]) = KeyOf(lines[n])
                /\ IF lines[n].item # Nothing THEN i.item = lines[n].item ELSE i.path = lines[n].path
  <2>1. Told(st, lines[n])
    BY <1>1, <1>3, <1>8 DEF Telling
  <2>2. PICK i \in st.items : Matches(i, At(rs, KeyOf(lines[n])), lines[n])
    BY <2>1, <1>8 DEF Told
  <2>3. KeyOf(rs[At(rs, KeyOf(lines[n]))]) = KeyOf(lines[n])
    BY <2>1, <1>4, AtIs DEF Told
  <2> QED BY <2>2, <2>3 DEF Matches
<1>9. {Key(rs[n].id, rs[n].name) : n \in DOMAIN rs} = told
  BY <1>6 DEF KeyOf
<1>10. ASSUME NEW n \in DOMAIN lines, lines[n].kind = "item"
       PROVE  \E i \in st.items :
                /\ Key(rs[i.resource].id, rs[i.resource].name) = Key(lines[n].id, lines[n].name)
                /\ IF lines[n].item # Nothing THEN i.item = lines[n].item ELSE i.path = lines[n].path
  BY <1>8, <1>10 DEF KeyOf
<1>11. StoredAsTold(format, lines, st)
  BY <1>4, <1>7, <1>9, <1>10 DEF StoredAsTold, told, teller
<1> QED BY <1>11 DEF st

\* Shares of one name keep rows of their own, their items and their assessments, when every
\* line of an artifact gives a share's identifier alike.
THEOREM SharesStayApart ==
    ASSUME Formats \subseteq AllFormats \ {"smb_stream"}
    PROVE  SharesAreKeptApart
<1> SUFFICES ASSUME NEW format \in Formats, NEW lines \in Artifacts(format), NEW b \in BOOLEAN
             PROVE  StoredAsTold(format, lines, StoreAll(NothingStored, lines, b))
  BY DEF SharesAreKeptApart
<1>1. format \in AllFormats /\ format # "smb_stream"
  OBVIOUS
<1> QED BY <1>1, ArtifactStoredAsTold

\* A placeholder made by an item of the stream is the row of the resource that follows.
LEMMA PlaceholderUpgraded ==
    ASSUME NEW share \in Shares("smb_stream"), NEW place \in Places
    PROVE  LET lines == <<Line("smb_stream", "item", share, place),
                          Line("smb_stream", "resource", share, Nothing)>>
               store == StoreAll(NothingStored, lines, TRUE) IN
           store.resources = <<[id |-> share.id, name |-> share.name]>> /\ Cardinality(store.items) = 1
<1>0. PICK yes \in BOOLEAN : yes
  OBVIOUS
<1> DEFINE item == Line("smb_stream", "item", share, place)
           line == Line("smb_stream", "resource", share, Nothing)
           t == <<item, line>>
           st == StoreAll(NothingStored, t, yes)
           made == [id |-> Nothing, name |-> share.name]
           named == [id |-> share.id, name |-> share.name]
<1>1. /\ item.kind = "item" /\ item.id = Nothing /\ item.name = share.name
      /\ line.kind = "resource" /\ line.id = share.id /\ line.name = share.name
      /\ share.id \in {1, 2} /\ share.id # Nothing
  BY RecordAssumption DEF Line, ShareId, Shares
<1> HIDE DEF item, line
<1>2. Len(t) = 2 /\ 2 \in Nat /\ t[1] = item /\ t[2] = line /\ 1 \in 1..2 /\ 2 \in 1..2
  OBVIOUS
<1> HIDE DEF t
<1>3. PICK g : Storing(g, NothingStored, t, yes) /\ st = g[2]
  BY <1>2, StoreAllIs
<1>4. g[1] = StoreItem(NothingStored, item) /\ st = StoreResource(g[1], line)
  <2>1. g[0] = NothingStored /\ g[1] = StoreLine(g[0], item, yes) /\ g[2] = StoreLine(g[1], line, yes)
    BY <1>2, <1>3 DEF Storing
  <2> QED BY <2>1, <1>0, <1>1, <1>3 DEF StoreLine, Store
<1> HIDE DEF st
<1> DEFINE none == NothingStored
           key == Key(item.id, item.name)
           first == StoreResource(none, item)
<1>5. none = [resources |-> <<>>, items |-> {}, assessed |-> {}, refused |-> {}, cache |-> <<>>]
  BY DEF NothingStored
<1>6. none.resources = <<>> /\ none.items = {} /\ none.cache = <<>> /\ DOMAIN <<>> = {} /\ Len(<<>>) = 0
  BY <1>5
<1> HIDE DEF none
<1>7. UpsertResource(<<>>, item) = [at |-> 1, resources |-> <<made>>]
  <2>1. Found(<<>>, item) = {}
    BY <1>1, <1>6 DEF Found, ByName, ById
  <2>2. Append(<<>>, made) = <<made>> /\ Len(<<>>) + 1 = 1
    BY <1>6
  <2> HIDE DEF made
  <2>3. made = [id |-> item.id, name |-> item.name]
    BY <1>1 DEF made
  <2> QED BY <2>1, <2>2, <2>3 DEF UpsertResource
<1> HIDE DEF made
<1>8. first = [none EXCEPT !.resources = <<made>>, !.cache = Remember(none.cache, item, 1)]
  <2>1. UpsertResource(none.resources, item) = [at |-> 1, resources |-> <<made>>]
    BY <1>6, <1>7
  <2>2. UpsertResource(none.resources, item).at = 1 /\ UpsertResource(none.resources, item).resources = <<made>>
    BY <2>1
  <2> QED BY <2>2 DEF StoreResource
<1> HIDE DEF first, key
<1>9. first.resources = <<made>> /\ first.items = {}
  BY <1>5, <1>6, <1>8
<1>10. g[1] = [first EXCEPT !.items = UpsertItem({}, first.cache[key], item)]
  BY <1>6, <1>4, <1>9 DEF StoreItem, first, key, none
<1>11. /\ g[1].resources = <<made>> /\ g[1].items = UpsertItem({}, first.cache[key], item)
       /\ g[1] = [resources |-> g[1].resources, items |-> g[1].items, assessed |-> g[1].assessed,
                  refused |-> g[1].refused, cache |-> g[1].cache]
  BY <1>5, <1>8, <1>9, <1>10
<1>12. PICK i : g[1].items = {i}
  BY <1>11 DEF UpsertItem
<1>13. UpsertResource(<<made>>, line) = [at |-> 1, resources |-> <<named>>]
  BY <1>1 DEF made, ById, ByName, Found, UpsertResource
<1> HIDE DEF named
<1>14. st.resources = <<named>> /\ st.items = {i}
  <2>1. st = [g[1] EXCEPT !.resources = <<named>>, !.cache = Remember(g[1].cache, line, 1)]
    <3>1. UpsertResource(g[1].resources, line) = [at |-> 1, resources |-> <<named>>]
      BY <1>11, <1>13
    <3>2. UpsertResource(g[1].resources, line).at = 1
          /\ UpsertResource(g[1].resources, line).resources = <<named>>
      BY <3>1
    <3> QED BY <1>4, <3>2 DEF StoreResource
  <2> QED BY <2>1, <1>11, <1>12
<1>15. Cardinality({i}) = 1
  BY FS_Singleton
<1>16. yes = TRUE
  BY <1>0
<1> QED BY <1>14, <1>15, <1>16 DEF st, t, item, line, named

\* An item may come before its resource, which then takes the row over (upsert_resource).
THEOREM PlaceholdersTakenOver == PlaceholdersAreUpgraded
<1> SUFFICES ASSUME NEW share \in Shares("smb_stream"), NEW place \in Places
    PROVE  LET lines == <<Line("smb_stream", "item", share, place),
                          Line("smb_stream", "resource", share, Nothing)>>
               store == StoreAll(NothingStored, lines, TRUE) IN
           store.resources = <<[id |-> share.id, name |-> share.name]>> /\ Cardinality(store.items) = 1
  BY DEF PlaceholdersAreUpgraded
<1> QED BY PlaceholderUpgraded

-----------------------------------------------------------------------------
(* The inventory of a complete run                                         *)

\* What the inventory routes answer of a complete run is what was asked, whole.
THEOREM InventoryAnswered == Spec => []InventoryAnswers
<1>1. InventoryAnswers
  BY QueriesMean, ClausesHold, PagesHold, ExportsHold
    DEF InventoryAnswers, QueriesHold, ReadersMissNothing
<1> QED BY <1>1, PTL

\* The rows of a complete run are those of its records (ingest_file and the merges it calls),
\* where artifacts give a share's identifier on each of its lines or on none.
THEOREM RecordsStored ==
    ASSUME Formats \subseteq AllFormats \ {"smb_stream"}
    PROVE  Spec => []RecordsHold
<1>1. RowsSurviveReplays /\ SharesAreKeptApart /\ PlaceholdersAreUpgraded
  BY ReplaysLeaveRows, SharesStayApart, PlaceholdersTakenOver
<1>2. ObservationsJoin /\ FinalSummaryWins /\ AccessJoins /\ EndpointsKeepIdentity
  BY ObservationsAreJoined, FinalSummaryStays, AccessesHold, IdentityIsKeptByEndpoints
<1>3. StorageHolds
  BY <1>1, <1>2 DEF StorageHolds
<1>4. RecordsHold
  BY <1>3 DEF RecordsHold
<1> QED BY <1>4, PTL
=============================================================================

------------------------- MODULE ComparisonsProofs --------------------------
(***************************************************************************)
(* The inductive invariant of Comparisons, and what follows from it.  Each *)
(* conjunct has a lemma; the frame below says once which steps can disturb *)
(* the row of a comparison at all.  Then what the rows and conclusions of  *)
(* comparisons are worth, for every access list, set of subjects, value of *)
(* a field compared and target; and that the preview of two runs is their  *)
(* difference: so in every state of the workers, the API and the sweeps.   *)
(***************************************************************************)
EXTENDS Integers, ComparisonAnswers, FiniteSetTheorems, WellFoundedInduction, TLAPS

\* Steps that may change the state of a row ...
StateStep ==
    \/ \E r \in Runs : CompleteRun(r) \/ DeleteRun(r)
    \/ \E c \in Comparisons : CommitCreate(c) \/ CommitRetry(c)
    \/ \E w \in Workers, c \in Comparisons : Claim(w, c)
    \/ \E w \in Workers : StartDisabled(w) \/ Start(w) \/ FinishComparison(w) \/ FailFindings(w)
                          \/ Yield(w) \/ Shutdown(w)
                          \/ \E retryable \in BOOLEAN : FailComparison(w, retryable)
\* ... and those that only move its checkpoint.
CheckpointStep ==
    \E w \in Workers :
        \/ PrepareIdentities(w) \/ ResourceBatch(w) \/ BeginItems(w) \/ ItemBatch(w)
        \/ Finalize(w) \/ BeginFindings(w) \/ FindingBatch(w)
        \/ EvaluateBatch(w) \/ EvaluateYield(w) \/ EvaluateDone(w)
        \/ EvaluateShutdown(w) \/ EvaluateFail(w)

stateVars == <<run, last, state, trigger, attempts>>

\* Every other step leaves rows and results alone.
LEMMA Frame ==
    ASSUME [Next]_vars
    PROVE  \/ StateStep
           \/ CheckpointStep /\ UNCHANGED stateVars
           \/ UNCHANGED <<stateVars, progress, result>>
<1>1. CASE UNCHANGED vars
  BY <1>1 DEF vars, sourceVars, row, stateVars
<1>2. ASSUME NEW r \in Runs, ObserveRun(r)
      PROVE  UNCHANGED <<stateVars, progress, result>>
  BY <1>2 DEF ObserveRun, stateVars, sourceVars, row
<1>3. ASSUME SwitchSource
      PROVE  UNCHANGED <<stateVars, progress, result>>
  BY <1>3 DEF SwitchSource, stateVars, sourceVars, row
<1>4. ASSUME NEW c \in Comparisons, OpenCreate(c)
      PROVE  UNCHANGED <<stateVars, progress, result>>
  BY <1>4 DEF OpenCreate, stateVars, sourceVars, row
<1>5. ASSUME NEW c \in Comparisons, OpenRetry(c)
      PROVE  UNCHANGED <<stateVars, progress, result>>
  BY <1>5 DEF OpenRetry, stateVars, sourceVars, row
<1>6. ASSUME NEW c \in Comparisons, RetryFindings(c)
      PROVE  UNCHANGED <<stateVars, progress, result>>
  BY <1>6 DEF RetryFindings, stateVars, sourceVars, row
<1>7. ASSUME NEW c \in Comparisons, BackoffEnds(c)
      PROVE  UNCHANGED <<stateVars, progress, result>>
  BY <1>7 DEF BackoffEnds, stateVars, sourceVars, row
<1>8. ASSUME NEW c \in Comparisons, HeartbeatAges(c)
      PROVE  UNCHANGED <<stateVars, progress, result>>
  BY <1>8 DEF HeartbeatAges, stateVars, sourceVars, row
<1>9. ASSUME NEW w \in Workers, NEW c \in Comparisons, Deliver(w, c)
      PROVE  UNCHANGED <<stateVars, progress, result>>
  BY <1>9 DEF Deliver, stateVars, sourceVars, row
<1>10. ASSUME NEW w \in Workers, NEW c \in Comparisons, ClaimFindings(w, c)
      PROVE  UNCHANGED <<stateVars, progress, result>>
  BY <1>10 DEF ClaimFindings, stateVars, sourceVars, row
<1>11. ASSUME NEW w \in Workers, Begin(w)
      PROVE  UNCHANGED <<stateVars, progress, result>>
  BY <1>11 DEF Begin, stateVars, sourceVars, row
<1>12. ASSUME NEW w \in Workers, LoseComparison(w)
      PROVE  UNCHANGED <<stateVars, progress, result>>
  BY <1>12 DEF LoseComparison, stateVars, sourceVars, row
<1>13. ASSUME NEW w \in Workers, StartFindings(w)
      PROVE  UNCHANGED <<stateVars, progress, result>>
  BY <1>13 DEF StartFindings, stateVars, sourceVars, row
<1>14. ASSUME NEW w \in Workers, Leave(w)
      PROVE  UNCHANGED <<stateVars, progress, result>>
  BY <1>14 DEF Leave, stateVars, sourceVars, row
<1>15. ASSUME NEW w \in Workers, Crash(w)
      PROVE  UNCHANGED <<stateVars, progress, result>>
  BY <1>15 DEF Crash, stateVars, sourceVars, row
<1>16. ASSUME CheckpointStep
      PROVE  UNCHANGED stateVars
  <2> SUFFICES ASSUME NEW w \in Workers,
                      \/ PrepareIdentities(w) \/ ResourceBatch(w) \/ BeginItems(w) \/ ItemBatch(w)
                      \/ Finalize(w) \/ BeginFindings(w) \/ FindingBatch(w)
                      \/ EvaluateBatch(w) \/ EvaluateYield(w) \/ EvaluateDone(w)
                      \/ EvaluateShutdown(w) \/ EvaluateFail(w)
               PROVE  UNCHANGED stateVars
    BY <1>16 DEF CheckpointStep
  <2>1. CASE PrepareIdentities(w)
    BY <2>1 DEF PrepareIdentities, Commit, stateVars, sourceVars, row
  <2>2. CASE ResourceBatch(w)
    BY <2>2 DEF ResourceBatch, Commit, stateVars, sourceVars, row
  <2>3. CASE BeginItems(w)
    BY <2>3 DEF BeginItems, Commit, stateVars, sourceVars, row
  <2>4. CASE ItemBatch(w)
    BY <2>4 DEF ItemBatch, Commit, stateVars, sourceVars, row
  <2>5. CASE Finalize(w)
    BY <2>5 DEF Finalize, Commit, stateVars, sourceVars, row
  <2>6. CASE BeginFindings(w)
    BY <2>6 DEF BeginFindings, stateVars, sourceVars, row
  <2>7. CASE FindingBatch(w)
    BY <2>7 DEF FindingBatch, Commit, stateVars, sourceVars, row
  <2>8. CASE EvaluateBatch(w)
    BY <2>8 DEF EvaluateBatch, Record, stateVars, sourceVars, row
  <2>9. CASE EvaluateYield(w)
    BY <2>9 DEF EvaluateYield, Record, stateVars, sourceVars, row
  <2>10. CASE EvaluateDone(w)
    BY <2>10 DEF EvaluateDone, Record, stateVars, sourceVars, row
  <2>11. CASE EvaluateShutdown(w)
    BY <2>11 DEF EvaluateShutdown, Record, stateVars, sourceVars, row
  <2>12. CASE EvaluateFail(w)
    BY <2>12 DEF EvaluateFail, Record, stateVars, sourceVars, row
<2> QED BY <2>1, <2>2, <2>3, <2>4, <2>5, <2>6, <2>7, <2>8, <2>9, <2>10, <2>11, <2>12
<1> QED
  BY <1>1, <1>2, <1>3, <1>4, <1>5, <1>6, <1>7, <1>8, <1>9, <1>10, <1>11, <1>12, <1>13,
      <1>14, <1>15, <1>16
  DEF Next, Work, Failure, Finish, Scan, Tick, StateStep,
      CheckpointStep

-----------------------------------------------------------------------------
(* What a job knows about its comparison.                                  *)

LEMMA WorkingFacts ==
    ASSUME IInv, NEW w \in Workers, Working(w)
    PROVE  /\ job[w].comparison \in Comparisons /\ lock[job[w].comparison] = w /\ source = w
           /\ state[job[w].comparison] \in Active
           /\ Backed(job[w].comparison, job[w].progress)
           /\ job[w].progress.phase \in Durable
           /\ ~job[w].progress.operatorRetry /\ ~job[w].progress.resumeAfterError
           /\ job[w].progress.phase = "identities" => job[w].progress.prepared < 2
BY DEF IInv, JobsLocked, JobsHold, JobHolds, InJob, Working, Exists, Active

LEMMA EvaluatingFacts ==
    ASSUME IInv, NEW w \in Workers, Evaluating(w)
    PROVE  /\ job[w].comparison \in Comparisons /\ lock[job[w].comparison] = w /\ source = w
           /\ state[job[w].comparison] = "complete"
           /\ Backed(job[w].comparison, job[w].progress)
           /\ job[w].progress.phase = "complete"
BY DEF IInv, JobsLocked, JobsHold, JobHolds, InJob, Evaluating, Exists

LEMMA WaitingFacts ==
    ASSUME IInv, NEW w \in Workers, job[w].pc = "waiting"
    PROVE  /\ job[w].comparison \in Comparisons /\ lock[job[w].comparison] = w
           /\ job[w].kind = "comparison" => state[job[w].comparison] \in Active
           /\ job[w].kind # "comparison" => state[job[w].comparison] = "complete"
BY DEF IInv, JobsLocked, JobsHold, JobHolds, InJob

LEMMA RetryFacts ==
    ASSUME IInv, NEW c \in Comparisons, lock[c] = Api
    PROVE  /\ state[c] = "failed" /\ lane[c] # NotCounted
           /\ trigger[c] = "automatic" => source = Api
BY DEF IInv, RetriesLocked

\* Steps of workers start from a queued or running comparison and end one at most.
WorkerMoves ==
    \/ \E w \in Workers, c \in Comparisons : Claim(w, c)
    \/ \E w \in Workers : StartDisabled(w) \/ Start(w) \/ FinishComparison(w) \/ FailFindings(w)
                          \/ Yield(w) \/ Shutdown(w)
                          \/ \E retryable \in BOOLEAN : FailComparison(w, retryable)

Moves(c, v) ==
    /\ state[c] \in Active /\ v \in {"queued", "running", "failed", "complete"}
    /\ state' = [state EXCEPT ![c] = v]
    /\ last' = last \/ (last' = c /\ v = "complete")
    /\ UNCHANGED <<run, trigger, lane>>

LEMMA WorkerMove ==
    ASSUME IInv, WorkerMoves
    PROVE  \E c \in Comparisons, v \in State : Moves(c, v)
<1> USE DEF Moves, Set, State, Active
<1>1. ASSUME NEW w \in Workers, NEW c \in Comparisons, Claim(w, c)
      PROVE  Moves(c, "running")
  BY <1>1 DEF Claim, Recoverable, sourceVars, locks
<1>2. ASSUME NEW w \in Workers, StartDisabled(w)
      PROVE  \E c \in Comparisons : Moves(c, "failed")
  BY <1>2, WaitingFacts DEF StartDisabled
<1>3. ASSUME NEW w \in Workers, Start(w)
      PROVE  \E c \in Comparisons : Moves(c, "running")
  BY <1>3, WaitingFacts DEF Start, sourceVars
<1>4. ASSUME NEW w \in Workers, FinishComparison(w) \/ FailFindings(w)
      PROVE  \E c \in Comparisons : Moves(c, "complete")
  BY <1>4, WorkingFacts DEF FinishComparison, FailFindings, Show, locks
<1>5. ASSUME NEW w \in Workers, Yield(w) \/ Shutdown(w)
      PROVE  \E c \in Comparisons : Moves(c, "queued")
  BY <1>5, WorkingFacts DEF Yield, Shutdown, Requeue, sourceVars, locks
<1>6. ASSUME NEW w \in Workers, NEW retryable \in BOOLEAN, FailComparison(w, retryable)
      PROVE  \E c \in Comparisons : Moves(c, "queued") \/ Moves(c, "failed")
  BY <1>6, WorkingFacts, WaitingFacts DEF FailComparison, locks
<1>7. {"queued", "running", "failed", "complete"} \subseteq State
  OBVIOUS
<1> HIDE DEF Moves
<1> QED BY <1>1, <1>2, <1>3, <1>4, <1>5, <1>6, <1>7 DEF WorkerMoves
-----------------------------------------------------------------------------
(* The conjuncts about rows                                                *)

LEMMA StateTypes ==
    ASSUME IInv
    PROVE  /\ state \in [Comparisons -> State] /\ run \in [Runs -> {"open", "COMPLETE", "deleted"}]
           /\ last \in Comparisons \cup {NoComparison}
           /\ lane \in [Comparisons -> Nat \cup {NotCounted}]
BY DEF IInv, TypeOK

LEMMA RunsOfComparisons ==
    ASSUME NEW c \in Comparisons
    PROVE  Baseline(c) \in Runs /\ Current(c) \in Runs /\ c # NoComparison
BY ComparisonsAssumption DEF Baseline, Current

\* A comparison of a run that is not complete has no row yet.
LEMMA NewRow ==
    ASSUME IInv, NEW c \in Comparisons, ~Both(c)
    PROVE  state[c] = "none"
BY DEF IInv, RowsHaveRuns, Exists

LEMMA RowsKept ==
    ASSUME IInv, [Next]_vars
    PROVE  RowsHaveRuns'
<1>0. RowsHaveRuns
  BY DEF IInv
<1> USE <1>0, StateTypes, RunsOfComparisons DEF RowsHaveRuns, Exists, Both, Complete
<1>1. ASSUME NEW r \in Runs, CompleteRun(r) PROVE RowsHaveRuns'
  BY <1>1 DEF CompleteRun, CreateAutomatic, Enqueue, row, Earlier, Set
<1>2. ASSUME NEW r \in Runs, DeleteRun(r) PROVE RowsHaveRuns'
  BY <1>2 DEF DeleteRun, Set
<1>3. ASSUME NEW c \in Comparisons, CommitCreate(c) PROVE RowsHaveRuns'
  BY <1>3 DEF CommitCreate, Enqueue, row, sourceVars, Set
<1>4. ASSUME NEW c \in Comparisons, CommitRetry(c) PROVE RowsHaveRuns'
  BY <1>4, RetryFacts DEF CommitRetry, Enqueue, row, Set
<1>5. ASSUME WorkerMoves PROVE RowsHaveRuns'
  BY <1>5, WorkerMove DEF Moves, Active
<1>6. CASE UNCHANGED stateVars
  BY <1>6 DEF stateVars
<1> QED BY Frame, <1>1, <1>2, <1>3, <1>4, <1>5, <1>6 DEF StateStep, WorkerMoves, stateVars

LEMMA LastKept ==
    ASSUME IInv, [Next]_vars
    PROVE  LastIsComplete'
<1>0. LastIsComplete
  BY DEF IInv
<1> USE <1>0, StateTypes DEF LastIsComplete
<1>1. ASSUME NEW r \in Runs, CompleteRun(r) PROVE LastIsComplete'
  <2>1. CASE UNCHANGED row
    BY <1>1, <2>1 DEF CompleteRun, row
  <2>2. CASE \E c \in Earlier(r) : CreateAutomatic(c)
    BY <1>1, <2>2, NewRow DEF CompleteRun, CreateAutomatic, Enqueue, row, Earlier, Both, Complete, Set
  <2> QED BY <1>1, <2>1, <2>2 DEF CompleteRun
<1>2. ASSUME NEW r \in Runs, DeleteRun(r) PROVE LastIsComplete'
  BY <1>2 DEF DeleteRun
<1>3. ASSUME NEW c \in Comparisons, CommitCreate(c) PROVE LastIsComplete'
  BY <1>3 DEF CommitCreate, Enqueue, row, sourceVars, Set
<1>4. ASSUME NEW c \in Comparisons, CommitRetry(c) PROVE LastIsComplete'
  BY <1>4, RetryFacts DEF CommitRetry, Enqueue, row, Set
<1>5. ASSUME WorkerMoves PROVE LastIsComplete'
  BY <1>5, WorkerMove DEF Moves, Active
<1>6. CASE UNCHANGED stateVars
  BY <1>6 DEF stateVars
<1> QED BY Frame, <1>1, <1>2, <1>3, <1>4, <1>5, <1>6 DEF StateStep, WorkerMoves, stateVars
-----------------------------------------------------------------------------
(* Checkpoints and the steps that move them                                *)

LEMMA JobTypes ==
    ASSUME IInv
    PROVE  /\ job \in [Workers -> Job]
           /\ \A w \in Workers : job[w] \in Job /\ job[w].progress \in Progress
                                 /\ job[w].batches \in 0 .. Quantum
           /\ progress \in [Comparisons -> Progress]
           /\ resources \in [Comparisons -> SUBSET (1 .. ResourceBatches)]
           /\ items \in [Comparisons -> SUBSET (1 .. ItemBatches)]
           /\ ResourceBatches \in Nat /\ ItemBatches \in Nat /\ FindingBatches \in Nat
           /\ Quantum \in Nat
BY ComparisonsAssumption DEF IInv, TypeOK, Job

\* Two checkpoints that agree on what is stored and on how the claim began.
SameSteps(q, p) ==
    /\ q \in Progress /\ q.resource = p.resource /\ q.item = p.item
    /\ q.operatorRetry = p.operatorRetry /\ q.resumeAfterError = p.resumeAfterError

LEMMA SamePhase ==
    ASSUME NEW p \in Progress, NEW f \in Phase
    PROVE  LET q == [p EXCEPT !.phase = f] IN SameSteps(q, p) /\ q.phase = f
BY DEF Progress, SameSteps

LEMMA SamePrepared ==
    ASSUME NEW p \in Progress, p.prepared < 2
    PROVE  LET q == [p EXCEPT !.prepared = @ + 1] IN SameSteps(q, p) /\ q.phase = p.phase
BY DEF Progress, SameSteps

LEMMA SameFinding ==
    ASSUME NEW p \in Progress, p.finding < FindingBatches, FindingBatches \in Nat
    PROVE  LET q == [p EXCEPT !.finding = @ + 1] IN SameSteps(q, p) /\ q.phase = p.phase
BY DEF Progress, SameSteps

LEMMA SameResumed ==
    ASSUME NEW p \in Progress
    PROVE  /\ SameSteps(Resumed(p), p) /\ Resumed(p).phase \in {"identities", "resources"}
           /\ Resumed(p).phase = "identities" => Resumed(p).prepared < 2
BY DEF Progress, Phase, Resumed, SameSteps

LEMMA NextItem ==
    ASSUME NEW p \in Progress, p.item < ItemBatches, ItemBatches \in Nat
    PROVE  LET q == [p EXCEPT !.item = @ + 1] IN
           /\ q \in Progress /\ q.phase = p.phase /\ q.resource = p.resource
           /\ q.item = p.item + 1 /\ q.operatorRetry = p.operatorRetry
           /\ q.resumeAfterError = p.resumeAfterError
BY DEF Progress

LEMMA AtStored ==
    ASSUME NEW f \in Phase, NEW r \in 0 .. ResourceBatches
    PROVE  LET q == At(f, r) IN
           /\ q \in Progress /\ q.phase = f /\ q.resource = r /\ q.item = 0
           /\ ~q.operatorRetry /\ ~q.resumeAfterError
BY ComparisonsAssumption DEF Progress, At

Grows ==
    /\ resources' \in [Comparisons -> SUBSET (1 .. ResourceBatches)]
    /\ items' \in [Comparisons -> SUBSET (1 .. ItemBatches)]
    /\ \A d \in Comparisons : resources[d] \subseteq resources'[d] /\ items[d] \subseteq items'[d]

LEMMA NothingStored ==
    ASSUME IInv, UNCHANGED result
    PROVE  Grows
BY JobTypes DEF result, Grows

\* What a cursor claims, of the rows R and I that are stored.
Covers(p, R, I) ==
    /\ 1 .. p.resource \subseteq R /\ 1 .. p.item \subseteq I
    /\ p.phase \in {"items", "finalizing", "findings", "complete"} => p.resource = ResourceBatches
    /\ p.phase \in {"finalizing", "findings", "complete"} => p.item = ItemBatches

LEMMA BackedCovers ==
    ASSUME NEW c \in Comparisons, NEW p
    PROVE  Backed(c, p) = Covers(p, resources[c], items[c])
BY DEF Backed, Covers

Clean(p) == p.phase \in Durable /\ ~p.operatorRetry /\ ~p.resumeAfterError
Ready(p) == Clean(p) /\ (p.phase = "identities" => p.prepared < 2)

\* What a worker's transaction makes of its checkpoint q and of the job that goes on.
Batch(w, q) ==
    /\ Working(w) /\ q \in Progress /\ Clean(q)
    /\ Covers(q, resources'[job[w].comparison], items'[job[w].comparison]) /\ Grows
    /\ progress' = [progress EXCEPT ![job[w].comparison] = q]
    /\ UNCHANGED <<stateVars, locks>>
    /\ \E k \in Job :
           /\ job' = [job EXCEPT ![w] = k]
           /\ k.pc = "working" /\ k.comparison = job[w].comparison /\ Ready(k.progress)
           /\ Covers(k.progress, resources'[k.comparison], items'[k.comparison])
           /\ k.authoritative => job[w].authoritative \/ LatestCandidate(k.comparison)

Batches(w) ==
    \/ PrepareIdentities(w) \/ ResourceBatch(w) \/ BeginItems(w) \/ ItemBatch(w)
    \/ Finalize(w) \/ BeginFindings(w) \/ FindingBatch(w)

\* A transaction of Commit is a batch when what its cursors claim is stored.
LEMMA CommitIsBatch ==
    ASSUME IInv, NEW w \in Workers, Working(w), NEW q \in Progress, NEW m \in Progress,
           NEW n \in 0 .. Quantum, Commit(w, q, m, n), Clean(q), Ready(m), Grows,
           Covers(q, resources'[job[w].comparison], items'[job[w].comparison]),
           Covers(m, resources'[job[w].comparison], items'[job[w].comparison])
    PROVE  Batch(w, q)
<1> DEFINE k == [job[w] EXCEPT !.progress = m, !.batches = n]
<1>1. /\ k \in Job /\ k.progress = m /\ k.pc = "working"
      /\ k.comparison = job[w].comparison /\ k.authoritative = job[w].authoritative
  <2>1. job[w] \in Job /\ job[w].pc = "working"
    BY JobTypes DEF Working
  <2>2. k = [job[w] EXCEPT !.progress = m, !.batches = n]
    OBVIOUS
  <2> HIDE DEF k
  <2>3. PICK j \in Job : j = job[w]
    BY <2>1
  <2>4. k = [j EXCEPT !.progress = m, !.batches = n]
    BY <2>2, <2>3
  <2> QED BY <2>1, <2>3, <2>4 DEF Job
<1>2. job' = [job EXCEPT ![w] = k] /\ UNCHANGED <<stateVars, locks>>
      /\ progress' = [progress EXCEPT ![job[w].comparison] = q]
  BY DEF Commit, Set, stateVars, sourceVars, locks
<1> HIDE DEF k
<1> QED BY <1>1, <1>2 DEF Batch

LEMMA BatchSteps ==
    ASSUME IInv, NEW w \in Workers, Batches(w)
    PROVE  \E q \in Progress : Batch(w, q)
<1>0. Working(w)
  BY DEF Batches, PrepareIdentities, ResourceBatch, BeginItems, ItemBatch, Finalize,
         BeginFindings, FindingBatch
<1> DEFINE c == job[w].comparison
           p == job[w].progress
<1>1. /\ c \in Comparisons /\ p \in Progress /\ Covers(p, resources[c], items[c]) /\ Ready(p)
      /\ job[w].batches \in 0 .. Quantum
  BY <1>0, WorkingFacts, JobTypes, BackedCovers DEF Ready, Clean
<1>2. CASE PrepareIdentities(w)
  <2> DEFINE q == [p EXCEPT !.prepared = @ + 1]
             n == IF q.prepared = 2 THEN 0 ELSE job[w].batches + 1
  <2>1. p.phase = "identities" /\ Commit(w, q, Resumed(q), n) /\ UNCHANGED result /\ n \in 0 .. Quantum
    BY <1>1, <1>2, JobTypes DEF PrepareIdentities
  <2>2. p.prepared < 2
    BY <1>1, <2>1 DEF Ready
  <2>3. SameSteps(q, p) /\ q.phase = p.phase
    BY <1>1, <2>2, SamePrepared
  <2>4. q \in Progress
    BY <2>3 DEF SameSteps
  <2>5. /\ SameSteps(Resumed(q), q) /\ Resumed(q).phase \in {"identities", "resources"}
        /\ Resumed(q).phase = "identities" => Resumed(q).prepared < 2
    BY <2>4, SameResumed
  <2> HIDE DEF q, n
  <2> QED BY <1>0, <1>1, <2>1, <2>3, <2>4, <2>5, CommitIsBatch, NothingStored
          DEF SameSteps, Ready, Clean, Durable, Covers, result
<1>3. CASE ResourceBatch(w)
  <2>1. /\ p.resource + 1 \in 0 .. ResourceBatches /\ p.resource \in Nat
        /\ job[w].batches + 1 \in 0 .. Quantum
    BY <1>1, <1>3, JobTypes DEF ResourceBatch, Progress
  <2>2. PICK q \in Progress : /\ q = At("resources", p.resource + 1)
                              /\ q.phase = "resources" /\ q.resource = p.resource + 1 /\ q.item = 0
                              /\ ~q.operatorRetry /\ ~q.resumeAfterError
    BY <2>1, AtStored DEF Phase
  <2>3. Commit(w, q, q, job[w].batches + 1)
    BY <1>3, <2>2 DEF ResourceBatch
  <2>4. resources' = [resources EXCEPT ![c] = @ \cup {p.resource + 1}] /\ items' = items
    BY <1>3 DEF ResourceBatch, Set
  <2>5. Grows
    BY <1>1, <2>1, <2>4, JobTypes DEF Grows
  <2>6. Covers(q, resources'[c], items'[c])
    BY <1>1, <2>1, <2>2, <2>4, JobTypes DEF Covers
  <2> QED BY <1>0, <1>1, <2>1, <2>2, <2>3, <2>5, <2>6, CommitIsBatch DEF Ready, Clean, Durable
<1>4. CASE BeginItems(w)
  <2>1. PICK q \in Progress : /\ q = At("items", p.resource)
                              /\ q.phase = "items" /\ q.resource = p.resource /\ q.item = 0
                              /\ ~q.operatorRetry /\ ~q.resumeAfterError
    BY <1>1, AtStored DEF Phase, Progress
  <2>2. Commit(w, q, q, job[w].batches) /\ UNCHANGED result /\ p.resource = ResourceBatches
    BY <1>4, <2>1 DEF BeginItems
  <2>3. Covers(q, resources'[c], items'[c])
    BY <1>1, <2>1, <2>2 DEF Covers, result
  <2> QED BY <1>0, <1>1, <2>1, <2>2, <2>3, CommitIsBatch, NothingStored DEF Ready, Clean, Durable
<1>5. CASE ItemBatch(w)
  <2>0. p.item < ItemBatches /\ p.phase = "items" /\ job[w].batches + 1 \in 0 .. Quantum
    BY <1>1, <1>5, JobTypes DEF ItemBatch
  <2>1. PICK q \in Progress : /\ q = [p EXCEPT !.item = @ + 1]
                              /\ q.phase = p.phase /\ q.resource = p.resource
                              /\ q.item = p.item + 1 /\ q.operatorRetry = p.operatorRetry
                              /\ q.resumeAfterError = p.resumeAfterError
    BY <1>1, <2>0, NextItem, JobTypes
  <2>2. Commit(w, q, q, job[w].batches + 1)
    BY <1>5, <2>1 DEF ItemBatch
  <2>3. items' = [items EXCEPT ![c] = @ \cup {p.item + 1}] /\ resources' = resources
    BY <1>5 DEF ItemBatch, Set
  <2>4. p.item + 1 \in 1 .. ItemBatches /\ p.item \in Nat
    BY <1>1, <2>0, JobTypes DEF Progress
  <2>5. Grows
    BY <1>1, <2>4, <2>3, JobTypes DEF Grows
  <2>6. Covers(q, resources'[c], items'[c])
    BY <1>1, <2>0, <2>1, <2>3, <2>4, JobTypes DEF Covers
  <2> QED BY <1>0, <1>1, <2>0, <2>1, <2>2, <2>5, <2>6, CommitIsBatch DEF Ready, Clean
<1>6. CASE Finalize(w)
  <2>0. p \in Progress /\ "finalizing" \in Phase
    BY <1>1 DEF Phase
  <2>1. PICK q \in Progress : q = [p EXCEPT !.phase = "finalizing"] /\ SameSteps(q, p) /\ q.phase = "finalizing"
    BY <2>0, SamePhase DEF SameSteps
  <2>2. Commit(w, q, q, job[w].batches) /\ UNCHANGED result /\ p.phase = "items" /\ p.item = ItemBatches
    BY <1>6, <2>1 DEF Finalize
  <2>3. Covers(q, resources'[c], items'[c])
    BY <1>1, <2>1, <2>2 DEF Covers, result, SameSteps
  <2> QED BY <1>0, <1>1, <2>1, <2>2, <2>3, CommitIsBatch, NothingStored DEF Ready, Clean, Durable, SameSteps
<1>7. CASE BeginFindings(w)
  <2>1. PICK q \in Progress : q = [p EXCEPT !.phase = "findings"] /\ SameSteps(q, p) /\ q.phase = "findings"
    BY <1>1, SamePhase DEF Phase, SameSteps
  <2> DEFINE k == [job[w] EXCEPT !.progress = q, !.authoritative = LatestCandidate(c)]
  <2>2. /\ job' = [job EXCEPT ![w] = k] /\ progress' = [progress EXCEPT ![c] = q]
        /\ UNCHANGED result /\ p.phase = "finalizing" /\ UNCHANGED <<stateVars, locks>>
    BY <1>7, <2>1 DEF BeginFindings, Set, stateVars, sourceVars, locks
  <2>3. Covers(q, resources'[c], items'[c])
    BY <1>1, <2>1, <2>2 DEF Covers, result, SameSteps
  <2>4. LatestCandidate(c) \in BOOLEAN
    BY DEF LatestCandidate
  <2>5. /\ k \in Job /\ k.progress = q /\ k.pc = "working" /\ k.comparison = c
        /\ k.authoritative = LatestCandidate(c)
    <3>1. job[w] \in Job /\ job[w].pc = "working"
      BY <1>0, JobTypes DEF Working
    <3>2. k = [job[w] EXCEPT !.progress = q, !.authoritative = LatestCandidate(c)]
      OBVIOUS
    <3>3. q \in Progress
      OBVIOUS
    <3> HIDE DEF k
    <3>4. PICK j \in Job : j = job[w]
      BY <3>1
    <3>5. k = [j EXCEPT !.progress = q, !.authoritative = LatestCandidate(c)]
      BY <3>2, <3>4
    <3> QED BY <2>4, <3>1, <3>3, <3>4, <3>5 DEF Job
  <2> HIDE DEF k
  <2> QED BY <1>0, <1>1, <2>1, <2>2, <2>3, <2>5, NothingStored DEF Batch, Ready, Clean, Durable, SameSteps
<1>8. CASE FindingBatch(w)
  <2>0. p.finding < FindingBatches /\ job[w].batches + 1 \in 0 .. Quantum
    BY <1>1, <1>8, JobTypes DEF FindingBatch, More
  <2>1. PICK q \in Progress : q = [p EXCEPT !.finding = @ + 1] /\ SameSteps(q, p) /\ q.phase = p.phase
    BY <1>1, <2>0, SameFinding, JobTypes DEF SameSteps
  <2>2. Commit(w, q, q, job[w].batches + 1) /\ UNCHANGED result
    BY <1>8, <2>1 DEF FindingBatch
  <2>3. Covers(q, resources'[c], items'[c])
    BY <1>1, <2>1, <2>2 DEF Covers, result, SameSteps
  <2>4. p.phase = "findings"
    BY <1>8 DEF FindingBatch
  <2> QED BY <1>0, <1>1, <2>0, <2>1, <2>2, <2>3, <2>4, CommitIsBatch, NothingStored
          DEF Ready, Clean, SameSteps
<1> QED BY <1>2, <1>3, <1>4, <1>5, <1>6, <1>7, <1>8 DEF Batches
-----------------------------------------------------------------------------
(* Evaluations and endings                                                 *)

\* What a transaction of a findings-only job does to the checkpoint q.
Evaluated(w, q) ==
    /\ Evaluating(w) /\ q \in Progress /\ q.phase = "complete"
    /\ Covers(q, resources[job[w].comparison], items[job[w].comparison])
    /\ progress' = [progress EXCEPT ![job[w].comparison] = q]
    /\ UNCHANGED <<stateVars, result, locks>>
    /\ \/ Leaving(w)
       \/ \E k \in Job : /\ job' = [job EXCEPT ![w] = k] /\ k.progress = q
                         /\ k.pc = "evaluating" /\ k.comparison = job[w].comparison
                         /\ k.authoritative = job[w].authoritative

Evaluates(w) ==
    \/ EvaluateBatch(w) \/ EvaluateYield(w) \/ EvaluateDone(w)
    \/ EvaluateShutdown(w) \/ EvaluateFail(w)

LEMMA EvaluateSteps ==
    ASSUME IInv, NEW w \in Workers, Evaluates(w)
    PROVE  \E q \in Progress : Evaluated(w, q)
<1>0. Evaluating(w)
  BY DEF Evaluates, EvaluateBatch, EvaluateYield, EvaluateDone, EvaluateShutdown, EvaluateFail
<1> DEFINE c == job[w].comparison
           p == job[w].progress
<1>1. /\ c \in Comparisons /\ p \in Progress /\ p.phase = "complete"
      /\ Covers(p, resources[c], items[c]) /\ job[w].batches \in 0 .. Quantum
  BY <1>0, EvaluatingFacts, JobTypes, BackedCovers
<1>2. CASE EvaluateBatch(w)
  <2>0. p.finding < FindingBatches /\ job[w].batches + 1 \in 0 .. Quantum
    BY <1>1, <1>2, JobTypes DEF EvaluateBatch, More
  <2>1. PICK q \in Progress : q = [p EXCEPT !.finding = @ + 1] /\ SameSteps(q, p) /\ q.phase = p.phase
    BY <1>1, <2>0, SameFinding, JobTypes DEF SameSteps
  <2> DEFINE k == [job[w] EXCEPT !.progress = q, !.batches = @ + 1]
  <2>2. job' = [job EXCEPT ![w] = k]
    BY <1>2, <2>1 DEF EvaluateBatch, Set
  <2>3. progress' = [progress EXCEPT ![c] = q] /\ UNCHANGED <<stateVars, result, locks>>
    BY <1>2, <2>1 DEF EvaluateBatch, Record, Set, stateVars, locks
  <2>4. PICK j \in Job : j = job[w]
    BY JobTypes
  <2>5. /\ k \in Job /\ k.progress = q /\ k.pc = "evaluating"
        /\ k.comparison = c /\ k.authoritative = job[w].authoritative
    <3>1. k = [j EXCEPT !.progress = q, !.batches = @ + 1] /\ j.batches + 1 \in 0 .. Quantum
      BY <2>0, <2>4
    <3>2. j.pc = "evaluating"
      BY <1>0, <2>4 DEF Evaluating
    <3> HIDE DEF k
    <3> QED BY <2>1, <2>4, <3>1, <3>2 DEF Job
  <2> HIDE DEF k
  <2> QED BY <1>0, <1>1, <2>1, <2>2, <2>3, <2>5 DEF Evaluated, SameSteps, Covers
<1>3. CASE EvaluateYield(w)
  BY <1>0, <1>1, <1>3 DEF Evaluated, EvaluateYield, Record, Set, stateVars, locks
<1>4. CASE EvaluateDone(w)
  BY <1>0, <1>1, <1>4 DEF Evaluated, EvaluateDone, Record, Set, stateVars, locks
<1>5. CASE EvaluateShutdown(w)
  BY <1>0, <1>1, <1>5 DEF Evaluated, EvaluateShutdown, Record, Set, stateVars, locks
<1>6. CASE EvaluateFail(w)
  BY <1>0, <1>1, <1>6 DEF Evaluated, EvaluateFail, Record, Set, stateVars, locks
<1> QED BY <1>2, <1>3, <1>4, <1>5, <1>6 DEF Evaluates

\* Steps after which a worker only has its locks to release.
Ends(w) ==
    \/ StartDisabled(w) \/ FinishComparison(w) \/ FailFindings(w) \/ Yield(w) \/ Shutdown(w)
    \/ LoseComparison(w)
    \/ EvaluateYield(w) \/ EvaluateDone(w) \/ EvaluateShutdown(w) \/ EvaluateFail(w)
    \/ \E retryable \in BOOLEAN : FailComparison(w, retryable)

LEMMA LeavingJob ==
    ASSUME IInv, NEW w \in Workers, job[w].pc \in InJob, Leaving(w)
    PROVE  \E k \in Job : /\ job' = [job EXCEPT ![w] = k] /\ k.pc = "leaving"
                          /\ k.comparison = job[w].comparison
<1> DEFINE k == [Idle EXCEPT !.pc = "leaving", !.comparison = job[w].comparison]
<1>1. Queued \in Progress
  BY AtStored, JobTypes DEF Queued, Phase
<1>2. job[w].comparison \in Comparisons
  BY DEF IInv, JobsLocked, InJob
<1>3. k \in Job /\ k.pc = "leaving" /\ k.comparison = job[w].comparison
  <2>1. Idle \in Job
    BY <1>1, JobTypes DEF Idle, Job
  <2>2. PICK i \in Job : i = Idle
    BY <2>1
  <2>3. k = [i EXCEPT !.pc = "leaving", !.comparison = job[w].comparison]
    BY <2>2
  <2> HIDE DEF k
  <2> QED BY <1>2, <2>2, <2>3 DEF Job
<1> HIDE DEF k
<1> QED BY <1>3 DEF Leaving, Set, k

LEMMA EndSteps ==
    ASSUME IInv, NEW w \in Workers, Ends(w)
    PROVE  /\ job[w].pc \in InJob /\ Leaving(w) /\ UNCHANGED <<run, lock, lane, trigger>>
           /\ source' = source \/ (source = Free /\ source' = w)
<1>1. CASE StartDisabled(w)
  BY <1>1 DEF StartDisabled, SourceLock, InJob
<1>2. CASE FinishComparison(w)
  BY <1>2 DEF FinishComparison, Show, Working, InJob, locks
<1>3. CASE FailFindings(w)
  BY <1>3 DEF FailFindings, Show, Working, InJob, locks
<1>4. CASE Yield(w)
  BY <1>4 DEF Yield, Requeue, Working, InJob, locks, sourceVars
<1>5. CASE Shutdown(w)
  BY <1>5 DEF Shutdown, Requeue, Working, InJob, locks, sourceVars
<1>6. CASE LoseComparison(w)
  BY <1>6 DEF LoseComparison, InJob, locks, row
<1>7. CASE \E retryable \in BOOLEAN : FailComparison(w, retryable)
  BY <1>7 DEF FailComparison, Working, InJob, locks
<1>8. CASE EvaluateYield(w)
  BY <1>8 DEF EvaluateYield, Record, Evaluating, InJob, locks
<1>9. CASE EvaluateDone(w)
  BY <1>9 DEF EvaluateDone, Record, Evaluating, InJob, locks
<1>10. CASE EvaluateShutdown(w)
  BY <1>10 DEF EvaluateShutdown, Record, Evaluating, InJob, locks
<1>11. CASE EvaluateFail(w)
  BY <1>11 DEF EvaluateFail, Record, Evaluating, InJob, locks
<1> QED BY <1>1, <1>2, <1>3, <1>4, <1>5, <1>6, <1>7, <1>8, <1>9, <1>10, <1>11 DEF Ends
-----------------------------------------------------------------------------
(* What is durable of a comparison                                         *)

LEMMA NothingClaimed ==
    ASSUME NEW c \in Comparisons, NEW q, q \in {Queued, Prepare, [Queued EXCEPT !.operatorRetry = TRUE]},
           NEW R, NEW I
    PROVE  q \in Progress /\ Covers(q, R, I)
<1>1. /\ Queued \in Progress /\ Queued.phase = "queued" /\ Queued.resource = 0 /\ Queued.item = 0
      /\ Prepare \in Progress /\ Prepare.phase = "identities" /\ Prepare.resource = 0 /\ Prepare.item = 0
  BY AtStored, ComparisonsAssumption DEF Queued, Prepare, Phase
<1>2. PICK p \in Progress : p = Queued
  BY <1>1
<1>3. [p EXCEPT !.operatorRetry = TRUE] \in Progress
  BY DEF Progress
<1>4. q \in Progress /\ q.resource = 0 /\ q.item = 0 /\ q.phase \in {"queued", "identities"}
  BY <1>1, <1>2, <1>3 DEF Progress
<1> QED BY <1>4 DEF Covers

LEMMA RowFacts ==
    ASSUME IInv, NEW c \in Comparisons
    PROVE  /\ state[c] # "none" => Covers(progress[c], resources[c], items[c])
           /\ state[c] = "complete" => progress[c].phase = "complete"
           /\ state[c] \in Active /\ Counted(c) => attempts[c] < MaxAttempts
           /\ progress[c] \in Progress
BY BackedCovers, JobTypes DEF IInv, CheckpointsBacked, AttemptsLeft, Exists, State, Active

LEMMA CheckpointsKept ==
    ASSUME IInv, [Next]_vars
    PROVE  CheckpointsBacked'
<1> DEFINE Held == \A c \in Comparisons :
                       state'[c] # "none" => /\ Covers(progress'[c], resources'[c], items'[c])
                                             /\ state'[c] = "complete" => progress'[c].phase = "complete"
<1>0. Held => CheckpointsBacked'
  BY DEF CheckpointsBacked, Backed, Covers, Exists
<1> USE StateTypes, JobTypes, RowFacts
<1>1. ASSUME NEW r \in Runs, CompleteRun(r) PROVE Held
  <2>1. CASE UNCHANGED row
    BY <1>1, <2>1 DEF CompleteRun, row, result
  <2>2. ASSUME NEW c \in Comparisons, CreateAutomatic(c) PROVE Held
    BY <1>1, <2>2, NothingClaimed DEF CompleteRun, CreateAutomatic, Enqueue, row, result, Set
  <2> QED BY <1>1, <2>1, <2>2 DEF CompleteRun, Earlier
<1>2. ASSUME NEW r \in Runs, DeleteRun(r) PROVE Held
  BY <1>2 DEF DeleteRun
<1>3. ASSUME NEW c \in Comparisons, CommitCreate(c) PROVE Held
  BY <1>3, NothingClaimed DEF CommitCreate, Enqueue, row, result, Set
<1>4. ASSUME NEW c \in Comparisons, CommitRetry(c) PROVE Held
  BY <1>4, NothingClaimed DEF CommitRetry, Enqueue, row, result, Set
<1>5. ASSUME NEW w \in Workers, NEW c \in Comparisons, Claim(w, c) PROVE Held
  BY <1>5 DEF Claim, Recoverable, result, Set
<1>6. ASSUME NEW w \in Workers, StartDisabled(w) PROVE Held
  BY <1>6, WaitingFacts, NothingClaimed DEF StartDisabled, result, Set
<1>7. ASSUME NEW w \in Workers, Start(w) PROVE Held
  <2> DEFINE c == job[w].comparison
  <2>1. c \in Comparisons /\ state[c] \in Active
    BY <1>7, WaitingFacts DEF Start
  <2>2. Covers(Checkpoint(c), resources'[c], items'[c])
    <3>1. CASE Checkpoint(c) = Prepare
      BY <2>1, <3>1, NothingClaimed
    <3>2. CASE Checkpoint(c) # Prepare
      <4>1. ~progress[c].operatorRetry /\ Checkpoint(c) = [progress[c] EXCEPT !.resumeAfterError = FALSE]
        BY <3>2 DEF Checkpoint
      <4>2. PICK p \in Progress : p = progress[c]
        BY <2>1
      <4>3. Checkpoint(c).phase = p.phase /\ Checkpoint(c).resource = p.resource /\ Checkpoint(c).item = p.item
        BY <4>1, <4>2 DEF Progress
      <4>4. UNCHANGED <<resources, items>> /\ Covers(p, resources[c], items[c])
        BY <1>7, <2>1, <4>1, <4>2 DEF Start, Active
      <4> QED BY <4>3, <4>4 DEF Covers
    <3> QED BY <3>1, <3>2
  <2>3. \A d \in Comparisons : d # c => resources'[d] = resources[d] /\ items'[d] = items[d]
    BY <1>7 DEF Start, Set
  <2>4. progress' = [progress EXCEPT ![c] = Checkpoint(c)] /\ state' = [state EXCEPT ![c] = "running"]
    BY <1>7 DEF Start, Set
  <2> QED BY <2>1, <2>2, <2>3, <2>4
<1>8. ASSUME NEW w \in Workers, FinishComparison(w) \/ FailFindings(w) PROVE Held
  <2> DEFINE c == job[w].comparison
  <2>1. Working(w) /\ job[w].progress.phase = "findings"
    BY <1>8 DEF FinishComparison, FailFindings
  <2>2. /\ c \in Comparisons /\ Covers(job[w].progress, resources[c], items[c])
        /\ job[w].progress \in Progress
    BY <2>1, WorkingFacts, BackedCovers
  <2> PICK p \in Progress : p = job[w].progress
    BY <2>2
  <2>4. /\ SameSteps([p EXCEPT !.phase = "complete"], p)
        /\ [p EXCEPT !.phase = "complete"].phase = "complete"
    BY SamePhase DEF Phase
  <2>3. PICK q \in Progress : q = [p EXCEPT !.phase = "complete"] /\ SameSteps(q, p) /\ q.phase = "complete"
    BY <2>4 DEF SameSteps
  <2>5. /\ progress' = [progress EXCEPT ![c] = q] /\ state' = [state EXCEPT ![c] = "complete"]
        /\ UNCHANGED result
    BY <1>8, <2>3 DEF FinishComparison, FailFindings, Show, Set
  <2>6. Covers(q, resources[c], items[c])
    BY <2>1, <2>2, <2>3 DEF Covers, SameSteps
  <2> QED BY <2>2, <2>3, <2>5, <2>6 DEF result
<1>9. ASSUME NEW w \in Workers, Yield(w) \/ Shutdown(w) PROVE Held
  <2>1. Working(w) /\ Requeue(w)
    BY <1>9 DEF Yield, Shutdown
  <2> QED BY <2>1, WorkingFacts, BackedCovers DEF Requeue, result, Set
<1>10. ASSUME NEW w \in Workers, NEW retryable \in BOOLEAN, FailComparison(w, retryable) PROVE Held
  <2> DEFINE c == job[w].comparison
             again == retryable /\ attempts[c] < MaxAttempts
  <2>1. c \in Comparisons /\ state[c] \in Active
    BY <1>10, WorkingFacts, WaitingFacts DEF FailComparison
  <2>2. PICK p \in Progress : p = progress[c]
    BY <2>1
  <2>3. Covers([p EXCEPT !.resumeAfterError = again], resources[c], items[c])
    BY <2>1, <2>2 DEF Covers, Progress, Active
  <2>4. /\ progress' = [progress EXCEPT ![c] = [p EXCEPT !.resumeAfterError = again]]
        /\ state' = [state EXCEPT ![c] = IF again THEN "queued" ELSE "failed"] /\ UNCHANGED result
    BY <1>10, <2>2 DEF FailComparison, Set
  <2> HIDE DEF again
  <2> QED BY <2>1, <2>3, <2>4 DEF result
<1>11. ASSUME NEW w \in Workers, Batches(w) PROVE Held
  <2>1. PICK q \in Progress : Batch(w, q)
    BY <1>11, BatchSteps
  <2>2. job[w].comparison \in Comparisons /\ state[job[w].comparison] \in Active
    BY <2>1, WorkingFacts DEF Batch
  <2> QED BY <2>1, <2>2 DEF Batch, Grows, Covers, stateVars, Active
<1>12. ASSUME NEW w \in Workers, Evaluates(w) PROVE Held
  BY <1>12, EvaluateSteps, EvaluatingFacts DEF Evaluated, stateVars, result
<1>13. ASSUME UNCHANGED <<stateVars, progress, result>> PROVE Held
  BY <1>13 DEF stateVars, result
<1> HIDE DEF Held
<1> QED BY <1>0, <1>1, <1>2, <1>3, <1>4, <1>5, <1>6, <1>7, <1>8, <1>9, <1>10, <1>11, <1>12, <1>13, Frame
        DEF StateStep, CheckpointStep, Batches, Evaluates

LEMMA AttemptsKept ==
    ASSUME IInv, [Next]_vars
    PROVE  AttemptsLeft'
<1> USE StateTypes, JobTypes, RowFacts DEF AttemptsLeft, Counted
<1>0. MaxAttempts \in Nat \ {0} /\ attempts \in [Comparisons -> 0 .. MaxAttempts]
  BY ComparisonsAssumption DEF IInv, TypeOK
<1> USE <1>0
<1>1. ASSUME NEW r \in Runs, CompleteRun(r) PROVE AttemptsLeft'
  BY <1>1 DEF CompleteRun, CreateAutomatic, Enqueue, row, Earlier, Set
<1>2. ASSUME NEW r \in Runs, DeleteRun(r) PROVE AttemptsLeft'
  BY <1>2 DEF DeleteRun, Active
<1>3. ASSUME NEW c \in Comparisons, CommitCreate(c) PROVE AttemptsLeft'
  BY <1>3 DEF CommitCreate, Enqueue, row, Set
<1>4. ASSUME NEW c \in Comparisons, CommitRetry(c) PROVE AttemptsLeft'
  BY <1>4 DEF CommitRetry, Enqueue, row, Set
<1>5. ASSUME NEW w \in Workers, NEW c \in Comparisons, Claim(w, c) PROVE AttemptsLeft'
  BY <1>5 DEF Claim, Recoverable, Set, Active
<1>6. ASSUME NEW w \in Workers, StartDisabled(w) PROVE AttemptsLeft'
  BY <1>6, WaitingFacts DEF StartDisabled, Set, Active
<1>7. ASSUME NEW w \in Workers, Start(w) PROVE AttemptsLeft'
  <2> DEFINE c == job[w].comparison
  <2>1. c \in Comparisons /\ state[c] \in Active
    BY <1>7, WaitingFacts DEF Start
  <2>2. Clean(Checkpoint(c))
    <3>1. Clean(Prepare)
      BY DEF Clean, Prepare, At, Durable
    <3>2. PICK p \in Progress : p = progress[c]
      BY <2>1
    <3>3. ~p.operatorRetry /\ p.phase \in Durable => Clean([p EXCEPT !.resumeAfterError = FALSE])
      BY DEF Clean, Progress
    <3> QED BY <3>1, <3>2, <3>3 DEF Checkpoint
  <2>3. /\ progress' = [progress EXCEPT ![c] = Checkpoint(c)] /\ state' = [state EXCEPT ![c] = "running"]
        /\ \A d \in Comparisons : d # c => attempts'[d] = attempts[d]
    BY <1>7 DEF Start, Set
  <2> QED BY <2>1, <2>2, <2>3 DEF Clean
<1>8. ASSUME NEW w \in Workers, FinishComparison(w) \/ FailFindings(w) PROVE AttemptsLeft'
  BY <1>8, WorkingFacts DEF FinishComparison, FailFindings, Show, Set, Active
<1>9. ASSUME NEW w \in Workers, Yield(w) \/ Shutdown(w) PROVE AttemptsLeft'
  BY <1>9, WorkingFacts DEF Yield, Shutdown, Requeue, Set
<1>10. ASSUME NEW w \in Workers, NEW retryable \in BOOLEAN, FailComparison(w, retryable)
       PROVE  AttemptsLeft'
  BY <1>10, WorkingFacts, WaitingFacts DEF FailComparison, Set, Active
<1>11. ASSUME NEW w \in Workers, Batches(w) PROVE AttemptsLeft'
  BY <1>11, BatchSteps, WorkingFacts DEF Batch, Clean, stateVars
<1>12. ASSUME NEW w \in Workers, Evaluates(w) PROVE AttemptsLeft'
  BY <1>12, EvaluateSteps, EvaluatingFacts DEF Evaluated, stateVars, Active
<1>13. CASE UNCHANGED <<stateVars, progress, result>>
  BY <1>13 DEF stateVars
<1> QED BY <1>1, <1>2, <1>3, <1>4, <1>5, <1>6, <1>7, <1>8, <1>9, <1>10, <1>11, <1>12, <1>13, Frame
        DEF StateStep, CheckpointStep, Batches, Evaluates
-----------------------------------------------------------------------------
(* Locks                                                                   *)

LEMMA LockTypes ==
    ASSUME IInv
    PROVE  /\ job \in [Workers -> Job] /\ lock \in [Comparisons -> Workers \cup {Free, Api}]
           /\ trigger \in [Comparisons -> {"manual", "automatic"}]
           /\ Free \notin Workers /\ Api \notin Workers /\ Free # Api
           /\ JobsLocked /\ RetriesLocked
BY ComparisonsAssumption DEF IInv, TypeOK

LEMMA CalledJob ==
    ASSUME IInv, NEW k \in {"comparison", "findings"}, NEW c \in Comparisons
    PROVE  /\ Called(k, c) \in Job /\ Called(k, c).pc = "called" /\ Called(k, c).comparison = c
           /\ ~Called(k, c).authoritative
           /\ Idle \in Job /\ Idle.pc = "idle"
<1>1. Queued \in Progress
  BY AtStored, JobTypes DEF Queued, Phase
<1>2. Idle \in Job /\ Idle.pc = "idle" /\ ~Idle.authoritative
  BY <1>1, JobTypes DEF Idle, Job
<1>3. PICK i \in Job : i = Idle
  BY <1>2
<1> QED BY <1>2, <1>3 DEF Called, Job

\* Steps that hand a comparison to an idle worker, and all that move locks or jobs.
CalledStep(w) ==
    \E c \in Comparisons, k \in {"comparison", "findings"} :
        job' = [job EXCEPT ![w] = Called(k, c)] /\ UNCHANGED <<lock, source, run>>
LockStep ==
    \/ \E c \in Comparisons : OpenRetry(c) \/ CommitRetry(c)
    \/ \E w \in Workers : \/ CalledStep(w) \/ Begin(w) \/ Start(w) \/ StartFindings(w)
                          \/ Batches(w) \/ EvaluateBatch(w) \/ Ends(w) \/ Leave(w) \/ Crash(w)

LEMMA LockFrame ==
    ASSUME [Next]_vars
    PROVE  LockStep \/ UNCHANGED <<job, lock, source>>
<1>1. ASSUME NEW r \in Runs, ObserveRun(r) PROVE UNCHANGED <<job, lock, source>>
  BY <1>1 DEF ObserveRun, locks
<1>2. ASSUME NEW r \in Runs, CompleteRun(r) PROVE UNCHANGED <<job, lock, source>>
  BY <1>2 DEF CompleteRun, locks
<1>3. ASSUME NEW r \in Runs, DeleteRun(r) PROVE UNCHANGED <<job, lock, source>>
  BY <1>3 DEF DeleteRun, locks
<1>4. ASSUME SwitchSource PROVE UNCHANGED <<job, lock, source>>
  BY <1>4 DEF SwitchSource, locks
<1>5. ASSUME NEW c \in Comparisons, OpenCreate(c) PROVE UNCHANGED <<job, lock, source>>
  BY <1>5 DEF OpenCreate, locks
<1>6. ASSUME NEW c \in Comparisons, CommitCreate(c) PROVE UNCHANGED <<job, lock, source>>
  BY <1>6 DEF CommitCreate, locks
<1>7. ASSUME NEW c \in Comparisons, RetryFindings(c) PROVE UNCHANGED <<job, lock, source>>
  BY <1>7 DEF RetryFindings, locks
<1>8. ASSUME NEW c \in Comparisons, BackoffEnds(c) PROVE UNCHANGED <<job, lock, source>>
  BY <1>8 DEF BackoffEnds, locks
<1>9. ASSUME NEW c \in Comparisons, HeartbeatAges(c) PROVE UNCHANGED <<job, lock, source>>
  BY <1>9 DEF HeartbeatAges, locks
<1>10. ASSUME NEW w \in Workers, NEW c \in Comparisons, Deliver(w, c) PROVE CalledStep(w)
  BY <1>10 DEF Deliver, CalledStep, locks, sourceVars, Set
<1>11. ASSUME NEW w \in Workers, NEW c \in Comparisons, Claim(w, c) PROVE CalledStep(w)
  BY <1>11 DEF Claim, CalledStep, locks, sourceVars, Set
<1>12. ASSUME NEW w \in Workers, NEW c \in Comparisons, ClaimFindings(w, c) PROVE CalledStep(w)
  BY <1>12 DEF ClaimFindings, CalledStep, locks, sourceVars, Set
<1>13. CASE UNCHANGED vars
  BY <1>13 DEF vars, locks
<1> QED
  BY <1>1, <1>2, <1>3, <1>4, <1>5, <1>6, <1>7, <1>8, <1>9, <1>10, <1>11, <1>12, <1>13 DEF
      Next, Work, Failure, Finish, Scan, Tick, LockStep, Batches, Ends

\* A job that gets its locks: the comparison's, then the source's.
LEMMA BeginJob ==
    ASSUME IInv, NEW w \in Workers, Begin(w)
    PROVE  LET c == job[w].comparison IN
           /\ job[w].pc = "called" /\ c \in Comparisons /\ UNCHANGED <<run, state, source, lane, trigger, result>>
           /\ \/ /\ lock[c] = Free /\ lock' = [lock EXCEPT ![c] = w] /\ Wanted(job[w].kind, c)
                 /\ \E k \in Job : /\ job' = [job EXCEPT ![w] = k] /\ k.pc = "waiting"
                                   /\ k.comparison = c /\ k.kind = job[w].kind
                                   /\ k.authoritative = job[w].authoritative
              \/ UNCHANGED lock /\ job' = [job EXCEPT ![w] = Idle]
<1>1. job[w].comparison \in Comparisons /\ job[w].pc = "called"
  BY LockTypes DEF Begin, JobsLocked
<1>2. PICK j \in Job : j = job[w]
  BY LockTypes
<1>3. [j EXCEPT !.pc = "waiting"] \in Job
  BY DEF Job
<1>4. LET k == [j EXCEPT !.pc = "waiting"] IN
      k.pc = "waiting" /\ k.comparison = j.comparison /\ k.kind = j.kind
      /\ k.authoritative = j.authoritative
  BY DEF Job
<1>5. CASE lock[j.comparison] = Free /\ Wanted(j.kind, j.comparison)
  <2>1. /\ lock' = [lock EXCEPT ![j.comparison] = w]
        /\ job' = [job EXCEPT ![w] = [j EXCEPT !.pc = "waiting"]]
    BY <1>2, <1>5 DEF Begin, Set
  <2> QED BY <1>1, <1>2, <1>3, <1>4, <1>5, <2>1 DEF Begin, sourceVars, row, result
<1>6. CASE ~(lock[j.comparison] = Free /\ Wanted(j.kind, j.comparison))
  BY <1>1, <1>2, <1>6 DEF Begin, Set, sourceVars, row, result
<1> QED BY <1>5, <1>6

LEMMA CheckpointTypes ==
    ASSUME IInv, NEW c \in Comparisons
    PROVE  /\ Checkpoint(c) \in Progress /\ Clean(Checkpoint(c))
           /\ Checkpoint(c) = Prepare \/ /\ ~progress[c].operatorRetry
                                         /\ Checkpoint(c).resource = progress[c].resource
                                         /\ Checkpoint(c).item = progress[c].item
                                         /\ Checkpoint(c).phase = progress[c].phase
<1>1. Prepare \in Progress /\ Clean(Prepare)
  BY NothingClaimed DEF Clean, Prepare, At, Durable
<1>2. PICK p \in Progress : p = progress[c]
  BY JobTypes
<1>3. LET q == [p EXCEPT !.resumeAfterError = FALSE] IN
      /\ q \in Progress /\ q.resource = p.resource /\ q.item = p.item /\ q.phase = p.phase
      /\ ~q.resumeAfterError /\ q.operatorRetry = p.operatorRetry
  BY DEF Progress
<1> QED BY <1>1, <1>2, <1>3 DEF Checkpoint, Clean

LEMMA StartJob ==
    ASSUME IInv, NEW w \in Workers, Start(w) \/ StartFindings(w)
    PROVE  LET c == job[w].comparison IN
           /\ job[w].pc = "waiting" /\ c \in Comparisons /\ source = Free /\ source' = w
           /\ UNCHANGED <<run, lock, lane, trigger>>
           /\ \E k \in Job :
                  /\ job' = [job EXCEPT ![w] = k] /\ k.comparison = c
                  /\ \/ /\ Start(w) /\ k.pc = "working" /\ k.progress = Resumed(Checkpoint(c))
                        /\ k.authoritative = job[w].authoritative
                     \/ /\ StartFindings(w) /\ k.pc = "evaluating" /\ k.progress = progress[c]
                        /\ k.authoritative = LatestCandidate(c)
<1> DEFINE c == job[w].comparison
<1>1. job[w].pc = "waiting"
  BY DEF Start, StartFindings
<1>2. c \in Comparisons
  BY <1>1, LockTypes DEF JobsLocked
<1>3. source = Free /\ source' = w /\ UNCHANGED <<run, lock, lane, trigger>>
  BY DEF Start, StartFindings, SourceLock, sourceVars, row
<1>4. PICK j \in Job : j = job[w]
  BY LockTypes
<1>5. CASE Start(w)
  <2>1. PICK q \in Progress : q = Resumed(Checkpoint(c))
    BY <1>2, CheckpointTypes, SameResumed DEF SameSteps
  <2>2. LET k == [j EXCEPT !.pc = "working", !.progress = q] IN
        /\ k \in Job /\ k.pc = "working" /\ k.progress = q /\ k.comparison = j.comparison
        /\ k.authoritative = j.authoritative
    BY DEF Job
  <2>3. job' = [job EXCEPT ![w] = [j EXCEPT !.pc = "working", !.progress = q]]
    BY <1>4, <1>5, <2>1 DEF Start, Set
  <2> QED BY <1>1, <1>2, <1>3, <1>4, <1>5, <2>1, <2>2, <2>3
<1>6. CASE StartFindings(w)
  <2>1. PICK q \in Progress : q = progress[c]
    BY <1>2, JobTypes
  <2>2. PICK a \in BOOLEAN : a = LatestCandidate(c)
    BY DEF LatestCandidate
  <2>3. LET k == [j EXCEPT !.pc = "evaluating", !.progress = q, !.authoritative = a] IN
        /\ k \in Job /\ k.pc = "evaluating" /\ k.progress = q /\ k.comparison = j.comparison
        /\ k.authoritative = a
    BY DEF Job
  <2>4. job' = [job EXCEPT ![w] = [j EXCEPT !.pc = "evaluating", !.progress = q, !.authoritative = a]]
    BY <1>4, <1>6, <2>1, <2>2 DEF StartFindings, Set
  <2> QED BY <1>1, <1>2, <1>3, <1>4, <1>6, <2>1, <2>2, <2>3, <2>4
<1> QED BY <1>5, <1>6

LEMMA JobsLockedKept ==
    ASSUME IInv, [Next]_vars
    PROVE  JobsLocked'
<1> USE LockTypes DEF JobsLocked, InJob, Set
<1>1. CASE UNCHANGED <<job, lock, source>>
  BY <1>1
<1>2. ASSUME NEW c \in Comparisons, OpenRetry(c) PROVE JobsLocked'
  BY <1>2 DEF OpenRetry
<1>3. ASSUME NEW c \in Comparisons, CommitRetry(c) PROVE JobsLocked'
  BY <1>3 DEF CommitRetry, RetriesLocked
<1>4. ASSUME NEW w \in Workers, CalledStep(w) PROVE JobsLocked'
  BY <1>4, CalledJob DEF CalledStep
<1>5. ASSUME NEW w \in Workers, Begin(w) PROVE JobsLocked'
  BY <1>5, BeginJob, CalledJob
<1>6. ASSUME NEW w \in Workers, Start(w) \/ StartFindings(w) PROVE JobsLocked'
  BY <1>6, StartJob
<1>7. ASSUME NEW w \in Workers, Batches(w) PROVE JobsLocked'
  BY <1>7, BatchSteps DEF Batch, Working, locks
<1>8. ASSUME NEW w \in Workers, EvaluateBatch(w) PROVE JobsLocked'
  BY <1>8 DEF EvaluateBatch, Record, locks
<1>9. ASSUME NEW w \in Workers, Ends(w) PROVE JobsLocked'
  BY <1>9, EndSteps, LeavingJob
<1>10. ASSUME NEW w \in Workers, Leave(w) PROVE JobsLocked'
  BY <1>10 DEF Leave, Idle
<1>11. ASSUME NEW w \in Workers, Crash(w) PROVE JobsLocked'
  BY <1>11 DEF Crash, Idle
<1> QED BY <1>1, <1>2, <1>3, <1>4, <1>5, <1>6, <1>7, <1>8, <1>9, <1>10, <1>11, LockFrame DEF LockStep
-----------------------------------------------------------------------------
(* What the other workers' steps leave of a job's comparison               *)

Keeps(c) == state'[c] = state[c] \/ (state[c] \in Active /\ state'[c] \in Active)
Stays(c) == resources[c] \subseteq resources'[c] /\ items[c] \subseteq items'[c]
Loses(c) == state'[c] = "none" /\ Deleted(c)'

LEMMA DeletedStays ==
    ASSUME IInv, [Next]_vars, NEW c \in Comparisons, Deleted(c)
    PROVE  Deleted(c)' /\ state[c] = "none" /\ ~Both(c)
<1>1. ~Both(c) /\ state[c] = "none"
  BY NewRow DEF Deleted, Both, Complete
<1> USE StateTypes, RunsOfComparisons DEF Deleted
<1>2. ASSUME NEW r \in Runs, CompleteRun(r) PROVE Deleted(c)'
  BY <1>2 DEF CompleteRun, Set
<1>3. ASSUME NEW r \in Runs, DeleteRun(r) PROVE Deleted(c)'
  BY <1>3 DEF DeleteRun, Set
<1>4. ASSUME UNCHANGED run PROVE Deleted(c)'
  BY <1>4
<1>5. ASSUME NEW d \in Comparisons, CommitCreate(d) \/ CommitRetry(d) PROVE UNCHANGED run
  BY <1>5 DEF CommitCreate, CommitRetry, sourceVars
<1>6. ASSUME WorkerMoves PROVE UNCHANGED run
  BY <1>6, WorkerMove DEF Moves
<1> QED BY <1>1, <1>2, <1>3, <1>4, <1>5, <1>6, Frame DEF StateStep, WorkerMoves, stateVars

LEMMA HeldRow ==
    ASSUME IInv, [Next]_vars, NEW v \in Workers, job'[v] = job[v],
           job[v].pc \in {"waiting", "working", "evaluating"},
           NEW c \in Comparisons, c = job[v].comparison
    PROVE  \/ Keeps(c) /\ Stays(c)
           \/ Loses(c) /\ job[v].pc # "waiting"
<1>0. lock[c] = v
  BY LockTypes DEF JobsLocked, InJob
<1>r. JobHolds(v)
  BY DEF IInv, JobsHold
<1> USE <1>0, StateTypes, JobTypes, LockTypes DEF Keeps, Stays
<1>1. ASSUME NEW r \in Runs, CompleteRun(r) PROVE Keeps(c) /\ Stays(c)
  <2>1. CASE UNCHANGED row
    BY <1>1, <2>1 DEF CompleteRun, row, result
  <2>2. ASSUME NEW d \in Comparisons, d \in Earlier(r), CreateAutomatic(d) PROVE Keeps(c) /\ Stays(c)
    <3>1. ~Both(d) /\ ~Deleted(d)
      BY <1>1, <2>2, RunsOfComparisons DEF CompleteRun, Earlier, Both, Complete, Deleted
    <3>2. state[d] = "none"
      BY <3>1, NewRow
    <3>3. c # d
      BY <1>r, <3>1, <3>2 DEF JobHolds, Exists, Active
    <3> QED BY <1>1, <2>2, <3>3 DEF CompleteRun, CreateAutomatic, Enqueue, row, result, Set
  <2> QED BY <1>1, <2>1, <2>2 DEF CompleteRun, Earlier
<1>2. ASSUME NEW r \in Runs, DeleteRun(r)
      PROVE  (Keeps(c) /\ Stays(c)) \/ (Loses(c) /\ job[v].pc # "waiting")
  <2>1. CASE r \in {Baseline(c), Current(c)}
    BY <1>2, <2>1, RunsOfComparisons DEF DeleteRun, Loses, Deleted, RowLocked, Set
  <2>2. CASE r \notin {Baseline(c), Current(c)}
    BY <1>2, <2>2 DEF DeleteRun
  <2> QED BY <2>1, <2>2
<1>3. ASSUME NEW d \in Comparisons, CommitCreate(d) PROVE Keeps(c) /\ Stays(c)
  <2>1. CASE UNCHANGED row
    BY <1>3, <2>1 DEF CommitCreate, row, result
  <2>2. CASE state[d] = "none" /\ Both(d) /\ state' = Set(state, d, "queued")
    <3>1. c # d
      BY <1>r, <2>2 DEF JobHolds, Exists, Active, Deleted, Both, Complete
    <3> QED BY <1>3, <2>2, <3>1 DEF CommitCreate, result, Set
  <2> QED BY <1>3, <2>1, <2>2 DEF CommitCreate, Enqueue
<1>4. ASSUME NEW d \in Comparisons, CommitRetry(d) PROVE Keeps(c) /\ Stays(c)
  BY <1>4 DEF CommitRetry, Enqueue, row, result, Set
<1>5. ASSUME NEW w \in Workers, NEW d \in Comparisons, Claim(w, d) PROVE Keeps(c) /\ Stays(c)
  BY <1>5 DEF Claim, Recoverable, result, Set, Active
<1>6. ASSUME NEW w \in Workers, Start(w) PROVE Keeps(c) /\ Stays(c)
  <2>1. w # v
    BY <1>6, StartJob
  <2>2. job[w].comparison # c
    BY <1>6, <2>1, WaitingFacts DEF Start
  <2> QED BY <1>6, <2>2 DEF Start, Set
<1>7. ASSUME NEW w \in Workers,
             StartDisabled(w) \/ FinishComparison(w) \/ FailFindings(w) \/ Yield(w) \/ Shutdown(w)
             \/ \E retryable \in BOOLEAN : FailComparison(w, retryable)
      PROVE  Keeps(c) /\ Stays(c)
  <2>1. Ends(w)
    BY <1>7 DEF Ends
  <2>2. w # v
    BY <2>1, EndSteps, LeavingJob
  <2>3. lock[job[w].comparison] = w
    BY <2>1, EndSteps DEF JobsLocked
  <2>4. UNCHANGED result /\ \A d \in Comparisons : d # job[w].comparison => state'[d] = state[d]
    BY <1>7 DEF StartDisabled, FinishComparison, FailFindings, Show, Yield, Shutdown, Requeue,
                FailComparison, Set
  <2> QED BY <2>2, <2>3, <2>4 DEF result
<1>8. ASSUME NEW w \in Workers, Batches(w) PROVE Keeps(c) /\ Stays(c)
  BY <1>8, BatchSteps DEF Batch, Grows, stateVars
<1>9. ASSUME NEW w \in Workers, Evaluates(w) PROVE Keeps(c) /\ Stays(c)
  BY <1>9, EvaluateSteps DEF Evaluated, stateVars, result
<1>10. ASSUME UNCHANGED <<stateVars, progress, result>> PROVE Keeps(c) /\ Stays(c)
  BY <1>10 DEF stateVars, result
<1> HIDE DEF Keeps, Stays
<1> QED BY <1>1, <1>2, <1>3, <1>4, <1>5, <1>6, <1>7, <1>8, <1>9, <1>10, Frame
        DEF StateStep, CheckpointStep, Batches, Evaluates

\* Whose job a step changes, and how.
LEMMA Mover ==
    ASSUME IInv, [Next]_vars, NEW v \in Workers
    PROVE  \/ job'[v] = job[v] \/ job'[v].pc \in {"idle", "leaving"}
           \/ CalledStep(v) \/ Begin(v) \/ Start(v) \/ StartFindings(v) \/ Batches(v) \/ EvaluateBatch(v)
<1> USE LockTypes DEF Set
<1>1. CASE UNCHANGED <<job, lock, source>>
  BY <1>1
<1>2. ASSUME NEW c \in Comparisons, OpenRetry(c) \/ CommitRetry(c) PROVE job'[v] = job[v]
  BY <1>2 DEF OpenRetry, CommitRetry
<1>3. ASSUME NEW w \in Workers, w # v,
             CalledStep(w) \/ Begin(w) \/ Start(w) \/ StartFindings(w) \/ Batches(w) \/ EvaluateBatch(w)
      PROVE  job'[v] = job[v]
  BY <1>3, BatchSteps DEF CalledStep, Begin, Start, StartFindings, Batch, EvaluateBatch
<1>4. ASSUME NEW w \in Workers, Ends(w) PROVE job'[v] = job[v] \/ job'[v].pc \in {"idle", "leaving"}
  BY <1>4, EndSteps, LeavingJob
<1>5. ASSUME NEW w \in Workers, Leave(w) \/ Crash(w)
      PROVE  job'[v] = job[v] \/ job'[v].pc \in {"idle", "leaving"}
  BY <1>5 DEF Leave, Crash, Idle
<1> QED BY <1>1, <1>2, <1>3, <1>4, <1>5, LockFrame DEF LockStep

LEMMA JobsHoldKept ==
    ASSUME IInv, [Next]_vars
    PROVE  JobsHold'
<1> SUFFICES ASSUME NEW v \in Workers PROVE JobHolds(v)'
  BY DEF JobsHold
<1>0. JobHolds(v)
  BY DEF IInv, JobsHold
<1>1. CASE job'[v].pc \in {"idle", "leaving"}
  BY <1>1 DEF JobHolds
<1>2. ASSUME CalledStep(v) PROVE JobHolds(v)'
  BY <1>2, CalledJob, LockTypes DEF CalledStep, JobHolds
<1>3. ASSUME Begin(v) PROVE JobHolds(v)'
  BY <1>0, <1>3, BeginJob, CalledJob, LockTypes DEF JobHolds, Wanted, Active
<1>4. SUFFICES ASSUME NEW c \in Comparisons, c = job[v].comparison, job[v].pc # "idle", job[v].pc # "called"
               PROVE  JobHolds(v)'
  <2>1. CASE job[v].pc \in {"idle", "called"} /\ job'[v] = job[v]
    BY <1>0, <2>1 DEF JobHolds
  <2>2. CASE job[v].pc \in {"idle", "called"} /\ job'[v] # job[v]
    <3>1. ~Start(v) /\ ~StartFindings(v) /\ ~Batches(v) /\ ~EvaluateBatch(v)
      BY <2>2 DEF Start, StartFindings, Batches, EvaluateBatch, Working, Evaluating,
         PrepareIdentities, ResourceBatch, BeginItems, ItemBatch, Finalize, BeginFindings, FindingBatch
    <3> QED BY <1>1, <1>2, <1>3, <2>2, <3>1, Mover
  <2> QED BY <2>1, <2>2, LockTypes DEF JobsLocked
<1>5. CASE job'[v] = job[v]
  <2>1. CASE job[v].pc = "leaving"
    BY <1>1, <1>5, <2>1
  <2>2. CASE job[v].pc \in {"waiting", "working", "evaluating"}
    <3>1. (Keeps(c) /\ Stays(c)) \/ (Loses(c) /\ job[v].pc # "waiting")
      BY <1>4, <1>5, <2>2, HeldRow
    <3>2. Deleted(c) => Deleted(c)'
      BY DeletedStays
    <3> QED BY <1>0, <1>4, <1>5, <2>2, <3>1, <3>2
            DEF JobHolds, Keeps, Stays, Loses, Exists, Active, Backed
  <2> QED BY <1>4, <2>1, <2>2, JobTypes DEF Job
<1>6. ASSUME Start(v) PROVE JobHolds(v)'
  <2>1. PICK k \in Job : /\ job' = [job EXCEPT ![v] = k] /\ k.comparison = c
                         /\ k.pc = "working" /\ k.progress = Resumed(Checkpoint(c))
    BY <1>4, <1>6, StartJob DEF StartFindings, Start
  <2>2. /\ Checkpoint(c) \in Progress /\ Clean(Checkpoint(c))
        /\ SameSteps(Resumed(Checkpoint(c)), Checkpoint(c))
        /\ Resumed(Checkpoint(c)).phase \in {"identities", "resources"}
        /\ Resumed(Checkpoint(c)).phase = "identities" => Resumed(Checkpoint(c)).prepared < 2
    BY CheckpointTypes, SameResumed
  <2>3. /\ CheckpointsBacked' /\ state'[c] = "running" /\ progress'[c] = Checkpoint(c)
    BY <1>4, <1>6, CheckpointsKept, StateTypes, JobTypes DEF Start, Set
  <2>4. Covers(Checkpoint(c), resources'[c], items'[c])
    BY <2>3 DEF CheckpointsBacked, Backed, Covers, Exists
  <2> QED BY <2>1, <2>2, <2>3, <2>4, LockTypes
          DEF JobHolds, SameSteps, Clean, Covers, Backed, Exists, Active, Durable
<1>7. ASSUME StartFindings(v) PROVE JobHolds(v)'
  <2>1. PICK k \in Job : /\ job' = [job EXCEPT ![v] = k] /\ k.comparison = c
                         /\ k.pc = "evaluating" /\ k.progress = progress[c]
    BY <1>4, <1>7, StartJob DEF StartFindings, Start
  <2>2. state[c] = "complete" /\ UNCHANGED <<state, resources, items>>
    BY <1>4, <1>7, WaitingFacts DEF StartFindings, row, result
  <2>3. Covers(progress[c], resources[c], items[c]) /\ progress[c].phase = "complete"
    BY <2>2, RowFacts
  <2> QED BY <2>1, <2>2, <2>3, LockTypes DEF JobHolds, Covers, Backed, Exists
<1>8. ASSUME Batches(v) PROVE JobHolds(v)'
  <2>1. PICK q \in Progress : Batch(v, q)
    BY <1>8, BatchSteps
  <2>2. PICK k \in Job : /\ job' = [job EXCEPT ![v] = k]
                         /\ k.pc = "working" /\ k.comparison = c /\ Ready(k.progress)
                         /\ Covers(k.progress, resources'[c], items'[c])
    BY <1>4, <2>1 DEF Batch
  <2>3. state'[c] \in Active
    BY <1>4, <2>1, WorkingFacts DEF Batch, stateVars
  <2> QED BY <2>2, <2>3, LockTypes DEF JobHolds, Ready, Clean, Covers, Backed, Exists, Active
<1>9. ASSUME EvaluateBatch(v) PROVE JobHolds(v)'
  <2>1. PICK q \in Progress : Evaluated(v, q)
    BY <1>9, EvaluateSteps DEF Evaluates
  <2>2. CASE Leaving(v)
    BY <1>1, <1>4, <2>1, <2>2, LeavingJob, LockTypes DEF Evaluated, Evaluating, InJob
  <2>3. ASSUME NEW k \in Job, job' = [job EXCEPT ![v] = k], k.progress = q,
               k.pc = "evaluating", k.comparison = job[v].comparison
        PROVE  JobHolds(v)'
    <3>1. state'[c] = "complete" /\ UNCHANGED <<resources, items>>
      BY <1>4, <2>1, EvaluatingFacts DEF Evaluated, stateVars, result
    <3>2. Covers(q, resources[c], items[c]) /\ q.phase = "complete"
      BY <1>4, <2>1 DEF Evaluated
    <3> QED BY <1>4, <2>3, <3>1, <3>2, LockTypes DEF JobHolds, Covers, Backed, Exists
  <2> QED BY <2>1, <2>2, <2>3 DEF Evaluated
<1> QED BY <1>1, <1>2, <1>3, <1>5, <1>6, <1>7, <1>8, <1>9, Mover
-----------------------------------------------------------------------------
(* Authority, retries and counts                                           *)

\* A step that does not come from the source's lock holder makes no run and no
\* comparison complete.
LEMMA LatestStays ==
    ASSUME IInv, [Next]_vars, NEW v \in Workers, source = v,
           job'[v].pc \notin {"idle", "leaving"}, NEW c \in Comparisons, LatestCandidate(c)
    PROVE  LatestCandidate(c)'
<1> DEFINE Fewer == /\ \A r \in Runs : run'[r] = "COMPLETE" => run[r] = "COMPLETE"
                    /\ \A d \in Comparisons : state'[d] = "complete" => state[d] = "complete"
<1>0. Fewer => LatestCandidate(c)'
  BY DEF LatestCandidate, Complete, Current
<1> USE StateTypes, LockTypes
<1>1. ASSUME NEW r \in Runs, CompleteRun(r) PROVE Fewer
  BY <1>1 DEF CompleteRun
<1>2. ASSUME NEW r \in Runs, DeleteRun(r) PROVE Fewer
  BY <1>2 DEF DeleteRun, Set
<1>3. ASSUME NEW d \in Comparisons, CommitCreate(d) PROVE Fewer
  BY <1>3 DEF CommitCreate, Enqueue, row, sourceVars, Set
<1>4. ASSUME NEW d \in Comparisons, CommitRetry(d) PROVE Fewer
  BY <1>4 DEF CommitRetry, Enqueue, row, Set
<1>5. ASSUME NEW w \in Workers, FinishComparison(w) \/ FailFindings(w) PROVE Fewer
  <2>1. Working(w) /\ Ends(w)
    BY <1>5 DEF FinishComparison, FailFindings, Ends
  <2>2. w = v
    BY <2>1, WorkingFacts
  <2> QED BY <2>1, <2>2, EndSteps, LeavingJob
<1>6. ASSUME NEW w \in Workers, NEW d \in Comparisons, Claim(w, d) PROVE Fewer
  BY <1>6 DEF Claim, sourceVars, Set
<1>7. ASSUME NEW w \in Workers, StartDisabled(w) \/ Start(w) PROVE Fewer
  BY <1>7 DEF StartDisabled, Start, SourceLock
<1>8. ASSUME NEW w \in Workers, Yield(w) \/ Shutdown(w) PROVE Fewer
  BY <1>8 DEF Yield, Shutdown, Requeue, sourceVars, Set
<1>9. ASSUME NEW w \in Workers, NEW retryable \in BOOLEAN, FailComparison(w, retryable) PROVE Fewer
  BY <1>9 DEF FailComparison, Set
<1>10. ASSUME UNCHANGED stateVars PROVE Fewer
  BY <1>10 DEF stateVars
<1>11. UNCHANGED <<stateVars, progress, result>> => UNCHANGED stateVars
  BY DEF stateVars
<1> HIDE DEF Fewer
<1> QED BY <1>0, <1>1, <1>2, <1>3, <1>4, <1>5, <1>6, <1>7, <1>8, <1>9, <1>10, <1>11, Frame DEF StateStep

LEMMA LatestUnchanged ==
    ASSUME UNCHANGED stateVars, NEW c \in Comparisons, LatestCandidate(c)
    PROVE  LatestCandidate(c)'
BY DEF LatestCandidate, Complete, Current, stateVars

LEMMA AuthorityKept ==
    ASSUME IInv, [Next]_vars
    PROVE  AuthorityHolds'
<1> SUFFICES ASSUME NEW v \in Workers, NEW c \in Comparisons, c = job'[v].comparison,
                    job'[v].pc \in {"working", "evaluating"}, job'[v].authoritative,
                    state'[c] # "none"
             PROVE  LatestCandidate(c)'
  <2>1. \A v \in Workers : job'[v].pc # "idle" => job'[v].comparison \in Comparisons
    BY JobsLockedKept DEF JobsLocked
  <2> QED BY <2>1 DEF AuthorityHolds, LatestCandidate, Complete, Current
<1>3. JobHolds(v) /\ AuthorityHolds
  BY DEF IInv, JobsHold
<1>4. CASE job'[v] = job[v]
  <2>1. source = v /\ c = job[v].comparison
    BY <1>4, LockTypes DEF JobsLocked
  <2>2. state[c] # "none"
    <3>1. Deleted(c) => Deleted(c)'
      BY DeletedStays
    <3>2. ~Deleted(c)'
      BY RowsKept DEF RowsHaveRuns, Exists, Both, Complete, Deleted
    <3> QED BY <1>3, <1>4, <2>1, <3>1, <3>2 DEF JobHolds, Exists
  <2>3. LatestCandidate(c)
    BY <1>3, <1>4, <2>1, <2>2 DEF AuthorityHolds
  <2> QED BY <1>4, <2>1, <2>3, LatestStays
<1>5. ~CalledStep(v)
  BY CalledJob, LockTypes DEF CalledStep
<1>6. ~Begin(v)
  BY BeginJob, CalledJob, LockTypes
<1>7. ~Start(v)
  <2> SUFFICES ASSUME Start(v) PROVE FALSE
    OBVIOUS
  <2>1. PICK k \in Job : job' = [job EXCEPT ![v] = k] /\ k.authoritative = job[v].authoritative
    BY StartJob DEF StartFindings, Start
  <2> QED BY <1>3, <2>1, LockTypes DEF JobHolds, Start
<1>8. ASSUME StartFindings(v) PROVE LatestCandidate(c)'
  <2>1. PICK k \in Job : /\ job' = [job EXCEPT ![v] = k] /\ k.comparison = job[v].comparison
                         /\ k.authoritative = LatestCandidate(job[v].comparison)
    BY <1>8, StartJob DEF StartFindings, Start
  <2>2. UNCHANGED stateVars
    BY <1>8 DEF StartFindings, sourceVars, row, stateVars
  <2> QED BY <2>1, <2>2, LockTypes, LatestUnchanged
<1>9. ASSUME Batches(v) PROVE LatestCandidate(c)'
  <2>1. PICK q \in Progress : Batch(v, q)
    BY <1>9, BatchSteps
  <2>2. PICK k \in Job : /\ job' = [job EXCEPT ![v] = k] /\ k.comparison = job[v].comparison
                         /\ k.authoritative => job[v].authoritative \/ LatestCandidate(k.comparison)
    BY <2>1 DEF Batch
  <2>3. job[v].pc = "working" /\ state[job[v].comparison] # "none" /\ UNCHANGED stateVars
    BY <2>1 DEF Batch, Working
  <2>4. c = job[v].comparison /\ (job[v].authoritative \/ LatestCandidate(c))
    BY <2>2, LockTypes
  <2>5. LatestCandidate(c)
    BY <1>3, <2>3, <2>4 DEF AuthorityHolds
  <2> QED BY <2>3, <2>5, LatestUnchanged
<1>10. ASSUME EvaluateBatch(v) PROVE LatestCandidate(c)'
  <2>1. PICK q \in Progress : Evaluated(v, q)
    BY <1>10, EvaluateSteps DEF Evaluates
  <2>2. ~Leaving(v)
    BY <2>1, LeavingJob, LockTypes DEF Evaluated, Evaluating, InJob
  <2>3. PICK k \in Job : /\ job' = [job EXCEPT ![v] = k] /\ k.comparison = job[v].comparison
                         /\ k.authoritative = job[v].authoritative
    BY <2>1, <2>2 DEF Evaluated
  <2>4. LatestCandidate(c)
    BY <1>3, <2>1, <2>3, LockTypes DEF AuthorityHolds, Evaluated, Evaluating
  <2> QED BY <2>1, <2>4, LatestUnchanged DEF Evaluated
<1> QED BY <1>4, <1>5, <1>6, <1>7, <1>8, <1>9, <1>10, Mover

LEMMA CountTypes ==
    ASSUME IInv
    PROVE  /\ lane \in [Comparisons -> Nat \cup {NotCounted}] /\ NotCounted \notin Nat
           /\ CountsHold /\ source \in Workers \cup {Free, Api}
           /\ IsFiniteSet(ActiveComparisons) /\ Cardinality(ActiveComparisons) \in Nat
<1>1. IsFiniteSet(ActiveComparisons)
  BY ComparisonsAssumption, FS_Subset DEF ActiveComparisons
<1> QED BY <1>1, FS_CardinalityType, ComparisonsAssumption DEF IInv, TypeOK

\* Requests are admitted one at a time, and no ingest between the two steps of one.
LEMMA OneLane ==
    ASSUME IInv, NEW c \in Comparisons, lane[c] # NotCounted
    PROVE  ~LaneFree /\ \A d \in Comparisons : lane[d] # NotCounted => d = c
BY CountTypes DEF CountsHold, LaneFree

\* Steps that count a comparison or end a request.
LaneStep ==
    \E c \in Comparisons : OpenCreate(c) \/ OpenRetry(c) \/ CommitCreate(c) \/ CommitRetry(c)

LEMMA LaneFrame ==
    ASSUME IInv, [Next]_vars
    PROVE  LaneStep \/ UNCHANGED lane
<1>1. ASSUME NEW r \in Runs, ObserveRun(r) PROVE UNCHANGED lane
  BY <1>1 DEF ObserveRun, locks
<1>2. ASSUME NEW r \in Runs, CompleteRun(r) PROVE UNCHANGED lane
  BY <1>2 DEF CompleteRun, locks
<1>3. ASSUME NEW r \in Runs, DeleteRun(r) PROVE UNCHANGED lane
  BY <1>3 DEF DeleteRun, locks
<1>4. ASSUME SwitchSource PROVE UNCHANGED lane
  BY <1>4 DEF SwitchSource, locks
<1>5. ASSUME NEW c \in Comparisons, RetryFindings(c) PROVE UNCHANGED lane
  BY <1>5 DEF RetryFindings, locks
<1>6. ASSUME NEW c \in Comparisons, BackoffEnds(c) PROVE UNCHANGED lane
  BY <1>6 DEF BackoffEnds, locks
<1>7. ASSUME NEW c \in Comparisons, HeartbeatAges(c) PROVE UNCHANGED lane
  BY <1>7 DEF HeartbeatAges, locks
<1>8. ASSUME NEW w \in Workers, NEW c \in Comparisons, Deliver(w, c) PROVE UNCHANGED lane
  BY <1>8 DEF Deliver, locks
<1>9. ASSUME NEW w \in Workers, NEW c \in Comparisons, Claim(w, c) PROVE UNCHANGED lane
  BY <1>9 DEF Claim, locks
<1>10. ASSUME NEW w \in Workers, NEW c \in Comparisons, ClaimFindings(w, c) PROVE UNCHANGED lane
  BY <1>10 DEF ClaimFindings, locks
<1>11. ASSUME NEW w \in Workers, Begin(w) PROVE UNCHANGED lane
  BY <1>11 DEF Begin, locks
<1>12. ASSUME NEW w \in Workers, Start(w) PROVE UNCHANGED lane
  BY <1>12 DEF Start, locks
<1>13. ASSUME NEW w \in Workers, StartFindings(w) PROVE UNCHANGED lane
  BY <1>13 DEF StartFindings, locks
<1>14. ASSUME NEW w \in Workers, Leave(w) PROVE UNCHANGED lane
  BY <1>14 DEF Leave, locks
<1>15. ASSUME NEW w \in Workers, Crash(w) PROVE UNCHANGED lane
  BY <1>15 DEF Crash, locks
<1>16. ASSUME NEW w \in Workers, Batches(w) PROVE UNCHANGED lane
  BY <1>16, BatchSteps DEF Batch, locks
<1>17. ASSUME NEW w \in Workers, EvaluateBatch(w) PROVE UNCHANGED lane
  BY <1>17 DEF EvaluateBatch, Record, locks
<1>18. ASSUME NEW w \in Workers, Ends(w) PROVE UNCHANGED lane
  BY <1>18, EndSteps
<1>19. CASE UNCHANGED vars
  BY <1>19 DEF vars, locks
<1> QED
  BY <1>1, <1>2, <1>3, <1>4, <1>5, <1>6, <1>7, <1>8, <1>9, <1>10, <1>11, <1>12, <1>13,
      <1>14, <1>15, <1>16, <1>17, <1>18, <1>19 DEF Next, Work, Failure, Finish, Scan, Tick,
      LaneStep, Batches, Ends

\* No other comparison becomes active while a request holds a count.
LEMMA ActiveShrinks ==
    ASSUME IInv, [Next]_vars, NEW c \in Comparisons, lane[c] # NotCounted,
           ~CommitCreate(c), ~CommitRetry(c)
    PROVE  ActiveComparisons' \subseteq ActiveComparisons
<1> USE StateTypes, CountTypes
<1>1. ASSUME NEW r \in Runs, CompleteRun(r) PROVE UNCHANGED state
  BY <1>1, OneLane DEF CompleteRun, CreateAutomatic, row, Earlier
<1>2. ASSUME NEW r \in Runs, DeleteRun(r) PROVE ActiveComparisons' \subseteq ActiveComparisons
  BY <1>2 DEF DeleteRun, ActiveComparisons, Active
<1>3. ASSUME NEW d \in Comparisons, CommitCreate(d) \/ CommitRetry(d) PROVE FALSE
  BY <1>3, OneLane, RetryFacts DEF CommitCreate, CommitRetry
<1>4. ASSUME WorkerMoves PROVE ActiveComparisons' \subseteq ActiveComparisons
  BY <1>4, WorkerMove DEF Moves, ActiveComparisons
<1>5. ASSUME UNCHANGED state PROVE ActiveComparisons' \subseteq ActiveComparisons
  BY <1>5 DEF ActiveComparisons
<1>6. UNCHANGED stateVars => UNCHANGED state
  BY DEF stateVars
<1> QED BY <1>1, <1>2, <1>3, <1>4, <1>5, <1>6, Frame DEF StateStep, WorkerMoves, stateVars

LEMMA CountsKept ==
    ASSUME IInv, [Next]_vars
    PROVE  CountsHold'
<1> USE CountTypes
<1>1. ASSUME NEW c \in Comparisons, OpenCreate(c) \/ OpenRetry(c) PROVE CountsHold'
  <2>1. lane' = [lane EXCEPT ![c] = Cardinality(ActiveComparisons)] /\ LaneFree /\ UNCHANGED state
    BY <1>1 DEF OpenCreate, OpenRetry, Count, Set, row
  <2>2. ActiveComparisons' = ActiveComparisons
    BY <2>1 DEF ActiveComparisons
  <2> QED BY <2>1, <2>2 DEF CountsHold, LaneFree
<1>2. ASSUME NEW c \in Comparisons, CommitCreate(c) \/ CommitRetry(c) PROVE CountsHold'
  <2>1. lane[c] # NotCounted /\ lane' = [lane EXCEPT ![c] = NotCounted]
    BY <1>2, RetryFacts DEF CommitCreate, CommitRetry, Set
  <2> QED BY <2>1, OneLane DEF CountsHold
<1>3. ASSUME UNCHANGED lane, \A c \in Comparisons : ~CommitCreate(c) /\ ~CommitRetry(c)
      PROVE  CountsHold'
  <2> SUFFICES ASSUME NEW c \in Comparisons, lane[c] # NotCounted
               PROVE  Cardinality(ActiveComparisons') <= lane[c]
    BY <1>3 DEF CountsHold
  <2>1. ActiveComparisons' \subseteq ActiveComparisons
    BY <1>3, ActiveShrinks
  <2>2. /\ Cardinality(ActiveComparisons') <= Cardinality(ActiveComparisons)
        /\ Cardinality(ActiveComparisons') \in Nat
    BY <2>1, FS_Subset, FS_CardinalityType
  <2>3. Cardinality(ActiveComparisons) <= lane[c] /\ lane[c] \in Nat
    BY DEF CountsHold
  <2> QED BY <2>2, <2>3
<1> QED BY <1>1, <1>2, <1>3, LaneFrame DEF LaneStep

LEMMA RetriesKept ==
    ASSUME IInv, [Next]_vars
    PROVE  RetriesLocked'
<1> DEFINE Retried(c) == /\ state'[c] = "failed" /\ lane'[c] # NotCounted
                         /\ trigger'[c] = "automatic" => source' = Api
<1> SUFFICES ASSUME NEW c \in Comparisons, lock'[c] = Api PROVE Retried(c)
  BY DEF RetriesLocked
<1> USE LockTypes, CountTypes, StateTypes
<1>1. ASSUME OpenRetry(c) PROVE Retried(c)
  BY <1>1 DEF OpenRetry, Count, Set, row
<1>2. lock[c] = Api \/ OpenRetry(c)
  <2>1. ASSUME NEW w \in Workers, CalledStep(w) PROVE lock[c] = Api
    BY <2>1, LockTypes DEF CalledStep
  <2>2. ASSUME NEW w \in Workers, Begin(w) PROVE lock[c] = Api
    BY <2>2, LockTypes DEF Begin, Set
  <2>3. ASSUME NEW w \in Workers, Start(w) \/ StartFindings(w) PROVE lock[c] = Api
    BY <2>3, LockTypes, StartJob DEF Start
  <2>4. ASSUME NEW w \in Workers, Batches(w) PROVE lock[c] = Api
    BY <2>4, LockTypes, BatchSteps DEF Batch, locks
  <2>5. ASSUME NEW w \in Workers, EvaluateBatch(w) PROVE lock[c] = Api
    BY <2>5, LockTypes DEF EvaluateBatch, Record, locks
  <2>6. ASSUME NEW w \in Workers, Ends(w) PROVE lock[c] = Api
    BY <2>6, LockTypes, EndSteps DEF Ends
  <2>7. ASSUME NEW w \in Workers, Leave(w) \/ Crash(w) PROVE lock[c] = Api
    BY <2>7, LockTypes DEF Leave, Crash, Set
  <2>8. ASSUME NEW d \in Comparisons, OpenRetry(d) \/ CommitRetry(d) PROVE lock[c] = Api \/ OpenRetry(c)
    BY <2>8 DEF OpenRetry, CommitRetry, Set
  <2> QED BY <2>1, <2>2, <2>3, <2>4, <2>5, <2>6, <2>7, <2>8, LockFrame DEF LockStep
<1>3. ASSUME lock[c] = Api PROVE Retried(c)
  <2>1. state[c] = "failed" /\ lane[c] # NotCounted /\ (trigger[c] = "automatic" => source = Api)
    BY <1>3, RetryFacts
  <2>2. ~CommitRetry(c) /\ ~CommitCreate(c)
    BY <1>3 DEF CommitRetry, CommitCreate, Set
  <2>3. \A d \in Comparisons : ~CommitRetry(d) /\ ~CommitCreate(d) /\ ~OpenCreate(d) /\ ~OpenRetry(d)
    BY <2>1, <2>2, OneLane, RetryFacts DEF CommitRetry, CommitCreate, OpenCreate, OpenRetry, Count
  <2>4. UNCHANGED lane
    BY <2>3, LaneFrame DEF LaneStep
  <2>5. state'[c] = state[c] /\ trigger'[c] = trigger[c]
    <3>1. ASSUME NEW r \in Runs, CompleteRun(r) PROVE UNCHANGED <<state, trigger>>
      BY <2>1, <3>1, OneLane DEF CompleteRun, CreateAutomatic, row, Earlier
    <3>2. ASSUME NEW r \in Runs, DeleteRun(r) PROVE state'[c] = state[c] /\ trigger' = trigger
      BY <1>3, <3>2 DEF DeleteRun, RowLocked
    <3>3. ASSUME WorkerMoves PROVE state'[c] = state[c] /\ trigger' = trigger
      BY <2>1, <3>3, WorkerMove DEF Moves, Active
    <3> QED BY <2>3, <3>1, <3>2, <3>3, Frame DEF StateStep, WorkerMoves, stateVars
  <2>6. source = Api => source' = Api
    <3>1. ASSUME NEW w \in Workers, CalledStep(w) PROVE source = Api => source' = Api
      BY <3>1, LockTypes DEF CalledStep
    <3>2. ASSUME NEW w \in Workers, Begin(w) PROVE source = Api => source' = Api
      BY <3>2, LockTypes DEF Begin, Set
    <3>3. ASSUME NEW w \in Workers, Start(w) \/ StartFindings(w) PROVE source = Api => source' = Api
      BY <3>3, LockTypes, StartJob DEF Start
    <3>4. ASSUME NEW w \in Workers, Batches(w) PROVE source = Api => source' = Api
      BY <3>4, LockTypes, BatchSteps DEF Batch, locks
    <3>5. ASSUME NEW w \in Workers, EvaluateBatch(w) PROVE source = Api => source' = Api
      BY <3>5, LockTypes DEF EvaluateBatch, Record, locks
    <3>6. ASSUME NEW w \in Workers, Ends(w) PROVE source = Api => source' = Api
      BY <3>6, LockTypes, EndSteps DEF Ends
    <3>7. ASSUME NEW w \in Workers, Leave(w) \/ Crash(w) PROVE source = Api => source' = Api
      BY <3>7, LockTypes DEF Leave, Crash, Set
    <3> QED BY <2>3, <3>1, <3>2, <3>3, <3>4, <3>5, <3>6, <3>7, LockFrame DEF LockStep
  <2> QED BY <2>1, <2>4, <2>5, <2>6
<1> QED BY <1>1, <1>2, <1>3
-----------------------------------------------------------------------------
(* Types                                                                   *)

SourceTypes ==
    /\ run \in [Runs -> {"open", "COMPLETE", "deleted"}]
    /\ lastRun \in Runs \cup {0} /\ enabled \in BOOLEAN
    /\ baseline \in Coverage /\ last \in Comparisons \cup {NoComparison}
RowTypes ==
    /\ state \in [Comparisons -> State]
    /\ trigger \in [Comparisons -> {"manual", "automatic"}]
    /\ attempts \in [Comparisons -> 0 .. MaxAttempts]
    /\ due \in [Comparisons -> BOOLEAN] /\ stale \in [Comparisons -> BOOLEAN]
    /\ eval \in [Comparisons -> Evaluation]
    /\ tries \in [Comparisons -> Nat]
StoredTypes ==
    /\ progress \in [Comparisons -> Progress]
    /\ resources \in [Comparisons -> SUBSET (1 .. ResourceBatches)]
    /\ items \in [Comparisons -> SUBSET (1 .. ItemBatches)]
SharedTypes ==
    /\ lock \in [Comparisons -> Workers \cup {Free, Api}]
    /\ source \in Workers \cup {Free, Api}
    /\ lane \in [Comparisons -> Nat \cup {NotCounted}]
    /\ stream \subseteq Comparisons
    /\ faults \in 0 .. MaxFaults /\ requests \in 0 .. MaxRequests

LEMMA TypeParts ==
    ASSUME IInv
    PROVE  /\ SourceTypes /\ RowTypes /\ StoredTypes /\ SharedTypes
           /\ MaxFaults \in Nat /\ MaxRequests \in Nat /\ MaxAttempts \in Nat \ {0}
BY ComparisonsAssumption DEF IInv, TypeOK, SourceTypes, RowTypes, StoredTypes, SharedTypes

LEMMA SourceTypesKept ==
    ASSUME IInv, [Next]_vars
    PROVE  SourceTypes'
<1> USE TypeParts, RunsOfComparisons DEF SourceTypes, Coverage, State, Active, Evaluation
<1>1. ASSUME NEW r \in Runs, ObserveRun(r)
      PROVE  SourceTypes'
  BY <1>1 DEF ObserveRun, Observe, Set, sourceVars, row, locks, result, bounds
<1>2. ASSUME NEW r \in Runs, CompleteRun(r)
      PROVE  SourceTypes'
  BY <1>2 DEF CompleteRun, CreateAutomatic, Says, Earlier, Set, sourceVars, row, locks,
      result, bounds
<1>3. ASSUME NEW r \in Runs, DeleteRun(r)
      PROVE  SourceTypes'
  BY <1>3 DEF DeleteRun, Set, sourceVars, row, locks, result, bounds
<1>4. ASSUME SwitchSource
      PROVE  SourceTypes'
  BY <1>4 DEF SwitchSource, Set, sourceVars, row, locks, result, bounds
<1>5. ASSUME NEW c \in Comparisons, CommitRetry(c) \/ RetryFindings(c)
      PROVE  SourceTypes'
  BY <1>5 DEF CommitRetry, RetryFindings, RecoverBaseline, Set, sourceVars, row, locks,
      result, bounds
<1>6. ASSUME NEW w \in Workers, StartDisabled(w)
      PROVE  SourceTypes'
  BY <1>6, WaitingFacts DEF StartDisabled, Set, sourceVars, row, locks, result, bounds
<1>7. ASSUME NEW w \in Workers, FinishComparison(w) \/ FailFindings(w)
      PROVE  SourceTypes'
  BY <1>7, WorkingFacts DEF FinishComparison, FailFindings, Show, PublishIf, Publish, Set,
      sourceVars, row, locks, result, bounds
<1>8. ASSUME NEW w \in Workers, NEW retryable \in BOOLEAN, FailComparison(w, retryable)
      PROVE  SourceTypes'
  BY <1>8, WorkingFacts, WaitingFacts DEF FailComparison, PublishIf, Publish, Set,
      sourceVars, row, locks, result, bounds
<1>9. ASSUME NEW w \in Workers, LoseComparison(w)
      PROVE  SourceTypes'
  BY <1>9, LockTypes DEF LoseComparison, JobsLocked, PublishIf, Publish, Set, sourceVars,
      row, locks, result, bounds
<1>10. ASSUME NEW w \in Workers, Evaluates(w)
      PROVE  SourceTypes'
  <2>1. /\ UNCHANGED <<run, lastRun, enabled>> /\ job[w].comparison \in Comparisons
        /\ \E e \in Evaluation :
               PublishIf(job[w].authoritative, job[w].comparison, "established", e)
        /\ last' = last
    BY <1>10, EvaluatingFacts
       DEF Evaluates, EvaluateBatch, EvaluateYield, EvaluateDone, EvaluateShutdown, EvaluateFail,
           Record, Evaluation
  <2> QED BY <2>1 DEF PublishIf, Publish
<1>11. ASSUME NEW c \in Comparisons, OpenCreate(c) \/ OpenRetry(c) \/ CommitCreate(c) \/
    BackoffEnds(c) \/ HeartbeatAges(c)
      PROVE  SourceTypes'
  BY <1>11 DEF OpenCreate, OpenRetry, CommitCreate, BackoffEnds, HeartbeatAges, Set,
      sourceVars, row, locks, result, bounds
<1>12. ASSUME NEW w \in Workers, NEW c \in Comparisons, Claim(w, c) \/ ClaimFindings(w, c)
    \/ Deliver(w, c)
      PROVE  SourceTypes'
  BY <1>12 DEF Claim, ClaimFindings, Deliver, Set, sourceVars, row, locks, result, bounds
<1>13. ASSUME NEW w \in Workers, Begin(w) \/ Start(w) \/ StartFindings(w) \/ Leave(w) \/
    Crash(w) \/ Yield(w) \/ Shutdown(w)
      PROVE  SourceTypes'
  <2>1. UNCHANGED sourceVars
    <3> HIDE TypeParts, RunsOfComparisons
    <3> QED BY <1>13 DEF Begin, Start, StartFindings, Leave, Crash, Yield, Shutdown, Requeue
  <2> QED BY <2>1 DEF sourceVars
<1>14. ASSUME NEW w \in Workers, Batches(w)
      PROVE  SourceTypes'
  <2>1. UNCHANGED sourceVars
    <3> HIDE TypeParts, RunsOfComparisons
    <3> QED BY <1>14 DEF Batches, PrepareIdentities, ResourceBatch, BeginItems, ItemBatch,
                         Finalize, BeginFindings, FindingBatch, Commit
  <2> QED BY <2>1 DEF sourceVars
<1>15. CASE UNCHANGED vars
  BY <1>15 DEF vars, sourceVars, row, locks, result, bounds
<1> QED
  BY <1>1, <1>2, <1>3, <1>4, <1>5, <1>6, <1>7, <1>8, <1>9, <1>10, <1>11, <1>12, <1>13,
      <1>14, <1>15 DEF Next, Work, Failure, Finish, Scan, Tick, Batches, Evaluates

LEMMA EnqueueTypes ==
    ASSUME IInv, NEW c \in Comparisons, NEW t \in {"manual", "automatic"}, NEW p, Enqueue(c, t, p)
    PROVE  RowTypes'
BY TypeParts DEF Enqueue, Set, RowTypes, State, Active, Evaluation

LEMMA RowTypesKept ==
    ASSUME IInv, [Next]_vars
    PROVE  RowTypes'
<1> USE TypeParts DEF RowTypes, State, Active, Evaluation
<1>1. ASSUME NEW r \in Runs, CompleteRun(r)
      PROVE  RowTypes'
  BY <1>1, EnqueueTypes DEF CompleteRun, CreateAutomatic, Earlier, row
<1>2. ASSUME NEW c \in Comparisons, CommitCreate(c) \/ CommitRetry(c)
      PROVE  RowTypes'
  BY <1>2, EnqueueTypes DEF CommitCreate, CommitRetry, row
<1>3. ASSUME NEW w \in Workers, Start(w)
      PROVE  RowTypes'
  BY <1>3, WaitingFacts, RowFacts DEF Start, Set, sourceVars, row, locks, result, bounds
<1>4. ASSUME NEW c \in Comparisons, RetryFindings(c)
      PROVE  RowTypes'
  BY <1>4 DEF RetryFindings, Set, sourceVars, row, locks, result, bounds
<1>5. ASSUME NEW c \in Comparisons, BackoffEnds(c) \/ HeartbeatAges(c)
      PROVE  RowTypes'
  BY <1>5 DEF BackoffEnds, HeartbeatAges, Set, sourceVars, row, locks, result, bounds
<1>6. ASSUME NEW w \in Workers, NEW c \in Comparisons, Claim(w, c) \/ ClaimFindings(w, c) \/
    Deliver(w, c)
      PROVE  RowTypes'
  BY <1>6 DEF Claim, ClaimFindings, Deliver, Set, sourceVars, row, locks, result, bounds
<1>7. ASSUME NEW w \in Workers, StartDisabled(w)
      PROVE  RowTypes'
  BY <1>7, WaitingFacts DEF StartDisabled, Set, sourceVars, row, locks, result, bounds
<1>8. ASSUME NEW w \in Workers, FinishComparison(w)
      PROVE  RowTypes'
  BY <1>8, WorkingFacts DEF FinishComparison, Show, Set, sourceVars, row, locks, result,
      bounds
<1>9. ASSUME NEW w \in Workers, FailFindings(w)
      PROVE  RowTypes'
  BY <1>9, WorkingFacts DEF FailFindings, Show, Set, sourceVars, row, locks, result, bounds
<1>10. ASSUME NEW w \in Workers, Requeue(w)
      PROVE  RowTypes'
  BY <1>10 DEF Requeue, Set
<1>11. ASSUME NEW w \in Workers, NEW retryable \in BOOLEAN, FailComparison(w, retryable)
      PROVE  RowTypes'
  BY <1>11, WorkingFacts, WaitingFacts DEF FailComparison, Set, sourceVars, row, locks,
      result, bounds
<1>12. ASSUME NEW w \in Workers, EvaluateBatch(w)
      PROVE  RowTypes'
  BY <1>12, EvaluatingFacts DEF EvaluateBatch, Record, Tries, Set
<1>13. ASSUME NEW w \in Workers, EvaluateYield(w)
      PROVE  RowTypes'
  BY <1>13, EvaluatingFacts DEF EvaluateYield, Record, Tries, Set
<1>14. ASSUME NEW w \in Workers, EvaluateDone(w)
      PROVE  RowTypes'
  BY <1>14, EvaluatingFacts DEF EvaluateDone, Record, Tries, Set
<1>15. ASSUME NEW w \in Workers, EvaluateShutdown(w)
      PROVE  RowTypes'
  BY <1>15, EvaluatingFacts DEF EvaluateShutdown, Record, Tries, Set
<1>16. ASSUME NEW w \in Workers, EvaluateFail(w)
      PROVE  RowTypes'
  BY <1>16, EvaluatingFacts DEF EvaluateFail, Record, Tries, Set
<1>17. ASSUME NEW w \in Workers, Batches(w)
      PROVE  RowTypes'
  BY <1>17, WorkingFacts DEF Batches, PrepareIdentities, ResourceBatch, BeginItems,
      ItemBatch, Finalize, BeginFindings, FindingBatch, Commit, Set, sourceVars, row, locks,
      result, bounds
<1>18. ASSUME NEW r \in Runs, ObserveRun(r) \/ DeleteRun(r)
      PROVE  RowTypes'
  BY <1>18 DEF ObserveRun, DeleteRun, Set, sourceVars, row, locks, result, bounds
<1>19. ASSUME SwitchSource
      PROVE  RowTypes'
  BY <1>19 DEF SwitchSource, Request, Set, sourceVars, row, locks, result, bounds
<1>20. ASSUME NEW c \in Comparisons, OpenCreate(c) \/ OpenRetry(c)
      PROVE  RowTypes'
  BY <1>20 DEF SwitchSource, OpenCreate, OpenRetry, Set, sourceVars, row, locks, result,
      bounds
<1>21. ASSUME NEW w \in Workers, Begin(w) \/ StartFindings(w) \/ LoseComparison(w) \/
    Leave(w) \/ Crash(w)
      PROVE  RowTypes'
  BY <1>21 DEF Begin, StartFindings, LoseComparison, Leave, Crash, Set, sourceVars, row,
      locks, result, bounds
<1>22. CASE UNCHANGED vars
  BY <1>22 DEF vars, sourceVars, row, locks, result, bounds
<1> QED
  BY <1>1, <1>2, <1>3, <1>4, <1>5, <1>6, <1>7, <1>8, <1>9, <1>10, <1>11, <1>12, <1>13,
      <1>14, <1>15, <1>16, <1>17, <1>18, <1>19, <1>20, <1>21, <1>22 DEF Next, Work, Failure,
      Finish, Scan, Tick, Batches, Evaluates, Yield, Shutdown

LEMMA SharedTypesKept ==
    ASSUME IInv, [Next]_vars
    PROVE  SharedTypes'
<1> USE TypeParts, LockTypes, CountTypes DEF SharedTypes
<1>1. ASSUME NEW r \in Runs, ObserveRun(r) \/ CompleteRun(r) \/ DeleteRun(r)
      PROVE  SharedTypes'
  BY <1>1 DEF ObserveRun, CompleteRun, DeleteRun, Fault, Request, Set, sourceVars, row,
      locks, result, bounds
<1>2. ASSUME SwitchSource
      PROVE  SharedTypes'
  BY <1>2 DEF SwitchSource, Request, Set, sourceVars, row, locks, result, bounds
<1>3. ASSUME NEW c \in Comparisons, OpenCreate(c) \/ OpenRetry(c)
      PROVE  SharedTypes'
  BY <1>3 DEF SwitchSource, OpenCreate, OpenRetry, Count, Request, Set, sourceVars, row,
      locks, result, bounds
<1>4. ASSUME NEW c \in Comparisons, CommitCreate(c) \/ CommitRetry(c)
      PROVE  SharedTypes'
  BY <1>4 DEF CommitCreate, CommitRetry, Set, sourceVars, row, locks, result, bounds
<1>5. ASSUME NEW c \in Comparisons, RetryFindings(c) \/ BackoffEnds(c) \/ HeartbeatAges(c)
      PROVE  SharedTypes'
  BY <1>5 DEF RetryFindings, BackoffEnds, HeartbeatAges, Request, Set, sourceVars, row,
      locks, result, bounds
<1>6. ASSUME NEW w \in Workers, NEW c \in Comparisons, Claim(w, c) \/ ClaimFindings(w, c) \/
    Deliver(w, c)
      PROVE  SharedTypes'
  BY <1>6 DEF Claim, ClaimFindings, Deliver, Set, sourceVars, row, locks, result, bounds
<1>7. ASSUME NEW w \in Workers, Begin(w) \/ StartDisabled(w) \/ Start(w) \/ StartFindings(w)
      PROVE  SharedTypes'
  BY <1>7 DEF Begin, StartDisabled, Start, StartFindings, SourceLock, Set, sourceVars, row,
      locks, result, bounds
<1>8. ASSUME NEW w \in Workers, FinishComparison(w) \/ FailFindings(w)
      PROVE  SharedTypes'
  BY <1>8 DEF FinishComparison, FailFindings, Show, Fault, Set, sourceVars, row, locks,
      result, bounds
<1>9. ASSUME NEW w \in Workers, Yield(w) \/ Shutdown(w)
      PROVE  SharedTypes'
  BY <1>9 DEF Yield, Shutdown, Requeue, Exhausted, Fault, Set, sourceVars, row, locks,
      result, bounds
<1>10. ASSUME NEW w \in Workers, NEW retryable \in BOOLEAN, FailComparison(w, retryable) \/
    LoseComparison(w)
      PROVE  SharedTypes'
  BY <1>10 DEF FailComparison, LoseComparison, Fault, Set, sourceVars, row, locks, result,
      bounds
<1>11. ASSUME NEW w \in Workers, Evaluates(w)
      PROVE  SharedTypes'
  BY <1>11 DEF Evaluates, EvaluateBatch, EvaluateYield, EvaluateDone, EvaluateShutdown,
      EvaluateFail, Exhausted, Record, Fault, Set, sourceVars, row, locks, result, bounds
<1>12. ASSUME NEW w \in Workers, Batches(w)
      PROVE  SharedTypes'
  BY <1>12 DEF Batches, PrepareIdentities, ResourceBatch, BeginItems, ItemBatch, Finalize,
      BeginFindings, FindingBatch, Commit, Set, sourceVars, row, locks, result, bounds
<1>13. ASSUME NEW w \in Workers, Leave(w) \/ Crash(w)
      PROVE  SharedTypes'
  BY <1>13 DEF Leave, Crash, Fault, Set, sourceVars, row, locks, result, bounds
<1>14. CASE UNCHANGED vars
  BY <1>14 DEF vars, sourceVars, row, locks, result, bounds
<1> QED
  BY <1>1, <1>2, <1>3, <1>4, <1>5, <1>6, <1>7, <1>8, <1>9, <1>10, <1>11, <1>12, <1>13, <1>14
      DEF Next, Work, Failure, Finish, Scan, Tick, Batches, Evaluates

LEMMA StoredTypesKept ==
    ASSUME IInv, [Next]_vars
    PROVE  StoredTypes'
<1> USE TypeParts, NothingClaimed DEF StoredTypes
<1>1. ASSUME NEW r \in Runs, CompleteRun(r) PROVE StoredTypes'
  BY <1>1 DEF CompleteRun, CreateAutomatic, Earlier, Enqueue, row, result, Set
<1>2. ASSUME NEW r \in Runs, DeleteRun(r) PROVE StoredTypes'
  BY <1>2 DEF DeleteRun
<1>3. ASSUME NEW c \in Comparisons, CommitCreate(c) PROVE StoredTypes'
  <2>1. progress' \in {progress, [progress EXCEPT ![c] = Queued]} /\ UNCHANGED result
    BY <1>3 DEF CommitCreate, Enqueue, row, Set
  <2> QED BY <2>1 DEF result
<1>4. ASSUME NEW c \in Comparisons, CommitRetry(c) PROVE StoredTypes'
  BY <1>4 DEF CommitRetry, Enqueue, row, result, Set
<1>5. ASSUME NEW w \in Workers, NEW c \in Comparisons, Claim(w, c) PROVE StoredTypes'
  BY <1>5 DEF Claim, result
<1>6. ASSUME NEW w \in Workers, StartDisabled(w) PROVE StoredTypes'
  BY <1>6 DEF StartDisabled, result, Set
<1>7. ASSUME NEW w \in Workers, Start(w) PROVE StoredTypes'
  BY <1>7, WaitingFacts, CheckpointTypes DEF Start, Set
<1>8. ASSUME NEW w \in Workers, FinishComparison(w) \/ FailFindings(w) PROVE StoredTypes'
  <2>1. PICK p \in Progress : p = job[w].progress
    BY JobTypes
  <2>2. [p EXCEPT !.phase = "complete"] \in Progress
    BY SamePhase DEF Phase, SameSteps
  <2> QED BY <1>8, <2>1, <2>2 DEF FinishComparison, FailFindings, Show, result, Set
<1>9. ASSUME NEW w \in Workers, Yield(w) \/ Shutdown(w) PROVE StoredTypes'
  BY <1>9, JobTypes DEF Yield, Shutdown, Requeue, result, Set
<1>10. ASSUME NEW w \in Workers, NEW retryable \in BOOLEAN, FailComparison(w, retryable)
       PROVE  StoredTypes'
  <2> DEFINE c == job[w].comparison
             again == retryable /\ attempts[c] < MaxAttempts
  <2>1. c \in Comparisons
    BY <1>10, WorkingFacts, WaitingFacts DEF FailComparison
  <2>2. PICK p \in Progress : p = progress[c]
    BY <2>1
  <2>3. again \in BOOLEAN
    OBVIOUS
  <2>4. progress' = [progress EXCEPT ![c] = [p EXCEPT !.resumeAfterError = again]] /\ UNCHANGED result
    BY <1>10, <2>2 DEF FailComparison, Set
  <2> HIDE DEF again
  <2>5. [p EXCEPT !.resumeAfterError = again] \in Progress
    BY <2>3 DEF Progress
  <2> QED BY <2>4, <2>5 DEF result
<1>11. ASSUME NEW w \in Workers, Batches(w) PROVE StoredTypes'
  BY <1>11, BatchSteps DEF Batch, Grows
<1>12. ASSUME NEW w \in Workers, Evaluates(w) PROVE StoredTypes'
  BY <1>12, EvaluateSteps DEF Evaluated, result
<1>13. CASE UNCHANGED <<stateVars, progress, result>>
  BY <1>13 DEF result
<1> QED BY <1>1, <1>2, <1>3, <1>4, <1>5, <1>6, <1>7, <1>8, <1>9, <1>10, <1>11, <1>12, <1>13, Frame
        DEF StateStep, CheckpointStep, Batches, Evaluates

LEMMA JobTypesKept ==
    ASSUME IInv, [Next]_vars
    PROVE  job' \in [Workers -> Job]
<1> USE LockTypes
<1>1. CASE UNCHANGED <<job, lock, source>>
  BY <1>1
<1>2. ASSUME NEW c \in Comparisons, OpenRetry(c) \/ CommitRetry(c) PROVE job' \in [Workers -> Job]
  BY <1>2 DEF OpenRetry, CommitRetry
<1>3. ASSUME NEW w \in Workers, CalledStep(w) PROVE job' \in [Workers -> Job]
  BY <1>3, CalledJob DEF CalledStep
<1>4. ASSUME NEW w \in Workers, Begin(w) PROVE job' \in [Workers -> Job]
  <2>1. Idle \in Job
    BY <1>4, BeginJob, CalledJob
  <2> QED BY <1>4, <2>1, BeginJob
<1>5. ASSUME NEW w \in Workers, Start(w) \/ StartFindings(w) PROVE job' \in [Workers -> Job]
  BY <1>5, StartJob
<1>6. ASSUME NEW w \in Workers, Batches(w) PROVE job' \in [Workers -> Job]
  BY <1>6, BatchSteps DEF Batch
<1>7. ASSUME NEW w \in Workers, EvaluateBatch(w) PROVE job' \in [Workers -> Job]
  BY <1>7, EvaluateSteps, LeavingJob DEF Evaluates, Evaluated, Evaluating, InJob
<1>8. ASSUME NEW w \in Workers, Ends(w) PROVE job' \in [Workers -> Job]
  BY <1>8, EndSteps, LeavingJob
<1>9. ASSUME NEW w \in Workers, Leave(w) \/ Crash(w) PROVE job' \in [Workers -> Job]
  <2>1. Idle \in Job
    BY AtStored, JobTypes DEF Idle, Job, Queued, Phase
  <2> QED BY <1>9, <2>1 DEF Leave, Crash, Set
<1> QED BY <1>1, <1>2, <1>3, <1>4, <1>5, <1>6, <1>7, <1>8, <1>9, LockFrame DEF LockStep

LEMMA TypesKept ==
    ASSUME IInv, [Next]_vars
    PROVE  TypeOK'
BY SourceTypesKept, RowTypesKept, StoredTypesKept, SharedTypesKept, JobTypesKept
DEF TypeOK, SourceTypes, RowTypes, StoredTypes, SharedTypes
-----------------------------------------------------------------------------
(* What the source says of its baseline                                    *)

Truth == CoverageNames /\ CoverageTruthful

\* What b says of a comparison in state s, whose findings are in state e.
Tells(b, s, e) ==
    /\ s = "complete" <=> b.state = "established"
    /\ s = "failed" <=> b.state = "failed"
    /\ s = "complete" /\ e \in {"complete", "degraded"} => b.findings = e

LEMMA CoverageTypes ==
    ASSUME IInv
    PROVE  /\ baseline \in Coverage /\ lastRun \in Runs \cup {0}
           /\ NoComparison \notin Comparisons
           /\ eval \in [Comparisons -> Evaluation]
           /\ Truth /\ NamedSpeak
BY ComparisonsAssumption DEF IInv, TypeOK, Truth

\* No comparison is newer than the newest run.
LEMMA NewestIsLatest ==
    ASSUME IInv, NEW c \in Comparisons
    PROVE  LatestCandidate(c) <=> NewestCompleteRun(Current(c))
<1>1. \A d \in Comparisons : state[d] = "complete" => Complete(Current(d)) /\ Current(d) \in Runs
  BY NewRow, RunsOfComparisons DEF Both
<1> QED BY <1>1 DEF LatestCandidate, NewestCompleteRun

\* The comparison that is named exists, or is gone for good.
LEMMA NamedFacts ==
    ASSUME IInv, NEW c \in Comparisons, Named(c)
    PROVE  /\ Exists(c) => /\ trigger[c] = "automatic" /\ lastRun = Current(c)
                           /\ NewestCompleteRun(lastRun) /\ LatestCandidate(c)
                           /\ Tells(baseline, state[c], eval[c])
           /\ ~Exists(c) => Deleted(c)
<1>1. c # NoComparison
  BY CoverageTypes
<1> QED BY <1>1, CoverageTypes, NewestIsLatest
        DEF Truth, CoverageNames, CoverageTruthful, Named, Tells, Exists

\* A step that moves one row, and perhaps says so.
LEMMA OneRowMoves ==
    ASSUME IInv, NEW c \in Comparisons, UNCHANGED <<run, lastRun, trigger>>,
           Exists(c), state'[c] # "none",
           \A d \in Comparisons : d # c => state'[d] = state[d] /\ eval'[d] = eval[d],
           baseline'.comparison # c => baseline' = baseline,
           baseline'.comparison = c =>
               /\ Tells(baseline', state'[c], eval'[c])
               /\ Named(c) \/ (trigger[c] = "automatic" /\ lastRun = Current(c) /\ LatestCandidate(c))
    PROVE  Truth'
<1>1. CASE baseline'.comparison = c
  <2>1. trigger[c] = "automatic" /\ lastRun = Current(c) /\ NewestCompleteRun(lastRun)
    BY <1>1, NamedFacts, NewestIsLatest
  <2> QED BY <1>1, <2>1
          DEF Truth, CoverageNames, CoverageTruthful, Tells, Exists, NewestCompleteRun, Complete
<1>2. CASE baseline'.comparison # c
  BY <1>2, CoverageTypes
     DEF Truth, CoverageNames, CoverageTruthful, Coverage, Exists, Deleted, NewestCompleteRun, Complete
<1> QED BY <1>1, <1>2

\* A worker that may speak for the source says what becomes of its comparison.
LEMMA Publishes ==
    ASSUME IInv, NEW c \in Comparisons, Exists(c), NEW speaks, NEW s, NEW f,
           PublishIf(speaks, c, s, f), speaks => LatestCandidate(c), Named(c) => speaks
    PROVE  \/ /\ baseline' = [state |-> s, comparison |-> c, findings |-> f]
              /\ trigger[c] = "automatic" /\ lastRun = Current(c) /\ LatestCandidate(c)
           \/ baseline' = baseline /\ ~Named(c)
<1>1. Named(c) => trigger[c] = "automatic" /\ lastRun = Current(c)
  BY NamedFacts
<1> QED BY <1>1 DEF PublishIf, Publish

\* Nothing of this is touched.
QuietStep == UNCHANGED <<run, lastRun, baseline, trigger, state, eval>>

LEMMA QuietTruth ==
    ASSUME IInv, QuietStep
    PROVE  Truth'
BY CoverageTypes DEF QuietStep, Truth, CoverageNames, CoverageTruthful, Exists, Deleted,
                     NewestCompleteRun, Complete

LEMMA BatchesQuiet ==
    ASSUME NEW w \in Workers, Batches(w)
    PROVE  QuietStep
<1> USE DEF QuietStep, sourceVars
<1>1. CASE PrepareIdentities(w)
  BY <1>1 DEF PrepareIdentities, Commit
<1>2. CASE ResourceBatch(w)
  BY <1>2 DEF ResourceBatch, Commit
<1>3. CASE BeginItems(w)
  BY <1>3 DEF BeginItems, Commit
<1>4. CASE ItemBatch(w)
  BY <1>4 DEF ItemBatch, Commit
<1>5. CASE Finalize(w)
  BY <1>5 DEF Finalize, Commit
<1>6. CASE BeginFindings(w)
  BY <1>6 DEF BeginFindings
<1>7. CASE FindingBatch(w)
  BY <1>7 DEF FindingBatch, Commit
<1> QED BY <1>1, <1>2, <1>3, <1>4, <1>5, <1>6, <1>7 DEF Batches

\* A comparison that is active stays so, and nobody says anything.
LEMMA ActiveTruth ==
    ASSUME IInv, NEW c \in Comparisons, NEW v \in Active, state[c] \in Active,
           state' = [state EXCEPT ![c] = v], UNCHANGED <<run, lastRun, baseline, trigger, eval>>
    PROVE  Truth'
<1>1. Exists(c) /\ state'[c] = v /\ v # "none" /\ \A d \in Comparisons : d # c => state'[d] = state[d]
  BY StateTypes DEF Exists, Active
<1>2. Named(c) => Tells(baseline, v, eval[c])
  BY <1>1, NamedFacts DEF Tells, Active
<1> QED BY <1>1, <1>2, OneRowMoves DEF Named

\* A row moves to state v, and who speaks for the source publishes s and the findings' e.
Spoken(c, v, speaks, s, e) ==
    /\ Exists(c) /\ v \in State /\ v # "none"
    /\ state' = [state EXCEPT ![c] = v]
    /\ \A d \in Comparisons : d # c => eval'[d] = eval[d]
    /\ UNCHANGED <<run, lastRun, trigger>>
    /\ PublishIf(speaks, c, s, e)
    /\ speaks => LatestCandidate(c)
    /\ Named(c) => speaks
    /\ Tells([state |-> s, comparison |-> c, findings |-> e], v, eval'[c])

LEMMA SpokenTruth ==
    ASSUME IInv, NEW c \in Comparisons, NEW v, NEW speaks, NEW s, NEW e, Spoken(c, v, speaks, s, e)
    PROVE  Truth'
<1> USE DEF Spoken
<1>1. state'[c] = v /\ \A d \in Comparisons : d # c => state'[d] = state[d]
  BY StateTypes
<1>2. \/ /\ baseline' = [state |-> s, comparison |-> c, findings |-> e]
         /\ trigger[c] = "automatic" /\ lastRun = Current(c) /\ LatestCandidate(c)
      \/ baseline' = baseline /\ ~Named(c)
  BY Publishes
<1>3. baseline'.comparison # c => baseline' = baseline
  BY <1>2
<1>4. baseline'.comparison = c =>
         /\ Tells(baseline', v, eval'[c])
         /\ Named(c) \/ (trigger[c] = "automatic" /\ lastRun = Current(c) /\ LatestCandidate(c))
  BY <1>2 DEF Named
<1> QED BY <1>1, <1>3, <1>4, OneRowMoves

\* Runs come and go: the last run's comparison is named anew, or with no name at all.
LEMMA RunsTruth ==
    ASSUME IInv, NEW r \in Runs, ObserveRun(r) \/ CompleteRun(r) \/ DeleteRun(r)
    PROVE  Truth'
<1> USE DEF Truth, CoverageNames, CoverageTruthful
<1>0. r \in Nat /\ lastRun \in Nat /\ \A c \in Comparisons : Current(c) \in Nat /\ Current(c) \in Runs
  BY RunsOfComparisons, ComparisonsAssumption, CoverageTypes
<1>1. CASE ObserveRun(r)
  <2>1. UNCHANGED <<run, state, trigger, eval>>
    BY <1>1 DEF ObserveRun, row
  <2>2. baseline'.comparison = NoComparison \/ UNCHANGED <<lastRun, baseline>>
    BY <1>1 DEF ObserveRun, Observe
  <2> QED BY <2>1, <2>2, QuietTruth DEF QuietStep
<1>2. CASE CompleteRun(r)
  <2>1. /\ run' = [run EXCEPT ![r] = "COMPLETE"] /\ run[r] = "open"
        /\ lastRun' = IF r >= lastRun THEN r ELSE lastRun
    BY <1>2 DEF CompleteRun, Set
  <2>2. \A c \in Comparisons : Deleted(c) => Deleted(c)'
    BY <2>1, StateTypes, RunsOfComparisons DEF Deleted
  <2>3. r < lastRun /\ NewestCompleteRun(lastRun) => NewestCompleteRun(lastRun)'
    BY <1>0, <2>1, StateTypes, ComparisonsAssumption DEF NewestCompleteRun, Complete
  <2>4. ASSUME UNCHANGED <<state, trigger, eval>>,
               IF r >= lastRun THEN baseline'.comparison = NoComparison ELSE UNCHANGED baseline
        PROVE  Truth'
    BY <1>0, <2>1, <2>2, <2>3, <2>4, CoverageTypes DEF Exists, Coverage
  <2>5. ASSUME NEW d \in Earlier(r), NewestCompleteRun(r), Enqueue(d, "automatic", Queued),
               baseline' = IF r >= lastRun
                           THEN [state |-> "queued", comparison |-> d, findings |-> "queued"]
                           ELSE baseline
        PROVE  Truth'
    <3>1. d \in Comparisons /\ Current(d) = r /\ state[d] = "none" /\ ~Deleted(d)
      BY <2>1, <2>5, NewRow DEF Earlier, Both, Complete, Deleted
    <3>2. /\ state' = [state EXCEPT ![d] = "queued"] /\ trigger' = [trigger EXCEPT ![d] = "automatic"]
          /\ eval' = [eval EXCEPT ![d] = "none"]
      BY <2>5 DEF Enqueue, Set
    <3>3. CASE r >= lastRun
      <4>1. NewestCompleteRun(r)'
        BY <1>0, <2>1, <2>5, StateTypes, ComparisonsAssumption DEF NewestCompleteRun, Complete
      <4> QED BY <2>1, <2>5, <3>1, <3>2, <3>3, <4>1, StateTypes, LockTypes DEF Exists
    <3>4. CASE r < lastRun
      <4>1. UNCHANGED <<baseline, lastRun>>
        BY <1>0, <2>1, <2>5, <3>4
      <4>2. ~Named(d)
        BY <3>1, NamedFacts DEF Exists
      <4>3. ASSUME NEW c \in Comparisons, c # d
            PROVE  UNCHANGED <<state[c], trigger[c], eval[c]>>
        BY <3>2, <4>3, StateTypes, LockTypes, CoverageTypes
      <4> QED BY <2>2, <2>3, <3>4, <4>1, <4>2, <4>3, CoverageTypes DEF Exists, Coverage, Named
    <3> QED BY <1>0, <3>3, <3>4
  <2>6. ASSUME NEW c \in Earlier(r), CreateAutomatic(c), NewestCompleteRun(r) PROVE Truth'
    <3>1. Current(c) = r /\ (lastRun' = r <=> r >= lastRun)
      BY <1>0, <2>1, <2>6 DEF Earlier
    <3> QED BY <2>4, <2>5, <2>6, <3>1 DEF CreateAutomatic, row, Says
  <2> QED BY <1>0, <1>2, <2>1, <2>4, <2>6 DEF CompleteRun, row, Says
<1>3. CASE DeleteRun(r)
  <2>1. /\ run' = [run EXCEPT ![r] = "deleted"] /\ UNCHANGED <<baseline, trigger, eval>>
        /\ lastRun' = IF lastRun = r THEN 0 ELSE lastRun
    BY <1>3 DEF DeleteRun, Set
  <2>2. \A c \in Comparisons : IF r \in {Baseline(c), Current(c)} THEN state'[c] = "none" /\ Deleted(c)'
                               ELSE state'[c] = state[c] /\ (Deleted(c) => Deleted(c)')
    BY <1>3, <2>1, StateTypes, RunsOfComparisons DEF DeleteRun, Deleted
  <2>3. \A q : NewestCompleteRun(q) => NewestCompleteRun(q)'
    BY <2>1, StateTypes DEF NewestCompleteRun, Complete
  <2> QED BY <2>1, <2>2, <2>3, CoverageTypes DEF Exists, Coverage
<1> QED BY <1>1, <1>2, <1>3

\* Requests: what is admitted is new, or says that it is tried again.
LEMMA RequestsTruth ==
    ASSUME IInv, NEW c \in Comparisons, CommitCreate(c) \/ CommitRetry(c) \/ RetryFindings(c)
    PROVE  Truth'
<1>1. CASE CommitCreate(c)
  <2>1. UNCHANGED sourceVars /\ (UNCHANGED row \/ (state[c] = "none" /\ Both(c) /\ Enqueue(c, "manual", Queued)))
    BY <1>1 DEF CommitCreate
  <2>2. CASE UNCHANGED row
    BY <2>1, <2>2, QuietTruth DEF QuietStep, sourceVars, row
  <2>3. CASE state[c] = "none" /\ Both(c) /\ Enqueue(c, "manual", Queued)
    <3>1. ~Named(c)
      BY <2>3, NamedFacts DEF Exists, Deleted, Both, Complete
    <3>2. \A d \in Comparisons : d # c => state'[d] = state[d] /\ eval'[d] = eval[d] /\ trigger'[d] = trigger[d]
      BY <2>3, StateTypes, LockTypes, CoverageTypes DEF Enqueue, Set
    <3> QED BY <2>1, <3>1, <3>2, CoverageTypes
            DEF sourceVars, Truth, CoverageNames, CoverageTruthful, Named, Exists, Deleted, Coverage,
                NewestCompleteRun, Complete
  <2> QED BY <2>1, <2>2, <2>3
<1>2. CASE CommitRetry(c)
  <2>1. state[c] = "failed" /\ UNCHANGED <<run, lastRun>>
    BY <1>2, RetryFacts DEF CommitRetry
  <2>2. CASE UNCHANGED <<row, baseline>>
    BY <2>1, <2>2, QuietTruth DEF QuietStep, row
  <2>3. CASE Enqueue(c, trigger[c], [Queued EXCEPT !.operatorRetry = TRUE]) /\ RecoverBaseline(c, "queued")
    <3>1. state'[c] = "queued" /\ trigger' = trigger
          /\ \A d \in Comparisons : d # c => state'[d] = state[d] /\ eval'[d] = eval[d]
      BY <2>3, StateTypes, LockTypes, CoverageTypes DEF Enqueue, Set
    <3>2. Exists(c)
      BY <2>1 DEF Exists
    <3>3. \/ Named(c) /\ baseline' = [state |-> "queued", comparison |-> c, findings |-> "queued"]
          \/ ~Named(c) /\ baseline' = baseline
      BY <2>3, <3>2, NamedFacts DEF RecoverBaseline
    <3> QED BY <2>1, <3>1, <3>2, <3>3, OneRowMoves DEF Tells, Named
  <2> QED BY <1>2, <2>2, <2>3 DEF CommitRetry
<1>3. CASE RetryFindings(c)
  <2>1. state[c] = "complete" /\ UNCHANGED <<run, lastRun, state, trigger>> /\ RecoverBaseline(c, "established")
        /\ eval'[c] = "queued" /\ \A d \in Comparisons : d # c => eval'[d] = eval[d]
    BY <1>3, CoverageTypes DEF RetryFindings, Set
  <2>2. Exists(c)
    BY <2>1 DEF Exists
  <2>3. \/ Named(c) /\ baseline' = [state |-> "established", comparison |-> c, findings |-> "queued"]
        \/ ~Named(c) /\ baseline' = baseline
    BY <2>1, <2>2, NamedFacts DEF RecoverBaseline
  <2> QED BY <2>1, <2>2, <2>3, OneRowMoves DEF Tells, Named
<1> QED BY <1>1, <1>2, <1>3

\* Claims and jobs: whoever ends or evaluates the named comparison says so.
LEMMA WorkersTruth ==
    ASSUME IInv, NEW w \in Workers,
           \/ \E c \in Comparisons : Claim(w, c) \/ ClaimFindings(w, c)
           \/ Start(w) \/ Batches(w) \/ Evaluates(w) \/ Ends(w)
    PROVE  Truth'
<1> DEFINE c == job[w].comparison
<1>1. ASSUME NEW d \in Comparisons, Claim(w, d) PROVE Truth'
  BY <1>1, ActiveTruth DEF Claim, Recoverable, sourceVars, Set, Active
<1>2. ASSUME NEW d \in Comparisons, ClaimFindings(w, d) PROVE Truth'
  <2>1. /\ UNCHANGED <<run, lastRun, baseline, trigger, state>> /\ state[d] = "complete" /\ Exists(d)
        /\ eval'[d] = "evaluating" /\ \A b \in Comparisons : b # d => eval'[b] = eval[b]
    BY <1>2, CoverageTypes DEF ClaimFindings, RecoverableFindings, sourceVars, Set, Exists
  <2>2. Named(d) => Tells(baseline, state[d], "evaluating")
    BY <2>1, NamedFacts DEF Tells
  <2> QED BY <2>1, <2>2, OneRowMoves DEF Named
<1>3. ASSUME Start(w) PROVE Truth'
  <2>1. c \in Comparisons /\ state[c] \in Active
    BY <1>3, WaitingFacts DEF Start
  <2> QED BY <1>3, <2>1, ActiveTruth DEF Start, sourceVars, Set, Active
<1>4. ASSUME Batches(w) PROVE Truth'
  BY <1>4, BatchesQuiet, QuietTruth
<1>5. ASSUME Evaluates(w) PROVE Truth'
  <2>1. Evaluating(w)
    BY <1>5 DEF Evaluates, EvaluateBatch, EvaluateYield, EvaluateDone, EvaluateShutdown, EvaluateFail
  <2>2. c \in Comparisons /\ state[c] = "complete" /\ Exists(c)
    BY <2>1, EvaluatingFacts DEF Exists
  <2>3. /\ job[w].authoritative => LatestCandidate(c)
        /\ Named(c) => job[w].authoritative
    BY <2>1, <2>2, CoverageTypes DEF IInv, AuthorityHolds, NamedSpeak, Evaluating, Exists
  <2>4. \E e : /\ PublishIf(job[w].authoritative, c, "established", e)
               /\ eval' = [eval EXCEPT ![c] = e] /\ UNCHANGED <<run, lastRun, state, trigger>>
    BY <1>5 DEF Evaluates, EvaluateBatch, EvaluateYield, EvaluateDone, EvaluateShutdown, EvaluateFail,
                Record, Set
  <2>5. PICK e : /\ PublishIf(job[w].authoritative, c, "established", e)
                 /\ eval' = [eval EXCEPT ![c] = e] /\ UNCHANGED <<run, lastRun, state, trigger>>
    BY <2>4
  <2>6. Tells([state |-> "established", comparison |-> c, findings |-> e], "complete", eval'[c])
        /\ \A d \in Comparisons : d # c => eval'[d] = eval[d]
    BY <2>2, <2>5, CoverageTypes DEF Tells
  <2>7. state' = [state EXCEPT ![c] = "complete"] /\ "complete" \in State
    BY <2>2, <2>5, StateTypes DEF State
  <2>8. Spoken(c, "complete", job[w].authoritative, "established", e)
    BY <2>2, <2>3, <2>5, <2>6, <2>7 DEF Spoken
  <2> QED BY <2>2, <2>8, SpokenTruth
<1>6. ASSUME Ends(w), ~Evaluates(w) PROVE Truth'
  <2> USE DEF Set
  <2>0. c \in Comparisons
    BY <1>6, EndSteps, LockTypes DEF JobsLocked, InJob
  <2>1. CASE StartDisabled(w)
    <3>1. state[c] \in Active /\ Exists(c)
      BY <2>1, WaitingFacts DEF StartDisabled, Exists, Active
    <3>2. /\ state' = [state EXCEPT ![c] = "failed"] /\ UNCHANGED <<run, lastRun, trigger, eval>>
          /\ baseline' = IF Named(c) /\ lastRun = Current(c)
                         THEN [state |-> "failed", comparison |-> c, findings |-> "none"] ELSE baseline
      BY <2>1 DEF StartDisabled
    <3>3. \/ Named(c) /\ baseline' = [state |-> "failed", comparison |-> c, findings |-> "none"]
          \/ ~Named(c) /\ baseline' = baseline
      BY <2>0, <3>1, <3>2, NamedFacts
    <3>4. state'[c] = "failed" /\ \A d \in Comparisons : d # c => state'[d] = state[d]
      BY <2>0, <3>2, StateTypes
    <3> QED BY <2>0, <3>1, <3>2, <3>3, <3>4, OneRowMoves DEF Tells, Named
  <2>2. CASE FinishComparison(w) \/ FailFindings(w)
    <3>1. Working(w) /\ job[w].progress.phase = "findings"
      BY <2>2 DEF FinishComparison, FailFindings
    <3>2. Exists(c) /\ (job[w].authoritative => LatestCandidate(c)) /\ (Named(c) => job[w].authoritative)
      BY <3>1, CoverageTypes DEF IInv, AuthorityHolds, NamedSpeak, Working, Exists
    <3>3. PICK e : /\ PublishIf(job[w].authoritative, c, "established", e)
                   /\ eval' = [eval EXCEPT ![c] = e] /\ UNCHANGED <<run, lastRun, trigger>>
                   /\ state' = [state EXCEPT ![c] = "complete"]
      BY <2>2 DEF FinishComparison, FailFindings, Show
    <3>4. Tells([state |-> "established", comparison |-> c, findings |-> e], "complete", eval'[c])
          /\ \A d \in Comparisons : d # c => eval'[d] = eval[d]
      BY <2>0, <3>3, CoverageTypes DEF Tells
    <3>5. Spoken(c, "complete", job[w].authoritative, "established", e)
      BY <3>2, <3>3, <3>4 DEF Spoken, State
    <3> QED BY <2>0, <3>5, SpokenTruth
  <2>3. CASE Yield(w) \/ Shutdown(w)
    <3>1. state[c] \in Active
      BY <2>3, WorkingFacts DEF Yield, Shutdown
    <3> QED BY <2>0, <2>3, <3>1, ActiveTruth DEF Yield, Shutdown, Requeue, sourceVars, Active
  <2>4. ASSUME NEW retryable \in BOOLEAN, FailComparison(w, retryable) PROVE Truth'
    <3>1. state[c] \in Active /\ Exists(c)
      BY <2>4, WorkingFacts, WaitingFacts DEF FailComparison, Exists, Active
    <3>2. Named(c) => LatestCandidate(c)
      BY <2>0, <3>1, NamedFacts
    <3>3. PICK again \in BOOLEAN :
              /\ state' = [state EXCEPT ![c] = IF again THEN "queued" ELSE "failed"]
              /\ PublishIf(LatestCandidate(c), c, IF again THEN "retrying" ELSE "failed", "none")
              /\ UNCHANGED <<run, lastRun, trigger, eval>>
      BY <2>4 DEF FailComparison
    <3> DEFINE v == IF again THEN "queued" ELSE "failed"
               s == IF again THEN "retrying" ELSE "failed"
    <3>4. v \in State /\ v # "none" /\ Tells([state |-> s, comparison |-> c, findings |-> "none"], v, eval'[c])
      BY DEF State, Active, Tells
    <3>5. state' = [state EXCEPT ![c] = v] /\ PublishIf(LatestCandidate(c), c, s, "none")
      BY <3>3
    <3> HIDE DEF v, s
    <3>6. Spoken(c, v, LatestCandidate(c), s, "none")
      BY <3>1, <3>2, <3>3, <3>4, <3>5 DEF Spoken
    <3> QED BY <2>0, <3>6, SpokenTruth
  <2>5. CASE LoseComparison(w)
    <3>1. Deleted(c) /\ state[c] = "none" /\ UNCHANGED <<run, lastRun, state, trigger, eval>>
      BY <2>5 DEF LoseComparison, IInv, JobsHold, JobHolds, Exists, row
    <3>2. baseline' = baseline \/ baseline'.comparison = c
      BY <2>5 DEF LoseComparison, PublishIf, Publish
    <3> QED BY <2>0, <3>1, <3>2, QuietTruth
            DEF QuietStep, Truth, CoverageNames, CoverageTruthful, Exists, Deleted
  <2> QED BY <1>6, <2>1, <2>2, <2>3, <2>4, <2>5 DEF Ends, Evaluates
<1> QED BY <1>1, <1>2, <1>3, <1>4, <1>5, <1>6

LEMMA TruthKept ==
    ASSUME IInv, [Next]_vars
    PROVE  Truth'
<1> USE DEF QuietStep, sourceVars, row
<1>1. CASE UNCHANGED vars
  BY <1>1, QuietTruth DEF vars
<1>2. ASSUME SwitchSource PROVE Truth'
  BY <1>2, QuietTruth DEF SwitchSource
<1>3. ASSUME NEW c \in Comparisons, OpenCreate(c) \/ OpenRetry(c) PROVE Truth'
  BY <1>3, QuietTruth DEF OpenCreate, OpenRetry
<1>4. ASSUME NEW c \in Comparisons, Tick(c) PROVE Truth'
  BY <1>4, QuietTruth DEF Tick, BackoffEnds, HeartbeatAges
<1>5. ASSUME NEW w \in Workers, NEW c \in Comparisons, Deliver(w, c) PROVE Truth'
  BY <1>5, QuietTruth DEF Deliver
<1>6. ASSUME NEW w \in Workers, Begin(w) \/ StartFindings(w) \/ Leave(w) PROVE Truth'
  BY <1>6, QuietTruth DEF Begin, StartFindings, Leave
<1>7. ASSUME NEW w \in Workers, Crash(w) PROVE Truth'
  BY <1>7, QuietTruth DEF Crash
<1> QED BY <1>1, <1>2, <1>3, <1>4, <1>5, <1>6, <1>7, RunsTruth, RequestsTruth, WorkersTruth
        DEF Next, Work, Failure, Finish, Scan, Batches, Evaluates, Ends

\* Who names a comparison that exists is the job that holds it, and ends or evaluates it.
LEMMA Namer ==
    ASSUME IInv, [Next]_vars, NEW c \in Comparisons, Exists(c), ~Named(c), Named(c)'
    PROVE  \E w \in Workers : /\ job[w].comparison = c /\ lock[c] = w
                              /\ Ends(w) \/ (EvaluateBatch(w) /\ job[w].authoritative)
<1> USE DEF Named
<1>0. ~UNCHANGED baseline
  OBVIOUS
<1>1. ASSUME UNCHANGED sourceVars PROVE FALSE
  BY <1>0, <1>1 DEF sourceVars
<1>2. ASSUME NEW r \in Runs, ObserveRun(r) \/ CompleteRun(r) \/ DeleteRun(r) PROVE FALSE
  <2>1. CASE ObserveRun(r)
    BY <2>1, CoverageTypes DEF ObserveRun, Observe
  <2>2. CASE CompleteRun(r)
    <3>1. ASSUME NEW d \in Earlier(r), CreateAutomatic(d) PROVE FALSE
      <4>1. state[d] = "none"
        BY <2>2, <3>1, NewRow DEF CompleteRun, Earlier, Both, Complete
      <4> QED BY <3>1, <4>1, CoverageTypes DEF CreateAutomatic, Says, Exists
    <3> QED BY <2>2, <3>1, CoverageTypes DEF CompleteRun, Says
  <2>3. CASE DeleteRun(r)
    BY <1>0, <2>3 DEF DeleteRun
  <2> QED BY <1>2, <2>1, <2>2, <2>3
<1>3. ASSUME SwitchSource PROVE FALSE
  BY <1>0, <1>3 DEF SwitchSource
<1>4. ASSUME NEW d \in Comparisons, CommitRetry(d) \/ RetryFindings(d) PROVE FALSE
  <2>1. ASSUME NEW s, RecoverBaseline(d, s) PROVE FALSE
    BY <1>0, <2>1 DEF RecoverBaseline
  <2> QED BY <1>0, <1>4, <2>1 DEF CommitRetry, RetryFindings
<1>5. ASSUME NEW w \in Workers, NEW s, NEW f, NEW speaks, PublishIf(speaks, job[w].comparison, s, f),
             job[w].pc \in InJob
      PROVE  job[w].comparison = c /\ lock[c] = w /\ speaks
  BY <1>0, <1>5, LockTypes DEF PublishIf, Publish, JobsLocked
<1>6. ASSUME NEW w \in Workers, Ends(w) PROVE job[w].comparison = c /\ lock[c] = w
  <2>1. job[w].pc \in InJob
    BY <1>6, EndSteps
  <2>2. CASE StartDisabled(w)
    BY <1>0, <2>2 DEF StartDisabled
  <2>3. CASE FinishComparison(w) \/ FailFindings(w)
    BY <1>5, <2>1, <2>3 DEF FinishComparison, FailFindings, Show
  <2>4. CASE Yield(w) \/ Shutdown(w)
    BY <1>1, <2>4 DEF Yield, Shutdown, Requeue
  <2>5. CASE LoseComparison(w)
    BY <1>0, <1>5, <2>1, <2>5 DEF LoseComparison
  <2>6. CASE EvaluateYield(w) \/ EvaluateDone(w) \/ EvaluateShutdown(w) \/ EvaluateFail(w)
    BY <1>5, <2>1, <2>6 DEF EvaluateYield, EvaluateDone, EvaluateShutdown, EvaluateFail, Record
  <2>7. CASE \E retryable \in BOOLEAN : FailComparison(w, retryable)
    BY <1>5, <2>1, <2>7 DEF FailComparison
  <2> QED BY <1>6, <2>2, <2>3, <2>4, <2>5, <2>6, <2>7 DEF Ends
<1>7. ASSUME NEW w \in Workers, EvaluateBatch(w)
      PROVE  job[w].comparison = c /\ lock[c] = w /\ job[w].authoritative
  BY <1>5, <1>7 DEF EvaluateBatch, Record, Evaluating, InJob
<1>8. ASSUME NEW w \in Workers, Batches(w) \/ StartFindings(w) \/ Start(w) \/ Begin(w) \/ Leave(w) \/ Crash(w)
      PROVE  FALSE
  <2>1. ~Batches(w)
    BY <1>0, BatchesQuiet DEF QuietStep
  <2> QED BY <1>1, <1>8, <2>1 DEF StartFindings, Start, Begin, Leave, Crash
<1>9. ASSUME NEW d \in Comparisons, OpenCreate(d) \/ OpenRetry(d) \/ CommitCreate(d) \/ Tick(d) PROVE FALSE
  BY <1>1, <1>9 DEF OpenCreate, OpenRetry, CommitCreate, Tick, BackoffEnds, HeartbeatAges
<1>10. ASSUME NEW w \in Workers, NEW d \in Comparisons, Deliver(w, d) \/ Claim(w, d) \/ ClaimFindings(w, d)
       PROVE  FALSE
  BY <1>1, <1>10 DEF Deliver, Claim, ClaimFindings
<1>11. UNCHANGED vars => UNCHANGED sourceVars
  BY DEF vars
<1> QED BY <1>1, <1>2, <1>3, <1>4, <1>6, <1>7, <1>8, <1>9, <1>10, <1>11
        DEF Next, Work, Failure, Finish, Scan, Batches, Ends

\* Where a job's authority comes from.
LEMMA BatchSpeaks ==
    ASSUME IInv, NEW w \in Workers, Batches(w), job'[w].progress.phase = "findings"
    PROVE  \/ job'[w].authoritative = LatestCandidate(job[w].comparison)
           \/ job[w].progress.phase = "findings" /\ job'[w].authoritative = job[w].authoritative
<1>1. PICK j \in Job : j = job[w]
  BY LockTypes
<1>2. ASSUME NEW q, NEW m, NEW n, Commit(w, q, m, n)
      PROVE  job'[w].progress = m /\ job'[w].authoritative = job[w].authoritative
  <2>1. job'[w] = [j EXCEPT !.progress = m, !.batches = n]
    BY <1>1, <1>2, LockTypes DEF Commit, Set
  <2> QED BY <1>1, <2>1 DEF Job
<1>3. j.progress \in Progress
  BY DEF Job
<1>4. CASE PrepareIdentities(w)
  <2> DEFINE q == [j.progress EXCEPT !.prepared = @ + 1]
  <2>1. job'[w].progress = Resumed(q) /\ q.phase = "identities"
    BY <1>1, <1>2, <1>3, <1>4 DEF PrepareIdentities, Progress
  <2>2. q.phase = "identities" => Resumed(q).phase # "findings"
    <3>1. q.phase = "identities" /\ q.prepared >= 2 => [q EXCEPT !.phase = "resources"].phase = "resources"
      BY <1>3 DEF Progress
    <3> QED BY <1>3, <3>1 DEF Resumed, Progress
  <2> QED BY <2>1, <2>2
<1>5. CASE ResourceBatch(w) \/ BeginItems(w)
  BY <1>2, <1>5 DEF ResourceBatch, BeginItems, At
<1>6. CASE ItemBatch(w) \/ Finalize(w)
  BY <1>1, <1>2, <1>3, <1>6 DEF ItemBatch, Finalize, Progress
<1>7. CASE BeginFindings(w)
  <2>1. job'[w].authoritative = LatestCandidate(job[w].comparison)
    <3>1. job'[w] = [j EXCEPT !.progress = [j.progress EXCEPT !.phase = "findings"],
                              !.authoritative = LatestCandidate(j.comparison)]
      BY <1>1, <1>7, LockTypes DEF BeginFindings, Set
    <3> QED BY <1>1, <3>1 DEF Job
  <2> QED BY <2>1
<1>8. CASE FindingBatch(w)
  BY <1>2, <1>8 DEF FindingBatch
<1> QED BY <1>4, <1>5, <1>6, <1>7, <1>8 DEF Batches

\* A job that finishes or evaluates the comparison that is named may speak for the source.
LEMMA SpeakKept ==
    ASSUME IInv, [Next]_vars
    PROVE  NamedSpeak'
<1> SUFFICES ASSUME NEW v \in Workers, NEW c \in Comparisons, c = job'[v].comparison,
                    \/ job'[v].pc = "evaluating"
                    \/ job'[v].pc = "working" /\ job'[v].progress.phase = "findings",
                    Named(c)', Exists(c)'
             PROVE  job'[v].authoritative
  <2>1. \A w \in Workers : job'[w].pc # "idle" => job'[w].comparison \in Comparisons
    BY JobsLockedKept DEF JobsLocked
  <2> QED BY <2>1 DEF NamedSpeak, Named, Exists
<1>0. JobHolds(v) /\ NamedSpeak
  BY DEF IInv, JobsHold
<1>1. ~Deleted(c)
  <2>1. Deleted(c) => Deleted(c)'
    BY DeletedStays
  <2> QED BY <2>1, RowsKept DEF RowsHaveRuns, Exists, Both, Complete, Deleted
<1>2. CASE job'[v] = job[v]
  <2>1. c = job[v].comparison /\ lock[c] = v /\ Exists(c)
    BY <1>0, <1>1, <1>2, LockTypes DEF JobHolds, JobsLocked, InJob
  <2>2. CASE Named(c)
    BY <1>0, <1>2, <2>1, <2>2 DEF NamedSpeak
  <2>3. CASE ~Named(c)
    <3>1. Ends(v) \/ (EvaluateBatch(v) /\ job[v].authoritative)
      BY <2>1, <2>3, Namer
    <3> QED BY <1>2, <3>1, EndSteps, LeavingJob, LockTypes
  <2> QED BY <2>2, <2>3
<1>3. ~CalledStep(v) /\ ~Begin(v)
  BY CalledJob, BeginJob, LockTypes DEF CalledStep
<1>4. ~Start(v)
  <2> SUFFICES ASSUME Start(v) PROVE FALSE
    OBVIOUS
  <2>1. job[v].comparison \in Comparisons /\ job[v] \in Job
    BY StartJob, LockTypes
  <2>2. PICK q \in Progress : q = Resumed(Checkpoint(job[v].comparison)) /\ q.phase # "findings"
    BY <2>1, CheckpointTypes, SameResumed DEF SameSteps
  <2>3. PICK j \in Job : j = job[v]
    BY <2>1
  <2>4. job'[v] = [j EXCEPT !.pc = "working", !.progress = q]
    BY <2>2, <2>3, LockTypes DEF Start, Set
  <2> QED BY <2>2, <2>4 DEF Job
<1>5. ASSUME StartFindings(v) PROVE job'[v].authoritative
  <2>1. UNCHANGED <<baseline, state>>
    BY <1>5 DEF StartFindings, sourceVars, row
  <2>2. LatestCandidate(c)
    BY <2>1, NamedFacts DEF Named, Exists
  <2>3. PICK j \in Job : j = job[v]
    BY LockTypes
  <2>4. job'[v] = [j EXCEPT !.pc = "evaluating", !.progress = progress[j.comparison],
                            !.authoritative = LatestCandidate(j.comparison)]
    BY <1>5, <2>3, LockTypes DEF StartFindings, Set
  <2>5. job'[v].comparison = j.comparison /\ job'[v].authoritative = LatestCandidate(j.comparison)
    BY <2>3, <2>4 DEF Job
  <2> QED BY <2>2, <2>5
<1>6. ASSUME Batches(v) PROVE job'[v].authoritative
  <2>1. PICK q \in Progress : Batch(v, q)
    BY <1>6, BatchSteps
  <2>2. job[v].comparison = c /\ job[v].pc = "working" /\ job'[v].pc = "working"
    BY <2>1, LockTypes DEF Batch, Working
  <2>3. Named(c) /\ Exists(c)
    BY <1>6, BatchesQuiet DEF QuietStep, Named, Exists
  <2>4. LatestCandidate(c) /\ (job[v].progress.phase = "findings" => job[v].authoritative)
    BY <1>0, <2>2, <2>3, NamedFacts DEF NamedSpeak
  <2> QED BY <1>6, <2>2, <2>4, BatchSpeaks
<1>7. ASSUME EvaluateBatch(v) PROVE job'[v].authoritative
  <2>1. PICK q \in Progress : Evaluated(v, q)
    BY <1>7, EvaluateSteps DEF Evaluates
  <2>2. ~Leaving(v)
    BY <2>1, LeavingJob, LockTypes DEF Evaluated, Evaluating, InJob
  <2>3. PICK k \in Job : /\ job' = [job EXCEPT ![v] = k] /\ k.comparison = job[v].comparison
                         /\ k.authoritative = job[v].authoritative
    BY <2>1, <2>2 DEF Evaluated
  <2>4. job'[v].authoritative = job[v].authoritative /\ c = job[v].comparison
    BY <2>3, LockTypes
  <2>5. job[v].pc = "evaluating" /\ Exists(c)
    BY <1>7, <2>4 DEF EvaluateBatch, Evaluating, Exists
  <2>6. CASE Named(c)
    BY <1>0, <2>4, <2>5, <2>6 DEF NamedSpeak
  <2>7. CASE ~Named(c)
    BY <1>7, <2>4, <2>7 DEF EvaluateBatch, Record, PublishIf, Named
  <2> QED BY <2>4, <2>6, <2>7
<1> QED BY <1>2, <1>3, <1>4, <1>5, <1>6, <1>7, Mover
-----------------------------------------------------------------------------
(* The theorems                                                            *)

LEMMA InitHolds ==
    ASSUME Init
    PROVE  IInv
<1>1. Queued \in Progress /\ Idle \in Job /\ Idle.pc = "idle"
  <2>1. Queued \in Progress
    BY AtStored, ComparisonsAssumption DEF Queued, Phase
  <2> QED BY <2>1, ComparisonsAssumption DEF Idle, Job
<1>2. TypeOK
  BY <1>1, ComparisonsAssumption DEF Init, TypeOK, Coverage, State, Evaluation
<1>3. JobsLocked /\ JobsHold /\ AuthorityHolds
  BY <1>1 DEF Init, JobsLocked, JobsHold, JobHolds, AuthorityHolds, InJob
<1>4. RowsHaveRuns /\ LastIsComplete /\ CheckpointsBacked /\ AttemptsLeft /\ RetriesLocked /\ CountsHold
  BY ComparisonsAssumption
  DEF Init, RowsHaveRuns, LastIsComplete, CheckpointsBacked, AttemptsLeft, RetriesLocked, CountsHold,
      Exists, Active
<1>5. CoverageNames /\ NamedSpeak /\ CoverageTruthful
  BY <1>1 DEF Init, CoverageNames, NamedSpeak, CoverageTruthful
<1> QED BY <1>2, <1>3, <1>4, <1>5 DEF IInv

\* Every reachable state satisfies the invariant: locks are held by the jobs that rely on
\* them, cursors are backed by stored rows, retries have attempts left.
THEOREM InductiveInvariant == Spec => []IInv
<1>1. Init => IInv
  BY InitHolds
<1>2. IInv /\ [Next]_vars => IInv'
  BY TypesKept, RowsKept, LastKept, CheckpointsKept, AttemptsKept, JobsLockedKept, JobsHoldKept,
     RetriesKept, AuthorityKept, CountsKept, TruthKept, SpeakKept DEF IInv, Truth
<1> QED BY <1>1, <1>2, PTL DEF Spec

\* A published comparison shows every changed row, whatever its claims went through.
THEOREM PublishedIsWhole == Spec => []PublishedWhole
<1>1. IInv => PublishedWhole
  <2> SUFFICES ASSUME IInv, NEW c \in Comparisons, state[c] = "complete"
               PROVE  resources[c] = 1 .. ResourceBatches /\ items[c] = 1 .. ItemBatches
    BY DEF PublishedWhole
  <2>1. Covers(progress[c], resources[c], items[c]) /\ progress[c].phase = "complete"
    BY RowFacts
  <2> QED BY <2>1, JobTypes DEF Covers
<1> QED BY <1>1, InductiveInvariant, PTL

\* No newer run or comparison of the source completes behind a job that acts as its latest.
THEOREM AuthorityIsKept == Spec => []AuthorityHolds
<1>1. IInv => AuthorityHolds
  BY DEF IInv
<1> QED BY <1>1, InductiveInvariant, PTL

\* What the source says of its automatic baseline is what became of that comparison, also
\* when it fails, is retried by an operator, or is finished behind a newer run's registration.
THEOREM CoverageIsTruthful == Spec => []CoverageTruthful
<1>1. IInv => CoverageTruthful
  BY DEF IInv
<1> QED BY <1>1, InductiveInvariant, PTL

\* The source's last comparison only moves to a newer run, in every step.
THEOREM LastOnlyAdvances == Spec => LastAdvances
<1>1. ASSUME IInv, [Next]_vars, last # NoComparison, last' # NoComparison
      PROVE  Current(last') >= Current(last)
  <2> USE <1>1, StateTypes
  <2>1. PICK d \in Comparisons : d = last /\ state[d] = "complete" /\ Current(d) \in Nat
    BY RunsOfComparisons, ComparisonsAssumption DEF IInv, LastIsComplete
  <2>2. CASE last' = last
    BY <2>1, <2>2
  <2>3. ASSUME NEW w \in Workers, FinishComparison(w) \/ FailFindings(w), last' # last
        PROVE  Current(last') >= Current(last)
    <3> DEFINE c == job[w].comparison
    <3>1. Working(w) /\ job[w].authoritative /\ last' = c
      BY <2>3 DEF FinishComparison, FailFindings, Show
    <3>2. c \in Comparisons /\ state[c] \in Active /\ Current(c) \in Nat
      BY <3>1, WorkingFacts, RunsOfComparisons, ComparisonsAssumption
    <3>3. LatestCandidate(c)
      BY <3>1 DEF IInv, AuthorityHolds, Working
    <3>4. ~(Current(d) > Current(c))
      BY <2>1, <3>2, <3>3 DEF LatestCandidate, Active
    <3> QED BY <2>1, <3>1, <3>2, <3>4
  <2>4. ASSUME NEW r \in Runs, DeleteRun(r) PROVE last' = last
    BY <2>4 DEF DeleteRun
  <2>5. ASSUME NEW r \in Runs, CompleteRun(r) PROVE last' = last
    BY <2>5 DEF CompleteRun
  <2>6. ASSUME NEW c \in Comparisons, CommitCreate(c) \/ CommitRetry(c) PROVE last' = last
    BY <2>6 DEF CommitCreate, CommitRetry, sourceVars
  <2>7. ASSUME NEW w \in Workers, NEW c \in Comparisons, Claim(w, c) PROVE last' = last
    BY <2>7 DEF Claim, sourceVars
  <2>8. ASSUME NEW w \in Workers, StartDisabled(w) \/ Start(w) \/ Yield(w) \/ Shutdown(w) PROVE last' = last
    BY <2>8 DEF StartDisabled, Start, Yield, Shutdown, Requeue, sourceVars
  <2>9. ASSUME NEW w \in Workers, NEW retryable \in BOOLEAN, FailComparison(w, retryable)
        PROVE  last' = last
    BY <2>9 DEF FailComparison
  <2> QED BY <2>2, <2>3, <2>4, <2>5, <2>6, <2>7, <2>8, <2>9, Frame DEF StateStep, stateVars
<1>2. IInv /\ [Next]_vars => [last # NoComparison /\ last' # NoComparison
                                  => Current(last') >= Current(last)]_vars
  BY <1>1
<1> QED BY <1>2, InductiveInvariant, PTL DEF Spec, LastAdvances

\* What one admission adds to the active comparisons.
LEMMA OneMore ==
    ASSUME IInv, NEW c \in Comparisons, NEW n \in Nat, Cardinality(ActiveComparisons) < n,
           state' = [state EXCEPT ![c] = "queued"]
    PROVE  Cardinality(ActiveComparisons') <= n
<1>1. ActiveComparisons' = ActiveComparisons \cup {c}
  BY StateTypes DEF ActiveComparisons, Active
<1>2. Cardinality(ActiveComparisons \cup {c}) <= Cardinality(ActiveComparisons) + 1
  <2>1. PICK S : S = ActiveComparisons /\ IsFiniteSet(S) /\ Cardinality(S) \in Nat
    BY CountTypes
  <2>2. Cardinality(S \cup {c}) = IF c \in S THEN Cardinality(S) ELSE Cardinality(S) + 1
    BY <2>1, FS_AddElement
  <2> QED BY <2>1, <2>2
<1>3. Cardinality(ActiveComparisons \cup {c}) \in Nat
  BY CountTypes, FS_AddElement, FS_CardinalityType
<1> QED BY <1>1, <1>2, <1>3, CountTypes

\* Requests, retries and ingests never admit more than their budget.
THEOREM CapacityIsKept == Spec => CapacityHolds
<1> DEFINE Admitted(c) ==
        state[c] \notin Active /\ state'[c] \in Active =>
            Cardinality(ActiveComparisons') <=
                (IF state[c] = "none" /\ trigger'[c] = "automatic" THEN AutomaticCap ELSE ApiCap)
<1>1. ASSUME IInv, [Next]_vars, NEW c \in Comparisons PROVE Admitted(c)
  <2> USE <1>1, StateTypes, CountTypes, ComparisonsAssumption
  <2>1. ASSUME NEW r \in Runs, CompleteRun(r) PROVE Admitted(c)
    <3>1. CASE UNCHANGED state
      BY <3>1
    <3>2. ASSUME NEW d \in Comparisons, d \in Earlier(r), CreateAutomatic(d), Enqueue(d, "automatic", Queued),
                 Cardinality(ActiveComparisons) < AutomaticCap
          PROVE  Admitted(c)
      <4>1. state' = [state EXCEPT ![d] = "queued"] /\ trigger' = [trigger EXCEPT ![d] = "automatic"]
        BY <3>2 DEF Enqueue, Set
      <4>2. state[d] = "none"
        BY <2>1, <3>2, NewRow DEF CompleteRun, Earlier, Both, Complete
      <4>3. Cardinality(ActiveComparisons') <= AutomaticCap
        BY <3>2, <4>1, OneMore
      <4> QED BY <4>1, <4>2, <4>3, LockTypes
    <3> QED BY <2>1, <3>1, <3>2 DEF CompleteRun, CreateAutomatic, Earlier, row
  <2>2. ASSUME NEW d \in Comparisons, CommitCreate(d) PROVE Admitted(c)
    <3>1. CASE UNCHANGED state
      BY <3>1
    <3>2. ASSUME Enqueue(d, "manual", Queued), lane[d] < ApiCap, state[d] = "none" PROVE Admitted(c)
      <4>1. state' = [state EXCEPT ![d] = "queued"] /\ trigger' = [trigger EXCEPT ![d] = "manual"]
        BY <3>2 DEF Enqueue, Set
      <4>2. Cardinality(ActiveComparisons) < ApiCap
        BY <2>2, <3>2 DEF CommitCreate, CountsHold
      <4>3. Cardinality(ActiveComparisons') <= ApiCap
        BY <4>1, <4>2, OneMore
      <4> QED BY <4>1, <4>3, LockTypes
    <3> QED BY <2>2, <3>1, <3>2 DEF CommitCreate, row
  <2>3. ASSUME NEW d \in Comparisons, CommitRetry(d) PROVE Admitted(c)
    <3>1. CASE UNCHANGED state
      BY <3>1
    <3>2. ASSUME Enqueue(d, trigger[d], [Queued EXCEPT !.operatorRetry = TRUE]), lane[d] < ApiCap
          PROVE  Admitted(c)
      <4>1. state' = [state EXCEPT ![d] = "queued"]
        BY <3>2 DEF Enqueue, Set
      <4>2. Cardinality(ActiveComparisons) < ApiCap /\ state[d] = "failed"
        BY <2>3, <3>2, RetryFacts DEF CommitRetry, CountsHold
      <4>3. Cardinality(ActiveComparisons') <= ApiCap
        BY <4>1, <4>2, OneMore
      <4> QED BY <4>1, <4>2, <4>3
    <3> QED BY <2>3, <3>1, <3>2 DEF CommitRetry, row
  <2>4. ASSUME NEW r \in Runs, DeleteRun(r) PROVE Admitted(c)
    BY <2>4 DEF DeleteRun, Active
  <2>5. ASSUME WorkerMoves PROVE Admitted(c)
    BY <2>5, WorkerMove DEF Moves
  <2>6. UNCHANGED stateVars => Admitted(c)
    BY DEF stateVars
  <2> HIDE DEF Admitted
  <2> QED BY <2>1, <2>2, <2>3, <2>4, <2>5, <2>6, Frame DEF StateStep, WorkerMoves, stateVars
<1>2. IInv /\ [Next]_vars => [\A c \in Comparisons : Admitted(c)]_vars
  BY <1>1
<1> QED BY <1>2, InductiveInvariant, PTL DEF Spec, CapacityHolds

-----------------------------------------------------------------------------
(* Permission evidence and change rows                                     *)

\* A comparable assessment keeps the whole list: the entries that were stored are as many
\* as the collector saw, and it saw all of them (HashEligible, SmbClaim, GraphClaim).
LEMMA SameSize ==
    ASSUME NEW S, NEW T \in SUBSET S, IsFiniteSet(S), Cardinality(T) = Cardinality(S)
    PROVE  T = S
<1>1. Cardinality(T) <= Cardinality(S) /\ (Cardinality(T) = Cardinality(S) => T = S)
    BY FS_Subset
<1> QED BY <1>1

\* What a comparable assessment was computed from.
LEMMA ComparableIsEligible ==
    ASSUME NEW provider \in Providers, NEW claim, NEW stored,
           Comparable(provider, Reconcile(provider, claim, stored))
    PROVE  /\ HashEligible(provider, claim, stored)
           /\ Reconcile(provider, claim, stored).hash = <<claim.head, stored>>
           /\ Reconcile(provider, claim, stored).emitted = Cardinality(stored)
<1> DEFINE a == Reconcile(provider, claim, stored)
<1>1. a.hash = IF HashEligible(provider, claim, stored) THEN <<claim.head, stored>> ELSE Null
    BY DEF Reconcile
<1>2. a.emitted = claim.emitted
    BY DEF Reconcile
<1>3. a.hash # Null
    BY DEF Comparable
<1>4. HashEligible(provider, claim, stored)
    BY <1>1, <1>3
<1> QED BY <1>1, <1>2, <1>4 DEF HashEligible, CountsMatch

LEMMA SmbIsWhole ==
    ASSUME NEW acl \in AccessLists("smb"), NEW r \in SmbReadings(acl),
           NEW stored \in SUBSET r.kept, HashEligible("smb", r.claim, stored)
    PROVE  r.claim.head = acl.head /\ stored = acl.entries
<1>1. PICK p \in (SUBSET acl.entries) \X (SUBSET acl.entries)
                  \X {"none", "query", "parse", "errors"} \X BOOLEAN :
          r = [claim |-> SmbClaim(acl, p[1], p[2], p[3], p[4]),
               kept  |-> IF p[3] \in {"query", "parse"} THEN {} ELSE p[1]]
    BY DEF SmbReadings
<1>2. r.claim = SmbClaim(acl, p[1], p[2], p[3], p[4]) /\ p[1] \in SUBSET acl.entries
    BY <1>1
<1>3. r.claim.state = "complete" /\ r.claim.observed = r.claim.emitted
          /\ Cardinality(stored) = r.claim.emitted
    BY DEF HashEligible, CountsMatch
<1>4. p[3] \notin {"query", "parse"}
    BY <1>2, <1>3 DEF SmbClaim, Unread
<1>5. r.claim.head = acl.head /\ r.claim.observed = Cardinality(acl.entries)
    BY <1>2, <1>4 DEF SmbClaim
<1>6. r.kept = p[1]
    BY <1>1, <1>4
<1>7. stored \in SUBSET acl.entries /\ IsFiniteSet(acl.entries)
    BY <1>2, <1>6 DEF AccessLists
<1> QED BY <1>3, <1>5, <1>7, SameSize

LEMMA GraphIsWhole ==
    ASSUME NEW acl \in AccessLists("sharepoint"), NEW r \in GraphReadings(acl),
           NEW stored \in SUBSET r.kept, HashEligible("sharepoint", r.claim, stored)
    PROVE  r.claim.head = acl.head /\ stored = acl.entries
<1>1. PICK q \in (SUBSET acl.entries) \X (SUBSET acl.entries)
                  \X (0 .. Cardinality(acl.entries)) \X BOOLEAN \X BOOLEAN :
          /\ q[2] \subseteq q[1]
          /\ q[4] \/ q[1] = acl.entries \/ q[3] > 0
          /\ r = [claim |-> GraphClaim(q[1], q[2], q[3], q[4], q[5]), kept |-> q[2]]
    BY DEF GraphReadings
<1>2. r.claim = GraphClaim(q[1], q[2], q[3], q[4], q[5]) /\ r.kept = q[2]
    BY <1>1
<1>3. r.claim.state = "complete" /\ r.claim.observed = r.claim.emitted
          /\ Cardinality(stored) = r.claim.emitted
    BY DEF HashEligible, CountsMatch
<1>4. ~q[4] /\ q[3] = 0
    BY <1>2, <1>3 DEF GraphClaim
<1>5. r.claim.head = NoHead /\ r.claim.observed = Cardinality(q[1])
    BY <1>2 DEF GraphClaim
<1>6. acl.head = NoHead /\ IsFiniteSet(acl.entries)
    BY DEF AccessLists
<1>7. q[1] = acl.entries
    BY <1>1, <1>4
<1>8. stored \in SUBSET acl.entries
    BY <1>1, <1>2, <1>7
<1> QED BY <1>3, <1>5, <1>6, <1>7, <1>8, SameSize

\* The same of either provider, with the number of entries that a summary also compares.
LEMMA ComparableIsWhole ==
    ASSUME NEW provider \in Providers, NEW acl \in AccessLists(provider),
           NEW a \in Assessments(provider, acl), Comparable(provider, a)
    PROVE  a.hash = <<acl.head, acl.entries>> /\ a.emitted = Cardinality(acl.entries)
<1>1. \E r \in Readings(provider, acl) : \E stored \in SUBSET r.kept :
          a = Reconcile(provider, r.claim, stored)
    <2>1. PICK p \in UNION {{r} \X SUBSET r.kept : r \in Readings(provider, acl)} :
              a = Reconcile(provider, p[1].claim, p[2])
        BY DEF Assessments
    <2>2. PICK r \in Readings(provider, acl) : p \in {r} \X SUBSET r.kept
        BY <2>1
    <2>3. p[1] = r /\ p[2] \in SUBSET r.kept
        BY <2>2
    <2> QED BY <2>1, <2>3
<1> PICK r \in Readings(provider, acl) : \E stored \in SUBSET r.kept :
          a = Reconcile(provider, r.claim, stored)
    BY <1>1
<1> PICK stored \in SUBSET r.kept : a = Reconcile(provider, r.claim, stored)
    OBVIOUS
<1>2. /\ HashEligible(provider, r.claim, stored)
      /\ a.hash = <<r.claim.head, stored>> /\ a.emitted = Cardinality(stored)
    BY ComparableIsEligible
<1>3. CASE provider = "smb"
    BY <1>2, <1>3, SmbIsWhole DEF Readings
<1>4. CASE provider = "sharepoint"
    BY <1>2, <1>4, GraphIsWhole DEF Readings
<1> QED BY <1>3, <1>4 DEF Providers

\* Evidence that a comparison may use is the whole list that was on the host, whatever the
\* collector left out and whatever was lost between it and the assessment.
THEOREM EvidenceHolds == EvidenceIsTruth
BY ComparableIsWhole DEF EvidenceIsTruth

\* A run that says its permissions are complete has a comparable summary of every resource
\* it found: the claim on the run and the summaries a comparison reads do not disagree.
THEOREM CompleteIsComparable ==
    ASSUME NEW provider \in Providers, NEW declared, NEW expected, NEW inventory, NEW rejected,
           IsFiniteSet(inventory),
           NEW rows, DOMAIN rows \subseteq inventory \X Subjects,
           \A p \in DOMAIN rows :
               \E acl \in AccessLists(provider) : rows[p] \in Assessments(provider, acl),
           PermissionsComplete(declared, expected, inventory, rejected, rows),
           NEW resource \in inventory
    PROVE  LET subjects == {s \in Subjects : <<resource, s>> \in DOMAIN rows}
               summary  == Summary(provider, [s \in subjects |-> rows[<<resource, s>>]])
           IN  summary.available /\ summary.comparable
<1> DEFINE subjects == {s \in Subjects : <<resource, s>> \in DOMAIN rows}
           own      == [s \in subjects |-> rows[<<resource, s>>]]
<1>1. subjects # {}
    <2>0. inventory = {p[1] : p \in DOMAIN rows}
        <3> DEFINE seen == {p[1] : p \in DOMAIN rows}
        <3>1. seen \in SUBSET inventory
            OBVIOUS
        <3>2. Cardinality(inventory) <= Cardinality(seen)
            BY DEF PermissionsComplete
        <3> HIDE DEF seen
        <3>3. Cardinality(seen) <= Cardinality(inventory)
            BY <3>1, FS_Subset
        <3>4. Cardinality(seen) \in Nat /\ Cardinality(inventory) \in Nat
            BY <3>1, FS_Subset, FS_CardinalityType
        <3>5. Cardinality(seen) = Cardinality(inventory)
            BY <3>2, <3>3, <3>4
        <3> QED BY <3>1, <3>5, SameSize DEF seen
    <2>1. PICK p \in DOMAIN rows : p[1] = resource
        BY <2>0
    <2>2. p = <<resource, p[2]>> /\ p[2] \in Subjects
        BY <2>1
    <2> QED BY <2>1, <2>2
<1>2. ASSUME NEW s \in subjects
      PROVE  Comparable(provider, own[s])
    <2>1. own[s] = rows[<<resource, s>>] /\ <<resource, s>> \in DOMAIN rows
        OBVIOUS
    <2> HIDE DEF own
    <2>2. \E acl \in AccessLists(provider) : own[s] \in Assessments(provider, acl)
        BY <2>1
    <2>3. \E claim : \E stored : own[s] = Reconcile(provider, claim, stored)
        BY <2>2 DEF Assessments
    <2>4. PICK claim, stored : own[s] = Reconcile(provider, claim, stored)
        BY <2>3
    <2>5. ~Incomplete(own[s])
        BY <2>1 DEF PermissionsComplete
    <2>6. HashEligible(provider, claim, stored) /\ own[s].stored = stored
              /\ own[s].emitted = claim.emitted
        BY <2>4, <2>5 DEF Incomplete, Reconcile
    <2> QED BY <2>5, <2>6 DEF Incomplete, Comparable, HashEligible, CountsMatch
<1>3. DOMAIN own = subjects
    OBVIOUS
<1> HIDE DEF own, subjects
<1>4. /\ Summary(provider, own).available
      /\ Summary(provider, own).comparable = \A s \in DOMAIN own : Comparable(provider, own[s])
    BY <1>1, <1>3 DEF Summary
<1> QED BY <1>2, <1>3, <1>4 DEF own, subjects

-----------------------------------------------------------------------------
(* What a comparison concludes                                             *)

\* Categories of a resource that both runs have.
LEMMA Said ==
    ASSUME NEW provider, NEW ok, NEW b, NEW c, b # NoSide, c # NoSide
    PROVE  /\ "location" \in Categories(provider, ok, b, c) <=> LocationChanged(ok, b, c)
           /\ "structure_not_comparable" \in Categories(provider, ok, b, c)
                 <=> LocationIndeterminate(ok, b, c)
           /\ "access" \in Categories(provider, ok, b, c) <=> AccessChanged(ok, b, c)
           /\ "permission_evidence" \in Categories(provider, ok, b, c)
                 <=> PermissionsChanged(ok, b, c)
           /\ "item_count" \in Categories(provider, ok, b, c) <=> ItemCountChanged(ok, b, c)
           /\ "access_not_comparable" \in Categories(provider, ok, b, c)
                 <=> AccessIndeterminate(ok, b, c)
           /\ "exposure_not_comparable" \in Categories(provider, ok, b, c)
                 <=> ExposureIndeterminate(b, c)
           /\ "permission_evidence_not_comparable" \in Categories(provider, ok, b, c)
                 <=> PermissionsIndeterminate(provider, ok, b, c)
           /\ "item_count_not_comparable" \in Categories(provider, ok, b, c)
                 <=> ContentIndeterminate(ok, b, c)
BY DEF Categories, Flag

\* A resource with a row is never taken for one without.
LEMMA RowIsThere == \A perm : WithPermissions(perm) # NoSide
<1> TAKE perm
<1>1. "absent" \in DOMAIN NoSide /\ "absent" \notin DOMAIN WithPermissions(perm)
    BY DEF NoSide, WithPermissions
<1> QED BY <1>1

\* What one run saw of a subject it assessed.
LEMMA Witness ==
    ASSUME NEW provider \in Providers, NEW seen \in [Subjects -> Observed(provider)],
           NEW s \in Subjects
    PROVE  /\ seen[s].acl \in AccessLists(provider)
           /\ seen[s].row # NoSide => seen[s].row \in Assessments(provider, seen[s].acl)
<1>1. seen[s] \in Observed(provider)
    OBVIOUS
<1>2. PICK acl \in AccessLists(provider) :
          \E a \in Assessments(provider, acl) \cup {NoSide} : seen[s] = [acl |-> acl, row |-> a]
    BY <1>1 DEF Observed
<1> QED BY <1>2

LEMMA SummaryOf ==
    ASSUME NEW provider, NEW rows, DOMAIN rows # {}, Summary(provider, rows).comparable
    PROVE  /\ \A s \in DOMAIN rows : Comparable(provider, rows[s])
           /\ Summary(provider, rows).evidence =
                 [s \in DOMAIN rows |-> <<rows[s].hash, rows[s].emitted>>]
           /\ Summary(provider, rows).quality = [s \in DOMAIN rows |-> Quality(rows[s])]
<1>1. Summary(provider, rows) =
        [available  |-> TRUE,
         comparable |-> \A s \in DOMAIN rows : Comparable(provider, rows[s]),
         exact      |-> \A s \in DOMAIN rows : rows[s].negative /\ rows[s].exhaustive,
         evidence   |-> [s \in DOMAIN rows |-> <<rows[s].hash, rows[s].emitted>>],
         quality    |-> [s \in DOMAIN rows |-> Quality(rows[s])]]
    BY DEF Summary
<1> QED BY <1>1

\* The evidence of a comparable summary is what was on the host.
LEMMA StoredIsTrue ==
    ASSUME NEW provider \in Providers, NEW seen \in [Subjects -> Observed(provider)],
           Stored(provider, seen).available, Stored(provider, seen).comparable
    PROVE  LET assessed == {s \in Subjects : seen[s].row # NoSide} IN
           /\ Stored(provider, seen).evidence =
                 [s \in assessed |-> << <<seen[s].acl.head, seen[s].acl.entries>>,
                                       Cardinality(seen[s].acl.entries) >>]
           /\ DOMAIN Stored(provider, seen).quality = assessed
<1> DEFINE assessed == {s \in Subjects : seen[s].row # NoSide}
           rows     == [s \in assessed |-> seen[s].row]
<1>1. Stored(provider, seen) = Summary(provider, rows) /\ DOMAIN rows = assessed
    BY DEF Stored
<1>2. DOMAIN rows # {}
    BY <1>1 DEF Summary, NoSummary
<1>3. /\ \A s \in DOMAIN rows : Comparable(provider, rows[s])
      /\ Stored(provider, seen).evidence = [s \in DOMAIN rows |-> <<rows[s].hash, rows[s].emitted>>]
      /\ Stored(provider, seen).quality = [s \in DOMAIN rows |-> Quality(rows[s])]
    <2>1. Summary(provider, rows).comparable
        BY <1>1
    <2> HIDE DEF rows
    <2> QED BY <1>1, <1>2, <2>1, SummaryOf
<1>4. ASSUME NEW s \in assessed
      PROVE  /\ rows[s].hash = <<seen[s].acl.head, seen[s].acl.entries>>
             /\ rows[s].emitted = Cardinality(seen[s].acl.entries)
    <2>1. rows[s] = seen[s].row /\ s \in Subjects
        OBVIOUS
    <2>2. seen[s].acl \in AccessLists(provider) /\ rows[s] \in Assessments(provider, seen[s].acl)
        BY <2>1, Witness
    <2>3. Comparable(provider, rows[s])
        BY <1>1, <1>3
    <2> HIDE DEF rows
    <2> QED BY <2>2, <2>3, ComparableIsWhole
<1>5. Stored(provider, seen).evidence =
          [s \in assessed |-> << <<seen[s].acl.head, seen[s].acl.entries>>,
                                Cardinality(seen[s].acl.entries) >>]
    <2>1. Stored(provider, seen).evidence = [s \in assessed |-> <<rows[s].hash, rows[s].emitted>>]
        BY <1>1, <1>3
    <2> HIDE DEF rows
    <2> QED BY <1>4, <2>1
<1> QED BY <1>1, <1>3, <1>5

\* Two histories whose rollups can be compared assessed the same subjects.
LEMMA ComparedHistories ==
    ASSUME NEW provider \in Providers,
           NEW seen \in [Subjects -> Observed(provider)],
           NEW later \in [Subjects -> Observed(provider)],
           RollupComparable(WithPermissions(Stored(provider, seen)),
                            WithPermissions(Stored(provider, later)))
    PROVE  LET assessed == {s \in Subjects : seen[s].row # NoSide} IN
           /\ assessed = {s \in Subjects : later[s].row # NoSide}
           /\ Stored(provider, seen).evidence = Stored(provider, later).evidence
                 <=> \A s \in assessed : seen[s].acl = later[s].acl
<1> DEFINE b        == Stored(provider, seen)
           c        == Stored(provider, later)
           assessed == {s \in Subjects : seen[s].row # NoSide}
           Facts(x, s) == << <<x[s].acl.head, x[s].acl.entries>>, Cardinality(x[s].acl.entries) >>
<1>1. /\ b.available /\ b.comparable /\ c.available /\ c.comparable
      /\ b.quality = c.quality
    BY DEF RollupComparable, WithPermissions
<1>2. b.evidence = [s \in assessed |-> Facts(seen, s)] /\ DOMAIN b.quality = assessed
    BY <1>1, StoredIsTrue
<1>3. /\ c.evidence = [s \in {t \in Subjects : later[t].row # NoSide} |-> Facts(later, s)]
      /\ DOMAIN c.quality = {s \in Subjects : later[s].row # NoSide}
    BY <1>1, StoredIsTrue
<1>4. assessed = {s \in Subjects : later[s].row # NoSide}
    BY <1>1, <1>2, <1>3
<1>5. ASSUME NEW s \in assessed
      PROVE  Facts(seen, s) = Facts(later, s) <=> seen[s].acl = later[s].acl
    <2>1. seen[s].acl \in AccessLists(provider) /\ later[s].acl \in AccessLists(provider)
        BY Witness
    <2>2. seen[s].acl = later[s].acl
            <=> /\ seen[s].acl.head = later[s].acl.head
                /\ seen[s].acl.entries = later[s].acl.entries
        BY <2>1 DEF AccessLists
    <2> QED BY <2>2
<1>6. b.evidence = c.evidence <=> \A s \in assessed : Facts(seen, s) = Facts(later, s)
    BY <1>2, <1>3, <1>4
<1> QED BY <1>4, <1>5, <1>6

\* What a comparison says of permissions is so on the hosts: evidence is reported as changed
\* when an assessed list did change, access as unchanged when none did.
THEOREM TrueConclusions == EveryConclusionIsTrue
<1> SUFFICES ASSUME NEW provider \in Providers,
                    NEW seen \in [Subjects -> Observed(provider)],
                    NEW later \in [Subjects -> Observed(provider)],
                    NEW direct \in BOOLEAN
             PROVE  ConclusionTrue(provider, Witnessed(provider, seen),
                                   Witnessed(provider, later), direct)
    BY DEF EveryConclusionIsTrue
<1> DEFINE before == Witnessed(provider, seen)
           after  == Witnessed(provider, later)
           b  == WithPermissions(before.perm)
           c  == WithPermissions(after.perm)
           ok == Interpreted(direct)
<1>1. b # NoSide /\ c # NoSide
    BY RowIsThere
<1>2. b.perm = Stored(provider, seen) /\ c.perm = Stored(provider, later)
    BY DEF Witnessed, WithPermissions
<1>3. b = WithPermissions(Stored(provider, seen)) /\ c = WithPermissions(Stored(provider, later))
    BY DEF Witnessed
<1>4. /\ before.assessed = {s \in Subjects : seen[s].row # NoSide}
      /\ after.assessed = {s \in Subjects : later[s].row # NoSide}
      /\ \A s \in Subjects : before.acl[s] = seen[s].acl /\ after.acl[s] = later[s].acl
    BY DEF Witnessed
<1>5. ASSUME Interpretation(provider, ok, b, c) \in {"scope_complete_changed", "observed_changed"}
      PROVE  \E s \in before.assessed \cap after.assessed : before.acl[s] # after.acl[s]
    <2>1. "permission_evidence" \in Categories(provider, ok, b, c)
        BY <1>5 DEF Interpretation
    <2>2. DirectComparable(ok, b, c) /\ EvidenceDiffers(b, c)
        BY <1>1, <2>1, Said DEF PermissionsChanged
    <2>3. RollupComparable(b, c) /\ b.perm.evidence # c.perm.evidence
        BY <2>2 DEF DirectComparable, EvidenceDiffers
    <2> QED BY <1>2, <1>3, <1>4, <2>3, ComparedHistories
<1>6. ASSUME AccessState(provider, ok, b, c) = "unchanged"
      PROVE  /\ before.assessed = after.assessed
             /\ \A s \in before.assessed : before.acl[s] = after.acl[s]
    <2>1. /\ "permission_evidence" \notin Categories(provider, ok, b, c)
          /\ DirectComparable(ok, b, c) \/ CapabilityComparable(ok, b, c)
        BY <1>1, <1>6 DEF AccessState
    <2>2. ~CapabilityComparable(ok, b, c)
        BY <1>3 DEF CapabilityComparable, WithPermissions
    <2>3. DirectComparable(ok, b, c) /\ ~EvidenceDiffers(b, c)
        BY <1>1, <2>1, <2>2, Said DEF PermissionsChanged
    <2>4. RollupComparable(b, c) /\ b.perm.evidence = c.perm.evidence
        BY <2>3 DEF DirectComparable, EvidenceDiffers, RollupComparable
    <2> QED BY <1>2, <1>3, <1>4, <2>4, ComparedHistories
<1> QED BY <1>5, <1>6 DEF ConclusionTrue

-----------------------------------------------------------------------------
(* What the worker lets a run claim of its inventory                       *)

\* A run may claim its structure complete only when every endpoint and resource its
\* collector wrote became a row, and its content only when every item did too.
THEOREM ClaimedIsStored ==
    ASSUME NEW declared, NEW rejected, NEW written, NEW stored, NEW kind,
           IsFiniteSet(written[kind]), stored[kind] \subseteq written[kind],
           NEW produced, produced[kind] = Cardinality(written[kind]),
           NEW persisted, persisted[kind] = Cardinality(stored[kind])
    PROVE  LET claims == InventoryClaims(declared, produced, persisted, rejected)
           IN  /\ kind \in {"endpoints", "resources"} /\ claims.structural =>
                     stored[kind] = written[kind]
               /\ kind = "items" /\ claims.content => stored[kind] = written[kind]
<1>1. produced[kind] = persisted[kind] => stored[kind] = written[kind]
    <2> DEFINE S == written[kind]
               T == stored[kind]
    <2>1. T \in SUBSET S /\ IsFiniteSet(S)
        OBVIOUS
    <2>2. produced[kind] = persisted[kind] => Cardinality(T) = Cardinality(S)
        OBVIOUS
    <2> HIDE DEF S, T
    <2>3. produced[kind] = persisted[kind] => T = S
        BY <2>1, <2>2, SameSize
    <2> QED BY <2>3 DEF S, T
<1> QED BY <1>1 DEF InventoryClaims, ContentVerified, StructureVerified

-----------------------------------------------------------------------------
(* What a row says of a resource that both runs have                       *)

LEMMA SidesAreThere ==
    /\ \A b \in Baselines \cup Currents : b # NoSide
    /\ \A perm : \A b \in Elsewhere(WithPermissions(perm)) : b # NoSide
<1>1. "absent" \in DOMAIN NoSide
    BY DEF NoSide
<1>2. /\ \A b \in Baselines : "absent" \notin DOMAIN b
      /\ \A b \in Currents : "absent" \notin DOMAIN b
    BY DEF Baselines, Currents
<1>3. \A perm : \A b \in Elsewhere(WithPermissions(perm)) : "absent" \notin DOMAIN b
    BY DEF Elsewhere, WithPermissions
<1> QED BY <1>1, <1>2, <1>3

\* A summary of a run that differs from the other's differs in what a comparison looks at.
Summaries == Permissions({0} \cup Values, {0} \cup Values)

LEMMA PairsAreRows ==
    ASSUME NEW p \in Pairs
    PROVE  /\ p[1] # NoSide /\ p[2] # NoSide
           /\ p[1].perm \in Summaries /\ p[2].perm \in Summaries
<1>1. CASE p \in Baselines \X Currents
    <2>1. p[1] \in Baselines /\ p[2] \in Currents
        BY <1>1
    <2>2. p[1].perm \in Permissions({0}, {0}) /\ p[2].perm \in Permissions(Values, Values)
        BY <2>1 DEF Baselines, Currents
    <2>3. Permissions({0}, {0}) \subseteq Summaries /\ Permissions(Values, Values) \subseteq Summaries
        BY DEF Summaries, Permissions
    <2> QED BY <2>1, <2>2, <2>3, SidesAreThere
<1>2. CASE p \in Elsewhere(WithPermissions(NoSummary)) \X Elsewhere(WithPermissions(NoSummary))
    <2>1. /\ p[1] \in Elsewhere(WithPermissions(NoSummary))
          /\ p[2] \in Elsewhere(WithPermissions(NoSummary))
        BY <1>2
    <2>2. \A b \in Elsewhere(WithPermissions(NoSummary)) : b.perm = NoSummary
        BY DEF Elsewhere, WithPermissions
    <2> QED BY <2>1, <2>2, SidesAreThere DEF Summaries, Permissions
<1> QED BY <1>1, <1>2 DEF Pairs

LEMMA SummariesDiffer ==
    ASSUME NEW x \in Summaries, NEW y \in Summaries, x # y
    PROVE  \/ x.available # y.available \/ x.comparable # y.comparable \/ x.quality # y.quality
           \/ x.available /\ y.available /\ x.evidence # y.evidence
<1> DEFINE Made == [available: {TRUE}, comparable: BOOLEAN, exact: {FALSE},
                    evidence: {0} \cup Values, quality: {0} \cup Values]
<1>1. x \in {NoSummary} \cup Made /\ y \in {NoSummary} \cup Made
    BY DEF Summaries, Permissions
<1>2. NoSummary.available = FALSE
    BY DEF NoSummary
<1>3. \A z \in Made : z.available = TRUE /\ z.exact = FALSE
    OBVIOUS
<1>4. CASE x \in Made /\ y \in Made
    <2>1. x.available /\ y.available /\ x.exact = y.exact /\ x.available = y.available
        BY <1>3, <1>4
    <2>2. \/ x.available # y.available \/ x.comparable # y.comparable \/ x.exact # y.exact
          \/ x.evidence # y.evidence \/ x.quality # y.quality
        BY <1>4
    <2> QED BY <2>1, <2>2
<1> QED BY <1>1, <1>2, <1>3, <1>4

\* A plane that differs is named by a category, as changed or as not comparable.
LEMMA DifferencesNamed ==
    ASSUME NEW provider, NEW ok \in Planes, NEW p \in Pairs
    PROVE  PlanesAreNamed(provider, ok, p[1], p[2])
<1> DEFINE b == p[1]
           c == p[2]
           said == Categories(provider, ok, b, c)
<1>1. b # NoSide /\ c # NoSide /\ b.perm \in Summaries /\ c.perm \in Summaries
    BY PairsAreRows
<1> HIDE DEF b, c
<1>2. b.location # c.location => said \cap {"location", "structure_not_comparable"} # {}
    BY <1>1, Said DEF LocationChanged, LocationIndeterminate
<1>3. b.items # c.items => said \cap {"item_count", "item_count_not_comparable"} # {}
    BY <1>1, Said DEF ItemCountChanged, ContentIndeterminate
<1>4. b.exposure # c.exposure => said \cap {"exposure_not_comparable"} # {}
    BY <1>1, Said DEF ExposureIndeterminate
<1>5. b.caps # c.caps => said \cap {"access", "access_not_comparable"} # {}
    <2>1. b.caps # c.caps => AccessChanged(ok, b, c) \/ AccessIndeterminate(ok, b, c)
        BY DEF AccessChanged, AccessIndeterminate, CapabilityComparable
    <2> QED BY <1>1, <2>1, Said
<1>6. b.perm # c.perm =>
          said \cap {"permission_evidence", "permission_evidence_not_comparable"} # {}
    <2>1. b.perm # c.perm => QualityDiffers(b, c) \/ EvidenceDiffers(b, c)
        BY <1>1, SummariesDiffer DEF QualityDiffers, EvidenceDiffers
    <2>2. QualityDiffers(b, c) \/ EvidenceDiffers(b, c) =>
              PermissionsChanged(ok, b, c) \/ PermissionsIndeterminate(provider, ok, b, c)
        BY DEF PermissionsChanged, PermissionsIndeterminate
    <2> QED BY <1>1, <2>1, <2>2, Said
<1>7. said # {} <=> ChangeType(provider, ok, b, c) # "none"
    <2> HIDE DEF said
    <2>1. ChangeType(provider, ok, b, c) =
              IF said \cap Definite # {} THEN "changed"
              ELSE IF said # {} THEN "indeterminate" ELSE "none"
        BY <1>1 DEF ChangeType, said
    <2> QED BY <2>1
<1> QED BY <1>2, <1>3, <1>4, <1>5, <1>6, <1>7 DEF PlanesAreNamed, b, c

\* Access is "unchanged" when every plane that a run observed could be compared, and is equal.
LEMMA Earned ==
    ASSUME NEW provider, NEW ok, NEW b, NEW c, b # NoSide, c # NoSide
    PROVE  UnchangedIsEarned(provider, ok, b, c)
<1> DEFINE said == Categories(provider, ok, b, c)
<1> SUFFICES ASSUME AccessState(provider, ok, b, c) = "unchanged"
             PROVE  /\ b.exposure = c.exposure
                    /\ (b.caps # Unobserved \/ c.caps # Unobserved) =>
                          CapabilityComparable(ok, b, c) /\ b.caps = c.caps /\ b.level = c.level
                    /\ EvidencePresent(b, c) => DirectComparable(ok, b, c) /\ ~EvidenceDiffers(b, c)
    BY DEF UnchangedIsEarned
<1>1. /\ "access" \notin said /\ "permission_evidence" \notin said
      /\ "access_not_comparable" \notin said /\ "exposure_not_comparable" \notin said
      /\ "permission_evidence_not_comparable" \notin said
    BY DEF AccessState
<1>2. /\ ~AccessChanged(ok, b, c) /\ ~PermissionsChanged(ok, b, c)
      /\ ~AccessIndeterminate(ok, b, c) /\ ~ExposureIndeterminate(b, c)
      /\ ~PermissionsIndeterminate(provider, ok, b, c)
    BY <1>1, Said
<1>3. b.exposure = c.exposure
    BY <1>2 DEF ExposureIndeterminate
<1>4. (b.caps # Unobserved \/ c.caps # Unobserved) =>
          CapabilityComparable(ok, b, c) /\ b.caps = c.caps /\ b.level = c.level
    BY <1>2 DEF AccessChanged, AccessIndeterminate, CapabilityComparable
<1>5. EvidencePresent(b, c) => DirectComparable(ok, b, c) /\ ~EvidenceDiffers(b, c)
    BY <1>2 DEF PermissionsChanged, PermissionsIndeterminate
<1> QED BY <1>3, <1>4, <1>5

LEMMA TestsMirror ==
    ASSUME NEW provider, NEW ok, NEW b, NEW c
    PROVE  /\ LocationChanged(ok, c, b) <=> LocationChanged(ok, b, c)
           /\ LocationIndeterminate(ok, c, b) <=> LocationIndeterminate(ok, b, c)
           /\ AccessChanged(ok, c, b) <=> AccessChanged(ok, b, c)
           /\ PermissionsChanged(ok, c, b) <=> PermissionsChanged(ok, b, c)
           /\ ItemCountChanged(ok, c, b) <=> ItemCountChanged(ok, b, c)
           /\ AccessIndeterminate(ok, c, b) <=> AccessIndeterminate(ok, b, c)
           /\ ExposureIndeterminate(c, b) <=> ExposureIndeterminate(b, c)
           /\ PermissionsIndeterminate(provider, ok, c, b)
                 <=> PermissionsIndeterminate(provider, ok, b, c)
           /\ ContentIndeterminate(ok, c, b) <=> ContentIndeterminate(ok, b, c)
           /\ DirectComparable(ok, c, b) <=> DirectComparable(ok, b, c)
           /\ CapabilityComparable(ok, c, b) <=> CapabilityComparable(ok, b, c)
           /\ EvidencePresent(c, b) <=> EvidencePresent(b, c)
<1>1. RollupComparable(c, b) <=> RollupComparable(b, c)
    BY DEF RollupComparable
<1>2. DirectComparable(ok, c, b) <=> DirectComparable(ok, b, c)
    BY <1>1 DEF DirectComparable
<1>3. CapabilityComparable(ok, c, b) <=> CapabilityComparable(ok, b, c)
    BY DEF CapabilityComparable
<1>4. EvidencePresent(c, b) <=> EvidencePresent(b, c)
    BY DEF EvidencePresent
<1>5. EvidenceDiffers(c, b) <=> EvidenceDiffers(b, c)
    BY DEF EvidenceDiffers
<1>6. QualityDiffers(c, b) <=> QualityDiffers(b, c)
    BY DEF QualityDiffers
<1>7. /\ LocationChanged(ok, c, b) <=> LocationChanged(ok, b, c)
      /\ LocationIndeterminate(ok, c, b) <=> LocationIndeterminate(ok, b, c)
      /\ ItemCountChanged(ok, c, b) <=> ItemCountChanged(ok, b, c)
      /\ ExposureIndeterminate(c, b) <=> ExposureIndeterminate(b, c)
      /\ ContentIndeterminate(ok, c, b) <=> ContentIndeterminate(ok, b, c)
    BY DEF LocationChanged, LocationIndeterminate, ItemCountChanged, ExposureIndeterminate,
           ContentIndeterminate
<1>8. AccessChanged(ok, c, b) <=> AccessChanged(ok, b, c)
    BY <1>3 DEF AccessChanged
<1>9. AccessIndeterminate(ok, c, b) <=> AccessIndeterminate(ok, b, c)
    BY DEF AccessIndeterminate
<1>10. PermissionsChanged(ok, c, b) <=> PermissionsChanged(ok, b, c)
    BY <1>2, <1>5 DEF PermissionsChanged
<1>11. PermissionsIndeterminate(provider, ok, c, b)
           <=> PermissionsIndeterminate(provider, ok, b, c)
    BY <1>2, <1>4, <1>5, <1>6 DEF PermissionsIndeterminate
<1> QED BY <1>2, <1>3, <1>4, <1>7, <1>8, <1>9, <1>10, <1>11

\* What is said of a resource does not depend on which run is the baseline.
LEMMA RowsMirror ==
    ASSUME NEW provider, NEW ok, NEW b, NEW c, b # NoSide, c # NoSide
    PROVE  Mirrored(provider, ok, b, c)
<1> DEFINE said == Categories(provider, ok, b, c)
<1>1. Categories(provider, ok, c, b) = said
    BY TestsMirror DEF Categories, Flag
<1>2. ChangeType(provider, ok, b, c) \in {"changed", "indeterminate", "none"}
          /\ ChangeType(provider, ok, c, b) = ChangeType(provider, ok, b, c)
    <2>1. ChangeType(provider, ok, b, c) =
              IF said \cap Definite # {} THEN "changed"
              ELSE IF said # {} THEN "indeterminate" ELSE "none"
        BY DEF ChangeType
    <2>2. ChangeType(provider, ok, c, b) =
              IF said \cap Definite # {} THEN "changed"
              ELSE IF said # {} THEN "indeterminate" ELSE "none"
        BY <1>1 DEF ChangeType
    <2> QED BY <2>1, <2>2
<1>3. StructuralState(ok, b, c) \in {"changed", "indeterminate", "unchanged"}
          /\ StructuralState(ok, c, b) = StructuralState(ok, b, c)
    BY TestsMirror DEF StructuralState
<1>4. AccessState(provider, ok, c, b) = AccessState(provider, ok, b, c)
    BY <1>1, TestsMirror DEF AccessState
<1> QED BY <1>1, <1>2, <1>3, <1>4 DEF Mirrored, Mirror

LEMMA AbsenceMirrors ==
    ASSUME NEW provider, NEW ok, NEW b, b # NoSide
    PROVE  Mirrored(provider, ok, b, NoSide)
<1>1. /\ Categories(provider, ok, NoSide, b) = {}
      /\ Categories(provider, ok, b, NoSide) = {}
    BY DEF Categories
<1>2. /\ ChangeType(provider, ok, NoSide, b) = Presence(ok, "appeared")
      /\ ChangeType(provider, ok, b, NoSide) = Presence(ok, "disappeared")
    BY <1>1 DEF ChangeType
<1>3. /\ StructuralState(ok, NoSide, b) = Presence(ok, "appeared")
      /\ StructuralState(ok, b, NoSide) = Presence(ok, "disappeared")
    BY DEF StructuralState
<1>4. /\ AccessState(provider, ok, NoSide, b) = "not_comparable"
      /\ AccessState(provider, ok, b, NoSide) = "not_comparable"
    BY DEF AccessState
<1>5. Presence(ok, "appeared") = Mirror(Presence(ok, "disappeared"))
    BY DEF Presence, Mirror
<1> QED BY <1>1, <1>2, <1>3, <1>4, <1>5 DEF Mirrored

\* Of a resource both runs have, a finding is made of what is ranked 70 or higher.
LEMMA FoundFirst ==
    ASSUME NEW provider, NEW ok, NEW b, NEW c, b # NoSide, c # NoSide
    PROVE  FindingsComeFirst(provider, ok, b, c)
<1> DEFINE said == Categories(provider, ok, b, c)
           type == ChangeType(provider, ok, b, c)
<1>1. type = IF said \cap Definite # {} THEN "changed"
             ELSE IF said # {} THEN "indeterminate" ELSE "none"
    BY DEF ChangeType
<1>2. StructuralState(ok, b, c) \in {"changed", "indeterminate", "unchanged"}
    BY DEF StructuralState
<1>3. AccessState(provider, ok, b, c) # "indeterminate"
    BY DEF AccessState
<1>4. said \cap {"access", "permission_evidence"} # {} =>
          AccessState(provider, ok, b, c) = "changed" /\ type = "changed"
    <2>1. said \cap {"access", "permission_evidence"} # {} => said \cap Definite # {}
        BY DEF Definite
    <2> QED BY <1>1, <2>1 DEF AccessState
<1>5. ImpactRank(provider, ok, b, c) =
          IF said \cap {"access", "permission_evidence"} # {} THEN 80
          ELSE IF type = "indeterminate" THEN 70
          ELSE IF "item_count" \in said THEN 50 ELSE IF "location" \in said THEN 40 ELSE 10
    BY DEF ImpactRank
<1> HIDE DEF said, type
<1>6. CASE said \cap {"access", "permission_evidence"} # {}
    BY <1>1, <1>4, <1>5, <1>6 DEF FindingsComeFirst, ResourcePolicy, Policy, said, type
<1>7. CASE said \cap {"access", "permission_evidence"} = {}
    <2>1. ResourcePolicy(provider, ok, b, c) =
              IF type = "indeterminate" THEN "comparison.indeterminate" ELSE "none"
        BY <1>1, <1>3, <1>7 DEF ResourcePolicy, Policy, said, type
    <2>2. ImpactRank(provider, ok, b, c) >= 70 <=> type = "indeterminate"
        BY <1>5, <1>7
    <2> QED BY <2>1, <2>2 DEF FindingsComeFirst
<1> QED BY <1>6, <1>7

\* A resource one run lacks is ranked 70 or higher, and a finding is made of it.
LEMMA AbsenceIsFound ==
    ASSUME NEW provider, NEW ok \in Planes, NEW b, b # NoSide
    PROVE  FindingsComeFirst(provider, ok, b, NoSide) /\ FindingsComeFirst(provider, ok, NoSide, b)
<1>1. /\ Categories(provider, ok, NoSide, b) = {}
      /\ Categories(provider, ok, b, NoSide) = {}
    BY DEF Categories
<1>2. /\ ChangeType(provider, ok, NoSide, b) = Presence(ok, "appeared")
      /\ ChangeType(provider, ok, b, NoSide) = Presence(ok, "disappeared")
    BY <1>1 DEF ChangeType
<1>3. /\ StructuralState(ok, NoSide, b) = Presence(ok, "appeared")
      /\ StructuralState(ok, b, NoSide) = Presence(ok, "disappeared")
    BY DEF StructuralState
<1>4. /\ ResourcePolicy(provider, ok, b, NoSide) # "none"
      /\ ResourcePolicy(provider, ok, NoSide, b) # "none"
    BY <1>2, <1>3 DEF ResourcePolicy, Policy, Presence
<1>5. /\ ImpactRank(provider, ok, b, NoSide) = IF ok.structural THEN 100 ELSE 70
      /\ ImpactRank(provider, ok, NoSide, b) = IF ok.structural THEN 90 ELSE 70
    BY <1>1, <1>2 DEF ImpactRank, Presence
<1> QED BY <1>4, <1>5 DEF FindingsComeFirst

-----------------------------------------------------------------------------
(* What a row says of an item that both runs have                          *)

LEMMA ItemPairsAreRows ==
    ASSUME NEW p \in ItemPairs
    PROVE  /\ p[1] # NoSide /\ p[2] # NoSide
           /\ p[1].known = p[2].known /\ p[1].known \in BOOLEAN
           /\ ~p[1].known => p[1].path = p[2].path /\ p[1].name = p[2].name
                                /\ p[1].parent = p[2].parent
           /\ p[1].perm \in Summaries /\ p[2].perm \in Summaries
<1>1. PICK known \in BOOLEAN :
          /\ p \in Originals(known) \X Versions(known)
          /\ known \/ (p[1].path = p[2].path /\ p[1].name = p[2].name /\ p[1].parent = p[2].parent)
    BY DEF ItemPairs
<1>2. p[1] \in Originals(known) /\ p[2] \in Versions(known)
    BY <1>1
<1>3. p[1].known = known /\ p[2].known = known
    BY <1>2 DEF Originals, Versions
<1>4. p[1].perm \in Permissions({0}, {0}) /\ p[2].perm \in Permissions(Values, Values)
    BY <1>2 DEF Originals, Versions
<1>5. Permissions({0}, {0}) \subseteq Summaries /\ Permissions(Values, Values) \subseteq Summaries
    BY DEF Summaries, Permissions
<1>6. "absent" \in DOMAIN NoSide
    BY DEF NoSide
<1>7. "absent" \notin DOMAIN p[1] /\ "absent" \notin DOMAIN p[2]
    BY <1>2 DEF Originals, Versions
<1> QED BY <1>1, <1>3, <1>4, <1>5, <1>6, <1>7

LEMMA ItemsNamed ==
    ASSUME NEW direct \in BOOLEAN, NEW p \in ItemPairs
    PROVE  ItemsAreNamed(direct, p[1], p[2])
<1> DEFINE b == p[1]
           c == p[2]
           said == ItemCategories(direct, b, c)
<1>1. /\ b # NoSide /\ c # NoSide /\ b.known = c.known /\ b.known \in BOOLEAN
      /\ ~b.known => b.path = c.path /\ b.name = c.name /\ b.parent = c.parent
      /\ b.perm \in Summaries /\ c.perm \in Summaries
    BY ItemPairsAreRows
<1> HIDE DEF b, c
<1>2. /\ "moved" \in said <=> Moved(b, c)
      /\ "renamed" \in said <=> Renamed(b, c)
      /\ "path" \in said <=> PathChanged(b, c)
      /\ "metadata" \in said <=> MetadataChanged(b, c)
      /\ "permission" \in said <=> ItemPermissionChanged(direct, b, c)
      /\ "permission_not_comparable" \in said <=> ItemPermissionIndeterminate(direct, b, c)
      /\ said \subseteq {"moved", "renamed", "path", "metadata", "permission",
                         "permission_not_comparable"}
    BY <1>1 DEF ItemCategories, Flag
<1>3. PathChanged(b, c) => Moved(b, c) \/ Renamed(b, c)
    BY DEF PathChanged, Moved, Renamed
<1>4. b.perm # c.perm =>
          ItemPermissionChanged(direct, b, c) \/ ItemPermissionIndeterminate(direct, b, c)
    <2> SUFFICES ASSUME b.perm # c.perm, ~ItemPermissionIndeterminate(direct, b, c)
                 PROVE  ItemPermissionChanged(direct, b, c)
        OBVIOUS
    <2>1. EvidencePresent(b, c)
        BY <1>1 DEF EvidencePresent, Summaries, Permissions
    <2>2. /\ direct /\ b.perm.comparable /\ c.perm.comparable
          /\ b.perm.evidence # Null /\ c.perm.evidence # Null
          /\ b.perm.quality = c.perm.quality
        BY <2>1 DEF ItemPermissionIndeterminate
    <2>3. b.perm.available /\ c.perm.available
        <3>1. NoSummary.comparable = FALSE
            BY DEF NoSummary
        <3>2. b.perm # NoSummary /\ c.perm # NoSummary
            BY <2>2, <3>1
        <3>3. \A x \in Summaries : x # NoSummary => x.available = TRUE
            BY DEF Summaries, Permissions
        <3> QED BY <1>1, <3>2, <3>3
    <2>4. b.perm.evidence # c.perm.evidence
        BY <1>1, <2>2, <2>3, SummariesDiffer
    <2>5. b.perm.quality # Null
        <3>1. b.perm # NoSummary
            BY <2>3 DEF NoSummary
        <3> QED BY <1>1, <3>1, ClassificationAssumption DEF Summaries, Permissions
    <2> QED BY <2>2, <2>3, <2>4, <2>5 DEF ItemPermissionChanged, RollupComparable
<1>5. ItemCategories(direct, c, b) = said
    <2>1. /\ Moved(c, b) <=> Moved(b, c)
          /\ Renamed(c, b) <=> Renamed(b, c)
          /\ PathChanged(c, b) <=> PathChanged(b, c)
          /\ MetadataChanged(c, b) <=> MetadataChanged(b, c)
          /\ ItemPermissionChanged(direct, c, b) <=> ItemPermissionChanged(direct, b, c)
        BY <1>1 DEF Moved, Renamed, PathChanged, MetadataChanged, ItemPermissionChanged,
                    RollupComparable
    <2>2. ItemPermissionIndeterminate(direct, c, b) <=> ItemPermissionIndeterminate(direct, b, c)
        BY DEF ItemPermissionIndeterminate, EvidencePresent
    <2> QED BY <1>1, <2>1, <2>2 DEF ItemCategories, Flag
<1>6. ItemChangeType(direct, c, b) = ItemChangeType(direct, b, c)
    BY <1>1, <1>5 DEF ItemChangeType
<1>7. said # {} <=> ItemChangeType(direct, b, c) # "none"
    <2>1. ItemChangeType(direct, b, c) =
              IF "moved" \in said THEN "moved" ELSE IF "renamed" \in said THEN "renamed"
              ELSE IF "permission" \in said THEN "permission_changed"
              ELSE IF "metadata" \in said THEN "metadata_changed"
              ELSE IF "permission_not_comparable" \in said THEN "indeterminate"
              ELSE "none"
        BY <1>1 DEF ItemChangeType
    <2> HIDE DEF said
    <2>2. "path" \in said => "moved" \in said \/ "renamed" \in said
        BY <1>2, <1>3
    <2>3. said # {} => \/ "moved" \in said \/ "renamed" \in said \/ "permission" \in said
                      \/ "metadata" \in said \/ "permission_not_comparable" \in said
        BY <1>2, <2>2
    <2> QED BY <2>1, <2>3
<1> HIDE DEF said
<1>8. /\ b.name # c.name => "renamed" \in said
      /\ b.parent # c.parent => "moved" \in said
      /\ b.path # c.path => "moved" \in said \/ "renamed" \in said
      /\ b.metadata # c.metadata => "metadata" \in said
    BY <1>1, <1>2, <1>3 DEF Moved, Renamed, PathChanged, MetadataChanged
<1>9. b.perm # c.perm => "permission" \in said \/ "permission_not_comparable" \in said
    BY <1>2, <1>4
<1> QED BY <1>5, <1>6, <1>7, <1>8, <1>9 DEF ItemsAreNamed, said, b, c

\* No difference between two runs is silent, "unchanged" is never said of evidence that was
\* not compared, what is said does not depend on which run is the baseline, and findings are
\* made of the rows that are ranked first.
THEOREM TrueRows == ResourceRowsAreFaithful /\ ItemRowsAreFaithful
BY PairsAreRows, DifferencesNamed, Earned, RowsMirror, AbsenceMirrors, FoundFirst, AbsenceIsFound, ItemsNamed
   DEF ResourceRowsAreFaithful, ItemRowsAreFaithful

-----------------------------------------------------------------------------
(* Which runs compare: for every identity, target and enumeration, the     *)
(* worker's automatic baseline concludes no more than a requested one      *)

\* What the network collector says of any run.
Network(r) ==
    /\ r.providers \in {{"smb"}, {"nfs"}, {"smb", "nfs"}}
    /\ r.who \in Who /\ r.target \in Sites /\ r.enumeration \in Enumerations
    /\ r.auth = "session" /\ ~r.opaque /\ r.snapshot = TRUE
    /\ r.strategy = Missing /\ r.authoritative = Missing
    /\ r.structural \in BOOLEAN /\ r.content \in BOOLEAN
    /\ r.assessed \in BOOLEAN /\ r.granted \in BOOLEAN
    /\ r.discovery = IF r.structural THEN "authoritative" ELSE "partial"
    /\ r.files = ("nfs" \notin r.providers)
    /\ r.contracts = {"structural"} \cup
                     (IF "smb" \in r.providers THEN {"content", "capability"} ELSE {})

\* What the SharePoint collector says of any run.
Graph(r) ==
    /\ r.providers = {"sharepoint"} /\ r.who \in Who /\ r.target \in Sites \cup {Everywhere}
    /\ r.enumeration \in [files: BOOLEAN, scope: Enumerations]
    /\ r.auth \in {"application", "delegated"} /\ r.opaque \in BOOLEAN /\ r.snapshot = TRUE
    /\ r.structural \in BOOLEAN /\ r.content \in BOOLEAN
    /\ r.assessed \in BOOLEAN /\ r.granted \in BOOLEAN
    /\ r.discovery = IF ~r.structural THEN "partial"
                     ELSE IF r.target # Everywhere THEN "targeted_scope"
                     ELSE IF r.auth = "delegated" THEN "security_trimmed"
                     ELSE "complete_for_granted_scope"
    /\ r.strategy = IF r.target # Everywhere THEN "targeted"
                    ELSE IF r.auth = "application" THEN "getAllSites" ELSE "search"
    /\ r.authoritative = (r.auth = "application" /\ r.target = Everywhere /\ r.structural)
    /\ r.files = r.enumeration.files
    /\ r.contracts = {"structural", "content"}

LEMMA CollectedAs == \A r \in Collected : Network(r) \/ Graph(r)
<1>1. ASSUME NEW r,
             NEW p \in {{"smb"}, {"nfs"}, {"smb", "nfs"}} \X Who \X Sites \X Enumerations
                          \X BOOLEAN \X BOOLEAN \X {"none", "partial", "complete"},
             r = NetworkContext(p[1], p[2], p[3], p[4], p[5], p[6], p[7])
      PROVE  Network(r)
    <2>1. /\ p[1] \in {{"smb"}, {"nfs"}, {"smb", "nfs"}} /\ p[2] \in Who /\ p[3] \in Sites
          /\ p[4] \in Enumerations /\ p[5] \in BOOLEAN /\ p[6] \in BOOLEAN
        OBVIOUS
    <2> QED BY <1>1, <2>1 DEF NetworkContext, Network
<1>2. ASSUME NEW r,
             NEW p \in {"application", "delegated"} \X BOOLEAN \X Who \X (Sites \cup {Everywhere})
                          \X Enumerations \X BOOLEAN
                          \X BOOLEAN \X BOOLEAN \X {"none", "partial", "complete"},
             r = SharePointContext(p[1], p[2], p[3], p[4], p[5], p[6], p[7], p[8], p[9])
      PROVE  Graph(r)
    <2>1. /\ p[1] \in {"application", "delegated"} /\ p[2] \in BOOLEAN /\ p[3] \in Who
          /\ p[4] \in Sites \cup {Everywhere} /\ p[5] \in Enumerations /\ p[6] \in BOOLEAN
          /\ p[7] \in BOOLEAN /\ p[8] \in BOOLEAN
        OBVIOUS
    <2> QED BY <1>2, <2>1 DEF SharePointContext, Graph
<1> QED BY <1>1, <1>2 DEF Collected

\* What a pair of runs shares.
LEMMA PairShares ==
    ASSUME NEW b, NEW c, Pair(b, c)
    PROVE  /\ b.providers = c.providers /\ b.who = c.who /\ b.auth = c.auth
           /\ b.target = c.target /\ b.enumeration = c.enumeration /\ b.contracts = c.contracts
BY DEF Pair, Same, SignatureFields

LEMMA NetworkWithin ==
    ASSUME NEW b, NEW c, Network(b), Network(c), Pair(b, c)
    PROVE  /\ Automatic(b, c).structural => StructuralInterpretable(b, c)
           /\ Automatic(b, c).content    => ContentInterpretable(b, c)
           /\ Automatic(b, c).capability => CapabilityInterpretable(b, c)
           /\ Automatic(b, c).direct     => DirectInterpretable(b, c)
<1>1. Automatic(b, c).structural => StructuralInterpretable(b, c)
    <2> SUFFICES ASSUME Automatic(b, c).structural PROVE StructuralInterpretable(b, c)
        OBVIOUS
    <2>1. b.structural = TRUE /\ c.structural = TRUE
        BY DEF Automatic
    <2>2. Same(b, c, {"providers", "who", "auth", "discovery", "strategy", "authoritative", "target"})
        BY <2>1, PairShares DEF Network, Same
    <2>3. ~SharePoint(b) /\ ~SharePoint(c)
        BY DEF Network, SharePoint
    <2>4. Contracted(b, c, "structural")
        BY DEF Contracted, Contract, Network
    <2> QED BY <2>1, <2>2, <2>3, <2>4, PairShares, CompatibilityAssumption
            DEF StructuralInterpretable, Network, Discovered, AuthoritativeValues, TargetKnown,
                ModeConsistent, DiscoveryAuthoritative
<1>2. Automatic(b, c).content => ContentInterpretable(b, c)
    <2> SUFFICES ASSUME Automatic(b, c).content PROVE ContentInterpretable(b, c)
        OBVIOUS
    <2>1. Automatic(b, c).structural /\ b.files /\ c.files /\ b.content /\ c.content
        BY DEF Automatic
    <2>2. b.providers = {"smb"} /\ c.providers = {"smb"}
        BY <2>1 DEF Network
    <2>3. Contracted(b, c, "content")
        BY <2>2 DEF Contracted, Contract, Network
    <2> QED BY <1>1, <2>1, <2>2, <2>3, PairShares, CompatibilityAssumption
            DEF ContentInterpretable, FilesConsistent, SharePoint, Network
<1>3. AccessContextComparable(b, c)
    BY PairShares, CompatibilityAssumption DEF AccessContextComparable, Same, Network
<1>4. Automatic(b, c).capability => CapabilityInterpretable(b, c)
    <2> SUFFICES ASSUME Automatic(b, c).capability PROVE CapabilityInterpretable(b, c)
        OBVIOUS
    <2>1. b.providers = {"smb"} /\ c.providers = {"smb"}
        BY PairShares DEF Automatic
    <2>2. b.enumeration # Missing /\ b.enumeration = c.enumeration
        BY PairShares, CompatibilityAssumption DEF Network
    <2>3. "capability" \in b.contracts /\ "capability" \in c.contracts
        BY <2>1 DEF Network
    <2>4. Contracted(b, c, "capability")
        BY <2>1, <2>3 DEF Contracted, Contract
    <2> QED BY <1>3, <2>1, <2>2, <2>4 DEF CapabilityInterpretable
<1>5. Automatic(b, c).direct => DirectInterpretable(b, c)
    BY <1>3 DEF Automatic, DirectInterpretable
<1> QED BY <1>1, <1>2, <1>4, <1>5

LEMMA GraphWithin ==
    ASSUME NEW b, NEW c, Graph(b), Graph(c), Pair(b, c), ~b.opaque, ~c.opaque
    PROVE  /\ Automatic(b, c).structural => StructuralInterpretable(b, c)
           /\ Automatic(b, c).content    => ContentInterpretable(b, c)
           /\ ~Automatic(b, c).capability
           /\ Automatic(b, c).direct     => DirectInterpretable(b, c)
<1>1. Automatic(b, c).structural => StructuralInterpretable(b, c)
    <2> SUFFICES ASSUME Automatic(b, c).structural PROVE StructuralInterpretable(b, c)
        OBVIOUS
    <2>1. /\ b.structural = TRUE /\ c.structural = TRUE
          /\ Discovered(b) /\ Discovered(c)
        BY DEF Automatic
    <2>2. b.target = Everywhere => b.auth = "application"
        BY <2>1 DEF Graph, Discovered, AuthoritativeValues
    <2>3. /\ b.discovery = c.discovery /\ b.strategy = c.strategy
          /\ b.authoritative = c.authoritative
        BY <2>1, PairShares DEF Graph
    <2>4. Same(b, c, {"providers", "who", "auth", "discovery", "strategy", "authoritative", "target"})
        BY <2>3, PairShares DEF Same
    <2>5. \A r \in {b, c} : LegacyKnown(r) /\ TargetKnown(r) /\ ModeConsistent(r)
        <3>1. \A r \in {b, c} : r.strategy \in {"targeted", "getAllSites", "search"}
            BY DEF Graph
        <3>2. "targeted" # Missing /\ "getAllSites" # Missing /\ "search" # Missing
            BY CompatibilityAssumption
        <3> QED BY <2>1, <2>2, <3>1, <3>2, PairShares, CompatibilityAssumption
                DEF Graph, LegacyKnown, TargetKnown, ModeConsistent, SharePoint
    <2>6. DiscoveryAuthoritative(b, c)
        BY <2>1, <2>2, PairShares DEF DiscoveryAuthoritative, Graph
    <2>7. Contracted(b, c, "structural")
        BY DEF Contracted, Contract, Graph
    <2>8. \A r \in {b, c} : "smb" \notin r.providers /\ r.snapshot /\ ~r.opaque
        BY DEF Graph
    <2> QED BY <2>1, <2>4, <2>5, <2>6, <2>7, <2>8 DEF StructuralInterpretable
<1>2. Automatic(b, c).content => ContentInterpretable(b, c)
    <2> SUFFICES ASSUME Automatic(b, c).content PROVE ContentInterpretable(b, c)
        OBVIOUS
    <2>1. Automatic(b, c).structural /\ b.files /\ c.files /\ b.content /\ c.content
        BY DEF Automatic
    <2>2. Contracted(b, c, "content")
        BY DEF Contracted, Contract, Graph
    <2>3. b.enumeration # Missing /\ c.enumeration # Missing
        BY CompatibilityAssumption DEF Graph
    <2> QED BY <1>1, <2>1, <2>2, <2>3, PairShares DEF ContentInterpretable, FilesConsistent, Graph
<1>3. AccessContextComparable(b, c)
    BY PairShares, CompatibilityAssumption DEF AccessContextComparable, Same, Graph
<1>4. ~Automatic(b, c).capability
    BY DEF Automatic, Graph
<1>5. Automatic(b, c).direct => DirectInterpretable(b, c)
    BY <1>3 DEF Automatic, DirectInterpretable
<1> QED BY <1>1, <1>2, <1>4, <1>5

LEMMA Mirrors ==
    ASSUME NEW b, NEW c, Pair(b, c)
    PROVE  Automatic(b, c) = Automatic(c, b) /\ Requested(b, c) = Requested(c, b)
<1>1. Automatic(b, c) = Automatic(c, b)
    BY PairShares DEF Automatic
<1>2. \A fields : Same(b, c, fields) <=> Same(c, b, fields)
    BY DEF Same
<1>3. \A plane : Contracted(b, c, plane) <=> Contracted(c, b, plane)
    BY DEF Contracted
<1>4. DiscoveryAuthoritative(b, c) <=> DiscoveryAuthoritative(c, b)
    BY DEF DiscoveryAuthoritative
<1>5. {b, c} = {c, b}
    OBVIOUS
<1>6. StructuralInterpretable(b, c) <=> StructuralInterpretable(c, b)
    BY <1>2, <1>3, <1>4, <1>5, PairShares DEF StructuralInterpretable
<1>7. ContentInterpretable(b, c) <=> ContentInterpretable(c, b)
    BY <1>3, <1>6, PairShares DEF ContentInterpretable
<1>8. AccessContextComparable(b, c) <=> AccessContextComparable(c, b)
    BY <1>2, <1>5 DEF AccessContextComparable
<1>9. CapabilityInterpretable(b, c) <=> CapabilityInterpretable(c, b)
    BY <1>3, <1>8, PairShares DEF CapabilityInterpretable
<1>10. DirectInterpretable(b, c) <=> DirectInterpretable(c, b)
    BY <1>8 DEF DirectInterpretable
<1> QED BY <1>1, <1>6, <1>7, <1>9, <1>10
        DEF Requested, StructuralInterpretable, ContentInterpretable, CapabilityInterpretable,
            DirectInterpretable

\* The worker concludes no more than the API would of two contexts of the repository's own
\* collectors whose tokens could be inspected, whichever of the two is the baseline.
THEOREM ConcludesLess == AutomaticConcludesLess /\ BothConcludeAlike
<1> SUFFICES ASSUME NEW b \in Collected, NEW c \in Collected, ~b.opaque, ~c.opaque, Pair(b, c)
             PROVE  /\ \A plane \in {"structural", "content", "capability", "direct"} :
                          Automatic(b, c)[plane] => Requested(b, c)[plane]
                    /\ Automatic(b, c) = Automatic(c, b) /\ Requested(b, c) = Requested(c, b)
    BY DEF AutomaticConcludesLess, BothConcludeAlike, Inspected
<1>1. (Network(b) /\ Network(c)) \/ (Graph(b) /\ Graph(c))
    BY CollectedAs, PairShares DEF Network, Graph
<1>2. /\ Automatic(b, c).structural => Requested(b, c).structural
      /\ Automatic(b, c).content    => Requested(b, c).content
      /\ Automatic(b, c).capability => Requested(b, c).capability
      /\ Automatic(b, c).direct     => Requested(b, c).direct
    BY <1>1, NetworkWithin, GraphWithin DEF Requested
<1> QED BY <1>2, Mirrors

-----------------------------------------------------------------------------
(* Induction, and rows in order                                            *)

\* A set of numbers has a least one.
LEMMA LeastNumber ==
    ASSUME NEW T \in SUBSET Nat, T # {}
    PROVE  \E x \in T : \A y \in T : x <= y
<1> DEFINE R == {p \in Nat \X Nat : p[1] < p[2]}
<1>1. IsWellFoundedOn(R, Nat)
    BY NatLessThanWellFounded DEF OpToRel
<1> HIDE DEF R
<1>2. PICK x \in T : \A y \in T : ~ (<<y, x>> \in R)
    BY <1>1, WFMin
<1>3. ASSUME NEW y \in T PROVE x <= y
    <2>1. x \in Nat /\ y \in Nat /\ <<y, x>> \notin R
        BY <1>2
    <2>2. ~ (y < x)
        BY <2>1 DEF R
    <2> QED BY <2>1, <2>2
<1> QED BY <1>3

\* g[0], g[1], ... g[N] start at z and take one step after another.
Iterated(g, N, S, z, step) ==
    g \in [0..N -> S] /\ g[0] = z /\ \A i \in 1..N : g[i] = step[i][g[i - 1]]

\* A recursion over 0..N that steps within a set has a solution.
LEMMA Recursion ==
    ASSUME NEW N \in Nat, NEW S, NEW z \in S, NEW step \in [Nat -> [S -> S]]
    PROVE  \E g : Iterated(g, N, S, z, step)
<1> DEFINE Good(n) == \E g \in [0..n -> S] : g[0] = z /\ \A i \in 1..n : g[i] = step[i][g[i-1]]
<1> DEFINE T == {n \in Nat : ~Good(n)}
<1>1. Good(0)
    <2> DEFINE h == [i \in 0..0 |-> z]
    <2>1. h \in [0..0 -> S] /\ h[0] = z /\ 1..0 = {}
        OBVIOUS
    <2> HIDE DEF h
    <2> QED BY <2>1
<1>2. ASSUME NEW n \in Nat, Good(n) PROVE Good(n+1)
    <2>1. PICK g \in [0..n -> S] : g[0] = z /\ \A i \in 1..n : g[i] = step[i][g[i-1]]
        BY <1>2
    <2> DEFINE h == [i \in 0..n+1 |-> IF i = n+1 THEN step[n+1][g[n]] ELSE g[i]]
    <2>2. g[n] \in S /\ step[n+1][g[n]] \in S
        BY <2>1
    <2>3. h \in [0..n+1 -> S]
        BY <2>1, <2>2
    <2>4. h[0] = z
        BY <2>1
    <2>5. ASSUME NEW i \in 1..n+1 PROVE h[i] = step[i][h[i-1]]
        <3>1. h[i-1] = g[i-1]
            OBVIOUS
        <3>2. CASE i = n+1
            BY <3>1, <3>2
        <3>3. CASE i # n+1
            <4>1. i \in 1..n /\ h[i] = g[i]
                BY <3>3
            <4> QED BY <4>1, <3>1, <2>1
        <3> QED BY <3>2, <3>3
    <2> HIDE DEF h
    <2> QED BY <2>3, <2>4, <2>5
<1> HIDE DEF Good
<1>3. T = {}
    <2> SUFFICES ASSUME T # {} PROVE FALSE
        OBVIOUS
    <2>1. PICK x \in T : \A y \in T : x <= y
        BY LeastNumber
    <2>2. x # 0 /\ x \in Nat
        BY <1>1
    <2>3. x - 1 \in Nat /\ x - 1 \notin T
        BY <2>1, <2>2
    <2>4. Good(x)
        BY <2>2, <2>3, <1>2
    <2> QED BY <2>4
<1>4. Good(N)
    BY <1>3
<1> QED BY <1>4 DEF Good, Iterated

\* The rows an ORDER BY lists are all of them, each before the ones it comes ahead of.
LEMMA OrderedListsAll ==
    ASSUME NEW rows, IsFiniteSet(rows), NEW ahead,
           \A x \in rows : <<x, x>> \notin ahead,
           \A x, y \in rows : x # y => <<x, y>> \in ahead \/ <<y, x>> \in ahead,
           \A x, y, z \in rows : <<x, y>> \in ahead /\ <<y, z>> \in ahead => <<x, z>> \in ahead
    PROVE  /\ Cardinality(rows) \in Nat
           /\ Ordered(rows, ahead) \in [1..Cardinality(rows) -> rows]
           /\ \A x \in rows : \E k \in 1..Cardinality(rows) : Ordered(rows, ahead)[k] = x
           /\ \A j, k \in 1..Cardinality(rows) :
                 j < k => <<Ordered(rows, ahead)[j], Ordered(rows, ahead)[k]>> \in ahead
<1> DEFINE N == Cardinality(rows)
           P(x) == {y \in rows : <<y, x>> \in ahead}
           rank == [x \in rows |-> Cardinality(P(x)) + 1]
<1>1. N \in Nat
    BY FS_CardinalityType
<1>2. ASSUME NEW x \in rows
      PROVE  IsFiniteSet(P(x)) /\ Cardinality(P(x)) \in Nat /\ Cardinality(P(x)) < N
    <2>1. P(x) \in SUBSET rows /\ P(x) # rows
        OBVIOUS
    <2>2. IsFiniteSet(P(x)) /\ Cardinality(P(x)) <= N /\ Cardinality(P(x)) # N
        BY <2>1, FS_Subset
    <2>3. Cardinality(P(x)) \in Nat
        BY <2>2, FS_CardinalityType
    <2> QED BY <1>1, <2>2, <2>3
<1>3. rank \in [rows -> 1..N]
    <2>1. ASSUME NEW x \in rows PROVE Cardinality(P(x)) + 1 \in 1..N
        <3>1. Cardinality(P(x)) \in Nat /\ Cardinality(P(x)) < N
            BY <1>2
        <3> HIDE DEF P, N
        <3> QED BY <1>1, <3>1
    <2> HIDE DEF P
    <2> QED BY <2>1
<1>4. ASSUME NEW x \in rows, NEW y \in rows, <<x, y>> \in ahead
      PROVE  rank[x] < rank[y]
    <2>1. P(x) \in SUBSET P(y) /\ P(x) # P(y)
        <3>1. x \in P(y) /\ x \notin P(x)
            BY <1>4
        <3>2. ASSUME NEW z \in P(x) PROVE z \in P(y)
            BY <1>4
        <3> QED BY <3>1, <3>2
    <2>2. Cardinality(P(x)) <= Cardinality(P(y)) /\ Cardinality(P(x)) # Cardinality(P(y))
        BY <2>1, <1>2, FS_Subset
    <2>3. Cardinality(P(x)) \in Nat /\ Cardinality(P(y)) \in Nat
        BY <1>2
    <2> HIDE DEF P
    <2> QED BY <2>2, <2>3
<1> HIDE DEF rank, P
<1>5. rank \in Injection(rows, 1..N)
    <2>1. ASSUME NEW x \in rows, NEW y \in rows, x # y PROVE rank[x] # rank[y]
        <3>1. rank[x] \in Int /\ rank[y] \in Int
            BY <1>1, <1>3
        <3>2. rank[x] < rank[y] \/ rank[y] < rank[x]
            BY <2>1, <1>4
        <3> QED BY <3>1, <3>2
    <2> QED BY <1>3, <2>1 DEF Injection, IsInjective
<1>6. IsFiniteSet(1..N) /\ Cardinality(1..N) = N
    BY <1>1, FS_Interval
<1>7. rank \in Surjection(rows, 1..N)
    BY <1>5, <1>6, FS_Injection
<1>8. \A k \in 1..N : \E x \in rows : rank[x] = k
    BY <1>7 DEF Surjection
<1> DEFINE s == Ordered(rows, ahead)
<1>9. ASSUME NEW k \in 1..N
      PROVE  s[k] \in rows /\ rank[s[k]] = k
    <2>1. ASSUME NEW x \in rows
          PROVE  rank[x] = k <=> Cardinality({y \in rows : <<y, x>> \in ahead}) = k - 1
        <3>1. Cardinality(P(x)) \in Nat /\ rank[x] = Cardinality(P(x)) + 1
            BY <1>2 DEF rank
        <3>2. P(x) = {y \in rows : <<y, x>> \in ahead}
            BY DEF P
        <3> HIDE DEF P
        <3> QED BY <3>1, <3>2, <1>1
    <2>2. s[k] = CHOOSE x \in rows : Cardinality({y \in rows : <<y, x>> \in ahead}) = k - 1
        BY DEF Ordered
    <2> QED BY <2>1, <2>2, <1>8
<1>10. s \in [1..N -> rows]
    BY <1>9 DEF Ordered
<1>11. \A x \in rows : s[rank[x]] = x
    BY <1>9, <1>5, <1>3 DEF Injection, IsInjective
<1>12. ASSUME NEW j \in 1..N, NEW k \in 1..N, j < k
       PROVE  <<s[j], s[k]>> \in ahead
    <2>1. s[j] # s[k] /\ ~ (<<s[k], s[j]>> \in ahead)
        BY <1>9, <1>4, <1>12
    <2> QED BY <2>1, <1>9
<1> HIDE DEF s
<1> QED BY <1>1, <1>3, <1>10, <1>11, <1>12 DEF s

\* The lesser of two numbers.
LEMMA MinOfTwo ==
    ASSUME NEW a \in Nat, NEW b \in Nat
    PROVE  Min({a, b}) = IF a <= b THEN a ELSE b
<1> DEFINE c == IF a <= b THEN a ELSE b
           Lowest(x) == \A y \in {a, b} : x =< y
<1>1. c \in {a, b} /\ Lowest(c)
    OBVIOUS
<1>2. ASSUME NEW x \in {a, b}, Lowest(x) PROVE x = c
    BY <1>2
<1> HIDE DEF c, Lowest
<1>3. Min({a, b}) = CHOOSE x \in {a, b} : Lowest(x)
    BY DEF Min, Lowest
<1>4. Min({a, b}) = c
    BY <1>1, <1>2, <1>3
<1> QED BY <1>4 DEF c

\* What holds of 0 and goes on from each number to the next holds of all: otherwise there would
\* be a least exception.
LEMMA Upward ==
    ASSUME NEW N \in Nat, NEW I, 0 \in I, \A n \in 1..N : n - 1 \in I => n \in I
    PROVE  \A n \in 0..N : n \in I
<1> DEFINE T == {n \in 0..N : n \notin I}
<1> SUFFICES ASSUME T # {} PROVE FALSE
    OBVIOUS
<1>1. PICK x \in T : \A y \in T : x <= y
    <2>1. T \in SUBSET Nat
        OBVIOUS
    <2> QED BY <2>1, LeastNumber
<1>2. x \in 1..N
    BY <1>1
<1>3. x - 1 \in 0..N /\ ~ (x <= x - 1)
    BY <1>2
<1>4. x - 1 \in I
    BY <1>1, <1>3
<1> QED BY <1>1, <1>2, <1>4

\* There are n numbers from 1 to n.
LEMMA CountedTo ==
    ASSUME NEW n \in Nat
    PROVE  IsFiniteSet(1..n) /\ Cardinality(1..n) = n
<1>1. IsFiniteSet(1..n) /\ Cardinality(1..n) = IF 1 > n THEN 0 ELSE n - 1 + 1
    BY FS_Interval
<1>2. (IF 1 > n THEN 0 ELSE n - 1 + 1) = n
    OBVIOUS
<1> QED BY <1>1, <1>2

-----------------------------------------------------------------------------
(* The preview: rows, gathered into records                                *)

\* A set in a sequence, each of its members at one place.
LEMMA SeqOfSet ==
    ASSUME NEW S, IsFiniteSet(S)
    PROVE  /\ Cardinality(S) \in Nat
           /\ SetToSeq(S) \in [1..Cardinality(S) -> S]
           /\ \A x \in S : \E k \in 1..Cardinality(S) : SetToSeq(S)[k] = x
<1> DEFINE N == Cardinality(S)
           Fitting(f) == f \in [1..N -> S] /\ IsInjective(f)
<1>1. N \in Nat /\ ExistsBijection(1..N, S)
    BY FS_CardinalityType
<1>2. PICK f : f \in Bijection(1..N, S)
    BY <1>1 DEF ExistsBijection
<1>3. f \in [1..N -> S] /\ \A a, b \in 1..N : f[a] = f[b] => a = b
    BY <1>2 DEF Bijection, Injection, IsInjective
<1>4. Fitting(f)
    BY <1>3 DEF IsInjective
<1> DEFINE g == SetToSeq(S)
<1>5. g = CHOOSE h \in [1..N -> S] : IsInjective(h)
    BY DEF SetToSeq
<1>6. g \in [1..N -> S] /\ IsInjective(g)
    BY <1>4, <1>5
<1> HIDE DEF g
<1>7. \A a, b \in 1..N : g[a] = g[b] => a = b
    BY <1>6 DEF IsInjective
<1>8. g \in Injection(1..N, S)
    BY <1>6, <1>7 DEF Injection, IsInjective
<1>9. IsFiniteSet(1..N) /\ Cardinality(1..N) = N
    BY <1>1, CountedTo
<1>10. g \in Surjection(1..N, S)
    BY <1>8, <1>9, FS_Injection
<1>11. \A x \in S : \E k \in 1..N : g[k] = x
    BY <1>10 DEF Surjection
<1> QED BY <1>1, <1>6, <1>11 DEF g

\* Rows of which some tie are all listed too, none before one that comes ahead of it.
LEMMA ArrangedListsAll ==
    ASSUME NEW rows, IsFiniteSet(rows), NEW ahead,
           \A x, y \in rows : <<x, y>> \in ahead => <<y, x>> \notin ahead,
           \A x, y, z \in rows :
              <<x, z>> \in ahead => <<x, y>> \in ahead \/ <<y, z>> \in ahead
    PROVE  LET s == Arranged(rows, ahead)
               n == Cardinality(rows)
           IN  /\ n \in Nat /\ s \in [1..n -> rows]
               /\ \A x \in rows : \E k \in 1..n : s[k] = x
               /\ \A j, k \in 1..n : j < k => <<s[k], s[j]>> \notin ahead
<1> DEFINE N == Cardinality(rows)
           any == SetToSeq(rows)
           places == 1..N
           later == {p \in places \X places :
                        \/ <<any[p[1]], any[p[2]]>> \in ahead
                        \/ <<any[p[2]], any[p[1]]>> \notin ahead /\ p[1] < p[2]}
           order == Ordered(places, later)
           s == Arranged(rows, ahead)
<1>1. /\ N \in Nat /\ any \in [1..N -> rows]
      /\ \A x \in rows : \E k \in 1..N : any[k] = x
    BY SeqOfSet
<1>2. DOMAIN any = places /\ s = [k \in places |-> any[order[k]]]
    BY <1>1 DEF Arranged
<1> HIDE DEF N, any, s
<1>3. IsFiniteSet(places) /\ Cardinality(places) = N
    BY <1>1, CountedTo
<1>4. \A i, k \in places :
          <<i, k>> \in later <=> \/ <<any[i], any[k]>> \in ahead
                                 \/ <<any[k], any[i]>> \notin ahead /\ i < k
    OBVIOUS
<1>5. \A i \in places : any[i] \in rows /\ i \in Nat
    BY <1>1
<1> HIDE DEF later
<1>6. \A i \in places : <<i, i>> \notin later
    <2> SUFFICES ASSUME NEW i \in places PROVE <<i, i>> \notin later
        OBVIOUS
    <2>1. ~ (i < i) /\ <<any[i], any[i]>> \notin ahead
        BY <1>5
    <2> QED BY <2>1, <1>4
<1>7. \A i, k \in places : i # k => <<i, k>> \in later \/ <<k, i>> \in later
    <2> SUFFICES ASSUME NEW i \in places, NEW k \in places, i # k
                 PROVE  <<i, k>> \in later \/ <<k, i>> \in later
        OBVIOUS
    <2>1. i < k \/ k < i
        BY <1>5
    <2> QED BY <2>1, <1>4
<1>8. \A i, j, k \in places : <<i, j>> \in later /\ <<j, k>> \in later => <<i, k>> \in later
    <2> SUFFICES ASSUME NEW i \in places, NEW j \in places, NEW k \in places,
                        <<i, j>> \in later, <<j, k>> \in later
                 PROVE  <<i, k>> \in later
        OBVIOUS
    <2>1. any[i] \in rows /\ any[j] \in rows /\ any[k] \in rows
        BY <1>5
    <2>2. i < j /\ j < k => i < k
        BY <1>5
    <2>3. /\ <<any[j], any[i]>> \notin ahead /\ <<any[k], any[j]>> \notin ahead
        BY <1>4, <2>1
    <2>4. <<any[k], any[i]>> \notin ahead
        BY <2>1, <2>3
    <2>5. CASE <<any[i], any[j]>> \in ahead
        BY <2>5, <2>1, <2>3, <1>4
    <2>6. CASE <<any[j], any[k]>> \in ahead
        BY <2>6, <2>1, <2>3, <1>4
    <2>7. CASE <<any[i], any[j]>> \notin ahead /\ <<any[j], any[k]>> \notin ahead
        BY <2>7, <2>2, <2>4, <1>4
    <2> QED BY <2>5, <2>6, <2>7
<1> HIDE DEF places
<1>9. /\ order \in [1..Cardinality(places) -> places]
      /\ \A i \in places : \E k \in 1..Cardinality(places) : order[k] = i
      /\ \A j, k \in 1..Cardinality(places) : j < k => <<order[j], order[k]>> \in later
    BY <1>3, <1>6, <1>7, <1>8, OrderedListsAll
<1> HIDE DEF order
<1> USE DEF places
<1>10. s \in [1..N -> rows]
    BY <1>2, <1>3, <1>5, <1>9
<1>11. ASSUME NEW x \in rows PROVE \E k \in 1..N : s[k] = x
    <2>1. PICK i \in places : any[i] = x
        BY <1>1
    <2>2. PICK k \in places : order[k] = i
        BY <1>9, <1>3
    <2> QED BY <2>1, <2>2, <1>2
<1>12. ASSUME NEW j \in 1..N, NEW k \in 1..N, j < k PROVE <<s[k], s[j]>> \notin ahead
    <2>1. <<order[j], order[k]>> \in later /\ order[j] \in places /\ order[k] \in places
        BY <1>9, <1>3, <1>12
    <2>2. s[j] = any[order[j]] /\ s[k] = any[order[k]]
        BY <1>2
    <2> QED BY <2>1, <2>2, <1>4, <1>5
<1> QED BY <1>1, <1>10, <1>11, <1>12 DEF N, s

\* The values of a function on a finite set are finitely many.
LEMMA FiniteImage ==
    ASSUME NEW S, IsFiniteSet(S), NEW f
    PROVE  IsFiniteSet({f[x] : x \in S})
<1> DEFINE T == {f[x] : x \in S}
           g == [x \in S |-> f[x]]
<1>1. g \in Surjection(S, T)
    BY DEF Surjection
<1> QED BY <1>1, FS_Surjection

\* The rows of one resource: its own columns, and between them its items.
LEMMA RowsOfOne ==
    ASSUME NEW r \in Resources
    PROVE  /\ IsFiniteSet(RowsOf(r)) /\ RowsOf(r) # {}
           /\ \A one \in RowsOf(r) :
                 /\ one.key = r.key /\ one.spelling = r.spelling /\ one.level = r.level
                 /\ one.item.path \in Nat
                 /\ ItemOf(one) \in SUBSET r.content
           /\ \A i \in r.content : \E one \in RowsOf(r) : i \in ItemOf(one)
<1> DEFINE held == IF r.content = {} THEN {Nameless} ELSE r.content
           made == [i \in held |->
                      [key |-> r.key, spelling |-> r.spelling, level |-> r.level, item |-> i]]
<1>1. IsFiniteSet(held) /\ held # {}
    <2>1. IsFiniteSet({Nameless}) /\ Nameless \in {Nameless}
        BY FS_Singleton
    <2>2. IsFiniteSet(r.content)
        BY RunDiffAssumption
    <2>3. CASE r.content = {}
        BY <2>1, <2>3
    <2>4. CASE r.content # {}
        BY <2>2, <2>4
    <2> QED BY <2>3, <2>4
<1>2. RowsOf(r) = {made[i] : i \in held}
    BY DEF RowsOf
<1>3. \A i \in held : i.path \in Nat /\ (i.path # NoPath => i \in r.content)
    BY RunDiffAssumption DEF Nameless, NoPath
<1>4. \A i \in r.content : i \in held /\ i.path # NoPath
    BY RunDiffAssumption DEF NoPath
<1> HIDE DEF held
<1>5. \A i \in held : /\ made[i].key = r.key /\ made[i].spelling = r.spelling
                       /\ made[i].level = r.level /\ made[i].item = i
    OBVIOUS
<1> HIDE DEF made
<1>6. IsFiniteSet(RowsOf(r)) /\ RowsOf(r) # {}
    BY <1>1, <1>2, FiniteImage
<1>7. \A i \in held : ItemOf(made[i]) = IF i.path = NoPath THEN {} ELSE {i}
    BY <1>5 DEF ItemOf
<1>8. \A one \in RowsOf(r) :
         /\ one.key = r.key /\ one.spelling = r.spelling /\ one.level = r.level
         /\ one.item.path \in Nat
         /\ ItemOf(one) \in SUBSET r.content
    <2> SUFFICES ASSUME NEW i \in held
                 PROVE  /\ made[i].key = r.key /\ made[i].spelling = r.spelling
                        /\ made[i].level = r.level /\ made[i].item.path \in Nat
                        /\ ItemOf(made[i]) \in SUBSET r.content
        BY <1>2
    <2> QED BY <1>3, <1>5, <1>7
<1>9. \A i \in r.content : \E one \in RowsOf(r) : i \in ItemOf(one)
    <2> SUFFICES ASSUME NEW i \in r.content PROVE \E k \in held : i \in ItemOf(made[k])
        BY <1>2
    <2> QED BY <1>4, <1>7
<1> QED BY <1>6, <1>8, <1>9

\* The rows a run stores.
StoredRows(stored) == UNION {RowsOf(r) : r \in stored}

\* The statement gives the rows of a run, by their keys.
LEMMA RowsInOrder ==
    ASSUME NEW stored \in SUBSET Resources
    PROVE  /\ Len(Rows(stored)) \in Nat
           /\ Rows(stored) \in [1..Len(Rows(stored)) -> StoredRows(stored)]
           /\ \A one \in StoredRows(stored) : \E k \in 1..Len(Rows(stored)) : Rows(stored)[k] = one
           /\ \A j, k \in 1..Len(Rows(stored)) : j < k => Rows(stored)[j].key <= Rows(stored)[k].key
<1> DEFINE rows == StoredRows(stored)
           ahead == {p \in rows \X rows : Sooner(p[1], p[2])}
           s == Arranged(rows, ahead)
           N == Cardinality(rows)
<1>1. IsFiniteSet(rows)
    <2> DEFINE all == [r \in stored |-> RowsOf(r)]
    <2>1. IsFiniteSet(stored)
        BY RunDiffAssumption, FS_Subset
    <2>2. rows = UNION {all[r] : r \in stored} /\ \A r \in stored : all[r] = RowsOf(r)
        BY DEF StoredRows
    <2> HIDE DEF all
    <2>3. IsFiniteSet({all[r] : r \in stored})
        BY <2>1, FiniteImage
    <2>4. \A T \in {all[r] : r \in stored} : IsFiniteSet(T)
        BY <2>2, RowsOfOne
    <2> QED BY <2>2, <2>3, <2>4, FS_UNION
<1>2. \A x \in rows : x.key \in Nat /\ x.item.path \in Nat
    BY RowsOfOne, RunDiffAssumption DEF StoredRows
<1>3. Rows(stored) = s
    BY DEF Rows, StoredRows
<1> HIDE DEF rows
<1>4. \A x, y \in rows : <<x, y>> \in ahead <=> Sooner(x, y)
    OBVIOUS
<1> HIDE DEF ahead
<1>5. ASSUME NEW x \in rows, NEW y \in rows, <<x, y>> \in ahead PROVE <<y, x>> \notin ahead
    <2>1. Sooner(x, y)
        BY <1>4, <1>5
    <2>2. ~Sooner(y, x)
        BY <2>1, <1>2 DEF Sooner
    <2> QED BY <2>2, <1>4
<1>6. ASSUME NEW x \in rows, NEW y \in rows, NEW z \in rows, <<x, z>> \in ahead
      PROVE  <<x, y>> \in ahead \/ <<y, z>> \in ahead
    <2>1. Sooner(x, z)
        BY <1>4, <1>6
    <2>2. Sooner(x, y) \/ Sooner(y, z)
        BY <2>1, <1>2 DEF Sooner
    <2> QED BY <2>2, <1>4
<1>7. /\ N \in Nat /\ s \in [1..N -> rows]
      /\ \A x \in rows : \E k \in 1..N : s[k] = x
      /\ \A j, k \in 1..N : j < k => <<s[k], s[j]>> \notin ahead
    BY <1>1, <1>5, <1>6, ArrangedListsAll
<1> HIDE DEF s, N
<1>8. Len(s) = N
    BY <1>7
<1>9. ASSUME NEW j \in 1..N, NEW k \in 1..N, j < k PROVE s[j].key <= s[k].key
    <2>1. s[j] \in rows /\ s[k] \in rows /\ ~Sooner(s[k], s[j])
        BY <1>4, <1>7, <1>9
    <2> QED BY <2>1, <1>2 DEF Sooner
<1> QED BY <1>3, <1>7, <1>8, <1>9 DEF rows

\* What the rows of a resource are gathered into.
Gatherings == [key : Nat, spelling : {r.spelling : r \in Resources},
               level : {r.level : r \in Resources},
               content : SUBSET UNION {r.content : r \in Resources}]

\* A row's columns are those of a resource.
LEMMA RowTyped ==
    ASSUME NEW one \in StoredRows(Resources)
    PROVE  /\ one.key \in Nat /\ one.spelling \in {r.spelling : r \in Resources}
           /\ one.level \in {r.level : r \in Resources}
           /\ ItemOf(one) \in SUBSET UNION {r.content : r \in Resources}
<1>1. PICK r \in Resources : one \in RowsOf(r)
    BY DEF StoredRows
<1>2. /\ one.key = r.key /\ one.spelling = r.spelling /\ one.level = r.level
      /\ ItemOf(one) \in SUBSET r.content
    BY <1>1, RowsOfOne
<1>3. r.key \in Nat
    BY RunDiffAssumption
<1> QED BY <1>2, <1>3

\* The record a row begins, and whether it goes on with the last one.
Begun(one) == [key |-> one.key, spelling |-> one.spelling, level |-> one.level,
               content |-> ItemOf(one)]
Continues(seen, one) ==
    seen # <<>> /\ seen[Len(seen)].key = one.key /\ seen[Len(seen)].spelling = one.spelling

\* A row begins a record.
LEMMA BegunTyped ==
    ASSUME NEW one \in StoredRows(Resources)
    PROVE  Begun(one) \in Gatherings
BY RowTyped DEF Begun, Gatherings

\* A row changes the last record or begins one, and leaves the others.
LEMMA GatheredGives ==
    ASSUME NEW seen \in Seq(Gatherings), NEW one \in StoredRows(Resources)
    PROVE  LET next == Gathered(seen, one)
               L    == Len(seen)
           IN  /\ next \in Seq(Gatherings)
               /\ Continues(seen, one) =>
                     /\ L > 0 /\ Len(next) = L
                     /\ \A j \in 1..L - 1 : next[j] = seen[j]
                     /\ next[L].key = seen[L].key /\ next[L].spelling = seen[L].spelling
                     /\ next[L].level = seen[L].level
                     /\ next[L].content = seen[L].content \cup ItemOf(one)
               /\ ~Continues(seen, one) =>
                     /\ Len(next) = L + 1
                     /\ \A j \in 1..L : next[j] = seen[j]
                     /\ next[L + 1] = Begun(one)
<1> DEFINE next == Gathered(seen, one)
           L == Len(seen)
<1>1. CASE Continues(seen, one)
    <2> DEFINE changed == [seen[L] EXCEPT !.content = @ \cup ItemOf(one)]
    <2>1. L \in Nat /\ seen # <<>> /\ L > 0
        BY <1>1 DEF Continues
    <2>2. Last(seen) = seen[L]
        BY DEF Last
    <2>3. next = [seen EXCEPT ![L].content = @ \cup ItemOf(one)]
        BY <1>1, <2>2 DEF Gathered, Continues
    <2>4. seen[L] \in Gatherings
        BY <2>1
    <2>5. /\ changed.key = seen[L].key /\ changed.spelling = seen[L].spelling
          /\ changed.level = seen[L].level
          /\ changed.content = seen[L].content \cup ItemOf(one)
        BY <2>4 DEF Gatherings
    <2>6. changed \in Gatherings
        BY <2>4, RowTyped DEF Gatherings
    <2>7. next = [seen EXCEPT ![L] = changed]
        BY <2>1, <2>3
    <2> HIDE DEF changed, next
    <2>8. next \in Seq(Gatherings) /\ Len(next) = L
        BY <2>1, <2>6, <2>7
    <2>9. next[L] = changed /\ \A j \in 1..L - 1 : next[j] = seen[j]
        BY <2>1, <2>7
    <2> QED BY <1>1, <2>1, <2>5, <2>8, <2>9 DEF next
<1>2. CASE ~Continues(seen, one)
    <2>1. Last(seen) = seen[L]
        BY DEF Last
    <2>2. next = Append(seen, Begun(one))
        BY <1>2, <2>1 DEF Gathered, Continues, Begun
    <2>3. Begun(one) \in Gatherings
        BY BegunTyped
    <2> HIDE DEF next
    <2>4. /\ next \in Seq(Gatherings) /\ Len(next) = L + 1
          /\ \A j \in 1..L : next[j] = seen[j]
          /\ next[L + 1] = Begun(one)
        BY <2>2, <2>3
    <2> QED BY <1>2, <2>4 DEF next
<1> QED BY <1>1, <1>2

\* The records are gathered row by row.
LEMMA RecordsFollow ==
    ASSUME NEW stored \in SUBSET Resources
    PROVE  \E after : /\ Records(stored) = after[Len(Rows(stored))]
                      /\ after[0] = <<>>
                      /\ \A n \in 1..Len(Rows(stored)) :
                            after[n] = Gathered(after[n - 1], Rows(stored)[n])
<1> DEFINE N == Len(Rows(stored))
           S == Seq(Gatherings)
           F(n, p) == Gathered(p, Rows(stored)[n])
           Body(h) == [n \in 0..N |-> IF n = 0 THEN <<>> ELSE F(n, h[n - 1])]
           g == CHOOSE h : h = Body(h)
           step == [n \in Nat |-> [p \in S |-> IF n \in 1..N THEN F(n, p) ELSE p]]
<1>1. N \in Nat /\ \A n \in 1..N : Rows(stored)[n] \in StoredRows(Resources)
    <2>1. StoredRows(stored) \in SUBSET StoredRows(Resources)
        BY DEF StoredRows
    <2> QED BY <2>1, RowsInOrder
<1> HIDE DEF N
<1>2. step \in [Nat -> [S -> S]]
    <2>1. ASSUME NEW n \in Nat, NEW p \in S
          PROVE  (IF n \in 1..N THEN F(n, p) ELSE p) \in S
        <3>1. CASE n \in 1..N
            BY <1>1, <3>1, GatheredGives
        <3>2. CASE n \notin 1..N
            BY <3>2
        <3> QED BY <3>1, <3>2
    <2> HIDE DEF F, S
    <2> QED BY <2>1
<1>3. \A n \in 1..N : \A p \in S : step[n][p] = F(n, p)
    <2> HIDE DEF F, S
    <2> QED BY <1>1
<1>4. <<>> \in S
    OBVIOUS
<1> HIDE DEF step, F, S
<1>5. PICK h : Iterated(h, N, S, <<>>, step)
    BY <1>1, <1>2, <1>4, Recursion
<1>6. /\ h \in [0..N -> S] /\ h[0] = <<>>
      /\ \A i \in 1..N : h[i] = step[i][h[i - 1]]
    BY <1>5 DEF Iterated
<1>7. h = Body(h)
    <2>1. ASSUME NEW n \in 0..N
          PROVE  h[n] = IF n = 0 THEN <<>> ELSE F(n, h[n - 1])
        <3>1. CASE n = 0
            BY <3>1, <1>6
        <3>2. CASE n # 0
            <4>1. n \in 1..N /\ n - 1 \in 0..N
                BY <3>2, <1>1
            <4> QED BY <4>1, <3>2, <1>3, <1>6
        <3> QED BY <3>1, <3>2
    <2> QED BY <2>1, <1>6
<1>8. g = Body(g)
    BY <1>7
<1>9. Records(stored) = g[N]
    BY DEF Records, N, F
<1> HIDE DEF g
<1>10. g[0] = <<>>
    BY <1>8, <1>1
<1>11. ASSUME NEW n \in 1..N PROVE g[n] = F(n, g[n - 1])
    BY <1>8, <1>1
<1> QED BY <1>9, <1>10, <1>11 DEF N, F

\* Keys that rise from place to place.
Rising(seq) == \A j, k \in 1..Len(seq) : j < k => seq[j].key < seq[k].key
\* A record has the columns of a row of its resource, and the items of all its rows.
FromRow(record, one) ==
    record.key = one.key /\ record.spelling = one.spelling /\ record.level = one.level
GatheredFrom(rows, n, record) ==
    /\ \E m \in 1..n : FromRow(record, rows[m])
    /\ \A x : x \in record.content <=> \E m \in 1..n : rows[m].key = record.key /\ x \in ItemOf(rows[m])
\* Some record has that key.
Keyed(seen, key) == \E j \in 1..Len(seen) : seen[j].key = key
\* What n rows have been gathered into.
GatheredSoFar(rows, n, seen) ==
    /\ seen \in Seq(Gatherings) /\ Rising(seen)
    /\ n = 0 => seen = <<>>
    /\ n > 0 => Len(seen) > 0 /\ seen[Len(seen)].key = rows[n].key
    /\ \A j \in 1..Len(seen) : GatheredFrom(rows, n, seen[j])
    /\ \A m \in 1..n : Keyed(seen, rows[m].key)

\* The rows of a run, in the order of their keys.
RowsFrom(rows, stored) ==
    /\ Len(rows) \in Nat /\ rows \in [1..Len(rows) -> StoredRows(stored)]
    /\ \A j, k \in 1..Len(rows) : j < k => rows[j].key <= rows[k].key

\* Two rows of a key are of one resource, when names differ by more than case.
LEMMA SameKeySameResource ==
    ASSUME NEW stored \in SUBSET Resources, Distinct(stored),
           NEW x \in StoredRows(stored), NEW y \in StoredRows(stored), x.key = y.key
    PROVE  x.spelling = y.spelling /\ x.level = y.level
<1>1. PICK r \in stored : x \in RowsOf(r)
    BY DEF StoredRows
<1>2. PICK t \in stored : y \in RowsOf(t)
    BY DEF StoredRows
<1>3. x.key = r.key /\ y.key = t.key
    BY <1>1, <1>2, RowsOfOne
<1>4. r = t
    BY <1>3 DEF Distinct
<1> QED BY <1>1, <1>2, <1>4, RowsOfOne

\* The key of a record is a number.
LEMMA GatheringKeyed == \A one \in Gatherings : one.key \in Nat
BY DEF Gatherings

\* The row at place n is of the resource being gathered.
LEMMA GatheredOn ==
    ASSUME NEW stored \in SUBSET Resources, Distinct(stored), NEW rows, RowsFrom(rows, stored),
           NEW n \in 1..Len(rows), NEW seen, GatheredSoFar(rows, n - 1, seen),
           Continues(seen, rows[n])
    PROVE  GatheredSoFar(rows, n, Gathered(seen, rows[n]))
<1> DEFINE one == rows[n]
           next == Gathered(seen, one)
           L == Len(seen)
<1>1. /\ one \in StoredRows(Resources) /\ n \in Nat /\ n > 0
      /\ seen \in Seq(Gatherings) /\ Rising(seen)
    BY DEF RowsFrom, StoredRows, GatheredSoFar
<1>2. /\ next \in Seq(Gatherings)
      /\ L \in Nat /\ L > 0 /\ Len(next) = L
      /\ \A j \in 1..L - 1 : next[j] = seen[j]
      /\ next[L].key = seen[L].key /\ next[L].spelling = seen[L].spelling
      /\ next[L].level = seen[L].level
      /\ next[L].content = seen[L].content \cup ItemOf(one)
    BY <1>1, GatheredGives
<1> HIDE DEF next
<1>3. seen[L].key = one.key
    BY DEF Continues
<1>4. \A j \in 1..L : next[j].key = seen[j].key /\ seen[j].key \in Nat
    <2> SUFFICES ASSUME NEW j \in 1..L PROVE next[j].key = seen[j].key /\ seen[j].key \in Nat
        OBVIOUS
    <2>1. seen[j] \in Gatherings
        BY <1>1
    <2>2. seen[j].key \in Nat
        BY <2>1, GatheringKeyed
    <2>3. j = L \/ j \in 1..L - 1
        BY <1>2
    <2> QED BY <1>2, <2>2, <2>3
<1>5. Rising(next)
    BY <1>1, <1>2, <1>4 DEF Rising
<1>6. \A j \in 1..L : GatheredFrom(rows, n - 1, seen[j])
    BY DEF GatheredSoFar
<1>7. ASSUME NEW j \in 1..L PROVE GatheredFrom(rows, n, next[j])
    <2>1. PICK m \in 1..n - 1 : FromRow(seen[j], rows[m])
        BY <1>6 DEF GatheredFrom
    <2>2. m \in 1..n /\ FromRow(next[j], rows[m])
        <3>1. j = L \/ j \in 1..L - 1
            BY <1>2
        <3> QED BY <1>1, <1>2, <2>1, <3>1 DEF FromRow
    <2>3. ASSUME NEW x
          PROVE  x \in seen[j].content <=>
                     \E q \in 1..n - 1 : rows[q].key = seen[j].key /\ x \in ItemOf(rows[q])
        BY <1>6 DEF GatheredFrom
    <2>4. CASE j = L
        <3>1. ASSUME NEW x
              PROVE  x \in next[j].content <=>
                         \E q \in 1..n : rows[q].key = next[j].key /\ x \in ItemOf(rows[q])
            <4>1. x \in next[j].content <=> x \in seen[j].content \/ x \in ItemOf(rows[n])
                BY <1>2, <2>4
            <4>2. rows[n].key = next[j].key
                BY <1>2, <1>3, <2>4
            <4>3. \A q \in 1..n : q = n \/ q \in 1..n - 1
                BY <1>1
            <4>4. \A q \in 1..n - 1 : q \in 1..n
                BY <1>1
            <4>5. n \in 1..n /\ next[j].key = seen[j].key
                BY <1>1, <1>4
            <4> QED BY <2>3, <4>1, <4>2, <4>3, <4>4, <4>5
        <3> QED BY <2>2, <3>1 DEF GatheredFrom
    <2>5. CASE j # L
        <3>1. j \in 1..L - 1 /\ next[j] = seen[j]
            BY <1>2, <2>5
        <3>2. seen[j].key < seen[L].key
            BY <1>1, <1>2, <3>1 DEF Rising
        <3>3. rows[n].key # seen[j].key
            BY <1>3, <1>2, <1>4, <3>2
        <3>4. \A q \in 1..n : q = n \/ q \in 1..n - 1
            BY <1>1
        <3>5. \A q \in 1..n - 1 : q \in 1..n
            BY <1>1
        <3>6. ASSUME NEW x
              PROVE  x \in next[j].content <=>
                         \E q \in 1..n : rows[q].key = next[j].key /\ x \in ItemOf(rows[q])
            BY <2>3, <3>1, <3>3, <3>4, <3>5
        <3> QED BY <2>2, <3>6 DEF GatheredFrom
    <2> QED BY <2>4, <2>5
<1>8. ASSUME NEW m \in 1..n PROVE Keyed(next, rows[m].key)
    <2>1. CASE m = n
        BY <2>1, <1>2, <1>3 DEF Keyed
    <2>2. CASE m # n
        <3>1. m \in 1..n - 1
            BY <1>1, <2>2
        <3>2. Keyed(seen, rows[m].key)
            BY <3>1 DEF GatheredSoFar
        <3> QED BY <3>2, <1>2, <1>4 DEF Keyed
    <2> QED BY <2>1, <2>2
<1>9. next[Len(next)].key = rows[n].key
    BY <1>2, <1>3
<1> QED BY <1>1, <1>2, <1>5, <1>7, <1>8, <1>9 DEF GatheredSoFar, next

\* The row at place n begins a record.
LEMMA GatheredAnew ==
    ASSUME NEW stored \in SUBSET Resources, Distinct(stored), NEW rows, RowsFrom(rows, stored),
           NEW n \in 1..Len(rows), NEW seen, GatheredSoFar(rows, n - 1, seen),
           ~Continues(seen, rows[n])
    PROVE  GatheredSoFar(rows, n, Gathered(seen, rows[n]))
<1> DEFINE one == rows[n]
           next == Gathered(seen, one)
           L == Len(seen)
<1>1. /\ one \in StoredRows(stored) /\ n \in Nat /\ n > 0
      /\ one \in StoredRows(Resources)
      /\ seen \in Seq(Gatherings) /\ Rising(seen)
    BY DEF RowsFrom, StoredRows, GatheredSoFar
<1>2. /\ next \in Seq(Gatherings)
      /\ L \in Nat /\ Len(next) = L + 1
      /\ \A j \in 1..L : next[j] = seen[j]
      /\ next[L + 1] = Begun(one)
    BY <1>1, GatheredGives
<1>3. next[L + 1].key = one.key /\ next[L + 1].content = ItemOf(one) /\ FromRow(next[L + 1], one)
    BY <1>2 DEF Begun, FromRow
<1> HIDE DEF next
<1>4. \A m \in 1..n : rows[m].key \in Nat /\ rows[m] \in StoredRows(stored)
    <2>1. \A m \in 1..n : rows[m] \in StoredRows(stored)
        BY DEF RowsFrom
    <2>2. \A m \in 1..n : rows[m] \in StoredRows(Resources)
        BY <2>1 DEF StoredRows
    <2> QED BY <2>1, <2>2, RowTyped
<1>5. \A j \in 1..L : seen[j].key \in Nat /\ GatheredFrom(rows, n - 1, seen[j])
    <2>1. \A j \in 1..L : seen[j] \in Gatherings
        BY <1>1
    <2>2. \A j \in 1..L : GatheredFrom(rows, n - 1, seen[j])
        BY DEF GatheredSoFar
    <2> QED BY <2>1, <2>2, GatheringKeyed
<1>6. L = 0 => n = 1
    BY <1>1 DEF GatheredSoFar
<1>7. L > 0 => n > 1 /\ seen[L].key = rows[n - 1].key /\ seen[L].key < one.key
    <2> SUFFICES ASSUME L > 0 PROVE n > 1 /\ seen[L].key = rows[n - 1].key /\ seen[L].key < one.key
        OBVIOUS
    <2>1. n - 1 # 0
        BY <1>1, <1>2 DEF GatheredSoFar
    <2>2. n - 1 > 0 /\ n - 1 \in 1..n /\ n - 1 \in 1..Len(rows)
        BY <1>1, <2>1
    <2>3. seen[L].key = rows[n - 1].key
        BY <2>2 DEF GatheredSoFar
    <2>4. rows[n - 1].key <= one.key
        BY <2>2, <1>1 DEF RowsFrom
    <2>5. ASSUME seen[L].key = one.key PROVE FALSE
        <3>1. GatheredFrom(rows, n - 1, seen[L])
            BY <1>5, <1>2
        <3>2. PICK m \in 1..n - 1 : FromRow(seen[L], rows[m])
            BY <3>1 DEF GatheredFrom
        <3>3. m \in 1..n /\ rows[m].key = one.key /\ rows[m].spelling = seen[L].spelling
            BY <1>1, <2>5, <3>2 DEF FromRow
        <3>4. rows[m].spelling = one.spelling
            BY <1>1, <1>4, <3>3, SameKeySameResource
        <3>5. seen # <<>>
            BY <1>2
        <3> QED BY <2>5, <3>3, <3>4, <3>5 DEF Continues
    <2> QED BY <1>1, <1>4, <2>2, <2>3, <2>4, <2>5
<1>8. \A j \in 1..L : seen[j].key < one.key
    <2> SUFFICES ASSUME NEW j \in 1..L PROVE seen[j].key < one.key
        OBVIOUS
    <2>1. L > 0 /\ seen[L].key < one.key /\ L \in 1..L
        BY <1>2, <1>7
    <2>2. j = L \/ seen[j].key < seen[L].key
        BY <1>1, <1>2 DEF Rising
    <2> QED BY <1>4, <1>5, <1>1, <2>1, <2>2
<1>9. \A m \in 1..n - 1 : rows[m].key < one.key
    <2> SUFFICES ASSUME NEW m \in 1..n - 1 PROVE rows[m].key < one.key
        OBVIOUS
    <2>1. Keyed(seen, rows[m].key)
        BY DEF GatheredSoFar
    <2> QED BY <2>1, <1>8 DEF Keyed
<1>10. Rising(next)
    <2> SUFFICES ASSUME NEW j \in 1..L + 1, NEW k \in 1..L + 1, j < k
                 PROVE  next[j].key < next[k].key
        BY <1>2 DEF Rising
    <2>1. j \in 1..L
        BY <1>2
    <2>2. CASE k = L + 1
        BY <1>2, <1>3, <1>8, <2>1, <2>2
    <2>3. CASE k # L + 1
        <3>1. k \in 1..L
            BY <1>2, <2>3, SMTT(20)
        <3> QED BY <1>1, <1>2, <2>1, <3>1 DEF Rising
    <2> QED BY <2>2, <2>3
<1>11. \A q \in 1..n : q = n \/ q \in 1..n - 1
    BY <1>1
<1>12. \A q \in 1..n - 1 : q \in 1..n
    BY <1>1
<1>13. ASSUME NEW j \in 1..L + 1 PROVE GatheredFrom(rows, n, next[j])
    <2>1. CASE j = L + 1
        <3>1. ASSUME NEW q \in 1..n PROVE rows[q].key = next[j].key <=> q = n
            <4>1. CASE q = n
                BY <4>1, <1>3, <2>1
            <4>2. CASE q # n
                <5>1. rows[q].key < one.key
                    BY <4>2, <1>11, <1>9
                <5> QED BY <5>1, <1>4, <1>1, <1>3, <2>1, <4>2
            <4> QED BY <4>1, <4>2
        <3>2. n \in 1..n
            BY <1>1
        <3>3. ASSUME NEW x
              PROVE  x \in next[j].content <=>
                         \E q \in 1..n : rows[q].key = next[j].key /\ x \in ItemOf(rows[q])
            BY <1>3, <2>1, <3>1, <3>2
        <3> QED BY <1>3, <2>1, <3>2, <3>3 DEF GatheredFrom
    <2>2. CASE j # L + 1
        <3>1. j \in 1..L /\ next[j] = seen[j]
            BY <1>2, <2>2
        <3>2. rows[n].key # seen[j].key
            BY <1>4, <1>5, <1>1, <1>8, <3>1
        <3>3. PICK m \in 1..n - 1 : FromRow(seen[j], rows[m])
            BY <1>5, <3>1 DEF GatheredFrom
        <3>4. ASSUME NEW x
              PROVE  x \in seen[j].content <=>
                         \E q \in 1..n - 1 : rows[q].key = seen[j].key /\ x \in ItemOf(rows[q])
            BY <1>5, <3>1 DEF GatheredFrom
        <3>5. ASSUME NEW x
              PROVE  x \in next[j].content <=>
                         \E q \in 1..n : rows[q].key = next[j].key /\ x \in ItemOf(rows[q])
            BY <3>1, <3>2, <3>4, <1>11, <1>12
        <3> QED BY <3>1, <3>3, <3>5, <1>12 DEF GatheredFrom
    <2> QED BY <2>1, <2>2
<1>14. ASSUME NEW m \in 1..n PROVE Keyed(next, rows[m].key)
    <2>1. CASE m = n
        <3>1. L + 1 \in 1..Len(next)
            BY <1>2
        <3> QED BY <2>1, <1>3, <3>1 DEF Keyed
    <2>2. CASE m # n
        <3>1. m \in 1..n - 1
            BY <1>11, <2>2
        <3>2. PICK j \in 1..L : seen[j].key = rows[m].key
            BY <3>1 DEF GatheredSoFar, Keyed
        <3>3. j \in 1..Len(next) /\ next[j].key = rows[m].key
            BY <1>2, <3>2
        <3> QED BY <3>3 DEF Keyed
    <2> QED BY <2>1, <2>2
<1>15. Len(next) > 0 /\ next[Len(next)].key = rows[n].key
    BY <1>2, <1>3
<1> QED BY <1>1, <1>2, <1>10, <1>13, <1>14, <1>15 DEF GatheredSoFar, next

\* One more row is gathered as the rows before it were.
LEMMA GatheredKeeps ==
    ASSUME NEW stored \in SUBSET Resources, Distinct(stored), NEW rows, RowsFrom(rows, stored),
           NEW n \in 1..Len(rows), NEW seen, GatheredSoFar(rows, n - 1, seen)
    PROVE  GatheredSoFar(rows, n, Gathered(seen, rows[n]))
BY GatheredOn, GatheredAnew

\* All rows of a run are gathered.
AllGathered(stored, records) ==
    /\ RowsFrom(Rows(stored), stored)
    /\ GatheredSoFar(Rows(stored), Len(Rows(stored)), records)

\* The records of a run are its rows, gathered.
LEMMA RecordsGather ==
    ASSUME NEW stored \in SUBSET Resources, Distinct(stored)
    PROVE  AllGathered(stored, Records(stored))
<1> DEFINE rows == Rows(stored)
           N == Len(rows)
<1>1. RowsFrom(rows, stored) /\ N \in Nat
    BY RowsInOrder DEF RowsFrom
<1>2. PICK after : /\ Records(stored) = after[N]
                   /\ after[0] = <<>>
                   /\ \A n \in 1..N : after[n] = Gathered(after[n - 1], rows[n])
    BY RecordsFollow
<1> HIDE DEF rows
<1> DEFINE I == {n \in 0..N : GatheredSoFar(rows, n, after[n])}
<1>3. 0 \in I
    <2>1. <<>> \in Seq(Gatherings) /\ Len(<<>>) = 0 /\ 0 \in 0..N
        BY <1>1
    <2>2. Rising(<<>>)
        BY <2>1 DEF Rising
    <2>3. GatheredSoFar(rows, 0, <<>>)
        BY <2>1, <2>2 DEF GatheredSoFar
    <2> QED BY <1>2, <2>1, <2>3
<1>4. ASSUME NEW n \in 1..N, n - 1 \in I PROVE n \in I
    <2>1. GatheredSoFar(rows, n - 1, after[n - 1]) /\ n \in 0..N
        BY <1>1, <1>4
    <2>2. GatheredSoFar(rows, n, Gathered(after[n - 1], rows[n]))
        BY <1>1, <2>1, GatheredKeeps
    <2> QED BY <1>2, <2>1, <2>2
<1> HIDE DEF I
<1>5. \A n \in 0..N : n \in I
    BY <1>1, <1>3, <1>4, Upward
<1>6. N \in I
    BY <1>1, <1>5
<1>7. GatheredSoFar(rows, N, after[N])
    BY <1>6 DEF I
<1> QED BY <1>1, <1>2, <1>7 DEF AllGathered, rows

\* A record tells of a resource all the merge compares.
RecordOf(record, r) == record.key = r.key /\ record.level = r.level /\ record.content = r.content
\* The records of a run are its resources, each once, in the order of their keys.
StreamsOf(records, stored) ==
    /\ records \in Seq(Gatherings) /\ Rising(records)
    /\ \A j \in 1..Len(records) : \E r \in stored : RecordOf(records[j], r)
    /\ \A r \in stored : Keyed(records, r.key)

\* What streams out of the database are the resources of the run.
LEMMA RecordsAreResources ==
    ASSUME NEW stored \in SUBSET Resources, Distinct(stored)
    PROVE  StreamsOf(Records(stored), stored)
<1> DEFINE rows == Rows(stored)
           N == Len(rows)
           records == Records(stored)
<1>1. RowsFrom(rows, stored) /\ GatheredSoFar(rows, N, records)
    BY RecordsGather DEF AllGathered
<1>2. \A one \in StoredRows(stored) : \E m \in 1..N : rows[m] = one
    BY RowsInOrder
<1> HIDE DEF rows, records
<1>3. N \in Nat /\ \A m \in 1..N : rows[m] \in StoredRows(stored)
    BY <1>1 DEF RowsFrom
<1>4. /\ records \in Seq(Gatherings) /\ Rising(records)
      /\ \A j \in 1..Len(records) : GatheredFrom(rows, N, records[j])
      /\ \A m \in 1..N : Keyed(records, rows[m].key)
    BY <1>1 DEF GatheredSoFar
<1>5. ASSUME NEW j \in 1..Len(records) PROVE \E r \in stored : RecordOf(records[j], r)
    <2>1. GatheredFrom(rows, N, records[j])
        BY <1>4
    <2>2. PICK m \in 1..N : FromRow(records[j], rows[m])
        BY <2>1 DEF GatheredFrom
    <2>3. PICK r \in stored : rows[m] \in RowsOf(r)
        BY <1>3 DEF StoredRows
    <2>4. records[j].key = r.key /\ records[j].level = r.level
        BY <2>2, <2>3, RowsOfOne DEF FromRow
    <2>5. ASSUME NEW x PROVE x \in records[j].content <=> x \in r.content
        <3>1. x \in records[j].content <=>
                  \E q \in 1..N : rows[q].key = records[j].key /\ x \in ItemOf(rows[q])
            BY <2>1 DEF GatheredFrom
        <3>2. ASSUME NEW q \in 1..N, rows[q].key = r.key, x \in ItemOf(rows[q])
              PROVE  x \in r.content
            <4>1. PICK t \in stored : rows[q] \in RowsOf(t)
                BY <1>3 DEF StoredRows
            <4>2. t = r
                BY <4>1, <3>2, RowsOfOne DEF Distinct
            <4> QED BY <4>1, <4>2, <3>2, RowsOfOne
        <3>3. ASSUME x \in r.content
              PROVE  \E q \in 1..N : rows[q].key = r.key /\ x \in ItemOf(rows[q])
            <4>1. PICK one \in RowsOf(r) : x \in ItemOf(one)
                BY <3>3, RowsOfOne
            <4>2. one.key = r.key
                BY <4>1, RowsOfOne
            <4>3. one \in StoredRows(stored)
                BY DEF StoredRows
            <4>4. PICK q \in 1..N : rows[q] = one
                BY <4>3, <1>2
            <4> QED BY <4>1, <4>2, <4>4
        <3> QED BY <2>4, <3>1, <3>2, <3>3
    <2>6. records[j].content = r.content
        <3>1. records[j] \in Gatherings
            BY <1>4
        <3>2. records[j].content \in SUBSET UNION {t.content : t \in Resources}
            BY <3>1 DEF Gatherings
        <3>3. r.content \in SUBSET UNION {t.content : t \in Resources}
            OBVIOUS
        <3> QED BY <2>5, <3>2, <3>3
    <2> QED BY <2>4, <2>6 DEF RecordOf
<1>6. ASSUME NEW r \in stored PROVE Keyed(records, r.key)
    <2>1. PICK one \in RowsOf(r) : one.key = r.key
        BY RowsOfOne
    <2>2. one \in StoredRows(stored)
        BY DEF StoredRows
    <2>3. PICK m \in 1..N : rows[m] = one
        BY <2>2, <1>2
    <2> QED BY <2>1, <2>3, <1>4
<1> QED BY <1>4, <1>5, <1>6 DEF StreamsOf, records

\* A resource is found by its key.
LEMMA OfKeyed ==
    ASSUME NEW stored, Distinct(stored), NEW r \in stored
    PROVE  Of(stored, r.key) = r
BY DEF Of, Distinct

-----------------------------------------------------------------------------
(* The preview: items and their identities                                 *)

\* A function that keeps its arguments apart has as many values as arguments.
LEMMA ImageSize ==
    ASSUME NEW S, IsFiniteSet(S), NEW f, \A x, y \in S : f[x] = f[y] => x = y
    PROVE  IsFiniteSet({f[x] : x \in S}) /\ Cardinality({f[x] : x \in S}) = Cardinality(S)
<1> DEFINE T == {f[x] : x \in S}
           g == [x \in S |-> f[x]]
<1>1. g \in [S -> T] /\ (\A x, y \in S : g[x] = g[y] => x = y) /\ \A t \in T : \E x \in S : g[x] = t
    OBVIOUS
<1> HIDE DEF g, T
<1>2. g \in Bijection(S, T)
    BY <1>1 DEF Bijection, Injection, Surjection, IsInjective
<1>3. ExistsBijection(S, T)
    BY <1>2 DEF ExistsBijection
<1>4. IsFiniteSet(T) /\ Cardinality(T) = Cardinality(S)
    BY <1>3, FS_Bijection
<1> QED BY <1>4 DEF T

\* The identity the preview knows an item by.
IdOf(i) == IF i.id # NoId THEN <<"provider", i.id>> ELSE <<"path", i.path>>

\* Items have one identity when one is the counterpart of the other.
LEMMA IdsAgree == \A i, k : IdOf(i) = IdOf(k) <=> Counterpart(i, k)
<1> SUFFICES ASSUME NEW i, NEW k PROVE IdOf(i) = IdOf(k) <=> Counterpart(i, k)
    OBVIOUS
<1>1. \A x, y : <<"provider", x>> # <<"path", y>>
    OBVIOUS
<1>2. \A a, x, y : <<a, x>> = <<a, y>> <=> x = y
    OBVIOUS
<1> QED BY <1>1, <1>2 DEF IdOf, Counterpart

\* The identities of a record are those of its resource's items, each at its path.
LEMMA IdentitiesAre ==
    ASSUME NEW r \in Resources, NEW record, record.content = r.content
    PROVE  /\ DOMAIN Identities(record) = {IdOf(i) : i \in r.content}
           /\ \A i \in r.content : /\ Identities(record)[IdOf(i)] = i.path
                                   /\ IdOf(i)[1] = "provider" <=> i.id # NoId
<1> DEFINE withId == {i \in r.content : i.id # NoId}
           withoutId == {i.path : i \in r.content} \ {i.path : i \in withId}
           ids == {<<"provider", i.id>> : i \in withId} \cup {<<"path", p>> : p \in withoutId}
           m == [x \in ids |-> IF x[1] = "path" THEN x[2] ELSE (CHOOSE i \in withId : i.id = x[2]).path]
<1>1. Identities(record) = m
    BY DEF Identities
<1>2. (withId = {} /\ withoutId = {i.path : i \in r.content}) \/ (withId = r.content /\ withoutId = {})
    BY RunDiffAssumption
<1>3. CASE withId = {} /\ withoutId = {i.path : i \in r.content}
    <2>1. \A i \in r.content : IdOf(i) = <<"path", i.path>> /\ i.id = NoId
        BY <1>3 DEF IdOf
    <2>2. ids = {IdOf(i) : i \in r.content}
        BY <1>3, <2>1
    <2>3. ASSUME NEW i \in r.content PROVE m[IdOf(i)] = i.path /\ (IdOf(i)[1] = "provider" <=> i.id # NoId)
        <3>1. IdOf(i) \in ids /\ IdOf(i)[1] = "path" /\ IdOf(i)[2] = i.path /\ i.id = NoId
            BY <2>1, <2>2
        <3> QED BY <3>1
    <2> QED BY <1>1, <2>2, <2>3
<1>4. CASE withId = r.content /\ withoutId = {}
    <2>1. \A i \in r.content : IdOf(i) = <<"provider", i.id>> /\ i.id # NoId
        BY <1>4 DEF IdOf
    <2>2. ids = {IdOf(i) : i \in r.content}
        BY <1>4, <2>1
    <2>3. ASSUME NEW i \in r.content PROVE m[IdOf(i)] = i.path /\ (IdOf(i)[1] = "provider" <=> i.id # NoId)
        <3>1. IdOf(i) \in ids /\ IdOf(i)[1] = "provider" /\ IdOf(i)[2] = i.id /\ i.id # NoId
            BY <2>1, <2>2
        <3>2. \A k \in withId : k.id = i.id => k = i
            BY RunDiffAssumption, <2>1
        <3>3. (CHOOSE k \in withId : k.id = i.id) = i
            BY <3>2, <1>4
        <3>4. m[IdOf(i)] = (CHOOSE k \in withId : k.id = IdOf(i)[2]).path
            BY <3>1
        <3> QED BY <3>1, <3>3, <3>4
    <2> QED BY <1>1, <2>2, <2>3
<1> QED BY <1>2, <1>3, <1>4

\* Identities only one of two records has are items without a counterpart.
LEMMA ApartSize ==
    ASSUME NEW r \in Resources, NEW t \in Resources, NEW c, NEW b,
           DOMAIN c = {IdOf(i) : i \in r.content}, DOMAIN b = {IdOf(i) : i \in t.content}
    PROVE  /\ IsFiniteSet(Without(r, t))
           /\ Cardinality(DOMAIN c \ DOMAIN b) = Cardinality(Without(r, t))
<1> DEFINE W == Without(r, t)
           f == [i \in W |-> IdOf(i)]
<1>1. IsFiniteSet(r.content) /\ W \in SUBSET r.content
    BY RunDiffAssumption DEF Without
<1>2. IsFiniteSet(W)
    BY <1>1, FS_Subset
<1>3. DOMAIN c \ DOMAIN b = {IdOf(i) : i \in W}
    BY IdsAgree DEF Without
<1> HIDE DEF W
<1>4. {IdOf(i) : i \in W} = {f[i] : i \in W}
    OBVIOUS
<1>5. \A i, k \in W : f[i] = f[k] => i = k
    <2> SUFFICES ASSUME NEW i \in W, NEW k \in W, IdOf(i) = IdOf(k) PROVE i = k
        OBVIOUS
    <2>1. i.id = k.id /\ (i.id = NoId => i.path = k.path)
        BY IdsAgree DEF Counterpart
    <2> QED BY <1>1, <2>1, RunDiffAssumption
<1> HIDE DEF f
<1>6. Cardinality({f[i] : i \in W}) = Cardinality(W)
    BY <1>2, <1>5, ImageSize
<1> QED BY <1>2, <1>3, <1>4, <1>6 DEF W

\* Identities at two paths are items whose counterpart is elsewhere.
LEMMA MovedSize ==
    ASSUME NEW r \in Resources, NEW t \in Resources, NEW c, NEW b,
           DOMAIN c = {IdOf(i) : i \in r.content}, DOMAIN b = {IdOf(i) : i \in t.content},
           \A i \in r.content : c[IdOf(i)] = i.path /\ (IdOf(i)[1] = "provider" <=> i.id # NoId),
           \A i \in t.content : b[IdOf(i)] = i.path
    PROVE  /\ IsFiniteSet(Shifted(r, t))
           /\ Cardinality({x \in DOMAIN c \cap DOMAIN b : x[1] = "provider" /\ c[x] # b[x]}) =
                 Cardinality(Shifted(r, t))
<1> DEFINE W == Shifted(r, t)
           M == {x \in DOMAIN c \cap DOMAIN b : x[1] = "provider" /\ c[x] # b[x]}
           f == [i \in W |-> IdOf(i)]
<1>1. IsFiniteSet(r.content) /\ W \in SUBSET r.content
    BY RunDiffAssumption DEF Shifted
<1>2. IsFiniteSet(W)
    BY <1>1, FS_Subset
<1>3. ASSUME NEW i \in W PROVE IdOf(i) \in M
    <2>1. PICK k \in t.content : Counterpart(i, k) /\ i.path # k.path
        BY DEF Shifted
    <2>2. IdOf(i) = IdOf(k) /\ i.id # NoId
        BY <2>1, IdsAgree DEF Counterpart
    <2>3. c[IdOf(i)] = i.path /\ b[IdOf(i)] = k.path /\ IdOf(i)[1] = "provider"
        BY <1>1, <2>2
    <2> QED BY <1>1, <2>1, <2>2, <2>3
<1>4. ASSUME NEW x \in M PROVE \E i \in W : x = IdOf(i)
    <2>1. PICK i \in r.content : x = IdOf(i)
        OBVIOUS
    <2>2. PICK k \in t.content : x = IdOf(k)
        OBVIOUS
    <2>3. Counterpart(i, k) /\ i.path # k.path
        BY <2>1, <2>2, IdsAgree
    <2> QED BY <2>1, <2>3 DEF Shifted
<1>5. M = {IdOf(i) : i \in W}
    BY <1>3, <1>4
<1> HIDE DEF W, M
<1>6. {IdOf(i) : i \in W} = {f[i] : i \in W}
    OBVIOUS
<1>7. \A i, k \in W : f[i] = f[k] => i = k
    <2> SUFFICES ASSUME NEW i \in W, NEW k \in W, IdOf(i) = IdOf(k) PROVE i = k
        OBVIOUS
    <2>1. i.id = k.id /\ (i.id = NoId => i.path = k.path)
        BY IdsAgree DEF Counterpart
    <2> QED BY <1>1, <2>1, RunDiffAssumption
<1> HIDE DEF f
<1>8. Cardinality({f[i] : i \in W}) = Cardinality(W)
    BY <1>2, <1>7, ImageSize
<1> QED BY <1>2, <1>5, <1>6, <1>8 DEF W, M

\* The churn of two records is the difference of their resources.
LEMMA ChurnIs ==
    ASSUME NEW r \in Resources, NEW t \in Resources, NEW c, NEW b, RecordOf(c, r), RecordOf(b, t)
    PROVE  /\ IsFiniteSet(Without(r, t)) /\ IsFiniteSet(Without(t, r)) /\ IsFiniteSet(Shifted(r, t))
           /\ Churn(c, b) = [key     |-> r.key,
                             access  |-> r.level # t.level,
                             added   |-> Cardinality(Without(r, t)),
                             removed |-> Cardinality(Without(t, r)),
                             moved   |-> Cardinality(Shifted(r, t))]
<1> DEFINE ic == Identities(c)
           ib == Identities(b)
<1>1. /\ DOMAIN ic = {IdOf(i) : i \in r.content}
      /\ \A i \in r.content : ic[IdOf(i)] = i.path /\ (IdOf(i)[1] = "provider" <=> i.id # NoId)
    BY IdentitiesAre DEF RecordOf
<1>2. /\ DOMAIN ib = {IdOf(i) : i \in t.content}
      /\ \A i \in t.content : ib[IdOf(i)] = i.path
    BY IdentitiesAre DEF RecordOf
<1>3. Churn(c, b) =
         [key     |-> c.key,
          access  |-> c.level # b.level,
          added   |-> Cardinality(DOMAIN ic \ DOMAIN ib),
          removed |-> Cardinality(DOMAIN ib \ DOMAIN ic),
          moved   |-> Cardinality({x \in DOMAIN ic \cap DOMAIN ib : x[1] = "provider" /\ ic[x] # ib[x]})]
    BY DEF Churn
<1> HIDE DEF ic, ib
<1>4. IsFiniteSet(Without(r, t)) /\ Cardinality(DOMAIN ic \ DOMAIN ib) = Cardinality(Without(r, t))
    BY <1>1, <1>2, ApartSize, SMTT(20)
<1>5. IsFiniteSet(Without(t, r)) /\ Cardinality(DOMAIN ib \ DOMAIN ic) = Cardinality(Without(t, r))
    BY <1>1, <1>2, ApartSize, SMTT(20)
<1>6. /\ IsFiniteSet(Shifted(r, t))
      /\ Cardinality({x \in DOMAIN ic \cap DOMAIN ib : x[1] = "provider" /\ ic[x] # ib[x]}) =
            Cardinality(Shifted(r, t))
    BY <1>1, <1>2, MovedSize, SMTT(20)
<1> QED BY <1>3, <1>4, <1>5, <1>6 DEF RecordOf

-----------------------------------------------------------------------------
(* The preview: the merge of two streams                                   *)

\* A list holds as many of a set as the limit lets, and the count is all of it.
Lists(list, count, S, limit) ==
    /\ IsFiniteSet(S) /\ count = Cardinality(S)
    /\ list \in Seq(Nat) /\ ToSet(list) \subseteq S
    /\ Cardinality(ToSet(list)) = Len(list)
    /\ Len(list) = IF count > limit THEN limit ELSE count

\* Nothing is listed of nothing.
LEMMA ListsNothing ==
    ASSUME NEW limit \in Nat
    PROVE  Lists(<<>>, 0, {}, limit)
<1> DEFINE none == <<>>
<1>1. IsFiniteSet({}) /\ Cardinality({}) = 0
    BY FS_EmptySet
<1>2. none \in Seq(Nat) /\ Len(none) = 0 /\ ToSet(none) = {}
    <2>1. DOMAIN <<>> = 1..0 /\ 1..0 = {}
        OBVIOUS
    <2>2. ToSet(<<>>) = {}
        BY <2>1 DEF ToSet
    <2> QED BY <2>2
<1> HIDE DEF none
<1>3. Lists(none, 0, {}, limit)
    BY <1>1, <1>2 DEF Lists
<1> QED BY <1>3 DEF none

\* A list that is appended to has one member more.
LEMMA AppendedSet ==
    ASSUME NEW list \in Seq(Nat), NEW key \in Nat
    PROVE  /\ Append(list, key) \in Seq(Nat) /\ Len(Append(list, key)) = Len(list) + 1
           /\ ToSet(Append(list, key)) = ToSet(list) \cup {key}
<1> DEFINE longer == Append(list, key)
           L == Len(list)
<1>1. /\ longer \in Seq(Nat) /\ L \in Nat /\ Len(longer) = L + 1
      /\ DOMAIN longer = 1..L + 1 /\ DOMAIN list = 1..L
      /\ longer[L + 1] = key /\ \A n \in 1..L : longer[n] = list[n]
    OBVIOUS
<1> HIDE DEF longer, L
<1>2. ASSUME NEW x PROVE x \in ToSet(longer) <=> x \in ToSet(list) \cup {key}
    <2>1. \A n \in 1..L + 1 : n = L + 1 \/ n \in 1..L
        BY <1>1
    <2>2. \A n \in 1..L : n \in 1..L + 1
        BY <1>1
    <2>3. L + 1 \in 1..L + 1
        BY <1>1
    <2> QED BY <1>1, <2>1, <2>2, <2>3 DEF ToSet
<1> QED BY <1>1, <1>2 DEF longer, L

\* A member more is counted, and listed while there is room.
LEMMA BoundedLists ==
    ASSUME NEW limit \in Nat, NEW list, NEW count, NEW S, Lists(list, count, S, limit),
           NEW key \in Nat, key \notin S
    PROVE  Lists(Bounded(list, key, limit), count + 1, S \cup {key}, limit)
<1>1. /\ IsFiniteSet(S) /\ count = Cardinality(S) /\ list \in Seq(Nat) /\ ToSet(list) \subseteq S
      /\ Cardinality(ToSet(list)) = Len(list)
      /\ Len(list) = IF count > limit THEN limit ELSE count
    BY DEF Lists
<1>2. IsFiniteSet(S \cup {key}) /\ Cardinality(S \cup {key}) = count + 1 /\ count \in Nat
    BY <1>1, FS_AddElement, FS_CardinalityType
<1>3. CASE Len(list) < limit
    <2>1. Bounded(list, key, limit) = Append(list, key)
        BY <1>3 DEF Bounded
    <2>2. /\ Append(list, key) \in Seq(Nat) /\ Len(Append(list, key)) = Len(list) + 1
          /\ ToSet(Append(list, key)) = ToSet(list) \cup {key}
        BY <1>1, AppendedSet
    <2>3. IsFiniteSet(ToSet(list)) /\ key \notin ToSet(list)
        BY <1>1, FS_Subset
    <2>4. Cardinality(ToSet(list) \cup {key}) = Len(list) + 1
        BY <1>1, <2>3, FS_AddElement
    <2>5. Len(list) + 1 = IF count + 1 > limit THEN limit ELSE count + 1
        BY <1>1, <1>2, <1>3
    <2>6. ToSet(list) \cup {key} \subseteq S \cup {key}
        BY <1>1
    <2> QED BY <1>2, <2>1, <2>2, <2>4, <2>5, <2>6 DEF Lists
<1>4. CASE ~ (Len(list) < limit)
    <2>1. Bounded(list, key, limit) = list
        BY <1>4 DEF Bounded
    <2>2. Len(list) \in Nat /\ Len(list) = limit /\ count >= limit
        BY <1>1, <1>2, <1>4
    <2>3. Len(list) = IF count + 1 > limit THEN limit ELSE count + 1
        BY <1>2, <2>2
    <2> QED BY <1>1, <1>2, <2>1, <2>3 DEF Lists
<1> QED BY <1>3, <1>4

\* The members of a family of sets, each with the set it is of.
PairsOf(S, W) == UNION {{n} \X W[n] : n \in S}
Paired(count, S, W) == IsFiniteSet(PairsOf(S, W)) /\ count = Cardinality(PairsOf(S, W))

\* There are none without a set.
LEMMA PairsOfNone == \A W : Paired(0, {}, W)
<1> SUFFICES ASSUME NEW W PROVE Paired(0, {}, W)
    OBVIOUS
<1>1. PairsOf({}, W) = {}
    BY DEF PairsOf
<1> QED BY <1>1, FS_EmptySet DEF Paired

\* A set more adds its members to the count.
LEMMA PairsGrow ==
    ASSUME NEW S, NEW W, NEW count, Paired(count, S, W), NEW n, n \notin S, IsFiniteSet(W[n])
    PROVE  Paired(count + Cardinality(W[n]), S \cup {n}, W)
<1> DEFINE P == PairsOf(S, W)
           Q == {n} \X W[n]
<1>1. PairsOf(S \cup {n}, W) = P \cup Q
    BY DEF PairsOf
<1>2. P \cap Q = {}
    <2> SUFFICES ASSUME NEW x \in P, x \in Q PROVE FALSE
        OBVIOUS
    <2>1. PICK m \in S : x \in {m} \X W[m]
        BY DEF PairsOf
    <2> QED BY <2>1
<1>3. IsFiniteSet(P) /\ count = Cardinality(P)
    BY DEF Paired
<1>4. IsFiniteSet(Q) /\ Cardinality(Q) = Cardinality({n}) * Cardinality(W[n]) /\ Cardinality({n}) = 1
    BY FS_Product, FS_Singleton
<1> HIDE DEF P, Q
<1>5. Cardinality(W[n]) \in Nat /\ Cardinality(P) \in Nat /\ Cardinality(Q) \in Nat
    BY <1>3, <1>4, FS_CardinalityType
<1>6. Cardinality(Q) = Cardinality(W[n])
    BY <1>4, <1>5
<1>7. /\ IsFiniteSet(P \cup Q)
      /\ Cardinality(P \cup Q) = Cardinality(P) + Cardinality(Q) - Cardinality(P \cap Q)
    BY <1>3, <1>4, FS_Union
<1>8. Cardinality(P \cap Q) = 0
    BY <1>2, FS_EmptySet
<1>9. Cardinality(P \cup Q) = count + Cardinality(W[n])
    BY <1>3, <1>5, <1>6, <1>7, <1>8
<1> QED BY <1>1, <1>7, <1>9 DEF Paired

\* What of a pass is behind place i of one stream is below what is ahead from place k of the other.
Below(s, i, o, k) == \A a \in 1..i - 1 : \A e \in k..Len(o) : s[a].key < o[e].key
\* Records in the order of their keys.
Ordinal(s) == s \in Seq(Gatherings) /\ Rising(s)

\* A stream is finite, and its keys are numbers.
LEMMA KeysAreNumbers ==
    ASSUME NEW s, Ordinal(s)
    PROVE  Len(s) \in Nat /\ \A a \in 1..Len(s) : s[a].key \in Nat
<1>1. Len(s) \in Nat /\ \A a \in 1..Len(s) : s[a] \in Gatherings
    BY DEF Ordinal
<1> QED BY <1>1, GatheringKeyed

\* From place k on.
LEMMA FromOn ==
    ASSUME NEW o, Ordinal(o), NEW k \in 1..Len(o), NEW e \in k..Len(o)
    PROVE  e \in 1..Len(o) /\ o[k].key <= o[e].key /\ (e > k => o[k].key < o[e].key)
<1>1. Len(o) \in Nat /\ \A a \in 1..Len(o) : o[a].key \in Nat
    BY KeysAreNumbers
<1>2. e \in 1..Len(o) /\ (e = k \/ k < e)
    BY <1>1
<1>3. CASE e = k
    BY <1>1, <1>2, <1>3
<1>4. CASE k < e
    <2>1. o[k].key < o[e].key
        BY <1>2, <1>4 DEF Ordinal, Rising
    <2> QED BY <1>1, <1>2, <2>1
<1> QED BY <1>2, <1>3, <1>4

\* A record passed alone is below all that is ahead in the other stream.
LEMMA BelowPassed ==
    ASSUME NEW s, Ordinal(s), NEW o, Ordinal(o), NEW i \in 1..Len(s), NEW k \in 1..Len(o) + 1,
           Below(s, i, o, k), k \in 1..Len(o) => s[i].key < o[k].key
    PROVE  Below(s, i + 1, o, k)
<1> SUFFICES ASSUME NEW a \in 1..i, NEW e \in k..Len(o) PROVE s[a].key < o[e].key
    BY DEF Below
<1>1. Len(s) \in Nat /\ Len(o) \in Nat
    BY KeysAreNumbers
<1>2. CASE a = i
    <2>1. k \in 1..Len(o)
        BY <1>1
    <2>2. o[k].key <= o[e].key /\ e \in 1..Len(o)
        BY <2>1, FromOn
    <2>3. s[i].key \in Nat /\ o[k].key \in Nat /\ o[e].key \in Nat
        BY <2>1, <2>2, KeysAreNumbers
    <2> QED BY <1>2, <2>1, <2>2, <2>3
<1>3. CASE a # i
    <2>1. a \in 1..i - 1
        BY <1>1, <1>3
    <2> QED BY <2>1 DEF Below
<1> QED BY <1>2, <1>3

\* What is below all that is ahead is below what is ahead later.
LEMMA BelowFewer ==
    ASSUME NEW s, NEW o, Ordinal(o), NEW i \in Nat, NEW k \in 1..Len(o), Below(s, i, o, k)
    PROVE  Below(s, i, o, k + 1)
<1>1. Len(o) \in Nat
    BY KeysAreNumbers
<1>2. \A e \in k + 1..Len(o) : e \in k..Len(o)
    BY <1>1
<1> QED BY <1>2 DEF Below

\* Records passed together are below all that is ahead in both streams.
LEMMA BelowTogether ==
    ASSUME NEW s, Ordinal(s), NEW o, Ordinal(o), NEW i \in 1..Len(s), NEW k \in 1..Len(o),
           Below(s, i, o, k), s[i].key = o[k].key
    PROVE  Below(s, i + 1, o, k + 1)
<1> SUFFICES ASSUME NEW a \in 1..i, NEW e \in k + 1..Len(o) PROVE s[a].key < o[e].key
    BY DEF Below
<1>1. Len(s) \in Nat /\ Len(o) \in Nat
    BY KeysAreNumbers
<1>2. e \in k..Len(o) /\ e > k
    BY <1>1
<1>3. CASE a = i
    BY <1>2, <1>3, FromOn
<1>4. CASE a # i
    <2>1. a \in 1..i - 1
        BY <1>1, <1>4
    <2> QED BY <1>2, <2>1 DEF Below
<1> QED BY <1>3, <1>4

\* A key that comes before all that is ahead of the other stream is not in it.
LEMMA PassedAlone ==
    ASSUME NEW stored, NEW s, Ordinal(s), NEW o, StreamsOf(o, stored),
           NEW i \in 1..Len(s), NEW k \in 1..Len(o) + 1,
           Below(o, k, s, i), k \in 1..Len(o) => s[i].key < o[k].key
    PROVE  s[i].key \notin KeysOf(stored)
<1> SUFFICES ASSUME s[i].key \in KeysOf(stored) PROVE FALSE
    OBVIOUS
<1>1. Ordinal(o) /\ \A r \in stored : Keyed(o, r.key)
    BY DEF StreamsOf, Ordinal
<1>2. Keyed(o, s[i].key)
    BY <1>1 DEF KeysOf
<1>3. PICK e \in 1..Len(o) : o[e].key = s[i].key
    BY <1>2 DEF Keyed
<1>4. Len(s) \in Nat /\ Len(o) \in Nat /\ s[i].key \in Nat
    BY <1>1, KeysAreNumbers
<1>5. CASE e < k
    <2>1. e \in 1..k - 1 /\ i \in i..Len(s)
        BY <1>4, <1>5
    <2>2. o[e].key < s[i].key
        BY <2>1 DEF Below
    <2> QED BY <1>3, <1>4, <2>2
<1>6. CASE ~ (e < k)
    <2>1. k \in 1..Len(o) /\ e \in k..Len(o)
        BY <1>4, <1>6
    <2>2. o[k].key <= o[e].key /\ s[i].key < o[k].key
        BY <1>1, <2>1, FromOn
    <2>3. o[k].key \in Nat
        BY <1>1, <2>1, KeysAreNumbers
    <2> QED BY <1>3, <1>4, <2>2, <2>3
<1> QED BY <1>5, <1>6

\* The keys behind a place.
KeysBefore(s, i) == {s[a].key : a \in 1..i - 1}

\* A place further there is one key more behind it.
LEMMA OneMoreKey ==
    ASSUME NEW s, Ordinal(s), NEW i \in 1..Len(s)
    PROVE  /\ KeysBefore(s, i + 1) = KeysBefore(s, i) \cup {s[i].key}
           /\ s[i].key \notin KeysBefore(s, i) /\ s[i].key \in Nat
<1>1. Len(s) \in Nat /\ \A a \in 1..Len(s) : s[a].key \in Nat
    BY KeysAreNumbers
<1>2. \A a \in 1..i : a = i \/ a \in 1..i - 1
    BY <1>1
<1>3. \A a \in 1..i - 1 : a \in 1..i /\ a \in 1..Len(s) /\ a < i
    BY <1>1
<1>4. i \in 1..i /\ (i + 1) - 1 = i
    BY <1>1
<1>5. KeysBefore(s, i + 1) = KeysBefore(s, i) \cup {s[i].key}
    BY <1>2, <1>3, <1>4 DEF KeysBefore
<1>6. \A a \in 1..i - 1 : s[a].key < s[i].key
    BY <1>3 DEF Ordinal, Rising
<1>7. \A a \in 1..i - 1 : s[a].key # s[i].key
    BY <1>1, <1>3, <1>6
<1> QED BY <1>1, <1>5, <1>7 DEF KeysBefore

\* The resources both runs have, and what differs in each.
Shared(current, earlier) == KeysOf(current) \cap KeysOf(earlier)
AddedAt(current, earlier) ==
    [n \in Shared(current, earlier) |-> Without(Of(current, n), Of(earlier, n))]
RemovedAt(current, earlier) ==
    [n \in Shared(current, earlier) |-> Without(Of(earlier, n), Of(current, n))]
MovedAt(current, earlier) ==
    [n \in Shared(current, earlier) |-> Shifted(Of(current, n), Of(earlier, n))]
\* The churn of a resource both runs have, and the resources that have any.
ChurnAt(current, earlier, n) ==
    [key     |-> n,
     access  |-> Of(current, n).level # Of(earlier, n).level,
     added   |-> Cardinality(AddedAt(current, earlier)[n]),
     removed |-> Cardinality(RemovedAt(current, earlier)[n]),
     moved   |-> Cardinality(MovedAt(current, earlier)[n])]
ChurnedKeys(current, earlier) ==
    {n \in Shared(current, earlier) : Changed(ChurnAt(current, earlier, n))}
\* Churn counts items.
Changes == [key : Nat, access : BOOLEAN, added : Nat, removed : Nat, moved : Nat]

\* A resource both runs have is one of each.
LEMMA SharedResources ==
    ASSUME NEW current \in SUBSET Resources, Distinct(current),
           NEW earlier \in SUBSET Resources, Distinct(earlier),
           NEW n \in Shared(current, earlier)
    PROVE  /\ Of(current, n) \in Resources /\ Of(current, n).key = n /\ n \in Nat
           /\ Of(earlier, n) \in Resources /\ Of(earlier, n).key = n
<1>1. PICK r \in current : r.key = n
    BY DEF Shared, KeysOf
<1>2. PICK t \in earlier : t.key = n
    BY DEF Shared, KeysOf
<1>3. Of(current, n) = r /\ Of(earlier, n) = t
    BY <1>1, <1>2, OfKeyed
<1> QED BY <1>1, <1>2, <1>3, RunDiffAssumption

\* Items without a counterpart, or with one elsewhere, are finitely many.
LEMMA ApartFinite ==
    ASSUME NEW r \in Resources, NEW t \in Resources
    PROVE  IsFiniteSet(Without(r, t)) /\ IsFiniteSet(Shifted(r, t))
<1>1. IsFiniteSet(r.content)
    BY RunDiffAssumption
<1>2. Without(r, t) \in SUBSET r.content /\ Shifted(r, t) \in SUBSET r.content
    BY DEF Without, Shifted
<1> QED BY <1>1, <1>2, FS_Subset

\* The churn of a resource both runs have is churn.
LEMMA ChurnAtTyped ==
    ASSUME NEW current \in SUBSET Resources, Distinct(current),
           NEW earlier \in SUBSET Resources, Distinct(earlier),
           NEW n \in Shared(current, earlier)
    PROVE  /\ ChurnAt(current, earlier, n) \in Changes
           /\ IsFiniteSet(AddedAt(current, earlier)[n])
           /\ IsFiniteSet(RemovedAt(current, earlier)[n])
           /\ IsFiniteSet(MovedAt(current, earlier)[n])
<1> DEFINE r == Of(current, n)
           t == Of(earlier, n)
<1>1. r \in Resources /\ t \in Resources /\ n \in Nat
    BY SharedResources
<1>2. /\ AddedAt(current, earlier)[n] = Without(r, t)
      /\ RemovedAt(current, earlier)[n] = Without(t, r)
      /\ MovedAt(current, earlier)[n] = Shifted(r, t)
    BY DEF AddedAt, RemovedAt, MovedAt
<1>3. IsFiniteSet(Without(r, t)) /\ IsFiniteSet(Without(t, r)) /\ IsFiniteSet(Shifted(r, t))
    BY <1>1, ApartFinite
<1>4. /\ Cardinality(Without(r, t)) \in Nat /\ Cardinality(Without(t, r)) \in Nat
      /\ Cardinality(Shifted(r, t)) \in Nat
    BY <1>3, FS_CardinalityType
<1>5. ChurnAt(current, earlier, n) \in Changes
    BY <1>1, <1>2, <1>4 DEF ChurnAt, Changes
<1> QED BY <1>2, <1>3, <1>5

\* Where both streams are at a key, the merge finds the churn of that resource.
LEMMA ChurnThere ==
    ASSUME NEW current \in SUBSET Resources, Distinct(current),
           NEW earlier \in SUBSET Resources, Distinct(earlier),
           NEW c, StreamsOf(c, current), NEW b, StreamsOf(b, earlier),
           NEW i \in 1..Len(c), NEW k \in 1..Len(b), c[i].key = b[k].key
    PROVE  /\ c[i].key \in Shared(current, earlier)
           /\ Churn(c[i], b[k]) = ChurnAt(current, earlier, c[i].key)
           /\ Churn(c[i], b[k]) \in Changes
<1> DEFINE n == c[i].key
<1>1. PICK r \in current : RecordOf(c[i], r)
    BY DEF StreamsOf
<1>2. PICK t \in earlier : RecordOf(b[k], t)
    BY DEF StreamsOf
<1>3. r.key = n /\ t.key = n
    BY <1>1, <1>2 DEF RecordOf
<1>4. n \in Shared(current, earlier)
    BY <1>3 DEF Shared, KeysOf
<1>5. Of(current, n) = r /\ Of(earlier, n) = t
    BY <1>3, OfKeyed
<1>6. /\ AddedAt(current, earlier)[n] = Without(r, t)
      /\ RemovedAt(current, earlier)[n] = Without(t, r)
      /\ MovedAt(current, earlier)[n] = Shifted(r, t)
    BY <1>4, <1>5 DEF AddedAt, RemovedAt, MovedAt
<1>7. r \in Resources /\ t \in Resources
    OBVIOUS
<1>8. Churn(c[i], b[k]) = [key     |-> r.key,
                           access  |-> r.level # t.level,
                           added   |-> Cardinality(Without(r, t)),
                           removed |-> Cardinality(Without(t, r)),
                           moved   |-> Cardinality(Shifted(r, t))]
    BY <1>1, <1>2, <1>7, ChurnIs
<1>9. Churn(c[i], b[k]) = ChurnAt(current, earlier, n)
    BY <1>3, <1>5, <1>6, <1>8 DEF ChurnAt
<1> QED BY <1>4, <1>9, ChurnAtTyped

\* The states a pass can be in.
MergeStates ==
    [i : Nat \ {0}, k : Nat \ {0}, new : Seq(Nat), gone : Seq(Nat), churn : Seq(Changes),
     newCount : Nat, goneCount : Nat, added : Nat, removed : Nat, moved : Nat]

\* A bounded list stays a list of keys.
LEMMA BoundedTyped ==
    ASSUME NEW list \in Seq(Nat), NEW key \in Nat, NEW limit
    PROVE  Bounded(list, key, limit) \in Seq(Nat)
BY AppendedSet DEF Bounded

\* What passing a new resource changes.
LEMMA PassNewGives ==
    ASSUME NEW d \in MergeStates, NEW record \in Gatherings, NEW limit
    PROVE  LET e == PassNew(d, record, limit)
           IN  /\ e \in MergeStates
               /\ e.i = d.i + 1 /\ e.k = d.k
               /\ e.new = Bounded(d.new, record.key, limit) /\ e.newCount = d.newCount + 1
               /\ e.gone = d.gone /\ e.goneCount = d.goneCount
               /\ e.churn = d.churn /\ e.added = d.added /\ e.removed = d.removed
               /\ e.moved = d.moved
<1> DEFINE more == Bounded(d.new, record.key, limit)
<1>1. more \in Seq(Nat)
    <2>1. d.new \in Seq(Nat) /\ record.key \in Nat
        BY GatheringKeyed DEF MergeStates
    <2> QED BY <2>1, BoundedTyped
<1>2. PassNew(d, record, limit) = [d EXCEPT !.i = @ + 1, !.newCount = @ + 1, !.new = more]
    BY DEF PassNew
<1> HIDE DEF more
<1>3. d.i + 1 \in Nat \ {0} /\ d.newCount + 1 \in Nat
    BY DEF MergeStates
<1> QED BY <1>1, <1>2, <1>3 DEF MergeStates, more

\* What passing one that is gone changes.
LEMMA PassGoneGives ==
    ASSUME NEW d \in MergeStates, NEW record \in Gatherings, NEW limit
    PROVE  LET e == PassGone(d, record, limit)
           IN  /\ e \in MergeStates
               /\ e.i = d.i /\ e.k = d.k + 1
               /\ e.gone = Bounded(d.gone, record.key, limit) /\ e.goneCount = d.goneCount + 1
               /\ e.new = d.new /\ e.newCount = d.newCount
               /\ e.churn = d.churn /\ e.added = d.added /\ e.removed = d.removed
               /\ e.moved = d.moved
<1> DEFINE more == Bounded(d.gone, record.key, limit)
<1>1. more \in Seq(Nat)
    <2>1. d.gone \in Seq(Nat) /\ record.key \in Nat
        BY GatheringKeyed DEF MergeStates
    <2> QED BY <2>1, BoundedTyped
<1>2. PassGone(d, record, limit) = [d EXCEPT !.k = @ + 1, !.goneCount = @ + 1, !.gone = more]
    BY DEF PassGone
<1> HIDE DEF more
<1>3. d.k + 1 \in Nat \ {0} /\ d.goneCount + 1 \in Nat
    BY DEF MergeStates
<1> QED BY <1>1, <1>2, <1>3 DEF MergeStates, more

\* What passing one that both runs have changes.
LEMMA PassBothGives ==
    ASSUME NEW d \in MergeStates, NEW churn \in Changes
    PROVE  LET e == PassBoth(d, churn)
           IN  /\ e \in MergeStates
               /\ e.i = d.i + 1 /\ e.k = d.k + 1
               /\ e.new = d.new /\ e.newCount = d.newCount
               /\ e.gone = d.gone /\ e.goneCount = d.goneCount
               /\ ~Changed(churn) => /\ e.churn = d.churn /\ e.added = d.added
                                     /\ e.removed = d.removed /\ e.moved = d.moved
               /\ Changed(churn) => /\ e.churn = Append(d.churn, churn)
                                    /\ e.added = d.added + churn.added
                                    /\ e.removed = d.removed + churn.removed
                                    /\ e.moved = d.moved + churn.moved
<1> DEFINE past == [d EXCEPT !.i = @ + 1, !.k = @ + 1]
           longer == Append(d.churn, churn)
<1>1. d.i + 1 \in Nat \ {0} /\ d.k + 1 \in Nat \ {0}
    BY DEF MergeStates
<1>2. /\ past \in MergeStates /\ past.i = d.i + 1 /\ past.k = d.k + 1
      /\ past.new = d.new /\ past.newCount = d.newCount
      /\ past.gone = d.gone /\ past.goneCount = d.goneCount
      /\ past.churn = d.churn /\ past.added = d.added
      /\ past.removed = d.removed /\ past.moved = d.moved
    BY <1>1 DEF MergeStates
<1>3. CASE ~Changed(churn)
    <2>1. PassBoth(d, churn) = past
        BY <1>3 DEF PassBoth
    <2> QED BY <1>2, <1>3, <2>1
<1>4. CASE Changed(churn)
    <2>1. longer \in Seq(Changes)
        <3>1. d.churn \in Seq(Changes)
            BY DEF MergeStates
        <3> QED BY <3>1
    <2>2. PassBoth(d, churn) = [past EXCEPT !.churn = Append(@, churn), !.added = @ + churn.added,
                                            !.removed = @ + churn.removed, !.moved = @ + churn.moved]
        BY <1>4 DEF PassBoth
    <2> HIDE DEF past
    <2>3. /\ past.added + churn.added \in Nat /\ past.removed + churn.removed \in Nat
          /\ past.moved + churn.moved \in Nat
        <3>1. past.added \in Nat /\ past.removed \in Nat /\ past.moved \in Nat
            BY <1>2 DEF MergeStates
        <3>2. churn.added \in Nat /\ churn.removed \in Nat /\ churn.moved \in Nat
            BY DEF Changes
        <3> QED BY <3>1, <3>2
    <2>4. PassBoth(d, churn) = [past EXCEPT !.churn = longer, !.added = @ + churn.added,
                                            !.removed = @ + churn.removed, !.moved = @ + churn.moved]
        BY <1>2, <2>2 DEF MergeStates
    <2> HIDE DEF longer
    <2>5. PassBoth(d, churn) \in MergeStates
        BY <1>2, <2>1, <2>3, <2>4 DEF MergeStates
    <2>6. LET e == PassBoth(d, churn)
          IN  /\ e.i = past.i /\ e.k = past.k /\ e.new = past.new /\ e.newCount = past.newCount
              /\ e.gone = past.gone /\ e.goneCount = past.goneCount /\ e.churn = longer
              /\ e.added = past.added + churn.added
              /\ e.removed = past.removed + churn.removed
              /\ e.moved = past.moved + churn.moved
        BY <1>2, <2>4 DEF MergeStates
    <2> QED BY <1>2, <1>4, <2>5, <2>6 DEF longer
<1> QED BY <1>3, <1>4

\* The turns of the pass: one stream is ahead, the other is, or both are at the same key.
AtNew(c, b, i, k)  == i <= Len(c) /\ (k \in 1..Len(b) => c[i].key < b[k].key)
AtBoth(c, b, i, k) == i <= Len(c) /\ k <= Len(b) /\ c[i].key = b[k].key

\* Which turn the pass takes.
LEMMA PassIs ==
    ASSUME NEW c, Ordinal(c), NEW b, Ordinal(b), NEW limit,
           NEW d, d.i \in Nat \ {0}, d.k \in Nat \ {0}
    PROVE  /\ \/ d.i > Len(c) /\ d.k > Len(b)
              \/ AtNew(c, b, d.i, d.k) \/ AtNew(b, c, d.k, d.i) \/ AtBoth(c, b, d.i, d.k)
           /\ d.i > Len(c) /\ d.k > Len(b) => Pass(c, b, limit, d) = d
           /\ AtNew(c, b, d.i, d.k) => Pass(c, b, limit, d) = PassNew(d, c[d.i], limit)
           /\ AtNew(b, c, d.k, d.i) => Pass(c, b, limit, d) = PassGone(d, b[d.k], limit)
           /\ AtBoth(c, b, d.i, d.k) =>
                 Pass(c, b, limit, d) = PassBoth(d, Churn(c[d.i], b[d.k]))
<1> DEFINE i == d.i
           k == d.k
           P == Pass(c, b, limit, d)
<1>1. Len(c) \in Nat /\ Len(b) \in Nat /\ i \in Nat \ {0} /\ k \in Nat \ {0}
    BY KeysAreNumbers
<1>2. /\ i <= Len(c) => i \in 1..Len(c) /\ c[i].key \in Nat
      /\ k <= Len(b) => k \in 1..Len(b) /\ b[k].key \in Nat
    BY <1>1, KeysAreNumbers
<1>3. CASE i > Len(c) /\ k > Len(b)
    <2>1. P = d /\ ~ (i <= Len(c)) /\ ~ (k <= Len(b))
        BY <1>1, <1>3 DEF Pass
    <2> QED BY <1>3, <2>1 DEF AtNew, AtBoth
<1>4. CASE i <= Len(c) /\ k > Len(b)
    <2>1. P = PassNew(d, c[i], limit) /\ ~ (i > Len(c)) /\ ~ (k <= Len(b)) /\ k \notin 1..Len(b)
        BY <1>1, <1>4 DEF Pass
    <2> QED BY <1>4, <2>1 DEF AtNew, AtBoth
<1>5. CASE i > Len(c) /\ k <= Len(b)
    <2>1. P = PassGone(d, b[k], limit) /\ ~ (i <= Len(c)) /\ ~ (k > Len(b)) /\ i \notin 1..Len(c)
        BY <1>1, <1>5 DEF Pass
    <2> QED BY <1>5, <2>1 DEF AtNew, AtBoth
<1>6. CASE i <= Len(c) /\ k <= Len(b)
    <2>1. ~ (i > Len(c)) /\ ~ (k > Len(b)) /\ i \in 1..Len(c) /\ k \in 1..Len(b)
        BY <1>1, <1>6
    <2>2. P = IF c[i].key = b[k].key THEN PassBoth(d, Churn(c[i], b[k]))
              ELSE IF c[i].key < b[k].key THEN PassNew(d, c[i], limit)
              ELSE PassGone(d, b[k], limit)
        BY <2>1 DEF Pass, SameResource
    <2> HIDE DEF P
    <2>3. \/ c[i].key = b[k].key /\ ~ (c[i].key < b[k].key) /\ ~ (b[k].key < c[i].key)
          \/ c[i].key < b[k].key /\ c[i].key # b[k].key /\ ~ (b[k].key < c[i].key)
          \/ b[k].key < c[i].key /\ c[i].key # b[k].key /\ ~ (c[i].key < b[k].key)
        BY <1>2, <1>6
    <2> QED BY <1>6, <2>1, <2>2, <2>3 DEF AtNew, AtBoth, P
<1> QED BY <1>1, <1>3, <1>4, <1>5, <1>6

\* Two runs and their streams.
Compared(c, b, current, earlier) ==
    /\ current \in SUBSET Resources /\ Distinct(current) /\ StreamsOf(c, current)
    /\ earlier \in SUBSET Resources /\ Distinct(earlier) /\ StreamsOf(b, earlier)

\* What is kept of the churn is the churn of each of these resources, once.
Churned(churn, S, current, earlier) ==
    /\ churn \in Seq(Changes)
    /\ \A j \in 1..Len(churn) :
          churn[j].key \in S /\ churn[j] = ChurnAt(current, earlier, churn[j].key)
    /\ \A j, k \in 1..Len(churn) : churn[j].key = churn[k].key => j = k
    /\ \A n \in S : Keyed(churn, n)

\* The totals are those of these resources.
Totalled(d, S, current, earlier) ==
    /\ Paired(d.added, S, AddedAt(current, earlier))
    /\ Paired(d.removed, S, RemovedAt(current, earlier))
    /\ Paired(d.moved, S, MovedAt(current, earlier))

\* What holds at every turn of the pass: what is behind it in one stream is below what is
\* ahead of it in the other, and what it has counted and listed is the difference behind it.
MergedSoFar(c, b, current, earlier, limit, d) ==
    /\ d \in MergeStates /\ d.i \in 1..Len(c) + 1 /\ d.k \in 1..Len(b) + 1
    /\ Below(c, d.i, b, d.k) /\ Below(b, d.k, c, d.i)
    /\ Lists(d.new, d.newCount, KeysBefore(c, d.i) \ KeysOf(earlier), limit)
    /\ Lists(d.gone, d.goneCount, KeysBefore(b, d.k) \ KeysOf(current), limit)
    /\ Churned(d.churn, KeysBefore(c, d.i) \cap ChurnedKeys(current, earlier), current, earlier)
    /\ Totalled(d, KeysBefore(c, d.i) \cap ChurnedKeys(current, earlier), current, earlier)

\* Both streams rise, and their keys are those of the runs.
LEMMA StreamsRise ==
    ASSUME NEW c, NEW b, NEW current, NEW earlier, Compared(c, b, current, earlier)
    PROVE  /\ Ordinal(c) /\ Ordinal(b)
           /\ \A j \in 1..Len(c) : c[j] \in Gatherings /\ c[j].key \in KeysOf(current)
           /\ \A j \in 1..Len(b) : b[j] \in Gatherings /\ b[j].key \in KeysOf(earlier)
<1>1. Ordinal(c) /\ Ordinal(b)
    BY DEF Compared, StreamsOf, Ordinal
<1>2. \A j \in 1..Len(c) : c[j] \in Gatherings
    BY <1>1 DEF Ordinal
<1>3. \A j \in 1..Len(b) : b[j] \in Gatherings
    BY <1>1 DEF Ordinal
<1>4. \A j \in 1..Len(c) : c[j].key \in KeysOf(current)
    BY DEF Compared, StreamsOf, RecordOf, KeysOf
<1>5. \A j \in 1..Len(b) : b[j].key \in KeysOf(earlier)
    BY DEF Compared, StreamsOf, RecordOf, KeysOf
<1> QED BY <1>1, <1>2, <1>3, <1>4, <1>5

\* The churn of one resource more is kept.
LEMMA ChurnedMore ==
    ASSUME NEW current, NEW earlier, NEW S, NEW churn, Churned(churn, S, current, earlier),
           NEW n, n \notin S, NEW x \in Changes, x = ChurnAt(current, earlier, n), x.key = n
    PROVE  Churned(Append(churn, x), S \cup {n}, current, earlier)
<1> DEFINE longer == Append(churn, x)
           L == Len(churn)
<1>1. /\ churn \in Seq(Changes)
      /\ \A j \in 1..L : churn[j].key \in S /\ churn[j] = ChurnAt(current, earlier, churn[j].key)
      /\ \A j, k \in 1..L : churn[j].key = churn[k].key => j = k
      /\ \A m \in S : Keyed(churn, m)
    BY DEF Churned
<1>2. /\ longer \in Seq(Changes) /\ L \in Nat /\ Len(longer) = L + 1
      /\ longer[L + 1] = x /\ \A j \in 1..L : longer[j] = churn[j]
    BY <1>1
<1> HIDE DEF longer
<1>3. /\ \A j \in 1..L + 1 : j = L + 1 \/ j \in 1..L
      /\ \A j \in 1..L : j \in 1..L + 1
      /\ L + 1 \in 1..L + 1
    BY <1>2
<1> HIDE DEF L
<1>4. ASSUME NEW j \in 1..L + 1
      PROVE  longer[j].key \in S \cup {n} /\ longer[j] = ChurnAt(current, earlier, longer[j].key)
    BY <1>1, <1>2, <1>3
<1>5. ASSUME NEW j \in 1..L + 1, NEW k \in 1..L + 1, longer[j].key = longer[k].key PROVE j = k
    BY <1>1, <1>2, <1>3, <1>5
<1>6. ASSUME NEW m \in S \cup {n} PROVE Keyed(longer, m)
    <2>1. CASE m = n
        BY <1>2, <1>3, <2>1 DEF Keyed
    <2>2. CASE m # n
        <3>1. PICK j \in 1..L : churn[j].key = m
            BY <1>1, <2>2 DEF Keyed, L
        <3> QED BY <1>2, <1>3, <3>1 DEF Keyed
    <2> QED BY <2>1, <2>2
<1> QED BY <1>2, <1>4, <1>5, <1>6 DEF Churned, longer

\* A key below all that is ahead in the earlier run is new: it was not passed there either.
LEMMA PassNewKeeps ==
    ASSUME NEW limit \in Nat, NEW c, NEW b, NEW current, NEW earlier,
           Compared(c, b, current, earlier), NEW d,
           MergedSoFar(c, b, current, earlier, limit, d), AtNew(c, b, d.i, d.k)
    PROVE  MergedSoFar(c, b, current, earlier, limit, PassNew(d, c[d.i], limit))
<1> DEFINE e == PassNew(d, c[d.i], limit)
           n == c[d.i].key
           Churns == ChurnedKeys(current, earlier)
<1>1. /\ d \in MergeStates /\ d.i \in 1..Len(c) + 1 /\ d.k \in 1..Len(b) + 1
      /\ Below(c, d.i, b, d.k) /\ Below(b, d.k, c, d.i)
      /\ Lists(d.new, d.newCount, KeysBefore(c, d.i) \ KeysOf(earlier), limit)
      /\ Lists(d.gone, d.goneCount, KeysBefore(b, d.k) \ KeysOf(current), limit)
      /\ Churned(d.churn, KeysBefore(c, d.i) \cap Churns, current, earlier)
      /\ Totalled(d, KeysBefore(c, d.i) \cap Churns, current, earlier)
    BY DEF MergedSoFar
<1>2. /\ Ordinal(c) /\ Ordinal(b) /\ StreamsOf(b, earlier)
      /\ \A j \in 1..Len(c) : c[j] \in Gatherings
    BY StreamsRise DEF Compared
<1>3. Len(c) \in Nat /\ Len(b) \in Nat
    BY <1>2, KeysAreNumbers
<1>4. d.i \in 1..Len(c) /\ (d.k \in 1..Len(b) => n < b[d.k].key)
    BY <1>1, <1>3 DEF AtNew
<1>5. c[d.i] \in Gatherings
    BY <1>2, <1>4
<1>6. /\ e \in MergeStates
      /\ e.i = d.i + 1 /\ e.k = d.k
      /\ e.new = Bounded(d.new, n, limit) /\ e.newCount = d.newCount + 1
      /\ e.gone = d.gone /\ e.goneCount = d.goneCount
      /\ e.churn = d.churn /\ e.added = d.added /\ e.removed = d.removed /\ e.moved = d.moved
    BY <1>1, <1>5, PassNewGives
<1> HIDE DEF e
<1>7. Below(c, d.i + 1, b, d.k)
    BY <1>1, <1>2, <1>4, BelowPassed
<1>8. Below(b, d.k, c, d.i + 1)
    <2>1. d.k \in Nat
        BY <1>1, <1>3
    <2> QED BY <1>1, <1>2, <1>4, <2>1, BelowFewer
<1>9. n \notin KeysOf(earlier)
    BY <1>1, <1>2, <1>4, PassedAlone
<1>10. /\ KeysBefore(c, d.i + 1) = KeysBefore(c, d.i) \cup {n}
       /\ n \notin KeysBefore(c, d.i) /\ n \in Nat
    BY <1>2, <1>4, OneMoreKey
<1>11. n \notin Churns
    BY <1>9 DEF ChurnedKeys, Shared
<1> HIDE DEF n, Churns
<1>12. KeysBefore(c, d.i + 1) \cap Churns = KeysBefore(c, d.i) \cap Churns
    BY <1>10, <1>11
<1>13. KeysBefore(c, d.i + 1) \ KeysOf(earlier) = (KeysBefore(c, d.i) \ KeysOf(earlier)) \cup {n}
    BY <1>9, <1>10
<1>14. Lists(Bounded(d.new, n, limit), d.newCount + 1,
             (KeysBefore(c, d.i) \ KeysOf(earlier)) \cup {n}, limit)
    BY <1>1, <1>10, BoundedLists
<1>15. e.i \in 1..Len(c) + 1 /\ e.k \in 1..Len(b) + 1
    BY <1>1, <1>3, <1>4, <1>6
<1>16. Lists(e.new, e.newCount, KeysBefore(c, e.i) \ KeysOf(earlier), limit)
    BY <1>6, <1>13, <1>14
<1>17. Totalled(e, KeysBefore(c, e.i) \cap Churns, current, earlier)
    BY <1>1, <1>6, <1>12 DEF Totalled
<1>18. Churned(e.churn, KeysBefore(c, e.i) \cap Churns, current, earlier)
    BY <1>1, <1>6, <1>12
<1>19. Lists(e.gone, e.goneCount, KeysBefore(b, e.k) \ KeysOf(current), limit)
    BY <1>1, <1>6
<1>20. Below(c, e.i, b, e.k) /\ Below(b, e.k, c, e.i)
    BY <1>6, <1>7, <1>8
<1>21. MergedSoFar(c, b, current, earlier, limit, e)
    BY <1>6, <1>15, <1>16, <1>17, <1>18, <1>19, <1>20 DEF MergedSoFar, Churns
<1> QED BY <1>21 DEF e

\* A key below all that is ahead in the current run is gone.
LEMMA PassGoneKeeps ==
    ASSUME NEW limit \in Nat, NEW c, NEW b, NEW current, NEW earlier,
           Compared(c, b, current, earlier), NEW d,
           MergedSoFar(c, b, current, earlier, limit, d), AtNew(b, c, d.k, d.i)
    PROVE  MergedSoFar(c, b, current, earlier, limit, PassGone(d, b[d.k], limit))
<1> DEFINE e == PassGone(d, b[d.k], limit)
           n == b[d.k].key
           Churns == ChurnedKeys(current, earlier)
<1>1. /\ d \in MergeStates /\ d.i \in 1..Len(c) + 1 /\ d.k \in 1..Len(b) + 1
      /\ Below(c, d.i, b, d.k) /\ Below(b, d.k, c, d.i)
      /\ Lists(d.new, d.newCount, KeysBefore(c, d.i) \ KeysOf(earlier), limit)
      /\ Lists(d.gone, d.goneCount, KeysBefore(b, d.k) \ KeysOf(current), limit)
      /\ Churned(d.churn, KeysBefore(c, d.i) \cap Churns, current, earlier)
      /\ Totalled(d, KeysBefore(c, d.i) \cap Churns, current, earlier)
    BY DEF MergedSoFar
<1>2. /\ Ordinal(c) /\ Ordinal(b) /\ StreamsOf(c, current)
      /\ \A j \in 1..Len(b) : b[j] \in Gatherings
    BY StreamsRise DEF Compared
<1>3. Len(c) \in Nat /\ Len(b) \in Nat
    BY <1>2, KeysAreNumbers
<1>4. d.k \in 1..Len(b) /\ (d.i \in 1..Len(c) => n < c[d.i].key)
    BY <1>1, <1>3 DEF AtNew
<1>5. b[d.k] \in Gatherings
    BY <1>2, <1>4
<1>6. /\ e \in MergeStates
      /\ e.i = d.i /\ e.k = d.k + 1
      /\ e.gone = Bounded(d.gone, n, limit) /\ e.goneCount = d.goneCount + 1
      /\ e.new = d.new /\ e.newCount = d.newCount
      /\ e.churn = d.churn /\ e.added = d.added /\ e.removed = d.removed /\ e.moved = d.moved
    BY <1>1, <1>5, PassGoneGives
<1> HIDE DEF e
<1>7. Below(b, d.k + 1, c, d.i)
    BY <1>1, <1>2, <1>4, BelowPassed
<1>8. Below(c, d.i, b, d.k + 1)
    <2>1. d.i \in Nat
        BY <1>1, <1>3
    <2> QED BY <1>1, <1>2, <1>4, <2>1, BelowFewer
<1>9. n \notin KeysOf(current)
    BY <1>1, <1>2, <1>4, PassedAlone
<1>10. /\ KeysBefore(b, d.k + 1) = KeysBefore(b, d.k) \cup {n}
       /\ n \notin KeysBefore(b, d.k) /\ n \in Nat
    BY <1>2, <1>4, OneMoreKey
<1> HIDE DEF n, Churns
<1>11. KeysBefore(b, d.k + 1) \ KeysOf(current) = (KeysBefore(b, d.k) \ KeysOf(current)) \cup {n}
    BY <1>9, <1>10
<1>12. Lists(Bounded(d.gone, n, limit), d.goneCount + 1,
             (KeysBefore(b, d.k) \ KeysOf(current)) \cup {n}, limit)
    BY <1>1, <1>10, BoundedLists
<1>13. e.i \in 1..Len(c) + 1 /\ e.k \in 1..Len(b) + 1
    BY <1>1, <1>3, <1>4, <1>6
<1>14. Lists(e.gone, e.goneCount, KeysBefore(b, e.k) \ KeysOf(current), limit)
    BY <1>6, <1>11, <1>12
<1>15. Totalled(e, KeysBefore(c, e.i) \cap Churns, current, earlier)
    BY <1>1, <1>6 DEF Totalled
<1>16. /\ Churned(e.churn, KeysBefore(c, e.i) \cap Churns, current, earlier)
       /\ Lists(e.new, e.newCount, KeysBefore(c, e.i) \ KeysOf(earlier), limit)
    BY <1>1, <1>6
<1>17. Below(c, e.i, b, e.k) /\ Below(b, e.k, c, e.i)
    BY <1>6, <1>7, <1>8
<1>18. MergedSoFar(c, b, current, earlier, limit, e)
    BY <1>6, <1>13, <1>14, <1>15, <1>16, <1>17 DEF MergedSoFar, Churns
<1> QED BY <1>18 DEF e

\* A key both streams are at is neither, and its churn is counted once.
LEMMA PassBothKeeps ==
    ASSUME NEW limit \in Nat, NEW c, NEW b, NEW current, NEW earlier,
           Compared(c, b, current, earlier), NEW d,
           MergedSoFar(c, b, current, earlier, limit, d), AtBoth(c, b, d.i, d.k)
    PROVE  MergedSoFar(c, b, current, earlier, limit, PassBoth(d, Churn(c[d.i], b[d.k])))
<1> DEFINE churn == Churn(c[d.i], b[d.k])
           e == PassBoth(d, churn)
           n == c[d.i].key
           Churns == ChurnedKeys(current, earlier)
           S == KeysBefore(c, d.i) \cap Churns
<1>1. /\ d \in MergeStates /\ d.i \in 1..Len(c) + 1 /\ d.k \in 1..Len(b) + 1
      /\ Below(c, d.i, b, d.k) /\ Below(b, d.k, c, d.i)
      /\ Lists(d.new, d.newCount, KeysBefore(c, d.i) \ KeysOf(earlier), limit)
      /\ Lists(d.gone, d.goneCount, KeysBefore(b, d.k) \ KeysOf(current), limit)
      /\ Churned(d.churn, S, current, earlier)
      /\ Totalled(d, S, current, earlier)
    BY DEF MergedSoFar
<1>2. /\ Ordinal(c) /\ Ordinal(b)
      /\ \A j \in 1..Len(c) : c[j].key \in KeysOf(current)
      /\ \A j \in 1..Len(b) : b[j].key \in KeysOf(earlier)
    BY StreamsRise
<1>3. Len(c) \in Nat /\ Len(b) \in Nat
    BY <1>2, KeysAreNumbers
<1>4. d.i \in 1..Len(c) /\ d.k \in 1..Len(b) /\ n = b[d.k].key
    BY <1>1, <1>3 DEF AtBoth
<1>5. n \in Shared(current, earlier) /\ churn = ChurnAt(current, earlier, n) /\ churn \in Changes
    BY <1>4, ChurnThere DEF Compared
<1>6. /\ e \in MergeStates
      /\ e.i = d.i + 1 /\ e.k = d.k + 1
      /\ e.new = d.new /\ e.newCount = d.newCount
      /\ e.gone = d.gone /\ e.goneCount = d.goneCount
      /\ ~Changed(churn) => /\ e.churn = d.churn /\ e.added = d.added
                            /\ e.removed = d.removed /\ e.moved = d.moved
      /\ Changed(churn) => /\ e.churn = Append(d.churn, churn)
                           /\ e.added = d.added + churn.added
                           /\ e.removed = d.removed + churn.removed
                           /\ e.moved = d.moved + churn.moved
    BY <1>1, <1>5, PassBothGives
<1> HIDE DEF e
<1>7. Below(c, d.i + 1, b, d.k + 1) /\ Below(b, d.k + 1, c, d.i + 1)
    BY <1>1, <1>2, <1>4, BelowTogether
<1>8. /\ KeysBefore(c, d.i + 1) = KeysBefore(c, d.i) \cup {n}
      /\ n \notin KeysBefore(c, d.i) /\ n \in Nat
    BY <1>2, <1>4, OneMoreKey
<1>9. KeysBefore(b, d.k + 1) = KeysBefore(b, d.k) \cup {n}
    BY <1>2, <1>4, OneMoreKey
<1>10. n \in KeysOf(current) /\ n \in KeysOf(earlier)
    BY <1>5 DEF Shared
<1>11. n \in Churns <=> Changed(churn)
    BY <1>5 DEF ChurnedKeys
<1>12. Changed(churn) =>
          /\ churn.key = n
          /\ churn.added = Cardinality(AddedAt(current, earlier)[n])
          /\ churn.removed = Cardinality(RemovedAt(current, earlier)[n])
          /\ churn.moved = Cardinality(MovedAt(current, earlier)[n])
    BY <1>5 DEF ChurnAt
<1>13. /\ IsFiniteSet(AddedAt(current, earlier)[n]) /\ IsFiniteSet(RemovedAt(current, earlier)[n])
       /\ IsFiniteSet(MovedAt(current, earlier)[n])
    BY <1>5, ChurnAtTyped DEF Compared
<1> HIDE DEF n, Churns, churn, S
<1>14. /\ KeysBefore(c, d.i + 1) \ KeysOf(earlier) = KeysBefore(c, d.i) \ KeysOf(earlier)
       /\ KeysBefore(b, d.k + 1) \ KeysOf(current) = KeysBefore(b, d.k) \ KeysOf(current)
    BY <1>8, <1>9, <1>10
<1>15. n \notin S
    BY <1>8 DEF S
<1>16. KeysBefore(c, d.i + 1) \cap Churns = IF Changed(churn) THEN S \cup {n} ELSE S
    BY <1>8, <1>11 DEF S
<1>17. /\ Churned(e.churn, KeysBefore(c, e.i) \cap Churns, current, earlier)
       /\ Totalled(e, KeysBefore(c, e.i) \cap Churns, current, earlier)
    <2>1. CASE ~Changed(churn)
        BY <1>1, <1>6, <1>16, <2>1 DEF Totalled
    <2>2. CASE Changed(churn)
        <3>1. Churned(Append(d.churn, churn), S \cup {n}, current, earlier)
            BY <1>1, <1>5, <1>12, <1>15, <2>2, ChurnedMore
        <3>2. /\ Paired(d.added, S, AddedAt(current, earlier))
              /\ Paired(d.removed, S, RemovedAt(current, earlier))
              /\ Paired(d.moved, S, MovedAt(current, earlier))
            BY <1>1 DEF Totalled
        <3>3. /\ Paired(d.added + churn.added, S \cup {n}, AddedAt(current, earlier))
              /\ Paired(d.removed + churn.removed, S \cup {n}, RemovedAt(current, earlier))
              /\ Paired(d.moved + churn.moved, S \cup {n}, MovedAt(current, earlier))
            BY <1>12, <1>13, <1>15, <2>2, <3>2, PairsGrow
        <3> QED BY <1>6, <1>16, <2>2, <3>1, <3>3 DEF Totalled
    <2> QED BY <2>1, <2>2
<1>18. e.i \in 1..Len(c) + 1 /\ e.k \in 1..Len(b) + 1
    BY <1>3, <1>4, <1>6
<1>19. /\ Lists(e.new, e.newCount, KeysBefore(c, e.i) \ KeysOf(earlier), limit)
       /\ Lists(e.gone, e.goneCount, KeysBefore(b, e.k) \ KeysOf(current), limit)
    BY <1>1, <1>6, <1>14
<1>20. Below(c, e.i, b, e.k) /\ Below(b, e.k, c, e.i)
    BY <1>6, <1>7
<1>21. MergedSoFar(c, b, current, earlier, limit, e)
    BY <1>6, <1>17, <1>18, <1>19, <1>20 DEF MergedSoFar, Churns
<1> QED BY <1>21 DEF e, churn

\* A turn leaves the pass as passes are.
LEMMA PassTyped ==
    ASSUME NEW limit, NEW c, NEW b, NEW current, NEW earlier,
           Compared(c, b, current, earlier), NEW d \in MergeStates
    PROVE  Pass(c, b, limit, d) \in MergeStates
<1>1. /\ Ordinal(c) /\ Ordinal(b)
      /\ \A j \in 1..Len(c) : c[j] \in Gatherings
      /\ \A j \in 1..Len(b) : b[j] \in Gatherings
    BY StreamsRise
<1>2. d.i \in Nat \ {0} /\ d.k \in Nat \ {0}
    BY DEF MergeStates
<1>3. Len(c) \in Nat /\ Len(b) \in Nat
    BY <1>1, KeysAreNumbers
<1>4. /\ d.i <= Len(c) => d.i \in 1..Len(c)
      /\ d.k <= Len(b) => d.k \in 1..Len(b)
    BY <1>2, <1>3
<1>5. CASE d.i > Len(c) /\ d.k > Len(b)
    BY <1>1, <1>2, <1>5, PassIs
<1>6. CASE AtNew(c, b, d.i, d.k)
    <2>1. c[d.i] \in Gatherings
        BY <1>1, <1>4, <1>6 DEF AtNew
    <2>2. Pass(c, b, limit, d) = PassNew(d, c[d.i], limit)
        BY <1>1, <1>2, <1>6, PassIs
    <2> QED BY <2>1, <2>2, PassNewGives
<1>7. CASE AtNew(b, c, d.k, d.i)
    <2>1. b[d.k] \in Gatherings
        BY <1>1, <1>4, <1>7 DEF AtNew
    <2>2. Pass(c, b, limit, d) = PassGone(d, b[d.k], limit)
        BY <1>1, <1>2, <1>7, PassIs
    <2> QED BY <2>1, <2>2, PassGoneGives
<1>8. CASE AtBoth(c, b, d.i, d.k)
    <2>1. d.i \in 1..Len(c) /\ d.k \in 1..Len(b) /\ c[d.i].key = b[d.k].key
        BY <1>4, <1>8 DEF AtBoth
    <2>2. Churn(c[d.i], b[d.k]) \in Changes
        BY <2>1, ChurnThere DEF Compared
    <2>3. Pass(c, b, limit, d) = PassBoth(d, Churn(c[d.i], b[d.k]))
        BY <1>1, <1>2, <1>8, PassIs
    <2> QED BY <2>2, <2>3, PassBothGives
<1> QED BY <1>1, <1>2, <1>5, <1>6, <1>7, <1>8, PassIs

\* So is it before its first turn.
LEMMA NothingMergedTyped == NothingMerged \in MergeStates
<1> DEFINE none == <<>>
<1>1. none \in Seq(Nat) /\ none \in Seq(Changes)
    OBVIOUS
<1>2. NothingMerged = [i |-> 1, k |-> 1, new |-> none, gone |-> none, churn |-> none,
                       newCount |-> 0, goneCount |-> 0, added |-> 0, removed |-> 0, moved |-> 0]
    BY DEF NothingMerged
<1> HIDE DEF none
<1> QED BY <1>1, <1>2 DEF MergeStates

\* The merge is its turns, one after another.
LEMMA MergeFollows ==
    ASSUME NEW limit, NEW c, NEW b, NEW current, NEW earlier, Compared(c, b, current, earlier)
    PROVE  \E after : /\ Merge(c, b, limit) = after[Len(c) + Len(b)]
                      /\ after[0] = NothingMerged
                      /\ \A n \in 1..Len(c) + Len(b) : after[n] = Pass(c, b, limit, after[n - 1])
<1> DEFINE N == Len(c) + Len(b)
           S == MergeStates
           F(p) == Pass(c, b, limit, p)
           Body(h) == [n \in 0..N |-> IF n = 0 THEN NothingMerged ELSE F(h[n - 1])]
           g == CHOOSE h : h = Body(h)
           step == [n \in Nat |-> [p \in S |-> F(p)]]
<1>1. N \in Nat
    <2>1. Len(c) \in Nat /\ Len(b) \in Nat
        BY StreamsRise, KeysAreNumbers
    <2> QED BY <2>1
<1> HIDE DEF N
<1>2. step \in [Nat -> [S -> S]]
    <2>1. \A p \in S : F(p) \in S
        BY PassTyped
    <2> HIDE DEF F, S
    <2> QED BY <2>1
<1>3. \A n \in 1..N : \A p \in S : step[n][p] = F(p)
    <2> HIDE DEF F, S
    <2> QED BY <1>1
<1>4. NothingMerged \in S
    BY NothingMergedTyped
<1> HIDE DEF step, F, S
<1>5. PICK h : Iterated(h, N, S, NothingMerged, step)
    BY <1>1, <1>2, <1>4, Recursion
<1>6. /\ h \in [0..N -> S] /\ h[0] = NothingMerged
      /\ \A i \in 1..N : h[i] = step[i][h[i - 1]]
    BY <1>5 DEF Iterated
<1>7. h = Body(h)
    <2>1. ASSUME NEW n \in 0..N
          PROVE  h[n] = IF n = 0 THEN NothingMerged ELSE F(h[n - 1])
        <3>1. CASE n = 0
            BY <3>1, <1>6
        <3>2. CASE n # 0
            <4>1. n \in 1..N /\ n - 1 \in 0..N
                BY <3>2, <1>1
            <4> QED BY <4>1, <3>2, <1>3, <1>6
        <3> QED BY <3>1, <3>2
    <2> QED BY <2>1, <1>6
<1>8. g = Body(g)
    BY <1>7
<1>9. Merge(c, b, limit) = g[N]
    BY DEF Merge, N, F
<1> HIDE DEF g
<1>10. g[0] = NothingMerged
    BY <1>8, <1>1
<1>11. ASSUME NEW n \in 1..N PROVE g[n] = F(g[n - 1])
    BY <1>8, <1>1
<1> QED BY <1>9, <1>10, <1>11 DEF N, F

\* Before the first turn nothing is behind the pass.
LEMMA NothingMergedYet ==
    ASSUME NEW limit \in Nat, NEW c, NEW b, NEW current, NEW earlier, Compared(c, b, current, earlier)
    PROVE  MergedSoFar(c, b, current, earlier, limit, NothingMerged)
<1> DEFINE d == NothingMerged
           none == <<>>
<1>1. d \in MergeStates
    BY NothingMergedTyped
<1>2. /\ d.i = 1 /\ d.k = 1 /\ d.new = none /\ d.gone = none /\ d.churn = none
      /\ d.newCount = 0 /\ d.goneCount = 0 /\ d.added = 0 /\ d.removed = 0 /\ d.moved = 0
    BY DEF NothingMerged
<1>3. none \in Seq(Changes) /\ 1..Len(none) = {} /\ Lists(none, 0, {}, limit)
    <2>1. Len(none) = 0 /\ 1..0 = {}
        OBVIOUS
    <2> QED BY <2>1, ListsNothing
<1> HIDE DEF d, none
<1>4. Len(c) \in Nat /\ Len(b) \in Nat /\ (1..1 - 1) = {}
    BY StreamsRise, KeysAreNumbers
<1>5. KeysBefore(c, 1) = {} /\ KeysBefore(b, 1) = {}
    BY <1>4 DEF KeysBefore
<1>6. Below(c, 1, b, 1) /\ Below(b, 1, c, 1)
    BY <1>4 DEF Below
<1>7. /\ KeysBefore(c, d.i) \ KeysOf(earlier) = {} /\ KeysBefore(b, d.k) \ KeysOf(current) = {}
      /\ KeysBefore(c, d.i) \cap ChurnedKeys(current, earlier) = {}
    BY <1>2, <1>5
<1>8. Churned(none, {}, current, earlier)
    BY <1>3 DEF Churned
<1>9. Totalled(d, {}, current, earlier)
    BY <1>2, PairsOfNone DEF Totalled
<1>10. d.i \in 1..Len(c) + 1 /\ d.k \in 1..Len(b) + 1
    BY <1>2, <1>4
<1>11. MergedSoFar(c, b, current, earlier, limit, d)
    BY <1>1, <1>2, <1>3, <1>6, <1>7, <1>8, <1>9, <1>10 DEF MergedSoFar
<1> QED BY <1>11 DEF d

\* n turns leave n records less ahead, or none.
Turned(c, b, n, d) == (d.i > Len(c) /\ d.k > Len(b)) \/ d.i + d.k >= n + 2

\* A turn keeps what holds of the pass, and passes a record if one is ahead.
LEMMA PassKeeps ==
    ASSUME NEW limit \in Nat, NEW c, NEW b, NEW current, NEW earlier,
           Compared(c, b, current, earlier), NEW d, NEW n \in Nat \ {0},
           MergedSoFar(c, b, current, earlier, limit, d), Turned(c, b, n - 1, d)
    PROVE  /\ MergedSoFar(c, b, current, earlier, limit, Pass(c, b, limit, d))
           /\ Turned(c, b, n, Pass(c, b, limit, d))
<1> DEFINE e == Pass(c, b, limit, d)
<1>1. /\ Ordinal(c) /\ Ordinal(b)
      /\ \A j \in 1..Len(c) : c[j] \in Gatherings
      /\ \A j \in 1..Len(b) : b[j] \in Gatherings
    BY StreamsRise
<1>2. d \in MergeStates /\ d.i \in Nat \ {0} /\ d.k \in Nat \ {0}
    BY DEF MergeStates, MergedSoFar
<1>3. Len(c) \in Nat /\ Len(b) \in Nat
    BY <1>1, KeysAreNumbers
<1>4. /\ d.i <= Len(c) => d.i \in 1..Len(c)
      /\ d.k <= Len(b) => d.k \in 1..Len(b)
    BY <1>2, <1>3
<1>5. CASE d.i > Len(c) /\ d.k > Len(b)
    <2>1. e = d
        BY <1>1, <1>2, <1>5, PassIs
    <2> QED BY <1>5, <2>1 DEF Turned
<1>6. ASSUME ~ (d.i > Len(c) /\ d.k > Len(b)),
             e.i >= d.i, e.k >= d.k, e.i \in Nat, e.k \in Nat, e.i + e.k >= d.i + d.k + 1
      PROVE  Turned(c, b, n, e)
    <2>1. d.i + d.k >= n - 1 + 2
        BY <1>6 DEF Turned
    <2> HIDE DEF e
    <2>2. e.i + e.k >= n + 2
        BY <1>2, <1>6, <2>1
    <2> QED BY <2>2 DEF Turned
<1>7. CASE AtNew(c, b, d.i, d.k)
    <2>1. c[d.i] \in Gatherings /\ ~ (d.i > Len(c))
        BY <1>1, <1>2, <1>3, <1>4, <1>7 DEF AtNew
    <2>2. e = PassNew(d, c[d.i], limit)
        BY <1>1, <1>2, <1>7, PassIs
    <2>3. e.i = d.i + 1 /\ e.k = d.k
        BY <1>2, <2>1, <2>2, PassNewGives
    <2>4. MergedSoFar(c, b, current, earlier, limit, e)
        BY <1>7, <2>2, PassNewKeeps
    <2> HIDE DEF e
    <2> QED BY <1>2, <1>6, <2>1, <2>3, <2>4 DEF e
<1>8. CASE AtNew(b, c, d.k, d.i)
    <2>1. b[d.k] \in Gatherings /\ ~ (d.k > Len(b))
        BY <1>1, <1>2, <1>3, <1>4, <1>8 DEF AtNew
    <2>2. e = PassGone(d, b[d.k], limit)
        BY <1>1, <1>2, <1>8, PassIs
    <2>3. e.i = d.i /\ e.k = d.k + 1
        BY <1>2, <2>1, <2>2, PassGoneGives
    <2>4. MergedSoFar(c, b, current, earlier, limit, e)
        BY <1>8, <2>2, PassGoneKeeps
    <2> HIDE DEF e
    <2> QED BY <1>2, <1>6, <2>1, <2>3, <2>4 DEF e
<1>9. CASE AtBoth(c, b, d.i, d.k)
    <2>1. /\ d.i \in 1..Len(c) /\ d.k \in 1..Len(b) /\ c[d.i].key = b[d.k].key
          /\ ~ (d.i > Len(c))
        BY <1>2, <1>3, <1>4, <1>9 DEF AtBoth
    <2>2. Churn(c[d.i], b[d.k]) \in Changes
        BY <2>1, ChurnThere DEF Compared
    <2>3. e = PassBoth(d, Churn(c[d.i], b[d.k]))
        BY <1>1, <1>2, <1>9, PassIs
    <2>4. e.i = d.i + 1 /\ e.k = d.k + 1
        BY <1>2, <2>2, <2>3, PassBothGives
    <2>5. MergedSoFar(c, b, current, earlier, limit, e)
        BY <1>9, <2>3, PassBothKeeps
    <2> HIDE DEF e
    <2> QED BY <1>2, <1>6, <2>1, <2>4, <2>5, SMTT(20) DEF e
<1> QED BY <1>1, <1>2, <1>5, <1>7, <1>8, <1>9, PassIs

\* The pass ends, with nothing ahead of it in either stream.
LEMMA MergeEnds ==
    ASSUME NEW limit \in Nat, NEW c, NEW b, NEW current, NEW earlier, Compared(c, b, current, earlier)
    PROVE  /\ MergedSoFar(c, b, current, earlier, limit, Merge(c, b, limit))
           /\ Merge(c, b, limit).i = Len(c) + 1 /\ Merge(c, b, limit).k = Len(b) + 1
<1> DEFINE N == Len(c) + Len(b)
           d == Merge(c, b, limit)
<1>1. Len(c) \in Nat /\ Len(b) \in Nat /\ N \in Nat
    <2>1. Len(c) \in Nat /\ Len(b) \in Nat
        BY StreamsRise, KeysAreNumbers
    <2> QED BY <2>1
<1>2. PICK after : /\ d = after[N]
                   /\ after[0] = NothingMerged
                   /\ \A n \in 1..N : after[n] = Pass(c, b, limit, after[n - 1])
    BY MergeFollows
<1> HIDE DEF d
<1> DEFINE Fine(n) == /\ MergedSoFar(c, b, current, earlier, limit, after[n])
                      /\ Turned(c, b, n, after[n])
           I == {n \in 0..N : Fine(n)}
<1>3. 0 \in I
    <2>1. MergedSoFar(c, b, current, earlier, limit, NothingMerged)
        BY NothingMergedYet
    <2>2. NothingMerged.i = 1 /\ NothingMerged.k = 1
        BY DEF NothingMerged
    <2>3. Turned(c, b, 0, NothingMerged)
        BY <2>2 DEF Turned
    <2> QED BY <1>1, <1>2, <2>1, <2>3
<1>4. ASSUME NEW n \in 1..N, n - 1 \in I PROVE n \in I
    <2>1. Fine(n - 1) /\ n \in 0..N /\ n \in Nat \ {0}
        BY <1>1, <1>4
    <2>2. Fine(n)
        BY <1>2, <2>1, PassKeeps
    <2> QED BY <2>1, <2>2
<1> HIDE DEF I
<1>5. \A n \in 0..N : n \in I
    BY <1>1, <1>3, <1>4, Upward
<1>6. N \in I
    BY <1>1, <1>5
<1>7. MergedSoFar(c, b, current, earlier, limit, d) /\ Turned(c, b, N, d)
    BY <1>2, <1>6 DEF I
<1>8. d.i \in 1..Len(c) + 1 /\ d.k \in 1..Len(b) + 1
    BY <1>7 DEF MergedSoFar
<1>9. d.i = Len(c) + 1 /\ d.k = Len(b) + 1
    BY <1>1, <1>7, <1>8 DEF Turned
<1> QED BY <1>7, <1>9 DEF d

-----------------------------------------------------------------------------
(* The preview is the difference                                           *)

\* At its end a stream has passed the keys of its run.
LEMMA KeysOfStream ==
    ASSUME NEW s, NEW stored, StreamsOf(s, stored)
    PROVE  KeysBefore(s, Len(s) + 1) = KeysOf(stored)
<1>1. Ordinal(s)
    BY DEF StreamsOf, Ordinal
<1>2. Len(s) \in Nat /\ (Len(s) + 1) - 1 = Len(s)
    BY <1>1, KeysAreNumbers
<1>3. KeysBefore(s, Len(s) + 1) = {s[a].key : a \in 1..Len(s)}
    BY <1>2 DEF KeysBefore
<1>4. ASSUME NEW a \in 1..Len(s) PROVE s[a].key \in KeysOf(stored)
    BY DEF StreamsOf, RecordOf, KeysOf
<1>5. ASSUME NEW n \in KeysOf(stored) PROVE \E a \in 1..Len(s) : s[a].key = n
    <2>1. PICK r \in stored : r.key = n
        BY DEF KeysOf
    <2>2. Keyed(s, n)
        BY <2>1 DEF StreamsOf
    <2> QED BY <2>2 DEF Keyed
<1> QED BY <1>3, <1>4, <1>5

\* Sets without members add none.
LEMMA PairsSkip ==
    ASSUME NEW T, NEW S \in SUBSET T, NEW W, \A n \in T \ S : W[n] = {}
    PROVE  PairsOf(T, W) = PairsOf(S, W)
<1>1. ASSUME NEW x \in PairsOf(T, W) PROVE x \in PairsOf(S, W)
    <2>1. PICK n \in T : x \in {n} \X W[n]
        BY DEF PairsOf
    <2>2. n \in S
        BY <2>1
    <2> QED BY <2>1, <2>2 DEF PairsOf
<1>2. PairsOf(S, W) \subseteq PairsOf(T, W)
    BY DEF PairsOf
<1> QED BY <1>1, <1>2

\* A resource that has not changed has no items that have.
LEMMA UnchangedNothing ==
    ASSUME NEW current \in SUBSET Resources, Distinct(current),
           NEW earlier \in SUBSET Resources, Distinct(earlier),
           NEW n \in Shared(current, earlier) \ ChurnedKeys(current, earlier)
    PROVE  /\ AddedAt(current, earlier)[n] = {} /\ RemovedAt(current, earlier)[n] = {}
           /\ MovedAt(current, earlier)[n] = {}
<1> DEFINE x == ChurnAt(current, earlier, n)
<1>1. /\ x \in Changes
      /\ IsFiniteSet(AddedAt(current, earlier)[n]) /\ IsFiniteSet(RemovedAt(current, earlier)[n])
      /\ IsFiniteSet(MovedAt(current, earlier)[n])
    BY ChurnAtTyped
<1>2. /\ x.added = Cardinality(AddedAt(current, earlier)[n])
      /\ x.removed = Cardinality(RemovedAt(current, earlier)[n])
      /\ x.moved = Cardinality(MovedAt(current, earlier)[n])
    BY DEF ChurnAt
<1>3. ~Changed(x)
    BY DEF ChurnedKeys
<1> HIDE DEF x
<1>4. x.added \in Nat /\ x.removed \in Nat /\ x.moved \in Nat
    BY <1>1 DEF Changes
<1>5. ~ (x.added + x.removed + x.moved > 0)
    BY <1>3 DEF Changed, Weight
<1>6. x.added = 0 /\ x.removed = 0 /\ x.moved = 0
    BY <1>4, <1>5
<1> QED BY <1>1, <1>2, <1>6, FS_EmptySet

\* The difference of two runs in the terms of the merge.
LEMMA DifferenceIs ==
    ASSUME NEW current, NEW earlier
    PROVE  LET D == Difference(current, earlier)
           IN  /\ D.new = KeysOf(current) \ KeysOf(earlier)
               /\ D.gone = KeysOf(earlier) \ KeysOf(current)
               /\ D.added = PairsOf(Shared(current, earlier), AddedAt(current, earlier))
               /\ D.removed = PairsOf(Shared(current, earlier), RemovedAt(current, earlier))
               /\ D.moved = PairsOf(Shared(current, earlier), MovedAt(current, earlier))
               /\ D.changed = ChurnedKeys(current, earlier)
               /\ \A n \in Shared(current, earlier) :
                     D.weighs[n] = Weight(ChurnAt(current, earlier, n))
<1> DEFINE D == Difference(current, earlier)
           T == Shared(current, earlier)
           A == AddedAt(current, earlier)
           R == RemovedAt(current, earlier)
           M == MovedAt(current, earlier)
<1>1. \A n \in T : /\ A[n] = Without(Of(current, n), Of(earlier, n))
                   /\ R[n] = Without(Of(earlier, n), Of(current, n))
                   /\ M[n] = Shifted(Of(current, n), Of(earlier, n))
    BY DEF AddedAt, RemovedAt, MovedAt
<1>2. T = KeysOf(current) \cap KeysOf(earlier)
    BY DEF Shared
<1> DEFINE weighs == [n \in T |-> Cardinality(Without(Of(current, n), Of(earlier, n)))
                                  + Cardinality(Without(Of(earlier, n), Of(current, n)))
                                  + Cardinality(Shifted(Of(current, n), Of(earlier, n)))]
<1>3. /\ D.new = KeysOf(current) \ KeysOf(earlier)
      /\ D.gone = KeysOf(earlier) \ KeysOf(current)
      /\ D.added = UNION {{n} \X Without(Of(current, n), Of(earlier, n)) : n \in T}
      /\ D.removed = UNION {{n} \X Without(Of(earlier, n), Of(current, n)) : n \in T}
      /\ D.moved = UNION {{n} \X Shifted(Of(current, n), Of(earlier, n)) : n \in T}
      /\ D.weighs = weighs
      /\ D.changed = {n \in T : weighs[n] > 0 \/ Of(current, n).level # Of(earlier, n).level}
    BY <1>2 DEF Difference
<1> HIDE DEF D, A, R, M
<1>4. \A n \in T : weighs[n] = Cardinality(A[n]) + Cardinality(R[n]) + Cardinality(M[n])
    BY <1>1
<1>5. \A n \in T : /\ ChurnAt(current, earlier, n).added = Cardinality(A[n])
                   /\ ChurnAt(current, earlier, n).removed = Cardinality(R[n])
                   /\ ChurnAt(current, earlier, n).moved = Cardinality(M[n])
                   /\ ChurnAt(current, earlier, n).access =
                         (Of(current, n).level # Of(earlier, n).level)
    BY DEF ChurnAt, A, R, M
<1> HIDE DEF T, weighs
<1>6. \A n \in T : weighs[n] = Weight(ChurnAt(current, earlier, n))
    BY <1>4, <1>5 DEF Weight
<1>7. \A n \in T : Changed(ChurnAt(current, earlier, n)) <=>
                      weighs[n] > 0 \/ Of(current, n).level # Of(earlier, n).level
    BY <1>5, <1>6 DEF Changed
<1>8. D.changed = ChurnedKeys(current, earlier)
    BY <1>3, <1>7 DEF ChurnedKeys, T
<1>9. /\ D.added = PairsOf(T, A) /\ D.removed = PairsOf(T, R) /\ D.moved = PairsOf(T, M)
    BY <1>1, <1>3 DEF PairsOf
<1> QED BY <1>3, <1>6, <1>8, <1>9 DEF D, T, A, R, M

\* The merge finds the difference.
LEMMA MergeFinds ==
    ASSUME NEW limit \in Nat, NEW c, NEW b, NEW current, NEW earlier, Compared(c, b, current, earlier)
    PROVE  LET d == Merge(c, b, limit)
               D == Difference(current, earlier)
           IN  /\ d \in MergeStates
               /\ Lists(d.new, d.newCount, D.new, limit) /\ Lists(d.gone, d.goneCount, D.gone, limit)
               /\ Churned(d.churn, D.changed, current, earlier)
               /\ D.changed = ChurnedKeys(current, earlier)
               /\ d.added = Cardinality(D.added) /\ d.removed = Cardinality(D.removed)
               /\ d.moved = Cardinality(D.moved)
<1> DEFINE d == Merge(c, b, limit)
           D == Difference(current, earlier)
           T == Shared(current, earlier)
           S == ChurnedKeys(current, earlier)
<1>1. MergedSoFar(c, b, current, earlier, limit, d) /\ d.i = Len(c) + 1 /\ d.k = Len(b) + 1
    BY MergeEnds
<1> HIDE DEF d
<1>2. KeysBefore(c, d.i) = KeysOf(current) /\ KeysBefore(b, d.k) = KeysOf(earlier)
    BY <1>1, KeysOfStream DEF Compared
<1>3. /\ D.new = KeysOf(current) \ KeysOf(earlier)
      /\ D.gone = KeysOf(earlier) \ KeysOf(current)
      /\ D.added = PairsOf(T, AddedAt(current, earlier))
      /\ D.removed = PairsOf(T, RemovedAt(current, earlier))
      /\ D.moved = PairsOf(T, MovedAt(current, earlier))
      /\ D.changed = S
    BY DifferenceIs
<1> HIDE DEF D
<1>4. S \in SUBSET T /\ KeysOf(current) \cap S = S
    BY DEF ChurnedKeys, Shared
<1>5. /\ d \in MergeStates
      /\ Lists(d.new, d.newCount, D.new, limit) /\ Lists(d.gone, d.goneCount, D.gone, limit)
      /\ Churned(d.churn, S, current, earlier) /\ Totalled(d, S, current, earlier)
    BY <1>1, <1>2, <1>3, <1>4 DEF MergedSoFar
<1>6. \A n \in T \ S : /\ AddedAt(current, earlier)[n] = {} /\ RemovedAt(current, earlier)[n] = {}
                       /\ MovedAt(current, earlier)[n] = {}
    BY UnchangedNothing DEF Compared
<1> HIDE DEF S, T
<1>7. /\ D.added = PairsOf(S, AddedAt(current, earlier))
      /\ D.removed = PairsOf(S, RemovedAt(current, earlier))
      /\ D.moved = PairsOf(S, MovedAt(current, earlier))
    BY <1>3, <1>4, <1>6, PairsSkip
<1>8. /\ d.added = Cardinality(D.added) /\ d.removed = Cardinality(D.removed)
      /\ d.moved = Cardinality(D.moved)
    BY <1>5, <1>7 DEF Totalled, Paired
<1> QED BY <1>3, <1>5, <1>8 DEF d, D, S

\* The most changed of the resources that are, as many as the limit lets.
ListsHeaviest(h, count, S, limit, current, earlier) ==
    LET most   == IF limit <= count THEN limit ELSE count
        listed == {h[n].key : n \in DOMAIN h}
    IN  /\ count \in Nat /\ count = Cardinality(S) /\ Len(h) = most
        /\ listed \subseteq S /\ Cardinality(listed) = most
        /\ \A n \in listed, m \in S \ listed :
              Weight(ChurnAt(current, earlier, n)) >= Weight(ChurnAt(current, earlier, m))

\* The churn listed is the heaviest.
LEMMA HeaviestFirst ==
    ASSUME NEW limit \in Nat, NEW current, NEW earlier, NEW S, NEW churn,
           Churned(churn, S, current, earlier)
    PROVE  ListsHeaviest(Heaviest(churn, limit), Len(churn), S, limit, current, earlier)
<1> DEFINE h == Heaviest(churn, limit)
           L == Len(churn)
           most == IF limit <= L THEN limit ELSE L
           listed == {h[n].key : n \in DOMAIN h}
           places == 1..L
           ahead == {p \in places \X places : Heavier(churn[p[1]], churn[p[2]])}
           order == Ordered(places, ahead)
           keyOf == [j \in places |-> churn[j].key]
           W(n) == Weight(ChurnAt(current, earlier, n))
<1>1. /\ churn \in Seq(Changes) /\ L \in Nat
      /\ \A j \in places : churn[j].key \in S /\ churn[j] = ChurnAt(current, earlier, churn[j].key)
      /\ \A j, k \in places : churn[j].key = churn[k].key => j = k
      /\ \A n \in S : \E j \in places : churn[j].key = n
    BY DEF Churned, Keyed
<1>2. \A j \in places : Weight(churn[j]) \in Nat /\ churn[j].key \in Nat
    <2> SUFFICES ASSUME NEW j \in places PROVE Weight(churn[j]) \in Nat /\ churn[j].key \in Nat
        OBVIOUS
    <2>1. churn[j] \in Changes
        BY <1>1
    <2>2. /\ churn[j].added \in Nat /\ churn[j].removed \in Nat /\ churn[j].moved \in Nat
          /\ churn[j].key \in Nat
        BY <2>1 DEF Changes
    <2> QED BY <2>2 DEF Weight
<1>3. DOMAIN churn = places
    BY <1>1
<1>4. h = [n \in 1..Min({limit, L}) |-> churn[order[n]]]
    BY <1>3 DEF Heaviest
<1>5. Min({limit, L}) = most /\ most \in 0..L
    BY <1>1, MinOfTwo
<1>6. IsFiniteSet(places) /\ Cardinality(places) = L
    BY <1>1, CountedTo
<1>7. \A j, k \in places : <<j, k>> \in ahead <=> Heavier(churn[j], churn[k])
    OBVIOUS
<1> HIDE DEF ahead, h, places, L
<1>8. \A j \in places : <<j, j>> \notin ahead
    BY <1>2, <1>7 DEF Heavier
<1>9. \A j, k \in places : j # k => <<j, k>> \in ahead \/ <<k, j>> \in ahead
    <2> SUFFICES ASSUME NEW j \in places, NEW k \in places, j # k
                 PROVE  <<j, k>> \in ahead \/ <<k, j>> \in ahead
        OBVIOUS
    <2>1. churn[j].key # churn[k].key
        BY <1>1
    <2>2. Heavier(churn[j], churn[k]) \/ Heavier(churn[k], churn[j])
        BY <1>2, <2>1 DEF Heavier
    <2> QED BY <1>7, <2>2
<1>10. \A j, k, m \in places : <<j, k>> \in ahead /\ <<k, m>> \in ahead => <<j, m>> \in ahead
    <2> SUFFICES ASSUME NEW j \in places, NEW k \in places, NEW m \in places,
                        <<j, k>> \in ahead, <<k, m>> \in ahead
                 PROVE  <<j, m>> \in ahead
        OBVIOUS
    <2>1. Heavier(churn[j], churn[k]) /\ Heavier(churn[k], churn[m])
        BY <1>7
    <2>2. Heavier(churn[j], churn[m])
        BY <1>2, <2>1 DEF Heavier
    <2> QED BY <1>7, <2>2
<1>11. /\ order \in [1..L -> places]
       /\ \A j \in places : \E k \in 1..L : order[k] = j
       /\ \A j, k \in 1..L : j < k => <<order[j], order[k]>> \in ahead
    BY <1>6, <1>8, <1>9, <1>10, OrderedListsAll
<1> HIDE DEF order
<1>12. \A j \in 1..most : j \in 1..L /\ order[j] \in places
    BY <1>1, <1>5, <1>11
<1> HIDE DEF most
<1>13. DOMAIN h = 1..most /\ Len(h) = most /\ \A j \in 1..most : h[j] = churn[order[j]]
    <2>1. most \in Nat
        BY <1>1, <1>5
    <2>2. h = [n \in 1..most |-> churn[order[n]]]
        BY <1>4, <1>5
    <2>3. DOMAIN h = 1..most
        BY <2>2
    <2>4. \A j \in 1..most : h[j] = churn[order[j]]
        BY <2>2
    <2>5. Len(h) = most
        BY <2>1, <2>2
    <2> QED BY <2>3, <2>4, <2>5
<1>14. L = Cardinality(S)
    <2>1. \A j, k \in places : keyOf[j] = keyOf[k] => j = k
        BY <1>1
    <2>2. {keyOf[j] : j \in places} = S
        BY <1>1
    <2> HIDE DEF keyOf
    <2>3. Cardinality({keyOf[j] : j \in places}) = Cardinality(places)
        BY <1>6, <2>1, ImageSize
    <2> QED BY <1>6, <2>2, <2>3
<1>15. listed \subseteq S
    BY <1>1, <1>12, <1>13
<1>16. Cardinality(listed) = most
    <2> DEFINE first == 1..most
               f == [j \in first |-> h[j].key]
    <2>1. IsFiniteSet(first) /\ Cardinality(first) = most
        BY <1>1, <1>5, CountedTo
    <2>2. ASSUME NEW j \in 1..most, NEW k \in 1..most, h[j].key = h[k].key PROVE j = k
        <3>1. order[j] = order[k]
            BY <1>1, <1>12, <1>13, <2>2
        <3>2. ~ (j < k) /\ ~ (k < j)
            BY <1>8, <1>11, <1>12, <3>1
        <3>3. j \in Int /\ k \in Int
            BY <1>1, <1>12
        <3> QED BY <3>2, <3>3
    <2>3. \A j, k \in first : f[j] = f[k] => j = k
        BY <2>2
    <2>4. listed = {f[j] : j \in first}
        BY <1>13
    <2> HIDE DEF f, first, listed
    <2>5. Cardinality({f[j] : j \in first}) = most
        BY <2>1, <2>3, ImageSize
    <2> QED BY <2>4, <2>5
<1>17. ASSUME NEW n \in listed, NEW m \in S \ listed PROVE W(n) >= W(m)
    <2>1. PICK a \in 1..most : n = churn[order[a]].key
        BY <1>13
    <2>2. PICK q \in places : churn[q].key = m
        BY <1>1
    <2>3. PICK p \in 1..L : order[p] = q
        BY <1>11, <2>2
    <2>4. p \notin 1..most
        BY <1>13, <2>2, <2>3
    <2>5. a \in 1..L /\ a < p /\ order[a] \in places
        BY <1>1, <1>5, <1>12, <2>1, <2>4
    <2>6. Heavier(churn[order[a]], churn[q])
        BY <1>7, <1>11, <2>2, <2>3, <2>5
    <2>7. Weight(churn[order[a]]) >= Weight(churn[q])
        BY <1>2, <2>2, <2>5, <2>6 DEF Heavier
    <2>8. churn[order[a]] = ChurnAt(current, earlier, n) /\ churn[q] = ChurnAt(current, earlier, m)
        BY <1>1, <2>1, <2>2, <2>5
    <2> QED BY <2>7, <2>8
<1> HIDE DEF W, listed
<1>18. ListsHeaviest(h, L, S, limit, current, earlier)
    BY <1>1, <1>13, <1>14, <1>15, <1>16, <1>17 DEF ListsHeaviest, most, listed, W
<1> QED BY <1>18 DEF h, L

\* The streams of two runs that may be compared.
LEMMA RunsCompared ==
    ASSUME NEW current \in StoredRuns, NEW earlier \in StoredRuns
    PROVE  Compared(Records(current), Records(earlier), current, earlier)
<1>1. /\ current \in SUBSET Resources /\ Distinct(current)
      /\ earlier \in SUBSET Resources /\ Distinct(earlier)
    BY DEF StoredRuns
<1> QED BY <1>1, RecordsAreResources DEF Compared

\* The preview of two runs is their difference.
LEMMA PreviewFinds ==
    ASSUME NEW current \in StoredRuns, NEW earlier \in StoredRuns, NEW limit \in DiffLimits
    PROVE  LET p == PreviewOf(current, earlier, limit)
               D == Difference(current, earlier)
           IN  CountedExactly(p, D) /\ ListedExactly(p, D, limit)
<1> DEFINE D == Difference(current, earlier)
           d == Merge(Records(current), Records(earlier), limit)
           p == PreviewOf(current, earlier, limit)
           h == Heaviest(d.churn, limit)
           L == Len(d.churn)
           listed == {p.listedChurn[n].key : n \in DOMAIN p.listedChurn}
<1>1. limit \in Nat
    BY RunDiffAssumption
<1>2. /\ d \in MergeStates
      /\ Lists(d.new, d.newCount, D.new, limit) /\ Lists(d.gone, d.goneCount, D.gone, limit)
      /\ Churned(d.churn, D.changed, current, earlier)
      /\ D.changed = ChurnedKeys(current, earlier)
      /\ d.added = Cardinality(D.added) /\ d.removed = Cardinality(D.removed)
      /\ d.moved = Cardinality(D.moved)
    BY <1>1, RunsCompared, MergeFinds
<1>3. \A n \in D.changed : D.weighs[n] = Weight(ChurnAt(current, earlier, n))
    BY <1>2, DifferenceIs DEF ChurnedKeys
<1>4. p = [new |-> d.newCount, gone |-> d.goneCount, changed |-> L,
           added |-> d.added, removed |-> d.removed, moved |-> d.moved,
           listedNew |-> d.new, listedGone |-> d.gone, listedChurn |-> h,
           truncated |-> \/ d.newCount > Len(d.new) \/ d.goneCount > Len(d.gone)
                         \/ Len(d.churn) > Len(h)]
    BY DEF PreviewOf, Preview
<1> HIDE DEF D, d, p, h
<1>5. /\ p.new = d.newCount /\ p.gone = d.goneCount /\ p.changed = L
      /\ p.added = d.added /\ p.removed = d.removed /\ p.moved = d.moved
      /\ p.listedNew = d.new /\ p.listedGone = d.gone /\ p.listedChurn = h
    BY <1>4
<1>6. p.truncated = (\/ d.newCount > Len(d.new) \/ d.goneCount > Len(d.gone) \/ L > Len(h))
    BY <1>4
<1> DEFINE most == IF limit <= L THEN limit ELSE L
<1>7. /\ L \in Nat /\ L = Cardinality(D.changed) /\ Len(h) = most
      /\ listed \subseteq D.changed /\ Cardinality(listed) = most
      /\ \A n \in listed, m \in D.changed \ listed :
            Weight(ChurnAt(current, earlier, n)) >= Weight(ChurnAt(current, earlier, m))
    <2>1. ListsHeaviest(h, L, D.changed, limit, current, earlier)
        BY <1>1, <1>2, HeaviestFirst DEF h
    <2> HIDE DEF L
    <2> QED BY <1>5, <2>1 DEF ListsHeaviest
<1> HIDE DEF L, listed
<1>8. /\ d.newCount = Cardinality(D.new) /\ d.newCount \in Nat
      /\ ToSet(d.new) \subseteq D.new /\ Cardinality(ToSet(d.new)) = Len(d.new)
      /\ Len(d.new) = IF d.newCount > limit THEN limit ELSE d.newCount
    BY <1>2, FS_CardinalityType DEF Lists
<1>9. /\ d.goneCount = Cardinality(D.gone) /\ d.goneCount \in Nat
      /\ ToSet(d.gone) \subseteq D.gone /\ Cardinality(ToSet(d.gone)) = Len(d.gone)
      /\ Len(d.gone) = IF d.goneCount > limit THEN limit ELSE d.goneCount
    BY <1>2, FS_CardinalityType DEF Lists
<1>10. CountedExactly(p, D)
    BY <1>2, <1>5, <1>7, <1>8, <1>9 DEF CountedExactly
<1>11. /\ Min({limit, p.new}) = Len(d.new) /\ Min({limit, p.gone}) = Len(d.gone)
       /\ Min({limit, p.changed}) = most
    <2>1. /\ Min({limit, d.newCount}) = IF limit <= d.newCount THEN limit ELSE d.newCount
          /\ Min({limit, d.goneCount}) = IF limit <= d.goneCount THEN limit ELSE d.goneCount
          /\ Min({limit, L}) = most
        BY <1>1, <1>7, <1>8, <1>9, MinOfTwo
    <2> QED BY <1>1, <1>5, <1>8, <1>9, <2>1
<1>12. /\ d.newCount > Len(d.new) <=> Cardinality(D.new) > limit
       /\ d.goneCount > Len(d.gone) <=> Cardinality(D.gone) > limit
       /\ L > Len(h) <=> Cardinality(D.changed) > limit
    BY <1>1, <1>7, <1>8, <1>9
<1>13. p.truncated = (\E n \in {D.new, D.gone, D.changed} : Cardinality(n) > limit)
    BY <1>6, <1>12
<1>14. \A n \in listed, m \in D.changed \ listed : D.weighs[n] >= D.weighs[m]
    <2> SUFFICES ASSUME NEW n \in listed, NEW m \in D.changed \ listed
                 PROVE  D.weighs[n] >= D.weighs[m]
        OBVIOUS
    <2>1. n \in D.changed /\ m \in D.changed
        BY <1>7
    <2> QED BY <1>3, <1>7, <2>1
<1>15. ListedExactly(p, D, limit)
    BY <1>5, <1>7, <1>8, <1>9, <1>11, <1>13, <1>14 DEF ListedExactly, listed
<1> QED BY <1>10, <1>15 DEF p, D

\* The preview counts the difference of the two runs exactly, and lists a part of it, the most
\* changed first, that it says is cut when it is: _build_run_diff_from_iters of runs.py gives what
\* comparing the runs resource by resource and item by item would.
THEOREM PreviewsHold == CountsAreExact /\ ListsAreExact
BY PreviewFinds DEF CountsAreExact, ListsAreExact

-----------------------------------------------------------------------------
(* The properties of the composed system                                   *)

\* What a complete comparison says of permissions is so on the hosts.
THEOREM Conclusions == Spec => []ConclusionsHold
<1>1. ConclusionsHold
    BY EvidenceHolds, TrueConclusions DEF ConclusionsHold
<1> QED BY <1>1, PTL

\* The rows of a comparison drop no difference and claim nothing that was not compared.
THEOREM FaithfulRows == Spec => []RowsAreFaithful
<1>1. RowsAreFaithful
    BY TrueRows DEF RowsAreFaithful
<1> QED BY <1>1, PTL

\* An automatic comparison concludes no more than a requested one.
THEOREM WithinRequested == Spec => []AutomaticWithinRequested
<1>1. AutomaticWithinRequested
    BY ConcludesLess DEF AutomaticWithinRequested
<1> QED BY <1>1, PTL

\* The preview of two complete runs is their difference, cut to the limit.
THEOREM PreviewsExact == Spec => []PreviewIsExact
<1>1. PreviewIsExact
    BY PreviewsHold DEF PreviewIsExact
<1> QED BY <1>1, PTL

=============================================================================

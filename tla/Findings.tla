------------------------------ MODULE Findings ------------------------------
(***************************************************************************)
(* The findings of one collection source.  Workers observe them in runs    *)
(* and comparisons and resolve those a run shows absent, one evaluation at *)
(* a time under the source's advisory lock; analysts edit them and accept  *)
(* their risk until a date; maintenance reopens what has expired.          *)
(*                                                                         *)
(* An occurrence key is a pair <<baseline, current>>, as a comparison is;  *)
(* the key of a run's own evaluation has baseline 0.                       *)
(***************************************************************************)
EXTENDS Naturals, FiniteSets, Sequences

CONSTANTS
    Runs,           \* runs of the source, numbered as (created_at, id) orders them
    Comparisons,    \* pairs <<baseline run, current run>>
    StateFindings,  \* findings of the policies a run's own evidence triggers
    ChangeFindings, \* findings of the policies a comparison triggers
    Policies, PolicyOf,
    Snapshots,      \* what a run may show: its candidate batches, the policies it covers whole
    Changes,        \* what a comparison shows: its candidate batches
    Analysts,
    Limit,          \* FINDING_RESOLUTION_BATCH_SIZE
    MaxAttempts,    \* the 3 of "attempt_count < 3"
    MaxFaults,      \* bound: crashes, exceptions, yields, stalls
    MaxRequests     \* bound: analysts' requests, switches of the source, deletions

AllFindings == StateFindings \cup ChangeFindings
Keys        == ({0} \X Runs) \cup Comparisons

ASSUME FindingsAssumption ==
    /\ Runs \subseteq Nat \ {0} /\ Comparisons \subseteq Runs \X Runs
    /\ StateFindings \cap ChangeFindings = {} /\ IsFiniteSet(AllFindings)
    /\ Policies \subseteq Nat /\ IsFiniteSet(Policies) /\ PolicyOf \in [StateFindings -> Policies]
    /\ Snapshots \subseteq [batches: Seq(SUBSET StateFindings), whole: SUBSET Policies]
    /\ Changes \in [Comparisons -> Seq(SUBSET ChangeFindings)]
    /\ Limit \in Nat \ {0} /\ MaxAttempts \in Nat \ {0}
    /\ MaxFaults \in Nat /\ MaxRequests \in Nat

VARIABLES
    run,        \* "open" until its ingest completes it, then "COMPLETE" or "deleted"
    snapshot,   \* the evidence in the run's inventory
    enabled,    \* collection_sources.enabled
    eval,       \* of a run: monitoring_findings.state; of a comparison: findings_evaluation.state
    cursor,     \* candidate batches committed by the evaluation of a run or comparison
    resolved,   \* policies whose absent findings the run's evaluation has resolved
    tries,      \* attempt_count
    due,        \* no next_retry_at, or it has passed
    stale,      \* heartbeat_at is older than INGEST_STALE_RUN_SECONDS
    finding,    \* the findings table with its occurrences
    called,     \* runs a recovery scan has claimed for a worker
    job,        \* the evaluation that holds the source's lock
    session,    \* what each analyst has loaded
    faults, requests

evidence   == <<run, snapshot, enabled>>
evaluation == <<eval, cursor, resolved, tries, due, stale>>
bounds     == <<faults, requests>>
vars       == <<evidence, evaluation, finding, called, job, session, bounds>>

Status == {"none", "open", "acknowledged", "accepted_risk", "resolved"}
Finding == [status: Status, expiry: {"none", "future", "past"}, seen: SUBSET Keys,
            latest: Runs \cup {0}, revision: Nat]
NoFinding == [status |-> "none", expiry |-> "none", seen |-> {}, latest |-> 0, revision |-> 0]

NoKey == <<0, 0>>
Job   == [kind: {"none", "ingest", "run", "comparison"}, key: Keys \cup {NoKey},
          authoritative: BOOLEAN, tries: Nat]
NoJob == [kind |-> "none", key |-> NoKey, authoritative |-> FALSE, tries |-> 0]

\* The rows as the analyst's page shows them, until a request locks or drops them.
Session == [rows: SUBSET AllFindings, locked: BOOLEAN, loaded: [AllFindings -> Finding]]
Away    == [rows |-> {}, locked |-> FALSE, loaded |-> [f \in AllFindings |-> NoFinding]]

RunKey(r)    == <<0, r>>
Current(k)   == k[2]
IsRun(k)     == k[1] = 0
Complete(r)  == run[r] = "COMPLETE"
Exists(f)    == finding[f].status # "none"
Held         == UNION {session[a].rows : a \in {b \in Analysts : session[b].locked}}
Set(g, x, v) == [g EXCEPT ![x] = v]

TypeOK ==
    /\ run \in [Runs -> {"open", "COMPLETE", "deleted"}]
    /\ snapshot \in [Runs -> Snapshots] /\ enabled \in BOOLEAN
    /\ eval \in [Keys -> {"none", "queued", "retrying", "evaluating", "degraded", "skipped",
                          "complete"}]
    /\ cursor \in [Keys -> Nat]
    /\ resolved \in [Runs -> SUBSET Policies]
    /\ tries \in [Runs -> Nat]
    /\ due \in [Runs -> BOOLEAN] /\ stale \in [Runs -> BOOLEAN]
    /\ finding \in [AllFindings -> Finding]
    /\ called \subseteq Runs /\ job \in Job
    /\ session \in [Analysts -> Session]
    /\ faults \in 0 .. MaxFaults /\ requests \in 0 .. MaxRequests

Init ==
    /\ run = [r \in Runs |-> "open"]
    /\ snapshot \in [Runs -> Snapshots]
    /\ enabled = TRUE
    /\ eval = [k \in Keys |-> "none"] /\ cursor = [k \in Keys |-> 0]
    /\ resolved = [r \in Runs |-> {}] /\ tries = [r \in Runs |-> 0]
    /\ due = [r \in Runs |-> TRUE] /\ stale = [r \in Runs |-> FALSE]
    /\ finding = [f \in AllFindings |-> NoFinding]
    /\ called = {} /\ job = NoJob
    /\ session = [a \in Analysts |-> Away]
    /\ faults = 0 /\ requests = 0

Fault   == faults < MaxFaults /\ faults' = faults + 1
Request == requests < MaxRequests /\ requests' = requests + 1

-----------------------------------------------------------------------------
(* Starting an evaluation: the source's lock is free and is taken          *)

\* collection_source_run_is_latest_complete_candidate
NewestRun(r) == \A q \in Runs : q > r => ~Complete(q)

\* comparison_is_latest_complete_candidate
LatestCandidate(c) ==
    /\ NewestRun(Current(c))
    /\ \A d \in Comparisons : d # c /\ eval[d] # "none" => ~(Current(d) > Current(c))

Take(kind, k, authoritative, n) ==
    job' = [kind |-> kind, key |-> k, authoritative |-> authoritative, tries |-> n]

\* An ingest, its inventory verified.  A recovered one keeps the checkpoint it finds.
StartIngest(r) ==
    /\ run[r] = "open" /\ job = NoJob /\ enabled /\ NewestRun(r)
    /\ eval' = Set(eval, RunKey(r), "evaluating")
    /\ Take("ingest", RunKey(r), TRUE, 0)
    /\ UNCHANGED <<evidence, cursor, resolved, tries, due, stale, finding, called, session, bounds>>

\* A run that is not evaluated completes all the same.
CompleteUnevaluated(r) ==
    /\ run[r] = "open" /\ job = NoJob /\ ~(enabled /\ NewestRun(r))
    /\ run' = Set(run, r, "COMPLETE")
    /\ eval' = Set(eval, RunKey(r), "skipped")
    /\ UNCHANGED <<snapshot, enabled, cursor, resolved, tries, due, stale, finding, called, job,
                   session, bounds>>

\* Mutant of Recoverable: an evaluation under way is not claimed again.
RecoverableQueued(r) == eval[RunKey(r)] \in {"queued", "retrying"} /\ due[r]
Recoverable(r) ==
    \/ eval[RunKey(r)] \in {"queued", "retrying"} /\ due[r]
    \/ eval[RunKey(r)] = "evaluating" /\ stale[r]

\* discover_recoverable_monitoring_evaluations
Claim(r) ==
    /\ Complete(r) /\ Recoverable(r)
    /\ eval' = Set(eval, RunKey(r), "evaluating")
    /\ stale' = Set(stale, r, FALSE)
    /\ called' = called \cup {r}
    /\ UNCHANGED <<evidence, cursor, resolved, tries, due, finding, job, session, bounds>>

Wanted(r) == Complete(r) /\ eval[RunKey(r)] \in {"queued", "retrying", "evaluating", "degraded"}

\* process_monitoring_evaluation_job: another worker has the run, or nothing is left to do.
Drop(r) ==
    /\ r \in called /\ (job.key = RunKey(r) \/ ~Wanted(r))
    /\ called' = called \ {r}
    /\ UNCHANGED <<evidence, evaluation, finding, job, session, bounds>>

SkipRun(r) ==
    /\ r \in called /\ job = NoJob /\ Wanted(r) /\ ~(NewestRun(r) /\ enabled)
    /\ called' = called \ {r}
    /\ eval' = Set(eval, RunKey(r), "skipped")
    /\ UNCHANGED <<evidence, cursor, resolved, tries, due, stale, finding, job, session, bounds>>

StartRun(r) ==
    /\ r \in called /\ job = NoJob /\ Wanted(r) /\ NewestRun(r) /\ enabled
    /\ called' = called \ {r}
    /\ eval' = Set(eval, RunKey(r), "evaluating")
    /\ due' = Set(due, r, TRUE)
    /\ stale' = Set(stale, r, FALSE)
    /\ Take("run", RunKey(r), TRUE, tries[r])
    /\ UNCHANGED <<evidence, cursor, resolved, tries, finding, session, bounds>>

\* A claim of a comparison that reaches its findings, or of the findings of a published one;
\* the first reads its candidates from the start whatever an earlier claim committed.
StartComparison(c) ==
    /\ job = NoJob /\ Complete(c[1]) /\ Complete(Current(c)) /\ eval[c] # "complete"
    /\ cursor' = IF eval[c] = "none" THEN Set(cursor, c, 0) ELSE cursor
    /\ Take("comparison", c, LatestCandidate(c), 0)
    /\ UNCHANGED <<evidence, eval, resolved, tries, due, stale, finding, called, session, bounds>>

-----------------------------------------------------------------------------
(* An evaluation                                                           *)

Lapsed(x)  == x.status = "accepted_risk" /\ x.expiry = "past"
\* ck_findings_accepted_risk_expiry
Checked(x) == x.status = "accepted_risk" <=> x.expiry # "none"

\* Mutant of Reopens: an occurrence seen before reopens a finding again.
ReopensAgain(x, k, authoritative) == authoritative /\ (x.status = "resolved" \/ Lapsed(x))
Reopens(x, k, authoritative) ==
    authoritative /\ k \notin x.seen /\ (x.status = "resolved" \/ Lapsed(x))

\* Mutant of Upsert: an observation leaves the revision alone.
UpsertUnrevised(x, k, authoritative) ==
    IF x.status = "none"
    THEN [status |-> IF authoritative THEN "open" ELSE "resolved", expiry |-> "none",
          seen |-> {k}, latest |-> Current(k), revision |-> 1]
    ELSE [status   |-> IF Reopens(x, k, authoritative) THEN "open" ELSE x.status,
          expiry   |-> IF authoritative /\ Lapsed(x) THEN "none" ELSE x.expiry,
          seen     |-> x.seen \cup {k},
          latest   |-> IF authoritative THEN Current(k) ELSE x.latest,
          revision |-> x.revision]
\* Mutant of Upsert: the latest run follows historical evidence.
UpsertFollowing(x, k, authoritative) ==
    IF x.status = "none"
    THEN [status |-> IF authoritative THEN "open" ELSE "resolved", expiry |-> "none",
          seen |-> {k}, latest |-> Current(k), revision |-> 1]
    ELSE [status   |-> IF Reopens(x, k, authoritative) THEN "open" ELSE x.status,
          expiry   |-> IF authoritative /\ Lapsed(x) THEN "none" ELSE x.expiry,
          seen     |-> x.seen \cup {k},
          latest   |-> Current(k),
          revision |-> x.revision + (IF k \in x.seen THEN 0 ELSE 1)]
\* _upsert_finding of the row x for the occurrence key k.
Upsert(x, k, authoritative) ==
    IF x.status = "none"
    THEN [status |-> IF authoritative THEN "open" ELSE "resolved", expiry |-> "none",
          seen |-> {k}, latest |-> Current(k), revision |-> 1]
    ELSE [status   |-> IF Reopens(x, k, authoritative) THEN "open" ELSE x.status,
          expiry   |-> IF authoritative /\ Lapsed(x) THEN "none" ELSE x.expiry,
          seen     |-> x.seen \cup {k},
          latest   |-> IF authoritative THEN Current(k) ELSE x.latest,
          revision |-> x.revision + (IF k \in x.seen THEN 0 ELSE 1)]

Batches(k) == IF IsRun(k) THEN snapshot[Current(k)].batches ELSE Changes[k]
Pending    == job # NoJob /\ cursor[job.key] < Len(Batches(job.key))
NextBatch  == Batches(job.key)[cursor[job.key] + 1]
Applied(f) == Upsert(finding[f], job.key, job.authoritative)
\* The next batch's statements succeed.
Accepted   == \A f \in NextBatch : Checked(Applied(f))

\* A progress write replaces the checkpoint, and drops the count of attempts in it.
Progress == /\ tries' = IF IsRun(job.key) THEN Set(tries, Current(job.key), 0) ELSE tries
            /\ stale' = IF IsRun(job.key) THEN Set(stale, Current(job.key), FALSE) ELSE stale

\* evaluate_run_findings and evaluate_comparison_findings: one batch and its cursor commit.
CandidateBatch ==
    /\ Pending /\ Accepted /\ NextBatch \cap Held = {}
    /\ finding' = [f \in AllFindings |-> IF f \in NextBatch THEN Applied(f) ELSE finding[f]]
    /\ cursor' = Set(cursor, job.key, cursor[job.key] + 1)
    /\ Progress
    /\ UNCHANGED <<evidence, eval, resolved, due, called, job, session, bounds>>

Whole(k)   == IF IsRun(k) THEN snapshot[Current(k)].whole ELSE {}
\* Mutant of Remaining: absence is concluded from a partial run too.
RemainingPartial(k) == Policies \ resolved[Current(k)]
Remaining(k) == IF IsRun(k) THEN Whole(k) \ resolved[Current(k)] ELSE {}
Observed(f, r) == \E k \in finding[f].seen : Current(k) = r
\* Mutant of Absent: a finding an analyst acknowledged or accepted stays.
AbsentUntouched(p, r) ==
    {f \in StateFindings : PolicyOf[f] = p /\ finding[f].status = "open" /\ ~Observed(f, r)}
\* Open findings of a policy that the run did not observe.
Absent(p, r) ==
    {f \in StateFindings : PolicyOf[f] = p /\ finding[f].status \notin {"none", "resolved"}
                           /\ ~Observed(f, r)}

Resolve(x) == [x EXCEPT !.status = "resolved", !.expiry = "none", !.revision = @ + 1]

\* A resolution of n findings left none behind.
Exhausted(n) == n < Limit

\* _resolve_absent_state_findings: rows an analyst's request holds are skipped.
ResolveBatch(p) ==
    LET r == Current(job.key)
        free == Absent(p, r) \ Held IN
    /\ job # NoJob /\ ~Pending /\ p \in Remaining(job.key) /\ \A q \in Remaining(job.key) : p <= q
    /\ \E batch \in SUBSET free :
           /\ Cardinality(batch) <= Limit
           /\ Cardinality(batch) < Limit => batch = free
           /\ finding' = [f \in AllFindings |->
                             IF f \in batch THEN Resolve(finding[f]) ELSE finding[f]]
           /\ resolved' = IF Exhausted(Cardinality(batch))
                          THEN Set(resolved, r, resolved[r] \cup {p}) ELSE resolved
    /\ Progress
    /\ UNCHANGED <<evidence, eval, cursor, due, called, job, session, bounds>>

Completes == IF job.kind = "ingest" THEN Set(run, Current(job.key), "COMPLETE") ELSE run

EvaluationEnds ==
    /\ job # NoJob /\ ~Pending /\ Remaining(job.key) = {}
    /\ run' = Completes
    /\ eval' = Set(eval, job.key, "complete")
    /\ tries' = IF IsRun(job.key) THEN Set(tries, Current(job.key), job.tries) ELSE tries
    /\ job' = NoJob
    /\ UNCHANGED <<snapshot, enabled, cursor, resolved, due, stale, finding, called, session, bounds>>

\* An exception: the open transaction is rolled back and the evaluation retried later.
EvaluationFails ==
    LET r == Current(job.key)
        n == (IF tries[r] = 0 THEN job.tries ELSE tries[r]) + 1 IN
    /\ job # NoJob
    /\ \/ Fault
       \/ Pending /\ ~Accepted /\ NextBatch \cap Held = {} /\ UNCHANGED faults
    /\ run' = Completes
    /\ IF IsRun(job.key)
       THEN /\ eval' = Set(eval, job.key, IF n < MaxAttempts THEN "retrying" ELSE "degraded")
            /\ tries' = Set(tries, r, n)
            /\ due' = Set(due, r, n >= MaxAttempts)
       ELSE /\ eval' = Set(eval, job.key, "retrying")
            /\ UNCHANGED <<tries, due>>
    /\ job' = NoJob
    /\ UNCHANGED <<snapshot, enabled, cursor, resolved, stale, finding, called, session, requests>>

\* The worker dies, or a comparison's claim yields before it is published.
Crash ==
    /\ job # NoJob /\ Fault
    /\ job' = NoJob
    /\ UNCHANGED <<evidence, evaluation, finding, called, session, requests>>

-----------------------------------------------------------------------------
(* The API                                                                 *)

\* retry_run_monitoring_evaluation; the failures it follows bound it.
RetryRun(r) ==
    /\ Complete(r) /\ eval[RunKey(r)] = "degraded" /\ job = NoJob /\ enabled /\ NewestRun(r)
    /\ eval' = Set(eval, RunKey(r), "queued")
    /\ tries' = Set(tries, r, 0)
    /\ due' = Set(due, r, TRUE)
    /\ UNCHANGED <<evidence, cursor, resolved, stale, finding, called, job, session, bounds>>

SwitchSource ==
    /\ Request
    /\ enabled' = ~enabled
    /\ UNCHANGED <<run, snapshot, evaluation, finding, called, job, session, faults>>

\* delete_run: references to it become NULL, its occurrences keep their keys.
DeleteRun(r) ==
    /\ Complete(r) /\ Request
    /\ job = NoJob \/ (Current(job.key) # r /\ job.key[1] # r)
    /\ run' = Set(run, r, "deleted")
    /\ eval' = [k \in Keys |-> IF r \in {k[1], Current(k)} THEN "none" ELSE eval[k]]
    /\ finding' = [f \in AllFindings |->
                      IF finding[f].latest = r THEN [finding[f] EXCEPT !.latest = 0] ELSE finding[f]]
    /\ UNCHANGED <<snapshot, enabled, cursor, resolved, tries, due, stale, called, job, session,
                   faults>>

Load(a, rows) ==
    /\ session[a] = Away /\ rows # {} /\ \A f \in rows : Exists(f)
    /\ Request
    /\ session' = Set(session, a,
           [rows |-> rows, locked |-> FALSE,
            loaded |-> [f \in AllFindings |-> IF f \in rows THEN finding[f] ELSE NoFinding]])
    /\ UNCHANGED <<evidence, evaluation, finding, called, job, faults>>

\* Mutant of Unchanged: the revisions are not compared.
UnchangedAlways(a) == TRUE
Unchanged(a) == \A f \in session[a].rows : finding[f].revision = session[a].loaded[f].revision

\* update_finding and bulk_update_findings lock the rows; one conflict rejects the request.
LockRows(a) ==
    /\ session[a] # Away /\ ~session[a].locked /\ session[a].rows \cap Held = {}
    /\ session' = Set(session, a, IF Unchanged(a) THEN [session[a] EXCEPT !.locked = TRUE] ELSE Away)
    /\ UNCHANGED <<evidence, evaluation, finding, called, job, bounds>>

\* _apply_finding_update: a target status, or the row's own, and an expiry or none.
Target(x, status) == IF status = "same" THEN x.status ELSE status
Edited(x, status, dated) ==
    [x EXCEPT !.status = Target(x, status),
              !.expiry = IF Target(x, status) # "accepted_risk" THEN "none"
                         ELSE IF dated THEN "future" ELSE @,
              !.revision = @ + 1]
\* What _finding_update_would_change raises no error for.
Valid(x, status, dated) ==
    IF Target(x, status) = "accepted_risk" THEN dated \/ x.expiry = "future" ELSE ~dated
Changed(x, status, dated, note) ==
    note \/ dated \/ Target(x, status) # x.status

\* A request that would change nothing is an error too.
Update(a, status, dated, note) ==
    LET rows == session[a].rows
        changing == {f \in rows : Changed(finding[f], status, dated, note)} IN
    /\ session[a].locked
    /\ finding' = IF \A f \in rows : Valid(finding[f], status, dated)
                  THEN [f \in AllFindings |-> IF f \in changing
                                              THEN Edited(finding[f], status, dated) ELSE finding[f]]
                  ELSE finding
    /\ session' = Set(session, a, Away)
    /\ UNCHANGED <<evidence, evaluation, called, job, bounds>>

-----------------------------------------------------------------------------
(* Maintenance and time                                                    *)

Reopened(x) == [x EXCEPT !.status = "open", !.expiry = "none", !.revision = @ + 1]

\* Mutant of Expired: the sweep only looks at findings of a complete run.
ExpiredComplete ==
    {f \in AllFindings \ Held : Lapsed(finding[f]) /\ \E r \in Runs : Complete(r) /\ r = finding[f].latest}
Expired == {f \in AllFindings \ Held : Lapsed(finding[f])}

\* reopen_expired_accepted_risk_findings: rows a request holds are skipped.
ReopenExpired ==
    /\ Expired # {}
    /\ finding' = [f \in AllFindings |-> IF f \in Expired THEN Reopened(finding[f]) ELSE finding[f]]
    /\ UNCHANGED <<evidence, evaluation, called, job, session, bounds>>

Expire(f) ==
    /\ finding[f].expiry = "future"
    /\ finding' = [finding EXCEPT ![f].expiry = "past"]
    /\ UNCHANGED <<evidence, evaluation, called, job, session, bounds>>

BackoffEnds(r) ==
    /\ ~due[r]
    /\ due' = Set(due, r, TRUE)
    /\ UNCHANGED <<evidence, eval, cursor, resolved, tries, stale, finding, called, job, session,
                   bounds>>

\* The heartbeat of a worker that evaluates the run only ages when the worker stalls.
HeartbeatAges(r) ==
    /\ ~stale[r] /\ Complete(r) /\ eval[RunKey(r)] = "evaluating"
    /\ IF job.key = RunKey(r) THEN Fault ELSE UNCHANGED faults
    /\ stale' = Set(stale, r, TRUE)
    /\ UNCHANGED <<evidence, eval, cursor, resolved, tries, due, finding, called, job, session,
                   requests>>

-----------------------------------------------------------------------------

Evaluate == CandidateBatch \/ (\E p \in Policies : ResolveBatch(p)) \/ EvaluationEnds
            \/ EvaluationFails
Handle(r) == Drop(r) \/ SkipRun(r) \/ StartRun(r)
Requests(a) == LockRows(a) \/ \E status \in (Status \ {"none"}) \cup {"same"}, dated, note \in BOOLEAN :
                                  Update(a, status, dated, note)

Next ==
    \/ \E r \in Runs : StartIngest(r) \/ CompleteUnevaluated(r) \/ Claim(r) \/ Handle(r)
                       \/ RetryRun(r) \/ DeleteRun(r) \/ BackoffEnds(r) \/ HeartbeatAges(r)
    \/ \E c \in Comparisons : StartComparison(c)
    \/ Evaluate \/ Crash \/ SwitchSource \/ ReopenExpired
    \/ \E a \in Analysts : Requests(a) \/ \E rows \in SUBSET AllFindings : Load(a, rows)
    \/ \E f \in AllFindings : Expire(f)

Spec == Init /\ [][Next]_vars

\* Workers run what they started, keep scanning, requests end and time passes.
Fairness ==
    /\ WF_vars(Evaluate) /\ WF_vars(ReopenExpired)
    /\ \A r \in Runs : WF_vars(Claim(r)) /\ WF_vars(Handle(r)) /\ WF_vars(BackoffEnds(r))
                       /\ WF_vars(HeartbeatAges(r))
    /\ \A a \in Analysts : WF_vars(Requests(a))
FairSpec == Spec /\ Fairness

-----------------------------------------------------------------------------
(* Properties                                                              *)

RowsConsistent ==
    \A f \in AllFindings :
        /\ Checked(finding[f])
        /\ IF Exists(f) THEN finding[f].revision >= 1 /\ finding[f].seen # {}
           ELSE finding[f] = NoFinding
JobHolds ==
    /\ job.kind = "none" <=> job.key = NoKey
    /\ job.key = NoKey => job = NoJob
    /\ job.kind \in {"ingest", "run"} <=> IsRun(job.key) /\ job.key # NoKey
    /\ job.kind = "ingest" <=> job.key # NoKey /\ run[Current(job.key)] = "open"
    /\ job.kind = "run" => Complete(Current(job.key))
    /\ job.kind \in {"ingest", "run"} => job.authoritative
\* While an evaluation acts on the source's newest evidence, no newer run completes.
AuthorityKept ==
    job # NoJob /\ job.authoritative => NewestRun(Current(job.key))
SessionsHold ==
    /\ \A a \in Analysts : session[a].rows = {} => session[a] = Away
    /\ \A a, b \in Analysts : a # b /\ session[a].locked /\ session[b].locked
                                  => session[a].rows \cap session[b].rows = {}
    /\ \A a \in Analysts : \A f \in session[a].rows :
           /\ session[a].loaded[f].revision >= 1
           /\ session[a].locked => finding[f].revision = session[a].loaded[f].revision
\* What the evaluation of a run has committed is among the findings' occurrences.
CursorsObserved ==
    \A r \in Runs : \A i \in 1 .. Len(snapshot[r].batches) :
        i <= cursor[RunKey(r)] => \A f \in snapshot[r].batches[i] : RunKey(r) \in finding[f].seen
\* A row that has the revision an analyst loaded is the row the analyst saw: no observation,
\* resolution, expiry or other analyst's edit goes unnoticed.
EditsSeeTheRow ==
    \A a \in Analysts : \A f \in session[a].rows :
        LET x == session[a].loaded[f] IN
        /\ finding[f].revision >= x.revision
        /\ finding[f].revision = x.revision => /\ finding[f].status = x.status
                                               /\ finding[f].seen = x.seen

IInv == TypeOK /\ RowsConsistent /\ JobHolds /\ AuthorityKept /\ SessionsHold
        /\ CursorsObserved /\ EditsSeeTheRow

Edit(f) == \E a \in Analysts : session[a].locked /\ f \in session[a].rows /\ session'[a] = Away

\* Complete evidence newer than run r is what the finding shows.
Superseded(f, r) == finding[f].latest > r /\ Complete(finding[f].latest)

\* A decision to resolve stands until a new occurrence contradicts it: neither a replay of
\* evidence already seen nor a late historical comparison reopens the finding.
DecisionsStand ==
    [][\A f \in AllFindings :
           finding[f].status = "resolved" /\ finding'[f].status # "resolved" /\ ~Edit(f) =>
               \E k \in finding'[f].seen \ finding[f].seen : ~Superseded(f, Current(k))]_vars

\* Only a whole run that did not observe a finding, and that no complete run supersedes,
\* proves it absent.
AbsenceIsProved ==
    [][\A f \in AllFindings :
           finding[f].status \notin {"none", "resolved"} /\ finding'[f].status = "resolved"
           /\ ~Edit(f) =>
               \E r \in Runs :
                   /\ NewestRun(r) /\ run[r] \in {"open", "COMPLETE"}
                   /\ PolicyOf[f] \in snapshot[r].whole
                   /\ \A i \in DOMAIN snapshot[r].batches : f \notin snapshot[r].batches[i]]_vars

\* A policy is done with only when no finding of it stays open that the run does not show,
\* but those an analyst was editing.
AbsenceIsConcluded ==
    [][\A r \in Runs : \A f \in StateFindings \ Held :
           PolicyOf[f] \in resolved'[r] \ resolved[r] =>
               \/ finding'[f].status \in {"none", "resolved"}
               \/ \E k \in finding'[f].seen : Current(k) = r]_vars

\* Absence is concluded when it is proved, and only then.
AbsenceHolds == AbsenceIsProved /\ AbsenceIsConcluded

\* What a finding shows as its newest evidence never goes back from a complete run to an
\* older one.
EvidenceAdvances ==
    [][\A f \in AllFindings :
           finding'[f].latest # 0 => ~Superseded(f, finding'[f].latest)]_vars

\* A run's findings are evaluated, given up on or skipped.
EvaluationsSettle ==
    \A r \in Runs : Complete(r) /\ eval[RunKey(r)] \in {"queued", "retrying", "evaluating"}
                        ~> eval[RunKey(r)] \in {"none", "degraded", "skipped", "complete"}
\* An accepted risk does not outlive its date.
AcceptanceEnds == \A f \in AllFindings : Lapsed(finding[f]) ~> ~Lapsed(finding[f])

\* docs/monitoring-and-findings.md: state-based findings are automatically resolved only when
\* a replacement run has authoritative coverage; a run the finding's evidence is newer than
\* replaces nothing.
ResolvedByReplacement ==
    [][\A f \in StateFindings :
           finding[f].status \notin {"none", "resolved"} /\ finding'[f].status = "resolved"
           /\ ~Edit(f) => Current(job.key) > finding[f].latest]_vars
=============================================================================

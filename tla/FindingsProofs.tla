---------------------------- MODULE FindingsProofs ---------------------------
(***************************************************************************)
(* What happens to a source's findings, for any runs, comparisons,         *)
(* evidence and analysts, and for any faults.                              *)
(***************************************************************************)
EXTENDS Findings, TLAPS

-----------------------------------------------------------------------------
(* Keys and rows                                                           *)

LEMMA KeyFacts ==
    /\ NoKey \notin Keys
    /\ \A r \in Runs : RunKey(r) \in Keys /\ IsRun(RunKey(r)) /\ Current(RunKey(r)) = r /\ r \in Nat /\ r > 0
    /\ \A c \in Comparisons : c \in Keys /\ ~IsRun(c) /\ Current(c) \in Runs
    /\ \A k \in Keys : Current(k) \in Runs /\ (IsRun(k) => k = RunKey(Current(k)))
                       /\ (~IsRun(k) => k \in Comparisons)
<1> USE FindingsAssumption DEF Keys, NoKey, RunKey, IsRun, Current
<1>1. 0 \notin Runs /\ \A r \in Runs : r \in Nat /\ r > 0
    OBVIOUS
<1>2. \A c \in Comparisons : c[1] \in Runs /\ c[2] \in Runs
    OBVIOUS
<1>3. \A k \in {0} \X Runs : k[1] = 0 /\ k[2] \in Runs /\ k = <<0, k[2]>>
    OBVIOUS
<1>4. NoKey \notin Keys
    <2>1. NoKey[1] = 0 /\ NoKey[2] = 0
        OBVIOUS
    <2> QED BY <1>1, <1>2, <1>3, <2>1
<1> QED BY <1>1, <1>2, <1>3, <1>4

\* A job is an evaluation of a key, or none.
LEMMA JobFacts ==
    ASSUME IInv, job # NoJob
    PROVE  /\ job.key \in Keys /\ Current(job.key) \in Runs /\ job.authoritative \in BOOLEAN
           /\ job.tries \in Nat
           /\ job.authoritative => NewestRun(Current(job.key))
           /\ IsRun(job.key) => /\ job.key = RunKey(Current(job.key)) /\ job.authoritative
                                /\ run[Current(job.key)] \in {"open", "COMPLETE"}
<1>1. job \in Job /\ JobHolds /\ AuthorityKept
    BY DEF IInv, TypeOK
<1>2. job.key # NoKey
    BY <1>1 DEF JobHolds
<1>3. job.key \in Keys /\ job.authoritative \in BOOLEAN /\ job.tries \in Nat
    BY <1>1, <1>2 DEF Job
<1>4. job.authoritative => NewestRun(Current(job.key))
    BY <1>1 DEF AuthorityKept
<1>5. ASSUME IsRun(job.key)
      PROVE  job.authoritative /\ run[Current(job.key)] \in {"open", "COMPLETE"}
    <2>1. job.kind \in {"ingest", "run"} /\ job.authoritative
        BY <1>1, <1>2, <1>5 DEF JobHolds
    <2>2. job.kind = "ingest" => run[Current(job.key)] = "open"
        BY <1>1 DEF JobHolds
    <2>3. job.kind = "run" => run[Current(job.key)] = "COMPLETE"
        BY <1>1 DEF JobHolds, Complete
    <2> QED BY <2>1, <2>2, <2>3
<1> QED BY <1>3, <1>4, <1>5, KeyFacts

\* The row x becomes y: nothing an analyst saw changes but under a new revision.
Follows(x, y) ==
    /\ y.revision >= x.revision
    /\ y.revision = x.revision => y.status = x.status /\ y.seen = x.seen
    /\ x.seen \subseteq y.seen
Consistent(x) ==
    /\ Checked(x)
    /\ IF x.status # "none" THEN x.revision >= 1 /\ x.seen # {} ELSE x = NoFinding

\* The sessions that a step leaves go on seeing the rows they hold.
LEMMA RowsMove ==
    ASSUME IInv, finding' \in [AllFindings -> Finding],
           \A f \in AllFindings : Consistent(finding'[f]) /\ Follows(finding[f], finding'[f]),
           session' \in [Analysts -> Session],
           \A b \in Analysts : session'[b] # Away =>
               /\ session'[b] = session[b]
               /\ session[b].locked => \A f \in session[b].rows : finding'[f].revision = finding[f].revision
    PROVE  RowsConsistent' /\ SessionsHold' /\ EditsSeeTheRow'
<1>1. RowsConsistent'
    BY DEF RowsConsistent, Consistent, Exists
<1>2. Away.rows = {} /\ Away.locked = FALSE
    BY DEF Away
<1>3. /\ session \in [Analysts -> Session] /\ SessionsHold /\ EditsSeeTheRow
      /\ finding \in [AllFindings -> Finding]
    BY DEF IInv, TypeOK
<1>4. ASSUME NEW b \in Analysts, NEW f \in session'[b].rows
      PROVE  /\ session'[b] = session[b] /\ f \in session[b].rows /\ f \in AllFindings
             /\ session[b].locked => finding'[f].revision = finding[f].revision
    BY <1>2, <1>3, <1>4 DEF Session
<1>5. SessionsHold'
    <2>1. \A a \in Analysts : session'[a].rows = {} => session'[a] = Away
        BY <1>3 DEF SessionsHold
    <2>2. \A a, b \in Analysts : a # b /\ session'[a].locked /\ session'[b].locked
                                     => session'[a].rows \cap session'[b].rows = {}
        BY <1>2, <1>3 DEF SessionsHold
    <2>3. \A a \in Analysts : \A f \in session'[a].rows :
              /\ session'[a].loaded[f].revision >= 1
              /\ session'[a].locked => finding'[f].revision = session'[a].loaded[f].revision
        BY <1>3, <1>4 DEF SessionsHold
    <2> QED BY <2>1, <2>2, <2>3 DEF SessionsHold
<1>6. EditsSeeTheRow'
    <2> SUFFICES ASSUME NEW a \in Analysts, NEW f \in session'[a].rows
                 PROVE  LET x == session'[a].loaded[f] IN
                        /\ finding'[f].revision >= x.revision
                        /\ finding'[f].revision = x.revision => /\ finding'[f].status = x.status
                                                                /\ finding'[f].seen = x.seen
        BY DEF EditsSeeTheRow
    <2> DEFINE x == session[a].loaded[f]
    <2>1. session'[a] = session[a] /\ f \in session[a].rows /\ f \in AllFindings
        BY <1>4
    <2>2. x \in Finding /\ finding[f] \in Finding /\ finding'[f] \in Finding
        BY <1>3, <2>1 DEF Session
    <2>3. /\ finding[f].revision >= x.revision
          /\ finding[f].revision = x.revision => finding[f].status = x.status /\ finding[f].seen = x.seen
        BY <1>3, <2>1 DEF EditsSeeTheRow
    <2>4. Follows(finding[f], finding'[f])
        BY <2>1
    <2>5. x.revision \in Nat /\ finding[f].revision \in Nat /\ finding'[f].revision \in Nat
        BY <2>2 DEF Finding
    <2> QED BY <2>1, <2>3, <2>4, <2>5 DEF Follows
<1> QED BY <1>1, <1>5, <1>6

LEMMA BatchTypes ==
    ASSUME TypeOK
    PROVE  /\ \A r \in Runs : snapshot[r].batches \in Seq(SUBSET StateFindings)
           /\ \A k \in Keys : Len(Batches(k)) \in Nat
                              /\ \A i \in 1 .. Len(Batches(k)) : Batches(k)[i] \subseteq AllFindings
<1>1. ASSUME NEW r \in Runs PROVE snapshot[r].batches \in Seq(SUBSET StateFindings)
    <2>1. snapshot[r] \in Snapshots
        BY DEF TypeOK
    <2>2. Snapshots \subseteq [batches: Seq(SUBSET StateFindings), whole: SUBSET Policies]
        BY FindingsAssumption
    <2>3. snapshot[r] \in [batches: Seq(SUBSET StateFindings), whole: SUBSET Policies]
        BY <2>1, <2>2
    <2> QED BY <2>3
<1>2. ASSUME NEW k \in Keys
      PROVE  \E S \in {StateFindings, ChangeFindings} : Batches(k) \in Seq(SUBSET S)
    <2>1. CASE IsRun(k)
        BY <1>1, <2>1, KeyFacts DEF Batches
    <2>2. CASE ~IsRun(k)
        <3>1. k \in Comparisons
            BY <2>2, KeyFacts
        <3>2. Changes \in [Comparisons -> Seq(SUBSET ChangeFindings)]
            BY FindingsAssumption
        <3> QED BY <2>2, <3>1, <3>2 DEF Batches
    <2> QED BY <2>1, <2>2
<1>3. ASSUME NEW k \in Keys
      PROVE  Len(Batches(k)) \in Nat
             /\ \A i \in 1 .. Len(Batches(k)) : Batches(k)[i] \subseteq AllFindings
    <2>1. PICK S \in {StateFindings, ChangeFindings} : Batches(k) \in Seq(SUBSET S)
        BY <1>2
    <2>2. Len(Batches(k)) \in Nat /\ \A i \in 1 .. Len(Batches(k)) : Batches(k)[i] \in SUBSET S
        BY <2>1
    <2> QED BY <2>2 DEF AllFindings
<1> QED BY <1>1, <1>3

\* What has been committed of a run stays observed while findings only gain occurrences.
LEMMA ObservedKept ==
    ASSUME IInv, UNCHANGED snapshot, \A r \in Runs : cursor'[RunKey(r)] = cursor[RunKey(r)],
           \A f \in AllFindings : finding[f].seen \subseteq finding'[f].seen
    PROVE  CursorsObserved'
<1> SUFFICES ASSUME NEW r \in Runs, NEW i \in 1 .. Len(snapshot[r].batches),
                    i <= cursor[RunKey(r)], NEW f \in snapshot[r].batches[i]
             PROVE  RunKey(r) \in finding'[f].seen
    BY DEF CursorsObserved, RunKey
<1>1. snapshot[r].batches \in Seq(SUBSET StateFindings)
    BY BatchTypes DEF IInv
<1>2. f \in AllFindings
    BY <1>1 DEF AllFindings
<1>3. RunKey(r) \in finding[f].seen
    BY DEF IInv, CursorsObserved
<1> QED BY <1>2, <1>3

\* A step of evaluations and runs that leaves findings and sessions alone.
LEMMA QuietStep ==
    ASSUME IInv, UNCHANGED <<snapshot, finding, session>>,
           \A r \in Runs : cursor'[RunKey(r)] = cursor[RunKey(r)],
           TypeOK', JobHolds', AuthorityKept'
    PROVE  IInv'
<1>1. CursorsObserved'
    BY ObservedKept
<1>2. RowsConsistent' /\ SessionsHold' /\ EditsSeeTheRow'
    BY DEF IInv, RowsConsistent, Exists, SessionsHold, EditsSeeTheRow
<1> QED BY <1>1, <1>2 DEF IInv

\* The same when the job goes on or there is none, and no run of it changes.
LEMMA JobKept ==
    ASSUME IInv, UNCHANGED <<job, run>>
    PROVE  JobHolds' /\ AuthorityKept'
BY DEF IInv, JobHolds, AuthorityKept, NewestRun, Complete

LEMMA JobEnded ==
    ASSUME job' = NoJob
    PROVE  JobHolds' /\ AuthorityKept' /\ job' \in Job
<1>1. JobHolds'
    BY DEF JobHolds, NoJob
<1>2. AuthorityKept'
    BY DEF AuthorityKept
<1>3. job' \in Job
    BY DEF NoJob, Job, NoKey
<1> QED BY <1>1, <1>2, <1>3

-----------------------------------------------------------------------------
(* Evaluations start and end                                               *)

LEMMA InitIInv == Init => IInv
<1> SUFFICES ASSUME Init PROVE IInv
    OBVIOUS
<1> USE DEF Init
<1>1. NoFinding \in Finding /\ NoFinding.status = "none" /\ NoFinding.expiry = "none"
    BY DEF NoFinding, Finding, Status
<1>2. Away \in Session /\ Away.rows = {} /\ Away.locked = FALSE
    BY <1>1 DEF Away, Session
<1>3. NoJob \in Job
    BY DEF NoJob, Job, NoKey
<1>4. TypeOK
    BY <1>1, <1>2, <1>3, FindingsAssumption DEF TypeOK
<1>5. RowsConsistent
    BY <1>1 DEF RowsConsistent, Checked, Exists
<1>6. JobHolds /\ AuthorityKept
    BY DEF JobHolds, AuthorityKept, NoJob
<1>7. SessionsHold /\ EditsSeeTheRow
    BY <1>2 DEF SessionsHold, EditsSeeTheRow
<1>8. CursorsObserved
    BY KeyFacts DEF CursorsObserved
<1> QED BY <1>4, <1>5, <1>6, <1>7, <1>8 DEF IInv

LEMMA StartIngestKeeps == ASSUME IInv, NEW r \in Runs, StartIngest(r) PROVE IInv'
<1>1. /\ run[r] = "open" /\ job = NoJob /\ NewestRun(r)
      /\ eval' = Set(eval, RunKey(r), "evaluating")
      /\ job' = [kind |-> "ingest", key |-> RunKey(r), authoritative |-> TRUE, tries |-> 0]
      /\ UNCHANGED <<run, snapshot, enabled, cursor, resolved, tries, due, stale, finding, called,
                     session, faults, requests>>
    BY DEF StartIngest, Take, evidence, bounds
<1>2. RunKey(r) \in Keys /\ IsRun(RunKey(r)) /\ Current(RunKey(r)) = r /\ RunKey(r) # NoKey
    BY KeyFacts
<1>3. job' \in Job /\ eval' \in [Keys -> {"none", "queued", "retrying", "evaluating", "degraded",
                                         "skipped", "complete"}]
    BY <1>1, <1>2 DEF Job, Set, IInv, TypeOK
<1>4. TypeOK'
    BY <1>1, <1>3 DEF IInv, TypeOK
<1>5. JobHolds'
    BY <1>1, <1>2 DEF JobHolds
<1>6. AuthorityKept'
    BY <1>1, <1>2 DEF AuthorityKept, NewestRun, Complete
<1> QED BY <1>1, <1>4, <1>5, <1>6, QuietStep

LEMMA StartRunKeeps == ASSUME IInv, NEW r \in Runs, StartRun(r) PROVE IInv'
<1>1. /\ run[r] = "COMPLETE" /\ NewestRun(r)
      /\ called' = called \ {r}
      /\ eval' = Set(eval, RunKey(r), "evaluating")
      /\ due' = Set(due, r, TRUE) /\ stale' = Set(stale, r, FALSE)
      /\ job' = [kind |-> "run", key |-> RunKey(r), authoritative |-> TRUE, tries |-> tries[r]]
      /\ UNCHANGED <<run, snapshot, enabled, cursor, resolved, tries, finding, session, faults, requests>>
    BY DEF StartRun, Wanted, Complete, Take, evidence, bounds
<1>2. RunKey(r) \in Keys /\ IsRun(RunKey(r)) /\ Current(RunKey(r)) = r /\ RunKey(r) # NoKey
    BY KeyFacts
<1>3. job' \in Job
    BY <1>1, <1>2 DEF Job, IInv, TypeOK
<1>4. TypeOK'
    BY <1>1, <1>2, <1>3 DEF IInv, TypeOK, Set
<1>5. JobHolds'
    BY <1>1, <1>2 DEF JobHolds, Complete
<1>6. AuthorityKept'
    BY <1>1, <1>2 DEF AuthorityKept, NewestRun, Complete
<1> QED BY <1>1, <1>4, <1>5, <1>6, QuietStep

LEMMA StartComparisonKeeps == ASSUME IInv, NEW c \in Comparisons, StartComparison(c) PROVE IInv'
<1>1. /\ Complete(Current(c))
      /\ cursor' = IF eval[c] = "none" THEN Set(cursor, c, 0) ELSE cursor
      /\ job' = [kind |-> "comparison", key |-> c, authoritative |-> LatestCandidate(c), tries |-> 0]
      /\ UNCHANGED <<run, snapshot, enabled, eval, resolved, tries, due, stale, finding, called,
                     session, faults, requests>>
    BY DEF StartComparison, Take, evidence, bounds
<1>2. c \in Keys /\ ~IsRun(c) /\ c # NoKey
    BY KeyFacts
<1>3. job' \in Job
    BY <1>1, <1>2 DEF Job, LatestCandidate
<1>4. cursor' \in [Keys -> Nat] /\ \A r \in Runs : cursor'[RunKey(r)] = cursor[RunKey(r)]
    <2>1. \A r \in Runs : RunKey(r) # c /\ RunKey(r) \in Keys
        BY <1>2, KeyFacts
    <2> QED BY <1>1, <1>2, <2>1 DEF IInv, TypeOK, Set
<1>5. TypeOK'
    BY <1>1, <1>3, <1>4 DEF IInv, TypeOK
<1>6. JobHolds'
    BY <1>1, <1>2 DEF JobHolds, Complete
<1>7. AuthorityKept'
    BY <1>1, <1>2 DEF AuthorityKept, LatestCandidate, NewestRun, Complete
<1> QED BY <1>1, <1>4, <1>5, <1>6, <1>7, QuietStep

LEMMA CompleteUnevaluatedKeeps == ASSUME IInv, NEW r \in Runs, CompleteUnevaluated(r) PROVE IInv'
<1>1. /\ job' = NoJob
      /\ run' = Set(run, r, "COMPLETE") /\ eval' = Set(eval, RunKey(r), "skipped")
      /\ UNCHANGED <<snapshot, enabled, cursor, resolved, tries, due, stale, finding, called, job,
                     session, faults, requests>>
    BY DEF CompleteUnevaluated, bounds
<1>2. TypeOK'
    BY <1>1, KeyFacts DEF IInv, TypeOK, Set
<1> QED BY <1>1, <1>2, JobEnded, QuietStep

LEMMA QueueKeeps ==
    ASSUME IInv, NEW r \in Runs,
           Claim(r) \/ Drop(r) \/ SkipRun(r) \/ RetryRun(r) \/ BackoffEnds(r) \/ HeartbeatAges(r)
    PROVE  IInv'
<1>1. UNCHANGED <<run, snapshot, enabled, cursor, resolved, finding, job, session, requests>>
    BY DEF Claim, Drop, SkipRun, RetryRun, BackoffEnds, HeartbeatAges, evidence, evaluation, bounds
<1>2. RunKey(r) \in Keys
    BY KeyFacts
<1>3. /\ eval' = eval \/ \E v \in {"evaluating", "skipped", "queued"} : eval' = Set(eval, RunKey(r), v)
      /\ tries' \in {tries, Set(tries, r, 0)}
      /\ due' \in {due, Set(due, r, TRUE)}
      /\ stale' \in {stale, Set(stale, r, FALSE), Set(stale, r, TRUE)}
      /\ called' \in {called, called \cup {r}, called \ {r}}
    <2>1. CASE Claim(r)
        BY <2>1 DEF Claim
    <2>2. CASE Drop(r)
        BY <2>2 DEF Drop, evaluation
    <2>3. CASE SkipRun(r)
        BY <2>3 DEF SkipRun
    <2>4. CASE RetryRun(r)
        BY <2>4 DEF RetryRun
    <2>5. CASE BackoffEnds(r)
        BY <2>5 DEF BackoffEnds
    <2>6. CASE HeartbeatAges(r)
        BY <2>6 DEF HeartbeatAges
    <2> QED BY <2>1, <2>2, <2>3, <2>4, <2>5, <2>6
<1>4. faults' \in 0 .. MaxFaults
    <2>1. Fault \/ UNCHANGED faults
        BY DEF Claim, Drop, SkipRun, RetryRun, BackoffEnds, HeartbeatAges, bounds
    <2> QED BY <2>1, FindingsAssumption DEF IInv, TypeOK, Fault
<1>5. eval' \in [Keys -> {"none", "queued", "retrying", "evaluating", "degraded", "skipped",
                          "complete"}]
    BY <1>2, <1>3 DEF IInv, TypeOK, Set
<1>6. tries' \in [Runs -> Nat] /\ due' \in [Runs -> BOOLEAN] /\ stale' \in [Runs -> BOOLEAN]
      /\ called' \subseteq Runs
    <2>1. tries' \in [Runs -> Nat]
        BY <1>3 DEF IInv, TypeOK, Set
    <2>2. due' \in [Runs -> BOOLEAN]
        BY <1>3 DEF IInv, TypeOK, Set
    <2>3. stale' \in [Runs -> BOOLEAN]
        BY <1>3 DEF IInv, TypeOK, Set
    <2>4. called' \subseteq Runs
        BY <1>3 DEF IInv, TypeOK
    <2> QED BY <2>1, <2>2, <2>3, <2>4
<1>7. TypeOK'
    BY <1>1, <1>4, <1>5, <1>6 DEF IInv, TypeOK
<1> QED BY <1>1, <1>7, JobKept, QuietStep

LEMMA SwitchSourceKeeps == ASSUME IInv, SwitchSource PROVE IInv'
<1>1. /\ enabled' = ~enabled /\ requests' \in 0 .. MaxRequests
      /\ UNCHANGED <<run, snapshot, eval, cursor, resolved, tries, due, stale, finding, called, job,
                     session, faults>>
    BY FindingsAssumption DEF SwitchSource, Request, evaluation, IInv, TypeOK
<1>2. TypeOK'
    BY <1>1 DEF IInv, TypeOK
<1> QED BY <1>1, <1>2, JobKept, QuietStep

LEMMA EndKeeps == ASSUME IInv, EvaluationEnds \/ EvaluationFails \/ Crash PROVE IInv'
<1> DEFINE r == Current(job.key)
<1>1. /\ job # NoJob /\ job' = NoJob
      /\ UNCHANGED <<snapshot, enabled, cursor, resolved, stale, finding, called, session, requests>>
    BY DEF EvaluationEnds, EvaluationFails, Crash, evidence, evaluation, bounds
<1>2. job.key \in Keys /\ r \in Runs /\ job.tries \in Nat /\ tries[r] \in Nat
    BY <1>1, JobFacts DEF IInv, TypeOK
<1>3. /\ run' \in {run, Set(run, r, "COMPLETE")}
      /\ eval' = eval \/ \E v \in {"complete", "retrying", "degraded"} : eval' = Set(eval, job.key, v)
      /\ tries' = tries \/ \E n \in Nat : tries' = Set(tries, r, n)
      /\ due' = due \/ \E b \in BOOLEAN : due' = Set(due, r, b)
    <2>1. CASE EvaluationEnds
        BY <1>2, <2>1 DEF EvaluationEnds, Completes
    <2>2. CASE EvaluationFails
        <3> DEFINE n == (IF tries[r] = 0 THEN job.tries ELSE tries[r]) + 1
        <3>1. n \in Nat
            BY <1>2
        <3>2. run' \in {run, Set(run, r, "COMPLETE")}
            BY <2>2 DEF EvaluationFails, Completes
        <3>3. CASE IsRun(job.key)
            <4>1. /\ eval' = Set(eval, job.key, IF n < MaxAttempts THEN "retrying" ELSE "degraded")
                  /\ tries' = Set(tries, r, n) /\ due' = Set(due, r, n >= MaxAttempts)
                BY <2>2, <3>3 DEF EvaluationFails
            <4>2. \E v \in {"complete", "retrying", "degraded"} : eval' = Set(eval, job.key, v)
                <5>1. CASE n < MaxAttempts
                    BY <4>1, <5>1
                <5>2. CASE ~(n < MaxAttempts)
                    BY <4>1, <5>2
                <5> QED BY <5>1, <5>2
            <4>3. (n >= MaxAttempts) \in BOOLEAN
                OBVIOUS
            <4>4. \E b \in BOOLEAN : due' = Set(due, r, b)
                BY <4>1, <4>3
            <4> QED BY <3>1, <3>2, <4>1, <4>2, <4>4
        <3>4. CASE ~IsRun(job.key)
            BY <2>2, <3>2, <3>4 DEF EvaluationFails
        <3> QED BY <3>3, <3>4
    <2>3. CASE Crash
        BY <2>3 DEF Crash, evidence, evaluation
    <2> QED BY <2>1, <2>2, <2>3
<1>4. faults' \in 0 .. MaxFaults
    <2>1. Fault \/ UNCHANGED faults
        BY DEF EvaluationEnds, EvaluationFails, Crash, bounds
    <2> QED BY <2>1, FindingsAssumption DEF IInv, TypeOK, Fault
<1>5. run' \in [Runs -> {"open", "COMPLETE", "deleted"}] /\ tries' \in [Runs -> Nat]
      /\ due' \in [Runs -> BOOLEAN]
    <2>1. run' \in [Runs -> {"open", "COMPLETE", "deleted"}]
        BY <1>2, <1>3 DEF IInv, TypeOK, Set
    <2>2. tries' \in [Runs -> Nat]
        BY <1>2, <1>3 DEF IInv, TypeOK, Set
    <2>3. due' \in [Runs -> BOOLEAN]
        BY <1>2, <1>3 DEF IInv, TypeOK, Set
    <2> QED BY <2>1, <2>2, <2>3
<1>6. eval' \in [Keys -> {"none", "queued", "retrying", "evaluating", "degraded", "skipped",
                          "complete"}]
    BY <1>2, <1>3 DEF IInv, TypeOK, Set
<1>7. TypeOK'
    BY <1>1, <1>4, <1>5, <1>6, JobEnded DEF IInv, TypeOK
<1> QED BY <1>1, <1>7, JobEnded, QuietStep

-----------------------------------------------------------------------------
(* Findings move                                                           *)

\* What the rows and the keys of findings are, for the steps that change them.
LEMMA RowFacts ==
    ASSUME IInv, NEW f \in AllFindings
    PROVE  finding[f] \in Finding /\ Consistent(finding[f]) /\ finding[f].revision \in Nat
<1>1. finding[f] \in Finding
    BY DEF IInv, TypeOK
<1>2. Consistent(finding[f])
    BY DEF IInv, RowsConsistent, Consistent, Exists
<1> QED BY <1>1, <1>2 DEF Finding

LEMMA SameFollows ==
    ASSUME NEW x \in Finding PROVE Follows(x, x)
BY DEF Follows, Finding

\* An observation gives a row a new revision, unless it had the occurrence already.
LEMMA UpsertFollows ==
    ASSUME NEW x \in Finding, Consistent(x), NEW k \in Keys, NEW authoritative \in BOOLEAN,
           Checked(Upsert(x, k, authoritative))
    PROVE  LET y == Upsert(x, k, authoritative) IN
           y \in Finding /\ Consistent(y) /\ Follows(x, y) /\ k \in y.seen
<1> DEFINE y == Upsert(x, k, authoritative)
<1>1. Current(k) \in Runs /\ x.revision \in Nat /\ x.seen \in SUBSET Keys /\ x.status \in Status
    BY KeyFacts DEF Finding
<1>2. CASE x.status = "none"
    <2>1. y = [status |-> IF authoritative THEN "open" ELSE "resolved", expiry |-> "none",
               seen |-> {k}, latest |-> Current(k), revision |-> 1]
        BY <1>2 DEF Upsert
    <2>2. y \in Finding /\ y.status # "none" /\ y.revision = 1 /\ y.seen = {k}
        BY <1>1, <2>1 DEF Finding, Status
    <2>3. x.revision = 0 /\ x.seen = {}
        BY <1>2 DEF Consistent, NoFinding
    <2> QED BY <2>2, <2>3 DEF Consistent, Follows
<1>3. CASE x.status # "none"
    <2>1. y = [status   |-> IF Reopens(x, k, authoritative) THEN "open" ELSE x.status,
               expiry   |-> IF authoritative /\ Lapsed(x) THEN "none" ELSE x.expiry,
               seen     |-> x.seen \cup {k},
               latest   |-> IF authoritative THEN Current(k) ELSE x.latest,
               revision |-> x.revision + (IF k \in x.seen THEN 0 ELSE 1)]
        BY <1>3 DEF Upsert
    <2>2. x.expiry \in {"none", "future", "past"} /\ x.latest \in Runs \cup {0}
        BY DEF Finding
    <2>3. y.status \in Status /\ y.status # "none"
        BY <1>1, <1>3, <2>1 DEF Status
    <2>4. y.revision \in Nat /\ y.revision >= x.revision /\ (k \notin x.seen => y.revision # x.revision)
        BY <1>1, <2>1
    <2>5. y \in Finding
        BY <1>1, <2>1, <2>2, <2>3, <2>4 DEF Finding
    <2>6. k \in x.seen => y.status = x.status /\ y.seen = x.seen
        BY <2>1 DEF Reopens
    <2>7. y.seen = x.seen \cup {k}
        BY <2>1
    <2>8. x.revision >= 1 /\ y.revision >= 1
        BY <1>1, <1>3, <2>4 DEF Consistent
    <2> HIDE DEF y
    <2>9. Consistent(y)
        BY <2>3, <2>7, <2>8 DEF Consistent, y
    <2>10. Follows(x, y)
        BY <2>4, <2>6, <2>7 DEF Follows
    <2> QED BY <2>5, <2>7, <2>9, <2>10 DEF y
<1> QED BY <1>2, <1>3

\* A step of the evaluations that moves the findings but no row a request holds.
LEMMA RowStep ==
    ASSUME IInv, UNCHANGED <<run, snapshot, session>>, finding' \in [AllFindings -> Finding],
           \A f \in AllFindings : Consistent(finding'[f]) /\ Follows(finding[f], finding'[f]),
           \A f \in Held : finding'[f].revision = finding[f].revision,
           TypeOK', JobHolds', AuthorityKept', CursorsObserved'
    PROVE  IInv'
<1>1. \A b \in Analysts : session[b].locked => session[b].rows \subseteq Held
    BY DEF Held
<1>2. session' \in [Analysts -> Session] /\ session' = session
    BY DEF IInv, TypeOK
<1>3. RowsConsistent' /\ SessionsHold' /\ EditsSeeTheRow'
    BY <1>1, <1>2, RowsMove
<1> QED BY <1>3 DEF IInv

LEMMA BatchFacts ==
    ASSUME IInv, Pending
    PROVE  /\ job.key \in Keys /\ cursor[job.key] \in Nat /\ job # NoJob
           /\ cursor[job.key] + 1 \in 1 .. Len(Batches(job.key))
           /\ NextBatch \subseteq AllFindings
<1>1. job.key \in Keys /\ job # NoJob
    BY JobFacts DEF Pending
<1>2. cursor[job.key] \in Nat
    BY <1>1 DEF IInv, TypeOK
<1>3. Len(Batches(job.key)) \in Nat /\ \A i \in 1 .. Len(Batches(job.key)) :
          Batches(job.key)[i] \subseteq AllFindings
    BY <1>1, BatchTypes DEF IInv
<1>4. cursor[job.key] + 1 \in 1 .. Len(Batches(job.key))
    BY <1>2, <1>3 DEF Pending
<1> QED BY <1>1, <1>2, <1>3, <1>4 DEF NextBatch

LEMMA ProgressTypes ==
    ASSUME IInv, job # NoJob, Progress
    PROVE  tries' \in [Runs -> Nat] /\ stale' \in [Runs -> BOOLEAN]
<1>1. tries \in [Runs -> Nat] /\ stale \in [Runs -> BOOLEAN]
    BY DEF IInv, TypeOK
<1>2. tries' \in [Runs -> Nat]
    BY <1>1 DEF Progress, Set
<1>3. stale' \in [Runs -> BOOLEAN]
    BY <1>1 DEF Progress, Set
<1> QED BY <1>2, <1>3

LEMMA CandidateBatchKeeps ==
    ASSUME IInv, CandidateBatch
    PROVE  /\ IInv'
           /\ \A f \in NextBatch : finding'[f] = Applied(f)
           /\ \A f \in AllFindings \ NextBatch : finding'[f] = finding[f]
<1> DEFINE k == job.key
           batch == NextBatch
<1>1. /\ Pending /\ Accepted /\ batch \cap Held = {} /\ Progress
      /\ finding' = [f \in AllFindings |-> IF f \in batch THEN Applied(f) ELSE finding[f]]
      /\ cursor' = Set(cursor, k, cursor[k] + 1)
      /\ UNCHANGED <<run, snapshot, enabled, eval, resolved, due, called, job, session, faults, requests>>
    BY DEF CandidateBatch, evidence, bounds
<1>2. /\ k \in Keys /\ cursor[k] \in Nat /\ cursor[k] + 1 \in 1 .. Len(Batches(k))
      /\ batch \subseteq AllFindings /\ job # NoJob /\ job.authoritative \in BOOLEAN
    BY <1>1, BatchFacts, JobFacts
<1>3. ASSUME NEW f \in batch
      PROVE  Applied(f) \in Finding /\ Consistent(Applied(f)) /\ Follows(finding[f], Applied(f))
             /\ k \in Applied(f).seen
    <2>1. Checked(Applied(f)) /\ f \in AllFindings
        BY <1>1, <1>2 DEF Accepted
    <2> QED BY <1>2, <2>1, RowFacts, UpsertFollows DEF Applied
<1> HIDE DEF batch
<1>4. ASSUME NEW f \in AllFindings
      PROVE  /\ finding'[f] \in Finding /\ Consistent(finding'[f]) /\ Follows(finding[f], finding'[f])
             /\ f \in batch => finding'[f] = Applied(f) /\ k \in finding'[f].seen
             /\ f \notin batch => finding'[f] = finding[f]
    <2>1. CASE f \in batch
        BY <1>1, <1>3, <2>1
    <2>2. CASE f \notin batch
        BY <1>1, <2>2, RowFacts, SameFollows
    <2> QED BY <2>1, <2>2
<1>5. finding' \in [AllFindings -> Finding]
    BY <1>1, <1>4
<1>6. \A f \in Held : finding'[f].revision = finding[f].revision
    <2>1. Held \subseteq AllFindings
        BY DEF Held, IInv, TypeOK, Session
    <2> QED BY <1>1, <1>4, <2>1
<1>7. cursor' \in [Keys -> Nat]
    BY <1>1, <1>2 DEF IInv, TypeOK, Set
<1>8. TypeOK'
    BY <1>1, <1>2, <1>5, <1>7, ProgressTypes DEF IInv, TypeOK
<1>9. CursorsObserved'
    <2> SUFFICES ASSUME NEW r \in Runs, NEW i \in 1 .. Len(snapshot[r].batches),
                        i <= cursor'[RunKey(r)], NEW f \in snapshot[r].batches[i]
                 PROVE  RunKey(r) \in finding'[f].seen
        BY <1>1 DEF CursorsObserved, RunKey
    <2>1. snapshot[r].batches \in Seq(SUBSET StateFindings)
        BY BatchTypes DEF IInv
    <2>2. f \in AllFindings
        BY <2>1 DEF AllFindings
    <2>3. RunKey(r) \in Keys /\ IsRun(RunKey(r)) /\ Current(RunKey(r)) = r
        BY KeyFacts
    <2>4. CASE i <= cursor[RunKey(r)]
        <3>1. RunKey(r) \in finding[f].seen
            BY <2>4 DEF IInv, CursorsObserved
        <3> QED BY <1>4, <2>2, <3>1 DEF Follows
    <2>5. CASE ~(i <= cursor[RunKey(r)])
        <3>1. cursor[RunKey(r)] \in Nat
            BY <2>3 DEF IInv, TypeOK
        <3>2. k = RunKey(r)
            BY <1>1, <2>3, <2>5 DEF Set, IInv, TypeOK
        <3>3. i = cursor[k] + 1
            BY <1>1, <1>2, <2>3, <2>5, <3>1, <3>2 DEF Set, IInv, TypeOK
        <3>4. Batches(k) = snapshot[r].batches
            BY <2>3, <3>2 DEF Batches
        <3>5. f \in batch
            BY <3>3, <3>4 DEF batch, NextBatch
        <3> QED BY <1>4, <2>2, <3>2, <3>5
    <2> QED BY <2>4, <2>5
<1>10. IInv'
    BY <1>1, <1>4, <1>5, <1>6, <1>8, <1>9, JobKept, RowStep
<1> QED BY <1>2, <1>4, <1>10 DEF batch

\* What a resolution, an expiry, a sweep or an edit makes of a row.
LEMMA RevisedFollows ==
    ASSUME NEW x \in Finding, Consistent(x), x.status # "none", NEW y \in Finding, Checked(y),
           y.status # "none", y.seen = x.seen,
           y.revision = x.revision + 1 \/ (y.revision = x.revision /\ y.status = x.status)
    PROVE  Consistent(y) /\ Follows(x, y)
<1>1. x.revision \in Nat /\ y.revision \in Nat /\ x.revision >= 1 /\ x.seen # {}
    BY DEF Finding, Consistent
<1> QED BY <1>1 DEF Consistent, Follows

LEMMA ResolveFollows ==
    ASSUME NEW x \in Finding, Consistent(x), x.status # "none"
    PROVE  LET y == Resolve(x) IN y \in Finding /\ Consistent(y) /\ Follows(x, y)
                                  /\ y.status = "resolved" /\ y.seen = x.seen /\ y.latest = x.latest
<1> DEFINE y == Resolve(x)
<1>1. /\ y \in Finding /\ y.status = "resolved" /\ y.expiry = "none" /\ y.seen = x.seen
      /\ y.revision = x.revision + 1 /\ y.latest = x.latest
    <2>1. x.revision + 1 \in Nat /\ "resolved" \in Status
        BY DEF Finding, Status
    <2>2. y = [x EXCEPT !.status = "resolved", !.expiry = "none", !.revision = x.revision + 1]
        BY DEF Resolve
    <2> HIDE DEF y
    <2> QED BY <2>1, <2>2 DEF Finding
<1> HIDE DEF y
<1>2. Checked(y)
    BY <1>1 DEF Checked
<1> QED BY <1>1, <1>2, RevisedFollows DEF y

LEMMA ResolveBatchKeeps ==
    ASSUME IInv, NEW p \in Policies, ResolveBatch(p)
    PROVE  /\ IInv'
           /\ \A f \in AllFindings :
                  \/ finding'[f] = finding[f]
                  \/ f \in Absent(p, Current(job.key)) /\ finding'[f].status = "resolved"
                     /\ finding'[f].latest = finding[f].latest
<1> DEFINE r == Current(job.key)
<1>1. /\ job # NoJob /\ Progress
      /\ UNCHANGED <<run, snapshot, enabled, eval, cursor, due, called, job, session, faults, requests>>
    BY DEF ResolveBatch, evidence, bounds
<1>2. PICK batch \in SUBSET (Absent(p, r) \ Held) :
          /\ finding' = [f \in AllFindings |-> IF f \in batch THEN Resolve(finding[f]) ELSE finding[f]]
          /\ resolved' = IF Exhausted(Cardinality(batch))
                         THEN Set(resolved, r, resolved[r] \cup {p}) ELSE resolved
    BY DEF ResolveBatch
<1>3. r \in Runs
    BY <1>1, JobFacts
<1>4. ASSUME NEW f \in AllFindings
      PROVE  /\ finding'[f] \in Finding /\ Consistent(finding'[f]) /\ Follows(finding[f], finding'[f])
             /\ f \in batch => /\ finding'[f].status = "resolved"
                               /\ finding'[f].latest = finding[f].latest
             /\ f \notin batch => finding'[f] = finding[f]
    <2>1. CASE f \in batch
        <3>1. finding[f].status # "none"
            BY <2>1 DEF Absent
        <3> QED BY <1>2, <2>1, <3>1, RowFacts, ResolveFollows
    <2>2. CASE f \notin batch
        BY <1>2, <2>2, RowFacts, SameFollows
    <2> QED BY <2>1, <2>2
<1>5. finding' \in [AllFindings -> Finding]
    BY <1>2, <1>4
<1>6. \A f \in Held : finding'[f].revision = finding[f].revision
    <2>1. Held \subseteq AllFindings
        BY DEF Held, IInv, TypeOK, Session
    <2> QED BY <1>4, <2>1
<1>7. resolved' \in [Runs -> SUBSET Policies]
    BY <1>2, <1>3 DEF IInv, TypeOK, Set
<1>8. TypeOK'
    BY <1>1, <1>5, <1>7, ProgressTypes DEF IInv, TypeOK
<1>9. CursorsObserved'
    BY <1>1, <1>4, ObservedKept DEF Follows
<1>10. IInv'
    BY <1>1, <1>4, <1>5, <1>6, <1>8, <1>9, JobKept, RowStep
<1> QED BY <1>4, <1>10

LEMMA SweepKeeps ==
    ASSUME IInv, ReopenExpired \/ \E f \in AllFindings : Expire(f)
    PROVE  IInv' /\ \A f \in AllFindings : /\ finding'[f].latest = finding[f].latest
                                           /\ finding'[f].status \in {finding[f].status, "open"}
                                           /\ finding[f].status = "resolved" => finding'[f].status = "resolved"
<1>1. UNCHANGED <<run, snapshot, enabled, eval, cursor, resolved, tries, due, stale, called, job,
                  session, faults, requests>>
    BY DEF ReopenExpired, Expire, evidence, evaluation, bounds
<1>2. ASSUME NEW f \in AllFindings
      PROVE  LET x == finding[f] IN
             \/ finding'[f] = x
             \/ /\ f \notin Held /\ Lapsed(x)
                /\ finding'[f] = [x EXCEPT !.status = "open", !.expiry = "none", !.revision = x.revision + 1]
             \/ x.expiry = "future" /\ finding'[f] = [x EXCEPT !.expiry = "past"]
    <2>1. CASE ReopenExpired
        BY <2>1 DEF ReopenExpired, Expired, Reopened
    <2>2. ASSUME NEW g \in AllFindings, Expire(g)
          PROVE  \/ finding'[f] = finding[f]
                 \/ finding[f].expiry = "future" /\ finding'[f] = [finding[f] EXCEPT !.expiry = "past"]
        BY <2>2 DEF Expire, IInv, TypeOK
    <2> QED BY <2>1, <2>2
<1>3. ASSUME NEW f \in AllFindings
      PROVE  /\ finding'[f] \in Finding /\ Consistent(finding'[f]) /\ Follows(finding[f], finding'[f])
             /\ f \in Held => finding'[f].revision = finding[f].revision
             /\ finding'[f].latest = finding[f].latest
             /\ finding'[f].status \in {finding[f].status, "open"}
             /\ finding[f].status = "resolved" => finding'[f].status = "resolved"
    <2> DEFINE x == finding[f]
               y == finding'[f]
    <2>0. x \in Finding /\ Consistent(x) /\ x.revision \in Nat
        BY RowFacts
    <2>1. CASE y = x
        BY <2>0, <2>1, SameFollows
    <2>2. CASE f \notin Held /\ Lapsed(x) /\ y = [x EXCEPT !.status = "open", !.expiry = "none",
                                                         !.revision = x.revision + 1]
        <3>1. /\ y \in Finding /\ y.status = "open" /\ y.expiry = "none" /\ y.seen = x.seen
              /\ y.revision = x.revision + 1 /\ y.latest = x.latest /\ x.status = "accepted_risk"
            <4>1. x.revision + 1 \in Nat /\ "open" \in Status
                BY <2>0 DEF Status
            <4>2. y = [x EXCEPT !.status = "open", !.expiry = "none", !.revision = x.revision + 1]
                BY <2>2
            <4>3. x.status = "accepted_risk"
                BY <2>2 DEF Lapsed
            <4> HIDE DEF x, y
            <4> QED BY <2>0, <4>1, <4>2, <4>3 DEF Finding
        <3> HIDE DEF y
        <3>2. Checked(y)
            BY <3>1 DEF Checked
        <3>3. Consistent(y) /\ Follows(x, y)
            BY <2>0, <3>1, <3>2, RevisedFollows
        <3> QED BY <2>2, <3>1, <3>3 DEF y
    <2>3. CASE x.expiry = "future" /\ y = [x EXCEPT !.expiry = "past"]
        <3>1. /\ y \in Finding /\ y.status = x.status /\ y.expiry = "past" /\ y.seen = x.seen
              /\ y.revision = x.revision /\ y.latest = x.latest
            BY <2>0, <2>3 DEF Finding
        <3>2. x.status = "accepted_risk"
            BY <2>0, <2>3 DEF Consistent, Checked
        <3> HIDE DEF y
        <3>3. Checked(y)
            BY <3>1, <3>2 DEF Checked
        <3>4. Consistent(y) /\ Follows(x, y)
            BY <2>0, <3>1, <3>2, <3>3, RevisedFollows
        <3> QED BY <3>1, <3>4 DEF y
    <2> QED BY <1>2, <2>1, <2>2, <2>3
<1>4. finding' \in [AllFindings -> Finding]
    <2>1. ReopenExpired => finding' = [f \in AllFindings |-> finding'[f]]
        BY DEF ReopenExpired
    <2>2. (\E f \in AllFindings : Expire(f)) => finding' = [f \in AllFindings |-> finding'[f]]
        BY DEF Expire, IInv, TypeOK
    <2> QED BY <1>3, <2>1, <2>2
<1>5. Held \subseteq AllFindings
    BY DEF Held, IInv, TypeOK, Session
<1>6. TypeOK'
    BY <1>1, <1>4 DEF IInv, TypeOK
<1>7. CursorsObserved'
    BY <1>1, <1>3, ObservedKept DEF Follows
<1>8. IInv'
    BY <1>1, <1>3, <1>4, <1>5, <1>6, <1>7, JobKept, RowStep
<1> QED BY <1>3, <1>8

LEMMA DeleteRunKeeps ==
    ASSUME IInv, NEW r \in Runs, DeleteRun(r)
    PROVE  IInv' /\ \A f \in AllFindings : /\ finding'[f].latest \in {finding[f].latest, 0}
                                           /\ finding'[f].status = finding[f].status
<1>1. /\ run[r] = "COMPLETE" /\ requests' \in 0 .. MaxRequests
      /\ job = NoJob \/ Current(job.key) # r
      /\ run' = Set(run, r, "deleted")
      /\ eval' = [k \in Keys |-> IF r \in {k[1], Current(k)} THEN "none" ELSE eval[k]]
      /\ finding' = [f \in AllFindings |-> IF finding[f].latest = r
                                           THEN [finding[f] EXCEPT !.latest = 0] ELSE finding[f]]
      /\ UNCHANGED <<snapshot, enabled, cursor, resolved, tries, due, stale, called, job, session, faults>>
    BY FindingsAssumption DEF DeleteRun, Complete, Request, IInv, TypeOK
<1>0. job' = job /\ (job = NoJob \/ Current(job.key) # r) /\ JobHolds /\ AuthorityKept
    BY DEF DeleteRun, IInv
<1>2. ASSUME NEW f \in AllFindings
      PROVE  /\ finding'[f] \in Finding /\ Consistent(finding'[f]) /\ Follows(finding[f], finding'[f])
             /\ finding'[f].revision = finding[f].revision /\ finding'[f].status = finding[f].status
             /\ finding'[f].latest \in {finding[f].latest, 0}
    <2> DEFINE x == finding[f]
               y == finding'[f]
    <2>0. x \in Finding /\ Consistent(x) /\ x.revision \in Nat
        BY RowFacts
    <2>1. CASE x.latest # r
        <3>1. y = x
            BY <1>1, <2>1
        <3> QED BY <2>0, <3>1, SameFollows
    <2>2. CASE x.latest = r
        <3>1. y = [x EXCEPT !.latest = 0]
            BY <1>1, <2>2
        <3>2. /\ y \in Finding /\ y.status = x.status /\ y.expiry = x.expiry /\ y.seen = x.seen
              /\ y.revision = x.revision /\ y.latest = 0
            BY <2>0, <3>1 DEF Finding
        <3>3. x.status # "none"
            <4>1. r # 0 /\ NoFinding.latest = 0
                BY KeyFacts DEF NoFinding
            <4> QED BY <2>0, <2>2, <4>1 DEF Consistent
        <3> HIDE DEF x, y
        <3>4. Checked(y)
            BY <2>0, <3>2 DEF Consistent, Checked
        <3>5. Consistent(y) /\ Follows(x, y)
            BY <2>0, <3>2, <3>3, <3>4, RevisedFollows
        <3> QED BY <3>2, <3>5 DEF x, y
    <2> QED BY <2>1, <2>2
<1>3. finding' \in [AllFindings -> Finding]
    BY <1>1, <1>2
<1>4. run' \in [Runs -> {"open", "COMPLETE", "deleted"}]
    BY <1>1 DEF IInv, TypeOK, Set
<1>5. eval' \in [Keys -> {"none", "queued", "retrying", "evaluating", "degraded", "skipped",
                          "complete"}]
    BY <1>1 DEF IInv, TypeOK
<1>6. TypeOK'
    BY <1>1, <1>3, <1>4, <1>5 DEF IInv, TypeOK
<1>7. \A q \in Runs : /\ run'[q] = "COMPLETE" => run[q] = "COMPLETE"
                      /\ q # r => run'[q] = run[q]
    BY <1>1 DEF IInv, TypeOK, Set
<1>8. JobHolds'
    <2>1. CASE job = NoJob
        BY <1>0, <2>1, JobEnded
    <2>2. CASE job # NoJob
        <3>1. Current(job.key) \in Runs /\ Current(job.key) # r
            BY <1>0, <2>2, JobFacts
        <3>2. job' = job /\ run'[Current(job.key)] = run[Current(job.key)] /\ JobHolds
            BY <1>0, <1>7, <3>1
        <3> QED BY <3>2 DEF JobHolds, Complete
    <2> QED BY <2>1, <2>2
<1>9. AuthorityKept'
    BY <1>0, <1>7 DEF AuthorityKept, NewestRun, Complete
<1>10. CursorsObserved' /\ RowsConsistent' /\ SessionsHold' /\ EditsSeeTheRow'
    <2>1. session' = session /\ session' \in [Analysts -> Session]
        BY <1>1 DEF IInv, TypeOK
    <2>2. \A b \in Analysts : session[b].rows \subseteq AllFindings
        BY DEF IInv, TypeOK, Session
    <2>3. CursorsObserved'
        BY <1>1, <1>2, ObservedKept DEF Follows
    <2> QED BY <1>2, <1>3, <2>1, <2>2, <2>3, RowsMove
<1> QED BY <1>2, <1>6, <1>8, <1>9, <1>10 DEF IInv

-----------------------------------------------------------------------------
(* Analysts                                                                *)

LEMMA SessionKeeps ==
    ASSUME IInv, NEW a \in Analysts,
           LockRows(a) \/ \E rows \in SUBSET AllFindings : Load(a, rows)
    PROVE  IInv'
<1>1. UNCHANGED <<run, snapshot, enabled, eval, cursor, resolved, tries, due, stale, finding, called,
                  job, faults>>
    BY DEF LockRows, Load, evidence, evaluation, bounds
<1>2. requests' \in 0 .. MaxRequests
    <2>1. Request \/ UNCHANGED requests
        BY DEF LockRows, Load, bounds
    <2> QED BY <2>1, FindingsAssumption DEF Request, IInv, TypeOK
<1>3. /\ session \in [Analysts -> Session] /\ SessionsHold /\ EditsSeeTheRow /\ RowsConsistent
      /\ finding \in [AllFindings -> Finding]
      /\ Away \in Session /\ Away.rows = {} /\ Away.locked = FALSE
    <2>1. NoFinding \in Finding
        BY DEF NoFinding, Finding, Status
    <2>2. Away \in Session /\ Away.rows = {} /\ Away.locked = FALSE
        BY <2>1 DEF Away, Session
    <2> QED BY <2>2 DEF IInv, TypeOK
<1>4. PICK y \in Session :
          /\ session' = Set(session, a, y)
          /\ y.rows = {} => y = Away
          /\ y.locked => y.rows \cap Held = {} /\ ~session[a].locked
          /\ \A f \in y.rows : /\ y.loaded[f].revision >= 1
                               /\ y.locked => finding[f].revision = y.loaded[f].revision
                               /\ finding[f].revision >= y.loaded[f].revision
                               /\ finding[f].revision = y.loaded[f].revision =>
                                      /\ finding[f].status = y.loaded[f].status
                                      /\ finding[f].seen = y.loaded[f].seen
    <2>1. ASSUME NEW rows \in SUBSET AllFindings, Load(a, rows)
          PROVE  \E y \in Session :
                     /\ session' = Set(session, a, y) /\ y.rows # {} /\ ~y.locked
                     /\ \A f \in y.rows : y.loaded[f] = finding[f] /\ finding[f].revision >= 1
        <3> DEFINE y == [rows |-> rows, locked |-> FALSE,
                         loaded |-> [f \in AllFindings |-> IF f \in rows THEN finding[f] ELSE NoFinding]]
        <3>1. NoFinding \in Finding
            BY DEF NoFinding, Finding, Status
        <3>2. /\ y \in Session /\ y.rows = rows /\ y.locked = FALSE
              /\ \A f \in rows : y.loaded[f] = finding[f]
            BY <1>3, <3>1 DEF Session
        <3>3. session' = Set(session, a, y) /\ rows # {} /\ \A f \in rows : Exists(f)
            BY <2>1 DEF Load
        <3>4. \A f \in rows : finding[f].revision >= 1
            BY <1>3, <3>3 DEF RowsConsistent
        <3> HIDE DEF y
        <3> QED BY <3>2, <3>3, <3>4
    <2>2. CASE LockRows(a)
        <3>1. session[a] # Away /\ ~session[a].locked /\ session[a].rows \cap Held = {}
            BY <2>2 DEF LockRows
        <3>2. session[a].rows # {}
            BY <1>3, <3>1 DEF SessionsHold
        <3>3. CASE Unchanged(a)
            <4> DEFINE y == [session[a] EXCEPT !.locked = TRUE]
            <4>1. session' = Set(session, a, y)
                BY <2>2, <3>3 DEF LockRows
            <4>2. y \in Session /\ y.rows = session[a].rows /\ y.loaded = session[a].loaded
                BY <1>3 DEF Session
            <4> HIDE DEF y
            <4> QED BY <1>3, <3>1, <3>2, <3>3, <4>1, <4>2 DEF Unchanged, SessionsHold, EditsSeeTheRow
        <3>4. CASE ~Unchanged(a)
            <4>1. session' = Set(session, a, Away)
                BY <2>2, <3>4 DEF LockRows
            <4> QED BY <1>3, <4>1
        <3> QED BY <3>3, <3>4
    <2>3. \A f \in AllFindings : finding[f].revision \in Nat
        BY <1>3 DEF Finding
    <2>4. \A y \in Session : y.rows \subseteq AllFindings
        BY DEF Session
    <2>5. CASE \E rows \in SUBSET AllFindings : Load(a, rows)
        <3>1. PICK y \in Session :
                  /\ session' = Set(session, a, y) /\ y.rows # {} /\ ~y.locked
                  /\ \A f \in y.rows : y.loaded[f] = finding[f] /\ finding[f].revision >= 1
            BY <2>1, <2>5
        <3> QED BY <2>3, <2>4, <3>1
    <2> QED BY <2>2, <2>5
<1>5. session' \in [Analysts -> Session] /\ session'[a] = y
      /\ \A b \in Analysts \ {a} : session'[b] = session[b]
    BY <1>3, <1>4 DEF Set
<1>6. SessionsHold'
    <2>1. \A b \in Analysts : session'[b].rows = {} => session'[b] = Away
        BY <1>3, <1>4, <1>5 DEF SessionsHold
    <2>2. ASSUME NEW b \in Analysts, NEW d \in Analysts, b # d, session'[b].locked, session'[d].locked
          PROVE  session'[b].rows \cap session'[d].rows = {}
        <3>1. \A e \in Analysts : session[e].locked => session[e].rows \subseteq Held
            BY DEF Held
        <3>2. CASE b = a
            BY <1>4, <1>5, <2>2, <3>1, <3>2
        <3>3. CASE d = a
            BY <1>4, <1>5, <2>2, <3>1, <3>3
        <3>4. CASE b # a /\ d # a
            BY <1>3, <1>5, <2>2, <3>4 DEF SessionsHold
        <3> QED BY <3>2, <3>3, <3>4
    <2>3. \A b \in Analysts : \A f \in session'[b].rows :
              /\ session'[b].loaded[f].revision >= 1
              /\ session'[b].locked => finding[f].revision = session'[b].loaded[f].revision
        BY <1>3, <1>4, <1>5 DEF SessionsHold
    <2> QED BY <1>1, <2>1, <2>2, <2>3 DEF SessionsHold
<1>7. EditsSeeTheRow'
    BY <1>1, <1>3, <1>4, <1>5 DEF EditsSeeTheRow
<1>8. TypeOK'
    BY <1>1, <1>2, <1>5 DEF IInv, TypeOK
<1>9. RowsConsistent'
    BY <1>1, <1>3 DEF RowsConsistent, Exists
<1>10. CursorsObserved'
    BY <1>1, ObservedKept
<1> QED BY <1>1, <1>6, <1>7, <1>8, <1>9, <1>10, JobKept DEF IInv

\* An edit is a new revision, and an accepted risk has a date.
LEMMA EditedFollows ==
    ASSUME NEW x \in Finding, Consistent(x), x.status # "none",
           NEW status \in (Status \ {"none"}) \cup {"same"}, NEW dated \in BOOLEAN,
           Valid(x, status, dated)
    PROVE  LET y == Edited(x, status, dated) IN
           y \in Finding /\ Consistent(y) /\ Follows(x, y) /\ y.latest = x.latest
<1> DEFINE y == Edited(x, status, dated)
           target == Target(x, status)
           expiry == IF target # "accepted_risk" THEN "none" ELSE IF dated THEN "future" ELSE x.expiry
<1>1. target \in Status /\ target # "none"
    BY DEF Target, Finding
<1>2. x.revision \in Nat /\ x.expiry \in {"none", "future", "past"}
    BY DEF Finding
<1>3. y = [x EXCEPT !.status = target, !.expiry = expiry, !.revision = x.revision + 1]
    BY DEF Edited
<1>4. expiry \in {"none", "future", "past"} /\ (target = "accepted_risk" <=> expiry # "none")
    BY <1>2 DEF Valid
<1> HIDE DEF y, target, expiry
<1>5. /\ y \in Finding /\ y.status = target /\ y.expiry = expiry /\ y.seen = x.seen
      /\ y.revision = x.revision + 1 /\ y.latest = x.latest
    <2>1. x.revision + 1 \in Nat /\ expiry \in {"none", "future", "past"}
        BY <1>2, <1>4
    <2> QED BY <1>1, <1>3, <2>1 DEF Finding
<1>6. Checked(y)
    BY <1>4, <1>5 DEF Checked
<1> QED BY <1>1, <1>5, <1>6, RevisedFollows DEF y

LEMMA UpdateKeeps ==
    ASSUME IInv, NEW a \in Analysts, NEW status \in (Status \ {"none"}) \cup {"same"},
           NEW dated \in BOOLEAN, NEW note \in BOOLEAN, Update(a, status, dated, note)
    PROVE  /\ IInv'
           /\ session[a].locked /\ session'[a] = Away
           /\ \A f \in AllFindings : /\ finding'[f].latest = finding[f].latest
                                     /\ f \notin session[a].rows => finding'[f] = finding[f]
<1> DEFINE rows == session[a].rows
           changing == {f \in rows : Changed(finding[f], status, dated, note)}
           valid == \A f \in rows : Valid(finding[f], status, dated)
<1>1. /\ session[a].locked /\ session' = Set(session, a, Away)
      /\ UNCHANGED <<run, snapshot, enabled, eval, cursor, resolved, tries, due, stale, called, job,
                     faults, requests>>
    BY DEF Update, evidence, evaluation, bounds
<1>2. finding' = IF valid THEN [f \in AllFindings |-> IF f \in changing
                                   THEN Edited(finding[f], status, dated) ELSE finding[f]]
                 ELSE finding
    BY DEF Update
<1>3. /\ session \in [Analysts -> Session] /\ rows \subseteq AllFindings /\ SessionsHold /\ EditsSeeTheRow
      /\ finding \in [AllFindings -> Finding]
    BY DEF IInv, TypeOK, Session
<1>4. ASSUME NEW f \in rows PROVE finding[f].status # "none"
    <2> DEFINE x == session[a].loaded[f]
    <2>1. x \in Finding /\ finding[f].revision >= x.revision /\ x.revision >= 1 /\ f \in AllFindings
        BY <1>3 DEF Session, SessionsHold, EditsSeeTheRow
    <2>2. finding[f].revision \in Nat /\ x.revision \in Nat /\ Consistent(finding[f])
        BY <2>1, RowFacts DEF Finding
    <2>3. finding[f].revision >= 1
        BY <2>1, <2>2
    <2>4. NoFinding.revision = 0
        BY DEF NoFinding
    <2> QED BY <2>2, <2>3, <2>4 DEF Consistent
<1>5. ASSUME NEW f \in AllFindings
      PROVE  /\ finding'[f] \in Finding /\ Consistent(finding'[f]) /\ Follows(finding[f], finding'[f])
             /\ finding'[f].latest = finding[f].latest
             /\ f \notin rows => finding'[f] = finding[f]
    <2>1. CASE valid /\ f \in changing
        <3>1. finding'[f] = Edited(finding[f], status, dated) /\ f \in rows /\ Valid(finding[f], status, dated)
            BY <1>2, <2>1
        <3> HIDE DEF rows
        <3> QED BY <1>4, <3>1, RowFacts, EditedFollows
    <2>2. CASE ~(valid /\ f \in changing)
        <3>1. finding'[f] = finding[f]
            BY <1>2, <2>2
        <3> QED BY <3>1, RowFacts, SameFollows
    <2> QED BY <2>1, <2>2
<1>6. finding' \in [AllFindings -> Finding]
    <2>1. CASE valid
        BY <1>2, <1>5, <2>1
    <2>2. CASE ~valid
        BY <1>2, <1>3, <2>2
    <2> QED BY <2>1, <2>2
<1> HIDE DEF rows, changing, valid
<1>7. Away \in Session
    <2>1. NoFinding \in Finding
        BY DEF NoFinding, Finding, Status
    <2> QED BY <2>1 DEF Away, Session
<1>8. session' \in [Analysts -> Session] /\ session'[a] = Away
      /\ \A b \in Analysts \ {a} : session'[b] = session[b]
    BY <1>1, <1>3, <1>7 DEF Set
<1>9. ASSUME NEW b \in Analysts, session'[b] # Away
      PROVE  /\ session'[b] = session[b]
             /\ session[b].locked => \A f \in session[b].rows : finding'[f].revision = finding[f].revision
    <2>1. b # a /\ session'[b] = session[b] /\ session[b].rows \subseteq AllFindings
        BY <1>3, <1>8, <1>9 DEF Session
    <2>2. session[b].locked => session[b].rows \cap rows = {}
        BY <1>1, <1>3, <2>1 DEF SessionsHold, rows
    <2> QED BY <1>5, <2>1, <2>2
<1>10. RowsConsistent' /\ SessionsHold' /\ EditsSeeTheRow'
    BY <1>5, <1>6, <1>8, <1>9, RowsMove
<1>11. CursorsObserved'
    BY <1>1, <1>5, ObservedKept DEF Follows
<1>12. TypeOK'
    BY <1>1, <1>6, <1>8 DEF IInv, TypeOK
<1>13. IInv'
    BY <1>1, <1>10, <1>11, <1>12, JobKept DEF IInv
<1> QED BY <1>1, <1>5, <1>8, <1>13 DEF rows

-----------------------------------------------------------------------------
(* Results                                                                 *)

LEMMA NextKeeps == IInv /\ [Next]_vars => IInv'
<1> SUFFICES ASSUME IInv, [Next]_vars PROVE IInv'
    OBVIOUS
<1>1. ASSUME NEW r \in Runs,
             StartIngest(r) \/ CompleteUnevaluated(r) \/ Claim(r) \/ Handle(r) \/ RetryRun(r)
             \/ DeleteRun(r) \/ BackoffEnds(r) \/ HeartbeatAges(r)
      PROVE  IInv'
    BY <1>1, StartIngestKeeps, CompleteUnevaluatedKeeps, QueueKeeps, StartRunKeeps, DeleteRunKeeps
    DEF Handle
<1>2. ASSUME NEW c \in Comparisons, StartComparison(c) PROVE IInv'
    BY <1>2, StartComparisonKeeps
<1>3. CASE Evaluate \/ Crash
    BY <1>3, CandidateBatchKeeps, ResolveBatchKeeps, EndKeeps DEF Evaluate
<1>4. CASE SwitchSource
    BY <1>4, SwitchSourceKeeps
<1>5. CASE ReopenExpired \/ \E f \in AllFindings : Expire(f)
    BY <1>5, SweepKeeps
<1>6. ASSUME NEW a \in Analysts, Requests(a) \/ \E rows \in SUBSET AllFindings : Load(a, rows)
      PROVE  IInv'
    BY <1>6, SessionKeeps, UpdateKeeps DEF Requests
<1>7. CASE UNCHANGED vars
    <2>1. UNCHANGED <<run, snapshot, enabled, eval, cursor, resolved, tries, due, stale, finding, called,
                      job, session, faults, requests>>
        BY <1>7 DEF vars, evidence, evaluation, bounds
    <2>2. TypeOK'
        BY <2>1 DEF IInv, TypeOK
    <2> QED BY <2>1, <2>2, JobKept, QuietStep
<1> QED BY <1>1, <1>2, <1>3, <1>4, <1>5, <1>6, <1>7 DEF Next

\* The invariant of evaluations, edits and sweeps that run side by side.
THEOREM InductiveInvariant == Spec => []IInv
<1> QED BY InitIInv, NextKeeps, PTL DEF Spec

\* An analyst's edit is applied to the row the analyst saw: the revision that is compared
\* changes with whatever else changes the row.
THEOREM EditsApplyToWhatWasSeen == Spec => []EditsSeeTheRow
<1>1. IInv => EditsSeeTheRow
    BY DEF IInv
<1> QED BY <1>1, InductiveInvariant, PTL

LEMMA WhoMovesARow ==
    ASSUME [Next]_vars, NEW f, finding'[f] # finding[f]
    PROVE  \/ CandidateBatch
           \/ \E p \in Policies : ResolveBatch(p)
           \/ \E r \in Runs : DeleteRun(r)
           \/ ReopenExpired \/ \E g \in AllFindings : Expire(g)
           \/ \E a \in Analysts, status \in (Status \ {"none"}) \cup {"same"}, dated, note \in BOOLEAN :
                  Update(a, status, dated, note)
<1>1. finding' # finding
    OBVIOUS
<1>2. ~UNCHANGED vars
    BY <1>1 DEF vars
<1>3. \A r \in Runs : ~(StartIngest(r) \/ CompleteUnevaluated(r) \/ Claim(r) \/ Handle(r) \/ RetryRun(r)
                        \/ BackoffEnds(r) \/ HeartbeatAges(r))
    BY <1>1 DEF StartIngest, CompleteUnevaluated, Claim, Handle, Drop, SkipRun, StartRun, RetryRun,
       BackoffEnds, HeartbeatAges
<1>4. /\ ~EvaluationEnds /\ ~EvaluationFails /\ ~Crash /\ ~SwitchSource
      /\ \A c \in Comparisons : ~StartComparison(c)
    BY <1>1 DEF EvaluationEnds, EvaluationFails, Crash, SwitchSource, StartComparison
<1>5. \A a \in Analysts : ~LockRows(a) /\ \A rows \in SUBSET AllFindings : ~Load(a, rows)
    BY <1>1 DEF LockRows, Load
<1> QED BY <1>2, <1>3, <1>4, <1>5 DEF Next, Evaluate, Requests

\* An edit of another request leaves the row alone.
LEMMA EditedByUpdate ==
    ASSUME IInv, NEW f \in AllFindings, ~Edit(f), finding'[f] # finding[f]
    PROVE  \A a \in Analysts, status \in (Status \ {"none"}) \cup {"same"}, dated, note \in BOOLEAN :
               ~Update(a, status, dated, note)
<1>1. ASSUME NEW a \in Analysts, NEW status \in (Status \ {"none"}) \cup {"same"},
             NEW dated \in BOOLEAN, NEW note \in BOOLEAN, Update(a, status, dated, note)
      PROVE  FALSE
    <2>1. session[a].locked /\ session'[a] = Away /\ f \in session[a].rows
        BY <1>1, UpdateKeeps
    <2> QED BY <2>1 DEF Edit
<1> QED BY <1>1

LEMMA NewestStands ==
    ASSUME IInv, NEW f \in AllFindings, NEW r \in Runs, NewestRun(r)
    PROVE  ~Superseded(f, r)
<1> SUFFICES ASSUME Superseded(f, r) PROVE FALSE
    OBVIOUS
<1>1. finding[f].latest \in Runs \cup {0} /\ r \in Nat /\ r > 0
    BY KeyFacts DEF IInv, TypeOK, Finding
<1>2. finding[f].latest > r /\ Complete(finding[f].latest)
    BY DEF Superseded
<1>3. finding[f].latest \in Runs
    BY <1>1, <1>2
<1> QED BY <1>2, <1>3 DEF NewestRun

\* Resolved findings only reopen on new evidence that nothing complete supersedes.
THEOREM ResolvedStays == Spec => DecisionsStand
<1>1. ASSUME IInv, [Next]_vars, NEW f \in AllFindings,
             finding[f].status = "resolved", finding'[f].status # "resolved", ~Edit(f)
      PROVE  \E k \in finding'[f].seen \ finding[f].seen : ~Superseded(f, Current(k))
    <2>1. CandidateBatch
        <3>1. ~\E p \in Policies : ResolveBatch(p)
            BY <1>1, ResolveBatchKeeps
        <3>2. ~\E r \in Runs : DeleteRun(r)
            BY <1>1, DeleteRunKeeps
        <3>3. ~(ReopenExpired \/ \E g \in AllFindings : Expire(g))
            BY <1>1, SweepKeeps
        <3> QED BY <1>1, <3>1, <3>2, <3>3, WhoMovesARow, EditedByUpdate
    <2> DEFINE k == job.key
    <2>2. Pending /\ Accepted
        BY <2>1 DEF CandidateBatch
    <2>3. k \in Keys /\ Current(k) \in Runs /\ job.authoritative \in BOOLEAN
          /\ (job.authoritative => NewestRun(Current(k)))
        BY <1>1, <2>2, JobFacts DEF Pending
    <2>4. f \in NextBatch /\ finding'[f] = Upsert(finding[f], k, job.authoritative)
        BY <1>1, <2>1, CandidateBatchKeeps DEF Applied
    <2>5. Reopens(finding[f], k, job.authoritative)
        BY <1>1, <2>4 DEF Upsert
    <2>6. k \in finding'[f].seen
        BY <1>1, <2>2, <2>3, <2>4, RowFacts, UpsertFollows DEF Accepted, Applied
    <2>7. k \notin finding[f].seen /\ job.authoritative
        BY <2>5 DEF Reopens
    <2> QED BY <1>1, <2>3, <2>6, <2>7, NewestStands
<1>2. IInv /\ [Next]_vars =>
          \A f \in AllFindings :
              finding[f].status = "resolved" /\ finding'[f].status # "resolved" /\ ~Edit(f) =>
                  \E k \in finding'[f].seen \ finding[f].seen : ~Superseded(f, Current(k))
    BY <1>1
<1> QED BY <1>2, InductiveInvariant, PTL DEF Spec, DecisionsStand

\* Nothing the run's evaluation has read shows a finding that it resolves.
LEMMA ResolvedIsUnseen ==
    ASSUME IInv, NEW p \in Policies, ResolveBatch(p), NEW f \in Absent(p, Current(job.key))
    PROVE  LET r == Current(job.key) IN
           /\ r \in Runs /\ NewestRun(r) /\ run[r] \in {"open", "COMPLETE"}
           /\ PolicyOf[f] \in snapshot[r].whole
           /\ \A i \in DOMAIN snapshot[r].batches : f \notin snapshot[r].batches[i]
<1> DEFINE r == Current(job.key)
<1>1. job # NoJob /\ ~Pending /\ p \in Remaining(job.key)
    BY DEF ResolveBatch
<1>2. IsRun(job.key)
    BY <1>1 DEF Remaining
<1>3. /\ r \in Runs /\ NewestRun(r) /\ run[r] \in {"open", "COMPLETE"}
      /\ job.key = RunKey(r) /\ job.key \in Keys
    BY <1>1, <1>2, JobFacts
<1>4. PolicyOf[f] = p /\ ~Observed(f, r)
    BY DEF Absent
<1>5. p \in snapshot[r].whole
    BY <1>1, <1>2 DEF Remaining, Whole
<1>6. ASSUME NEW i \in DOMAIN snapshot[r].batches PROVE f \notin snapshot[r].batches[i]
    <2>1. snapshot[r].batches \in Seq(SUBSET StateFindings)
        BY <1>3, BatchTypes DEF IInv
    <2>2. i \in 1 .. Len(snapshot[r].batches)
        BY <2>1
    <2>3. Len(snapshot[r].batches) <= cursor[RunKey(r)]
        <3>1. cursor[RunKey(r)] \in Nat /\ Len(snapshot[r].batches) \in Nat
            BY <1>3, <2>1 DEF IInv, TypeOK
        <3>2. Batches(job.key) = snapshot[r].batches
            BY <1>2 DEF Batches
        <3> QED BY <1>1, <1>3, <3>1, <3>2 DEF Pending
    <2>4. i <= cursor[RunKey(r)]
        BY <1>3, <2>1, <2>2, <2>3 DEF IInv, TypeOK
    <2>5. f \in snapshot[r].batches[i] => RunKey(r) \in finding[f].seen
        BY <1>3, <2>2, <2>4 DEF IInv, CursorsObserved
    <2>6. Current(RunKey(r)) = r
        BY <1>3, KeyFacts
    <2> QED BY <1>4, <2>5, <2>6 DEF Observed
<1> QED BY <1>3, <1>4, <1>5, <1>6

LEMMA AbsenceProved ==
    ASSUME IInv, [Next]_vars, NEW f \in AllFindings,
           finding[f].status \notin {"none", "resolved"}, finding'[f].status = "resolved", ~Edit(f)
    PROVE  \E r \in Runs :
               /\ NewestRun(r) /\ run[r] \in {"open", "COMPLETE"}
               /\ PolicyOf[f] \in snapshot[r].whole
               /\ \A i \in DOMAIN snapshot[r].batches : f \notin snapshot[r].batches[i]
<1>1. ~CandidateBatch
    <2> SUFFICES ASSUME CandidateBatch PROVE FALSE
        OBVIOUS
    <2>1. f \in NextBatch /\ finding'[f] = Upsert(finding[f], job.key, job.authoritative)
        BY CandidateBatchKeeps DEF Applied
    <2>2. finding'[f].status \in {"open", finding[f].status}
        BY <2>1 DEF Upsert
    <2> QED BY <2>2
<1>2. ~\E r \in Runs : DeleteRun(r)
    BY DeleteRunKeeps
<1>3. ~(ReopenExpired \/ \E g \in AllFindings : Expire(g))
    BY SweepKeeps
<1>4. PICK p \in Policies : ResolveBatch(p)
    BY <1>1, <1>2, <1>3, WhoMovesARow, EditedByUpdate
<1>5. f \in Absent(p, Current(job.key))
    BY <1>4, ResolveBatchKeeps
<1> QED BY <1>4, <1>5, ResolvedIsUnseen

LEMMA WhoResolvesAPolicy ==
    ASSUME [Next]_vars, resolved' # resolved
    PROVE  \E p \in Policies : ResolveBatch(p)
<1>1. ~UNCHANGED vars
    BY DEF vars, evaluation
<1>2. \A r \in Runs : ~(StartIngest(r) \/ CompleteUnevaluated(r) \/ Claim(r) \/ Handle(r) \/ RetryRun(r)
                        \/ DeleteRun(r) \/ BackoffEnds(r) \/ HeartbeatAges(r))
    BY DEF StartIngest, CompleteUnevaluated, Claim, Handle, Drop, SkipRun, StartRun, RetryRun,
       DeleteRun, BackoffEnds, HeartbeatAges, evaluation
<1>3. /\ ~CandidateBatch /\ ~EvaluationEnds /\ ~EvaluationFails /\ ~Crash /\ ~SwitchSource
      /\ \A c \in Comparisons : ~StartComparison(c)
    BY DEF CandidateBatch, EvaluationEnds, EvaluationFails, Crash, SwitchSource, StartComparison,
       evaluation
<1>4. \A a \in Analysts : ~Requests(a) /\ \A rows \in SUBSET AllFindings : ~Load(a, rows)
    BY DEF Requests, LockRows, Update, Load, evaluation
<1>5. ~ReopenExpired /\ \A f \in AllFindings : ~Expire(f)
    BY DEF ReopenExpired, Expire, evaluation
<1> QED BY <1>1, <1>2, <1>3, <1>4, <1>5 DEF Next, Evaluate

LEMMA AbsenceConcluded ==
    ASSUME IInv, [Next]_vars, NEW r \in Runs, NEW f \in StateFindings \ Held,
           PolicyOf[f] \in resolved'[r] \ resolved[r]
    PROVE  \/ finding'[f].status \in {"none", "resolved"}
           \/ \E k \in finding'[f].seen : Current(k) = r
<1>1. PICK p \in Policies : ResolveBatch(p)
    BY WhoResolvesAPolicy
<1> DEFINE q == Current(job.key)
<1>2. PICK batch \in SUBSET (Absent(p, q) \ Held) :
          /\ Cardinality(batch) < Limit => batch = Absent(p, q) \ Held
          /\ finding' = [g \in AllFindings |-> IF g \in batch THEN Resolve(finding[g]) ELSE finding[g]]
          /\ resolved' = IF Exhausted(Cardinality(batch))
                         THEN Set(resolved, q, resolved[q] \cup {p}) ELSE resolved
    BY <1>1 DEF ResolveBatch
<1>3. Exhausted(Cardinality(batch)) /\ r = q /\ PolicyOf[f] = p
    BY <1>2 DEF Set, IInv, TypeOK
<1>4. batch = Absent(p, r) \ Held
    BY <1>2, <1>3 DEF Exhausted
<1>5. f \in AllFindings
    BY DEF AllFindings
<1>6. CASE f \in batch
    <2>1. finding'[f] = Resolve(finding[f]) /\ finding[f] \in Finding
        BY <1>2, <1>5, <1>6 DEF IInv, TypeOK
    <2> QED BY <2>1 DEF Resolve, Finding
<1>7. CASE f \notin batch
    <2>1. finding'[f] = finding[f]
        BY <1>2, <1>5, <1>7
    <2>2. f \notin Absent(p, r)
        BY <1>4, <1>7
    <2> QED BY <1>3, <2>1, <2>2 DEF Absent, Observed
<1> QED BY <1>6, <1>7

\* A finding is resolved by the newest run's whole evidence and nothing else, and a policy is
\* done with only when none of its absent findings is left open.
THEOREM AbsenceIsEarned == Spec => AbsenceHolds
<1>1. IInv /\ [Next]_vars =>
          \A f \in AllFindings :
              finding[f].status \notin {"none", "resolved"} /\ finding'[f].status = "resolved"
              /\ ~Edit(f) =>
                  \E r \in Runs :
                      /\ NewestRun(r) /\ run[r] \in {"open", "COMPLETE"}
                      /\ PolicyOf[f] \in snapshot[r].whole
                      /\ \A i \in DOMAIN snapshot[r].batches : f \notin snapshot[r].batches[i]
    BY AbsenceProved
<1>2. IInv /\ [Next]_vars =>
          \A r \in Runs : \A f \in StateFindings \ Held :
              PolicyOf[f] \in resolved'[r] \ resolved[r] =>
                  \/ finding'[f].status \in {"none", "resolved"}
                  \/ \E k \in finding'[f].seen : Current(k) = r
    BY AbsenceConcluded
<1> QED BY <1>1, <1>2, InductiveInvariant, PTL
    DEF Spec, AbsenceHolds, AbsenceIsProved, AbsenceIsConcluded

\* Evidence that a complete run brought is not replaced by that of an older one.
THEOREM NewestEvidenceStays == Spec => EvidenceAdvances
<1>1. ASSUME IInv, [Next]_vars, NEW f \in AllFindings, finding'[f].latest # 0,
             Superseded(f, finding'[f].latest)
      PROVE  FALSE
    <2>1. finding[f].latest > finding'[f].latest /\ finding[f].latest \in Nat
        BY <1>1, KeyFacts DEF Superseded, IInv, TypeOK, Finding
    <2>2. finding'[f].latest # finding[f].latest
        BY <2>1
    <2>3. CandidateBatch
        <3>1. ~\E p \in Policies : ResolveBatch(p)
            BY <1>1, <2>2, ResolveBatchKeeps
        <3>2. ~\E r \in Runs : DeleteRun(r)
            BY <1>1, <2>2, DeleteRunKeeps
        <3>3. ~(ReopenExpired \/ \E g \in AllFindings : Expire(g))
            BY <1>1, <2>2, SweepKeeps
        <3>4. \A a \in Analysts, status \in (Status \ {"none"}) \cup {"same"}, dated, note \in BOOLEAN :
                  ~Update(a, status, dated, note)
            BY <1>1, <2>2, UpdateKeeps
        <3> QED BY <1>1, <2>2, <3>1, <3>2, <3>3, <3>4, WhoMovesARow
    <2>4. f \in NextBatch /\ finding'[f] = Upsert(finding[f], job.key, job.authoritative)
        BY <1>1, <2>2, <2>3, CandidateBatchKeeps DEF Applied
    <2>5. job # NoJob /\ Current(job.key) \in Runs
          /\ (job.authoritative => NewestRun(Current(job.key)))
        BY <1>1, <2>3, JobFacts DEF CandidateBatch, Pending
    <2>6. CASE finding[f].status = "none"
        <3>1. finding[f].latest = 0
            BY <1>1, <2>6, RowFacts DEF Consistent, NoFinding
        <3>2. finding'[f].latest = Current(job.key)
            BY <2>4, <2>6 DEF Upsert
        <3> QED BY <2>1, <2>5, <3>1, <3>2, KeyFacts
    <2>7. CASE finding[f].status # "none"
        <3>1. job.authoritative /\ finding'[f].latest = Current(job.key)
            BY <2>2, <2>4, <2>7 DEF Upsert
        <3> QED BY <1>1, <2>5, <3>1, NewestStands
    <2> QED BY <2>6, <2>7
<1>2. IInv /\ [Next]_vars =>
          \A f \in AllFindings : finding'[f].latest # 0 => ~Superseded(f, finding'[f].latest)
    BY <1>1
<1> QED BY <1>2, InductiveInvariant, PTL DEF Spec, EvidenceAdvances
=============================================================================

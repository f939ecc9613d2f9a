---------------------- MODULE ArtifactLifecycleProofs ----------------------
(***************************************************************************)
(* Theorems about ArtifactLifecycle, for any sets of runs, uploads and     *)
(* deletes.  IInv is shown inductive one component at a time; every step   *)
(* of a component is one leaf, or one leaf per conjunct it disturbs.       *)
(***************************************************************************)
EXTENDS ArtifactLifecycle, TLAPS

LEMMA ReferencedKeys ==
    ASSUME TypeOK
    PROVE  /\ Referenced \subseteq Uploads
           /\ \A k \in Uploads : k \in Referenced <=> \E r \in Runs : artifact[r] = k
  BY RequestsAssumption DEF TypeOK, Referenced, Keys

-----------------------------------------------------------------------------
(* Types                                                                   *)

LEMMA UploadStepTypes ==
    ASSUME TypeOK, NEW u \in Uploads, UploadStep(u) PROVE TypeOK'
<1> USE RequestsAssumption DEF TypeOK, UploadRecord, UploadTo, dbVars
<1>1. CASE StartUpload(u)
  BY <1>1 DEF StartUpload, UploadPC
<1>2. CASE AbortUpload(u)
  BY <1>2 DEF AbortUpload, UploadPC
<1>3. CASE PublishUpload(u)
  <2>1. store' \subseteq Uploads /\ parts' \subseteq Uploads
    BY <1>3 DEF PublishUpload
  <2>2. up' \in [Uploads -> UploadRecord]
    BY <1>3 DEF PublishUpload, UploadPC
  <2> QED BY <1>3, <2>1, <2>2 DEF PublishUpload
<1>4. CASE CancelPublished(u) \/ RollbackBeforeCommit(u)
  BY <1>4 DEF CancelPublished, RollbackBeforeCommit, UploadPC
<1>5. CASE EnterGuard(u)
  BY <1>5 DEF EnterGuard, UploadPC
<1>6. CASE LockRun(u)
  BY <1>6 DEF LockRun, UploadPC
<1>7. CASE CommitPointer(u) \/ CommitOutcomeUnknown(u)
  <2>1. SelectArtifact(u) => /\ artifact' \in [Runs -> Keys]
                             /\ status' \in [Runs -> RunStatus]
    BY DEF SelectArtifact, Keys, RunStatus, Uploadable
  <2>2. artifact' \in [Runs -> Keys] /\ status' \in [Runs -> RunStatus]
    BY <1>7, <2>1 DEF CommitPointer, CommitOutcomeUnknown
  <2>3. up' \in [Uploads -> UploadRecord]
    <3>1. \E pc \in UploadPC : up' = [up EXCEPT ![u].pc = pc]
      BY <1>7 DEF CommitPointer, CommitOutcomeUnknown, UploadPC
    <3>2. ASSUME NEW pc \in UploadPC
          PROVE  [up EXCEPT ![u].pc = pc] \in [Uploads -> UploadRecord]
      OBVIOUS
    <3> QED BY <3>1, <3>2
  <2> QED BY <1>7, <2>2, <2>3 DEF CommitPointer, CommitOutcomeUnknown
<1>8. CASE DiscardObject(u) \/ DeleteSuperseded(u) \/ CrashUpload(u)
  BY <1>8 DEF DiscardObject, DeleteSuperseded, CrashUpload, UploadPC
<1> QED BY <1>1, <1>2, <1>3, <1>4, <1>5, <1>6, <1>7, <1>8 DEF UploadStep

LEMMA DeleteStepTypes ==
    ASSUME TypeOK, NEW d \in Deletes, DeleteStep(d) PROVE TypeOK'
<1> USE RequestsAssumption DEF TypeOK, DeleteRecord, dbVars
<1>1. CASE ReadRunForDelete(d)
  BY <1>1 DEF ReadRunForDelete, Keys
<1>2. CASE RefuseDelete(d)
  BY <1>2 DEF RefuseDelete
<1>3. CASE CommitDelete(d)
  BY <1>3 DEF CommitDelete, Keys, RunStatus
<1>4. CASE UnlinkDeleted(d)
  <2>1. store' \subseteq Uploads
    BY <1>4 DEF UnlinkDeleted
  <2>2. del' \in [Deletes -> DeleteRecord]
    BY <1>4 DEF UnlinkDeleted
  <2> QED BY <1>4, <2>1, <2>2 DEF UnlinkDeleted
<1> QED BY <1>1, <1>2, <1>3, <1>4 DEF DeleteStep

LEMMA ProjectStepTypes == ASSUME TypeOK, ProjectStep PROVE TypeOK'
<1> USE RequestsAssumption DEF TypeOK, ProjectRecord, dbVars
<1>1. CASE DecideProject
  BY <1>1, ReferencedKeys DEF DecideProject
<1>2. CASE RefuseProject \/ FinishProject
  BY <1>2 DEF RefuseProject, FinishProject
<1>3. CASE CommitProject
  BY <1>3 DEF CommitProject, Keys, RunStatus
<1>4. ASSUME NEW k \in Uploads, UnlinkProjectKey(k) PROVE TypeOK'
  BY <1>4 DEF UnlinkProjectKey
<1> QED BY <1>1, <1>2, <1>3, <1>4 DEF ProjectStep

LEMMA ReconcileStepTypes == ASSUME TypeOK, ReconcileStep PROVE TypeOK'
<1> USE RequestsAssumption DEF TypeOK, ReconRecord, dbVars, apiVars
<1>1. CASE LoadReferences
  BY <1>1, ReferencedKeys DEF LoadReferences, Keys
<1>2. CASE ScanStore
  BY <1>2 DEF ScanStore, Keys
<1>3. CASE UnlinkCandidate \/ FinishReconcile
  BY <1>3 DEF UnlinkCandidate, FinishReconcile, Keys
<1>4. ASSUME NEW k \in Uploads, CheckCandidate(k) PROVE TypeOK'
  BY <1>4 DEF CheckCandidate, Keys
<1>5. ASSUME NEW k \in Uploads, UnlinkStaleParts(k) PROVE TypeOK'
  BY <1>5 DEF UnlinkStaleParts
<1> QED BY <1>1, <1>2, <1>3, <1>4, <1>5 DEF ReconcileStep

LEMMA RunStepTypes ==
    ASSUME TypeOK, NEW r \in Runs, CreateRun(r) \/ WorkerStep(r) PROVE TypeOK'
  BY RequestsAssumption
  DEF TypeOK, CreateRun, WorkerStep, ClaimRun, OpenArtifact, RejectMissingArtifact,
      CloseArtifact, Keys, RunStatus, Uploadable, Claimable, apiVars

LEMMA NextTypes == ASSUME TypeOK, [Next]_vars PROVE TypeOK'
<1>1. CASE UNCHANGED vars
  BY <1>1 DEF vars, TypeOK
<1> QED BY <1>1, RunStepTypes, UploadStepTypes, DeleteStepTypes,
           ProjectStepTypes, ReconcileStepTypes DEF Next

LEMMA InitTypes == ASSUME Init PROVE TypeOK
  BY DEF Init, TypeOK, UploadRecord, DeleteRecord, ProjectRecord, ReconRecord,
         Keys, RunStatus, UploadPC

\* The types of every variable are kept: in particular a row holds a key or
\* NULL, and a request never records a status the column cannot have.
THEOREM TypeCorrect == Spec => []TypeOK
  BY InitTypes, NextTypes, PTL DEF Spec
-----------------------------------------------------------------------------
(* The inductive invariant                                                 *)

\* In the initial state there is no key and no request.
LEMMA InitIInv == ASSUME Init PROVE IInv
<1>1. TypeOK
  BY InitTypes
<1>2. QED
  BY <1>1 DEF Init, IInv, NoDanglingArtifact, IngestReadsStoredArtifact, KeyOwnership,
     PendingObjectsStored, PreviousIsCurrent, RunLockExclusive, KeysToUnlinkRetired

\* Creation and the worker: they move no key, and open one only as the row
\* names it, with the run lock free.
LEMMA RunStepIInv ==
    ASSUME IInv, TypeOK', NEW r \in Runs, CreateRun(r) \/ WorkerStep(r) PROVE IInv'
<1> USE RequestsAssumption
    DEF IInv, TypeOK, UploadRecord, Keys, Referenced, RunLockFree, Retired, dbVars, apiVars,
        NoDanglingArtifact, IngestReadsStoredArtifact, KeyOwnership,
        PendingObjectsStored, PreviousIsCurrent, RunLockExclusive, KeysToUnlinkRetired
<1>1. CASE CreateRun(r)
  BY <1>1 DEF CreateRun
<1>2. CASE ClaimRun(r)
  BY <1>2 DEF ClaimRun
<1>3. CASE OpenArtifact(r)
  BY <1>3 DEF OpenArtifact
<1>4. CASE RejectMissingArtifact(r)
  BY <1>4 DEF RejectMissingArtifact
<1>5. CASE CloseArtifact(r)
  BY <1>5 DEF CloseArtifact
<1> QED BY <1>1, <1>2, <1>3, <1>4, <1>5 DEF WorkerStep

\* A request that takes the run lock disturbs no key waiting to be unlinked.
LEMMA LockRunRetired ==
    ASSUME IInv, NEW u \in Uploads, LockRun(u) PROVE KeysToUnlinkRetired'
<1>1. /\ up[u].pc = "guarded" /\ up'[u].pc \in {"locked", "discard"}
      /\ \A v \in Uploads : v # u => up'[v] = up[v]
  BY DEF LockRun, UploadTo, IInv, TypeOK, UploadRecord
<1>2. UNCHANGED <<artifact, store, del, project, recon>> /\ Referenced' = Referenced
  BY DEF LockRun, dbVars, Referenced
<1>3. \A k \in Keys : Retired(k) => Retired(k)'
  BY <1>1, <1>2 DEF Retired, Keys
<1>4. /\ \A v \in Uploads : (up[v].pc = "committed" => Retired(up[v].prev))'
      /\ \A d \in Deletes : (del[d].pc = "unlinking" => Retired(del[d].key))'
      /\ (project.pc = "unlinking" => \A k \in project.keys : Retired(k))'
  <2>1. /\ \A v \in Uploads : up[v].prev \in Keys
        /\ \A d \in Deletes : del[d].key \in Keys
        /\ project.keys \subseteq Keys
    BY DEF IInv, TypeOK, UploadRecord, DeleteRecord, ProjectRecord, Keys
  <2> QED BY <1>1, <1>2, <1>3, <2>1 DEF IInv, KeysToUnlinkRetired
<1>5. /\ \A d \in Deletes : del'[d].key # NoKey =>
            /\ RunOf[del'[d].key] = DeleteOf[d]
            /\ up'[del'[d].key].pc \in {"committed", "done"}
      /\ project'.pc = "deciding" =>
            \A k \in project'.keys : up'[k].pc \in {"committed", "done"}
  <2>1. /\ \A d \in Deletes : del[d].key \in Keys
        /\ project.keys \subseteq Uploads
    BY DEF IInv, TypeOK, DeleteRecord, ProjectRecord
  <2> QED BY <1>1, <1>2, <2>1 DEF IInv, KeysToUnlinkRetired, Keys
<1>6. /\ \A k \in recon'.todo : up'[k].pc \notin InFlight \cup {"idle"}
      /\ recon'.cur # NoKey => /\ recon'.cur \notin Referenced'
                               /\ up'[recon'.cur].pc \notin InFlight \cup {"idle"}
  <2>1. recon.todo \subseteq Uploads /\ recon.cur \in Keys
    BY DEF IInv, TypeOK, ReconRecord
  <2> QED BY <1>1, <1>2, <2>1 DEF IInv, KeysToUnlinkRetired, Keys, InFlight
<1> QED BY <1>4, <1>5, <1>6 DEF KeysToUnlinkRetired

\* Uploads before they hold the run lock.
LEMMA PreparingUploadIInv ==
    ASSUME IInv, TypeOK', NEW u \in Uploads,
           \/ StartUpload(u) \/ AbortUpload(u) \/ PublishUpload(u)
           \/ CancelPublished(u) \/ EnterGuard(u) \/ LockRun(u)
    PROVE  IInv'
<1> USE RequestsAssumption
    DEF IInv, TypeOK, UploadRecord, UploadPC, Keys, Referenced, Retired, InFlight,
        UploadTo, dbVars,
        NoDanglingArtifact, IngestReadsStoredArtifact, KeyOwnership,
        PendingObjectsStored, PreviousIsCurrent, RunLockExclusive, KeysToUnlinkRetired
<1>1. CASE StartUpload(u)
  BY <1>1 DEF StartUpload
<1>2. CASE AbortUpload(u)
  BY <1>2 DEF AbortUpload
<1>3. CASE PublishUpload(u)
  BY <1>3 DEF PublishUpload
<1>4. CASE CancelPublished(u)
  BY <1>4 DEF CancelPublished
<1>5. CASE EnterGuard(u)
  BY <1>5 DEF EnterGuard, GuardFree
<1>6. CASE LockRun(u)
  <2>0. /\ up'[u].pc \in {"locked", "discard"}
        /\ \A v \in Uploads \ {u} : up'[v] = up[v]
        /\ UNCHANGED <<dbVars, opened, store, parts, del, project, recon>>
    BY <1>6 DEF LockRun
  <2>1. NoDanglingArtifact' /\ IngestReadsStoredArtifact' /\ KeyOwnership'
    BY <1>6, <2>0 DEF LockRun
  <2>2. PendingObjectsStored'
    BY <1>6, <2>0 DEF LockRun
  <2>5. PreviousIsCurrent'
    BY <1>6, <2>0 DEF LockRun
  <2>3. RunLockExclusive'
    BY <1>6 DEF LockRun, RunLockFree
  <2>4. KeysToUnlinkRetired'
    BY <1>6, LockRunRetired
  <2> QED BY <2>1, <2>2, <2>3, <2>4, <2>5
<1> QED BY <1>1, <1>2, <1>3, <1>4, <1>5, <1>6

\* Uploads from the run lock on: the new key was in the store and named by no
\* row, the previous one is retired with the commit.
LEMMA CommittingUploadIInv ==
    ASSUME IInv, TypeOK', NEW u \in Uploads,
           \/ CommitPointer(u) \/ CommitOutcomeUnknown(u) \/ RollbackBeforeCommit(u)
           \/ DiscardObject(u) \/ DeleteSuperseded(u) \/ CrashUpload(u)
    PROVE  IInv'
<1> USE RequestsAssumption
    DEF IInv, TypeOK, UploadRecord, UploadPC, Keys, Referenced, Retired, InFlight,
        UploadTo, SelectArtifact, dbVars,
        NoDanglingArtifact, IngestReadsStoredArtifact, KeyOwnership,
        PendingObjectsStored, PreviousIsCurrent, RunLockExclusive, KeysToUnlinkRetired
<1>1. CASE CommitPointer(u)
  BY <1>1 DEF CommitPointer
<1>2. CASE CommitOutcomeUnknown(u)
  <2>1. CASE UNCHANGED dbVars
    BY <1>2, <2>1 DEF CommitOutcomeUnknown
  <2>2. CASE SelectArtifact(u)
    BY <1>2, <2>2 DEF CommitOutcomeUnknown
  <2> QED BY <1>2, <2>1, <2>2 DEF CommitOutcomeUnknown
<1>3. CASE RollbackBeforeCommit(u)
  BY <1>3 DEF RollbackBeforeCommit
<1>4. CASE DiscardObject(u)
  BY <1>4 DEF DiscardObject
<1>5. CASE DeleteSuperseded(u)
  BY <1>5 DEF DeleteSuperseded
<1>6. CASE CrashUpload(u)
  BY <1>6 DEF CrashUpload
<1> QED BY <1>1, <1>2, <1>3, <1>4, <1>5, <1>6

\* Unlinking a deleted run's object leaves all that is still to be unlinked retired.
LEMMA UnlinkKeepsRetired ==
    ASSUME TypeOK, KeysToUnlinkRetired, NEW d \in Deletes, UnlinkDeleted(d)
    PROVE  KeysToUnlinkRetired'
<1>1. UNCHANGED <<up, project, recon>> /\ Referenced' = Referenced
  BY DEF UnlinkDeleted, dbVars, Referenced
<1>2. ASSUME NEW e \in Deletes
      PROVE  del'[e].key = del[e].key /\ (del'[e].pc = "unlinking" => del[e].pc = "unlinking")
  BY <1>2 DEF UnlinkDeleted, TypeOK, DeleteRecord
<1>3. ASSUME NEW e \in Deletes
      PROVE  /\ del'[e].key # NoKey => /\ RunOf[del'[e].key] = DeleteOf[e]
                                       /\ up'[del'[e].key].pc \in {"committed", "done"}
             /\ del'[e].pc = "unlinking" => Retired(del[e].key)'
  BY <1>1, <1>2 DEF KeysToUnlinkRetired, Retired
<1>4. /\ \A u \in Uploads : up'[u].pc = "committed" => Retired(up[u].prev)'
      /\ project'.pc = "unlinking" => \A k \in project'.keys : Retired(k)'
  BY <1>1 DEF KeysToUnlinkRetired, Retired
<1> QED BY <1>1, <1>3, <1>4 DEF KeysToUnlinkRetired

LEMMA DeleteStepIInv ==
    ASSUME IInv, TypeOK', NEW d \in Deletes, DeleteStep(d) PROVE IInv'
<1> USE RequestsAssumption
    DEF IInv, TypeOK, DeleteRecord, Keys, Referenced, Retired, InFlight, dbVars,
        NoDanglingArtifact, IngestReadsStoredArtifact, KeyOwnership,
        PendingObjectsStored, PreviousIsCurrent, RunLockExclusive, KeysToUnlinkRetired
<1>1. CASE ReadRunForDelete(d)
  <2>1. NoDanglingArtifact' /\ IngestReadsStoredArtifact' /\ KeyOwnership'
    BY <1>1 DEF ReadRunForDelete
  <2>2. PendingObjectsStored' /\ PreviousIsCurrent' /\ RunLockExclusive'
    BY <1>1 DEF ReadRunForDelete
  <2>3. KeysToUnlinkRetired'
    BY <1>1 DEF ReadRunForDelete
  <2> QED BY <2>1, <2>2, <2>3
<1>2. CASE RefuseDelete(d)
  BY <1>2 DEF RefuseDelete
<1>3. CASE CommitDelete(d)
  BY <1>3 DEF CommitDelete, RunLockFree
<1>4. CASE UnlinkDeleted(d)
  <2>1. Retired(del[d].key)
    BY <1>4 DEF UnlinkDeleted
  <2>2. NoDanglingArtifact' /\ IngestReadsStoredArtifact' /\ PendingObjectsStored'
    BY <1>4, <2>1 DEF UnlinkDeleted
  <2>3. KeyOwnership' /\ PreviousIsCurrent' /\ RunLockExclusive'
    BY <1>4 DEF UnlinkDeleted
  <2>4. KeysToUnlinkRetired'
    BY <1>4, UnlinkKeepsRetired
  <2> QED BY <2>2, <2>3, <2>4
<1> QED BY <1>1, <1>2, <1>3, <1>4 DEF DeleteStep

LEMMA ProjectStepIInv == ASSUME IInv, TypeOK', ProjectStep PROVE IInv'
<1> USE RequestsAssumption
    DEF IInv, TypeOK, ProjectRecord, Keys, Referenced, Retired, InFlight, dbVars,
        NoDanglingArtifact, IngestReadsStoredArtifact, KeyOwnership,
        PendingObjectsStored, PreviousIsCurrent, RunLockExclusive, KeysToUnlinkRetired
<1>1. CASE DecideProject
  BY <1>1 DEF DecideProject, GuardFree
<1>2. CASE RefuseProject \/ FinishProject
  BY <1>2 DEF RefuseProject, FinishProject
<1>3. CASE CommitProject
  <2>1. NoDanglingArtifact' /\ KeyOwnership' /\ PendingObjectsStored'
    BY <1>3 DEF CommitProject
  <2>2. IngestReadsStoredArtifact' /\ PreviousIsCurrent' /\ RunLockExclusive'
    BY <1>3 DEF CommitProject, RunLockFree
  <2>3. KeysToUnlinkRetired'
    BY <1>3 DEF CommitProject
  <2> QED BY <2>1, <2>2, <2>3
<1>4. ASSUME NEW k \in Uploads, UnlinkProjectKey(k) PROVE IInv'
  <2>1. Retired(k)
    BY <1>4 DEF UnlinkProjectKey
  <2>2. NoDanglingArtifact' /\ IngestReadsStoredArtifact' /\ PendingObjectsStored'
    BY <1>4, <2>1 DEF UnlinkProjectKey
  <2>3. KeyOwnership' /\ PreviousIsCurrent' /\ RunLockExclusive'
    BY <1>4 DEF UnlinkProjectKey
  <2>4. KeysToUnlinkRetired'
    BY <1>4 DEF UnlinkProjectKey
  <2> QED BY <2>2, <2>3, <2>4
<1> QED BY <1>1, <1>2, <1>3, <1>4 DEF ProjectStep

\* Candidates are finished requests; the recheck keeps referenced ones out of
\* recon.cur, and a finished request never selects its key again.
LEMMA ReconcileStepIInv == ASSUME IInv, TypeOK', ReconcileStep PROVE IInv'
<1> USE RequestsAssumption
    DEF IInv, TypeOK, ReconRecord, Keys, Referenced, Retired, InFlight, dbVars, apiVars,
        NoDanglingArtifact, IngestReadsStoredArtifact, KeyOwnership,
        PendingObjectsStored, PreviousIsCurrent, RunLockExclusive, KeysToUnlinkRetired
<1>1. CASE LoadReferences
  BY <1>1 DEF LoadReferences
<1>2. CASE ScanStore
  <2>1. NoDanglingArtifact' /\ IngestReadsStoredArtifact' /\ KeyOwnership'
    BY <1>2 DEF ScanStore
  <2>2. PendingObjectsStored' /\ PreviousIsCurrent' /\ RunLockExclusive'
    BY <1>2 DEF ScanStore
  <2>3. KeysToUnlinkRetired'
    BY <1>2 DEF ScanStore, OldEnough
  <2> QED BY <2>1, <2>2, <2>3
<1>3. CASE UnlinkCandidate
  BY <1>3 DEF UnlinkCandidate
<1>4. CASE FinishReconcile
  BY <1>4 DEF FinishReconcile
<1>5. ASSUME NEW k \in Uploads, CheckCandidate(k) PROVE IInv'
  BY <1>5 DEF CheckCandidate
<1>6. ASSUME NEW k \in Uploads, UnlinkStaleParts(k) PROVE IInv'
  BY <1>6 DEF UnlinkStaleParts
<1> QED BY <1>1, <1>2, <1>3, <1>4, <1>5, <1>6 DEF ReconcileStep
-----------------------------------------------------------------------------
(* Theorems                                                                *)

LEMMA NextIInv == ASSUME IInv, [Next]_vars PROVE IInv'
<1>1. TypeOK'
  BY NextTypes DEF IInv
<1>2. CASE UNCHANGED vars
  BY <1>2, <1>1
  DEF vars, IInv, TypeOK, NoDanglingArtifact, IngestReadsStoredArtifact, KeyOwnership,
      PendingObjectsStored, PreviousIsCurrent, RunLockExclusive, KeysToUnlinkRetired,
      Referenced, Retired
<1>3. ASSUME NEW u \in Uploads, UploadStep(u) PROVE IInv'
  BY <1>1, <1>3, PreparingUploadIInv, CommittingUploadIInv DEF UploadStep
<1> QED BY <1>1, <1>2, <1>3, RunStepIInv, DeleteStepIInv, ProjectStepIInv,
           ReconcileStepIInv DEF Next

\* IInv holds in every reachable state, whatever the number of requests.
THEOREM InductiveInvariant == Spec => []IInv
  BY InitIInv, NextIInv, PTL DEF Spec

\* No interleaving of uploads, deletions, recovery and reconciliation leaves a
\* row that names an object missing from the store.
THEOREM ArtifactsNeverDangle == Spec => []NoDanglingArtifact
<1>1. IInv => NoDanglingArtifact
  BY DEF IInv
<1> QED BY <1>1, InductiveInvariant, PTL

\* The object a worker session reads is its run's artifact, and is stored, for
\* as long as the session holds the run lock.
THEOREM IngestKeepsItsArtifact == Spec => []IngestReadsStoredArtifact
<1>1. IInv => IngestReadsStoredArtifact
  BY DEF IInv
<1> QED BY <1>1, InductiveInvariant, PTL

\* Every step that removes an object removes garbage.
THEOREM OnlyGarbageIsReclaimed == Spec => ReclaimedOnlyGarbage
<1>1. ASSUME IInv, [Next]_vars
      PROVE  [\A k \in store \ store' :
                k \notin Referenced \cup Referenced' /\ up[k].pc \notin InFlight]_vars
  <2> SUFFICES ASSUME Next, NEW k \in store, k \notin store'
               PROVE  k \notin Referenced \cup Referenced' /\ up[k].pc \notin InFlight
    BY <1>1
  <2> USE RequestsAssumption, <1>1 DEF IInv, KeysToUnlinkRetired
  <2>1. k \in Uploads
    BY DEF TypeOK
  <2>2. k \in Referenced => up[k].pc \in {"committed", "done"}
    BY DEF KeyOwnership, Referenced, Keys, TypeOK
  <2>3. ASSUME NEW r \in Runs, CreateRun(r) \/ WorkerStep(r) PROVE FALSE
    BY <2>3 DEF CreateRun, WorkerStep, ClaimRun, OpenArtifact, RejectMissingArtifact,
                CloseArtifact
  <2>4. ASSUME NEW u \in Uploads, UploadStep(u)
        PROVE  k \notin Referenced \cup Referenced' /\ up[k].pc \notin InFlight
    <3>1. \/ DiscardObject(u) /\ k = u
          \/ DeleteSuperseded(u) /\ k = up[u].prev
      BY <2>4
      DEF UploadStep, StartUpload, AbortUpload, PublishUpload, CancelPublished, EnterGuard,
          LockRun, CommitPointer, CommitOutcomeUnknown, RollbackBeforeCommit, DiscardObject,
          DeleteSuperseded, CrashUpload
    <3>2. Referenced' = Referenced
      BY <3>1 DEF DiscardObject, DeleteSuperseded, dbVars, Referenced
    <3>3. CASE DiscardObject(u) /\ k = u
      BY <3>2, <3>3, <2>2 DEF DiscardObject, InFlight
    <3>4. CASE DeleteSuperseded(u) /\ k = up[u].prev
      BY <3>2, <3>4, <2>1 DEF DeleteSuperseded, InFlight, Retired
    <3> QED BY <3>1, <3>3, <3>4
  <2>5. ASSUME NEW d \in Deletes, DeleteStep(d)
        PROVE  k \notin Referenced \cup Referenced' /\ up[k].pc \notin InFlight
    <3>1. UnlinkDeleted(d) /\ k = del[d].key
      BY <2>5 DEF DeleteStep, ReadRunForDelete, RefuseDelete, CommitDelete, UnlinkDeleted
    <3>2. Referenced' = Referenced
      BY <3>1 DEF UnlinkDeleted, dbVars, Referenced
    <3> QED BY <3>1, <3>2, <2>1 DEF UnlinkDeleted, Retired, InFlight
  <2>6. ASSUME ProjectStep
        PROVE  k \notin Referenced \cup Referenced' /\ up[k].pc \notin InFlight
    <3>1. UnlinkProjectKey(k) /\ k \in project.keys
      BY <2>6 DEF ProjectStep, DecideProject, RefuseProject, CommitProject, FinishProject,
                  UnlinkProjectKey
    <3>2. Referenced' = Referenced
      BY <3>1 DEF UnlinkProjectKey, dbVars, Referenced
    <3> QED BY <3>1, <3>2, <2>1 DEF UnlinkProjectKey, Retired, InFlight
  <2>7. ASSUME ReconcileStep
        PROVE  k \notin Referenced \cup Referenced' /\ up[k].pc \notin InFlight
    <3>1. UnlinkCandidate /\ k = recon.cur
      BY <2>7 DEF ReconcileStep, LoadReferences, ScanStore, CheckCandidate,
                  UnlinkStaleParts, UnlinkCandidate, FinishReconcile
    <3>2. Referenced' = Referenced
      BY <3>1 DEF UnlinkCandidate, dbVars, Referenced
    <3> QED BY <3>1, <3>2, <2>1
  <2> QED BY <2>3, <2>4, <2>5, <2>6, <2>7 DEF Next
<1> QED BY <1>1, InductiveInvariant, PTL DEF Spec, ReclaimedOnlyGarbage
=============================================================================

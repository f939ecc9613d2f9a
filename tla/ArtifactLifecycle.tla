------------------------- MODULE ArtifactLifecycle -------------------------
(***************************************************************************)
(* Artifact pointers and the shared artifact store: artifact uploads, run  *)
(* deletion and project deletion in the API, the ingest worker as the      *)
(* reader of artifacts, and the reconcile_artifacts command.               *)
(*                                                                         *)
(* An upload and the immutable key it writes are one value: every request  *)
(* draws a fresh uuid for its key.  Two advisory locks are held by open    *)
(* transactions (API) or sessions (worker), so who holds them follows from *)
(* the program counters: RunLockFree and GuardFree.                        *)
(***************************************************************************)

CONSTANTS
    Runs,       \* run ids; a deleted id may be created again by a client
    Uploads,    \* upload requests, each named as the key it writes
    Deletes,    \* DELETE run requests
    RunOf,      \* the run an upload addresses
    DeleteOf,   \* the run a delete addresses
    NoKey       \* SQL NULL

ASSUME RequestsAssumption ==
    /\ RunOf \in [Uploads -> Runs]
    /\ DeleteOf \in [Deletes -> Runs]
    /\ NoKey \notin Uploads

VARIABLES
    status,     \* scan_runs.status, "NONE" when there is no row
    artifact,   \* scan_runs.artifact_key
    opened,     \* the key the worker holding the run lock is reading
    store,      \* keys with a published object
    parts,      \* keys with an entry under .multipart
    up,         \* upload requests
    del,        \* DELETE run requests
    project,    \* the project and its deletion request
    recon       \* one reconcile_artifacts process

apiVars == <<up, del, project>>
dbVars  == <<status, artifact>>
vars    == <<status, artifact, opened, store, parts, up, del, project, recon>>

Keys       == Uploads \cup {NoKey}
Uploadable == {"PENDING_UPLOAD", "UPLOADED", "FAILED"}
Claimable  == {"UPLOADED", "INGESTING"}
RunStatus  == {"NONE", "COMPLETE"} \cup Uploadable \cup Claimable

UploadPC == {"idle", "streaming", "published", "guarded", "locked",
             "committed", "discard", "done"}
\* The request may still select its object.
InFlight == {"streaming", "published", "guarded", "locked"}

UploadRecord  == [pc: UploadPC, prev: Keys, seen: RunStatus]
DeleteRecord  == [pc: {"idle", "read", "unlinking", "done", "failed"},
                  key: Keys]
ProjectRecord == [pc: {"live", "deciding", "unlinking", "gone"},
                  keys: SUBSET Uploads]
ReconRecord   == [pc: {"idle", "loaded", "deleting", "unlinking"},
                  refs: SUBSET Uploads, todo: SUBSET Uploads, cur: Keys]

TypeOK ==
    /\ status \in [Runs -> RunStatus]
    /\ artifact \in [Runs -> Keys]
    /\ opened \in [Runs -> Keys]
    /\ store \subseteq Uploads
    /\ parts \subseteq Uploads
    /\ up \in [Uploads -> UploadRecord]
    /\ del \in [Deletes -> DeleteRecord]
    /\ project \in ProjectRecord
    /\ recon \in ReconRecord

Init ==
    /\ status = [r \in Runs |-> "NONE"]
    /\ artifact = [r \in Runs |-> NoKey]
    /\ opened = [r \in Runs |-> NoKey]
    /\ store = {}
    /\ parts = {}
    /\ up = [u \in Uploads |-> [pc |-> "idle", prev |-> NoKey, seen |-> "NONE"]]
    /\ del = [d \in Deletes |-> [pc |-> "idle", key |-> NoKey]]
    /\ project = [pc |-> "live", keys |-> {}]
    /\ recon = [pc |-> "idle", refs |-> {}, todo |-> {}, cur |-> NoKey]

Referenced == {artifact[r] : r \in Runs} \ {NoKey}

\* pg advisory lock of the run: an upload's transaction or a worker session.
RunLockFree(r) ==
    /\ opened[r] = NoKey
    /\ \A u \in Uploads : RunOf[u] = r => up[u].pc # "locked"

\* project-admin-guard: uploads selecting their object, project deletion.
GuardFree ==
    /\ \A u \in Uploads : up[u].pc \notin {"guarded", "locked"}
    /\ project.pc # "deciding"

UploadTo(u, pc) == up' = [up EXCEPT ![u].pc = pc]

-----------------------------------------------------------------------------
(* Uploads                                                                 *)

CreateRun(r) ==
    /\ project.pc = "live" /\ GuardFree
    /\ status[r] = "NONE"
    /\ status' = [status EXCEPT ![r] = "PENDING_UPLOAD"]
    /\ UNCHANGED <<artifact, opened, store, parts, apiVars, recon>>

\* Preflight in a short session, then the multipart entry.
StartUpload(u) ==
    /\ up[u].pc = "idle"
    /\ status[RunOf[u]] \in Uploadable
    /\ parts' = parts \cup {u}
    /\ UploadTo(u, "streaming")
    /\ UNCHANGED <<dbVars, opened, store, del, project, recon>>

\* The body or the publication fails; each cleanup is best effort.
AbortUpload(u) ==
    /\ up[u].pc = "streaming"
    /\ parts' \in {parts, parts \ {u}}
    /\ store' \in {store, store \cup {u}}
    /\ UploadTo(u, "done")
    /\ UNCHANGED <<dbVars, opened, del, project, recon>>

\* Hard link to the final name; removal of the multipart entry may be deferred.
PublishUpload(u) ==
    /\ up[u].pc = "streaming" /\ u \in parts
    /\ store' = store \cup {u}
    /\ parts' \in {parts, parts \ {u}}
    /\ UploadTo(u, "published")
    /\ UNCHANGED <<dbVars, opened, del, project, recon>>

\* Cancellation is delivered between the two critical steps.
CancelPublished(u) ==
    /\ up[u].pc = "published"
    /\ UploadTo(u, "discard")
    /\ UNCHANGED <<dbVars, opened, store, parts, del, project, recon>>

\* Guard, role and row: a deleted project or run ends the request.
EnterGuard(u) ==
    /\ up[u].pc = "published" /\ GuardFree
    /\ UploadTo(u, IF project.pc = "live" /\ status[RunOf[u]] # "NONE"
                   THEN "guarded" ELSE "discard")
    /\ UNCHANGED <<dbVars, opened, store, parts, del, project, recon>>

\* Run lock, then the row is refreshed under it.
LockRun(u) ==
    /\ up[u].pc = "guarded"
    /\ IF RunLockFree(RunOf[u]) /\ status[RunOf[u]] \in Uploadable
       THEN up' = [up EXCEPT ![u] = [pc |-> "locked", prev |-> artifact[RunOf[u]],
                                     seen |-> status[RunOf[u]]]]
       ELSE UploadTo(u, "discard")
    /\ UNCHANGED <<dbVars, opened, store, parts, del, project, recon>>

\* The UPDATE writes changed columns only: a row refreshed as UPLOADED keeps
\* the status a recovery claim may have given it in between.
SelectArtifact(u) ==
    /\ artifact' = [artifact EXCEPT ![RunOf[u]] = u]
    /\ status' = [status EXCEPT ![RunOf[u]] =
                    IF up[u].seen = "UPLOADED" THEN @ ELSE "UPLOADED"]

CommitPointer(u) ==
    /\ up[u].pc = "locked"
    /\ SelectArtifact(u)
    /\ UploadTo(u, "committed")
    /\ UNCHANGED <<opened, store, parts, del, project, recon>>

\* Mutant of CommitOutcomeUnknown: cleans up after every failure alike.
CommitOutcomeUnknownDiscards(u) ==
    /\ up[u].pc = "locked"
    /\ SelectArtifact(u) \/ UNCHANGED dbVars
    /\ UploadTo(u, "discard")
    /\ UNCHANGED <<opened, store, parts, del, project, recon>>

\* COMMIT raised: its outcome is unknown, so the object is kept.
CommitOutcomeUnknown(u) ==
    /\ up[u].pc = "locked"
    /\ SelectArtifact(u) \/ UNCHANGED dbVars
    /\ UploadTo(u, "done")
    /\ UNCHANGED <<opened, store, parts, del, project, recon>>

RollbackBeforeCommit(u) ==
    /\ up[u].pc \in {"guarded", "locked"}
    /\ UploadTo(u, "discard")
    /\ UNCHANGED <<dbVars, opened, store, parts, del, project, recon>>

DiscardObject(u) ==
    /\ up[u].pc = "discard"
    /\ store' \in {store, store \ {u}}
    /\ UploadTo(u, "done")
    /\ UNCHANGED <<dbVars, opened, parts, del, project, recon>>

DeleteSuperseded(u) ==
    /\ up[u].pc = "committed"
    /\ store' \in {store, store \ {up[u].prev}}
    /\ UploadTo(u, "done")
    /\ UNCHANGED <<dbVars, opened, parts, del, project, recon>>

\* The API process dies; Postgres rolls its transaction back.
CrashUpload(u) ==
    /\ up[u].pc \notin {"idle", "done"}
    /\ UploadTo(u, "done")
    /\ UNCHANGED <<dbVars, opened, store, parts, del, project, recon>>

-----------------------------------------------------------------------------
(* Run deletion: the row is read before the lock and never refreshed       *)

ReadRunForDelete(d) ==
    /\ del[d].pc = "idle" /\ status[DeleteOf[d]] # "NONE"
    /\ del' = [del EXCEPT ![d] = [pc |-> "read", key |-> artifact[DeleteOf[d]]]]
    /\ UNCHANGED <<dbVars, opened, store, parts, up, project, recon>>

RefuseDelete(d) ==
    /\ del[d].pc = "read" /\ ~RunLockFree(DeleteOf[d])
    /\ del' = [del EXCEPT ![d].pc = "failed"]
    /\ UNCHANGED <<dbVars, opened, store, parts, up, project, recon>>

CommitDelete(d) ==
    LET r == DeleteOf[d] IN
    /\ del[d].pc = "read" /\ RunLockFree(r)
    /\ del' = [del EXCEPT ![d].pc = "unlinking"]
    /\ status' = [status EXCEPT ![r] = "NONE"]
    /\ artifact' = [artifact EXCEPT ![r] = NoKey]
    /\ UNCHANGED <<opened, store, parts, up, project, recon>>

UnlinkDeleted(d) ==
    /\ del[d].pc = "unlinking"
    /\ \/ store' = store \ {del[d].key} /\ del' = [del EXCEPT ![d].pc = "done"]
       \/ store' = store /\ del' = [del EXCEPT ![d].pc = "failed"]
    /\ UNCHANGED <<dbVars, opened, parts, up, project, recon>>

-----------------------------------------------------------------------------
(* Project deletion                                                        *)

\* Mutant of DecideProject: the guard is not taken.
DecideProjectUnguarded ==
    /\ project.pc = "live"
    /\ \A r \in Runs : status[r] \notin Claimable
    /\ project' = [pc |-> "deciding", keys |-> Referenced]
    /\ UNCHANGED <<dbVars, opened, store, parts, up, del, recon>>

DecideProject ==
    /\ project.pc = "live" /\ GuardFree
    /\ \A r \in Runs : status[r] \notin Claimable
    /\ project' = [pc |-> "deciding", keys |-> Referenced]
    /\ UNCHANGED <<dbVars, opened, store, parts, up, del, recon>>

\* A run that cannot be locked, or a failed transaction.
RefuseProject ==
    /\ project.pc = "deciding"
    /\ project' = [pc |-> "live", keys |-> {}]
    /\ UNCHANGED <<dbVars, opened, store, parts, up, del, recon>>

CommitProject ==
    /\ project.pc = "deciding"
    /\ \A r \in Runs : RunLockFree(r)
    /\ status' = [r \in Runs |-> "NONE"]
    /\ artifact' = [r \in Runs |-> NoKey]
    /\ project' = [project EXCEPT !.pc = "unlinking"]
    /\ UNCHANGED <<opened, store, parts, up, del, recon>>

\* Mutant of UnlinkProjectKey: objects go before the transaction commits.
UnlinkProjectKeyEarly(k) ==
    /\ project.pc \in {"deciding", "unlinking"} /\ k \in project.keys
    /\ store' \in {store, store \ {k}}
    /\ project' = [project EXCEPT !.keys = @ \ {k}]
    /\ UNCHANGED <<dbVars, opened, parts, up, del, recon>>

UnlinkProjectKey(k) ==
    /\ project.pc = "unlinking" /\ k \in project.keys
    /\ store' \in {store, store \ {k}}
    /\ project' = [project EXCEPT !.keys = @ \ {k}]
    /\ UNCHANGED <<dbVars, opened, parts, up, del, recon>>

FinishProject ==
    /\ project.pc = "unlinking"
    /\ project' = [pc |-> "gone", keys |-> {}]
    /\ UNCHANGED <<dbVars, opened, store, parts, up, del, recon>>

-----------------------------------------------------------------------------
(* The worker, as far as artifacts are concerned                           *)

\* The recovery scan claims a row without the run lock.
ClaimRun(r) ==
    /\ status[r] \in Claimable /\ artifact[r] # NoKey
    /\ status' = [status EXCEPT ![r] = "INGESTING"]
    /\ UNCHANGED <<artifact, opened, store, parts, apiVars, recon>>

\* Mutant of OpenArtifact: the worker does not take the run lock.
OpenArtifactUnlocked(r) ==
    /\ status[r] \in Claimable /\ artifact[r] # NoKey
    /\ status' = [status EXCEPT ![r] = "INGESTING"]
    /\ opened' = [opened EXCEPT ![r] = artifact[r]]
    /\ UNCHANGED <<artifact, store, parts, apiVars, recon>>

OpenArtifact(r) ==
    /\ RunLockFree(r)
    /\ status[r] \in Claimable /\ artifact[r] # NoKey
    /\ status' = [status EXCEPT ![r] = "INGESTING"]
    /\ opened' = [opened EXCEPT ![r] = artifact[r]]
    /\ UNCHANGED <<artifact, store, parts, apiVars, recon>>

RejectMissingArtifact(r) ==
    /\ RunLockFree(r)
    /\ status[r] # "NONE" /\ artifact[r] = NoKey
    /\ status' = [status EXCEPT ![r] = "FAILED"]
    /\ UNCHANGED <<artifact, opened, store, parts, apiVars, recon>>

\* Paused, retried, completed, failed, or died with the row left INGESTING.
CloseArtifact(r) ==
    /\ opened[r] # NoKey
    /\ opened' = [opened EXCEPT ![r] = NoKey]
    /\ \E s \in Claimable \cup {"COMPLETE", "FAILED"} :
          status' = [status EXCEPT ![r] = s]
    /\ UNCHANGED <<artifact, store, parts, apiVars, recon>>

-----------------------------------------------------------------------------
(* reconcile_artifacts --apply                                             *)

\* A file is a candidate when it is older than the minimum age (at least one
\* hour, 24 by default).  Assumed: no request lives that long between the
\* last byte of its object and its commit.
OldEnough(k) == up[k].pc \notin InFlight

LoadReferences ==
    /\ recon.pc = "idle"
    /\ recon' = [pc |-> "loaded", refs |-> Referenced, todo |-> {}, cur |-> NoKey]
    /\ UNCHANGED <<dbVars, opened, store, parts, apiVars>>

ScanStore ==
    /\ recon.pc = "loaded"
    /\ \E old \in SUBSET {k \in store \ recon.refs : OldEnough(k)} :
          recon' = [pc |-> "deleting", refs |-> {}, todo |-> old, cur |-> NoKey]
    /\ UNCHANGED <<dbVars, opened, store, parts, apiVars>>

\* Mutant of CheckCandidate: trusts the references loaded before the scan.
CheckCandidateUnverified(k) ==
    /\ recon.pc = "deleting" /\ k \in recon.todo
    /\ recon' = [pc |-> "unlinking", refs |-> {}, todo |-> recon.todo \ {k}, cur |-> k]
    /\ UNCHANGED <<dbVars, opened, store, parts, apiVars>>

CheckCandidate(k) ==
    /\ recon.pc = "deleting" /\ k \in recon.todo
    /\ recon' = IF k \in Referenced
                THEN [recon EXCEPT !.todo = @ \ {k}]
                ELSE [pc |-> "unlinking", refs |-> {}, todo |-> recon.todo \ {k},
                      cur |-> k]
    /\ UNCHANGED <<dbVars, opened, store, parts, apiVars>>

\* A candidate that has disappeared since is skipped: the same next state.
UnlinkCandidate ==
    /\ recon.pc = "unlinking"
    /\ store' = store \ {recon.cur}
    /\ recon' = [pc |-> "deleting", refs |-> {}, todo |-> recon.todo, cur |-> NoKey]
    /\ UNCHANGED <<dbVars, opened, parts, apiVars>>

\* A multipart entry untouched for the minimum age: its client may be stalled.
UnlinkStaleParts(k) ==
    /\ recon.pc = "deleting" /\ k \in parts
    /\ parts' = parts \ {k}
    /\ UNCHANGED <<dbVars, opened, store, apiVars, recon>>

\* All candidates handled, the deletion limit reached, or the process died.
FinishReconcile ==
    /\ recon.pc # "idle"
    /\ recon' = [pc |-> "idle", refs |-> {}, todo |-> {}, cur |-> NoKey]
    /\ UNCHANGED <<dbVars, opened, store, parts, apiVars>>

-----------------------------------------------------------------------------
UploadStep(u) ==
    \/ StartUpload(u) \/ AbortUpload(u) \/ PublishUpload(u) \/ CancelPublished(u)
    \/ EnterGuard(u) \/ LockRun(u) \/ CommitPointer(u) \/ CommitOutcomeUnknown(u)
    \/ RollbackBeforeCommit(u) \/ DiscardObject(u) \/ DeleteSuperseded(u)
    \/ CrashUpload(u)

DeleteStep(d) ==
    \/ ReadRunForDelete(d) \/ RefuseDelete(d) \/ CommitDelete(d) \/ UnlinkDeleted(d)

ProjectStep ==
    \/ DecideProject \/ RefuseProject \/ CommitProject \/ FinishProject
    \/ \E k \in Uploads : UnlinkProjectKey(k)

WorkerStep(r) ==
    \/ ClaimRun(r) \/ OpenArtifact(r) \/ RejectMissingArtifact(r) \/ CloseArtifact(r)

ReconcileStep ==
    \/ LoadReferences \/ ScanStore \/ UnlinkCandidate \/ FinishReconcile
    \/ \E k \in Uploads : CheckCandidate(k) \/ UnlinkStaleParts(k)

Next ==
    \/ \E r \in Runs : CreateRun(r) \/ WorkerStep(r)
    \/ \E u \in Uploads : UploadStep(u)
    \/ \E d \in Deletes : DeleteStep(d)
    \/ ProjectStep
    \/ ReconcileStep

Spec == Init /\ [][Next]_vars

-----------------------------------------------------------------------------
(* Properties                                                              *)

\* Whatever races with it, no run row ever names an object that is not in the
\* store: neither the cleanup of superseded, discarded or deleted artifacts
\* nor the reconciler reaches an object a run selected.
NoDanglingArtifact == \A r \in Runs : artifact[r] # NoKey => artifact[r] \in store

\* While a worker session holds the run lock the object it reads stays the
\* run's artifact and stays in the store: replacement, deletion and
\* reconciliation all keep away from it.
IngestReadsStoredArtifact ==
    \A r \in Runs : opened[r] # NoKey => opened[r] = artifact[r] /\ opened[r] \in store

\* An object that disappears is garbage: no row names it, before or after the
\* step, and the request that wrote it can no longer select it.
ReclaimedOnlyGarbage ==
    [][\A k \in store \ store' :
          k \notin Referenced \cup Referenced' /\ up[k].pc \notin InFlight]_vars

-----------------------------------------------------------------------------
(* The inductive strengthening                                             *)

\* A key is named by its own run only, from its upload's commit on.
KeyOwnership ==
    \A r \in Runs : artifact[r] # NoKey =>
        RunOf[artifact[r]] = r /\ up[artifact[r]].pc \in {"committed", "done"}

\* A published object waits in the store for its request to select it; every
\* object was written by a request.
PendingObjectsStored ==
    /\ \A u \in Uploads : up[u].pc \in {"published", "guarded", "locked"} => u \in store
    /\ \A u \in store : up[u].pc # "idle"

\* The keys about to be unlinked are no run's artifact any more, or will not be
\* when they are.
Retired(k) == k # NoKey =>
    k \notin Referenced /\ up[k].pc \in {"committed", "done"}

PreviousIsCurrent ==
    \A u \in Uploads : up[u].pc = "locked" => up[u].prev = artifact[RunOf[u]]

\* One session at a time holds the lock of a run.
RunLockExclusive ==
    /\ \A u \in Uploads : up[u].pc = "locked" => opened[RunOf[u]] = NoKey
    /\ \A u, v \in Uploads :
          up[u].pc \in {"guarded", "locked"} /\ up[v].pc \in {"guarded", "locked"} => u = v
    /\ project.pc = "deciding" => \A u \in Uploads : up[u].pc \notin {"guarded", "locked"}

KeysToUnlinkRetired ==
    /\ \A u \in Uploads : up[u].pc = "committed" => Retired(up[u].prev)
    /\ \A d \in Deletes :
          /\ del[d].key # NoKey => /\ RunOf[del[d].key] = DeleteOf[d]
                                   /\ up[del[d].key].pc \in {"committed", "done"}
          /\ del[d].pc = "unlinking" => Retired(del[d].key)
    /\ project.pc = "deciding" => \A k \in project.keys : up[k].pc \in {"committed", "done"}
    /\ project.pc = "unlinking" => \A k \in project.keys : Retired(k)
    /\ \A k \in recon.todo : up[k].pc \notin InFlight \cup {"idle"}
    /\ recon.cur # NoKey => /\ recon.cur \notin Referenced
                            /\ up[recon.cur].pc \notin InFlight \cup {"idle"}

IInv ==
    /\ TypeOK
    /\ NoDanglingArtifact
    /\ IngestReadsStoredArtifact
    /\ KeyOwnership
    /\ PendingObjectsStored
    /\ PreviousIsCurrent
    /\ RunLockExclusive
    /\ KeysToUnlinkRetired
=============================================================================

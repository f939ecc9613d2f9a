---------------------------- MODULE RunContract ----------------------------
(***************************************************************************)
(* What the ingest pipeline promises about a scan run: an accepted         *)
(* artifact is eventually published whole, in one step, or the run fails;  *)
(* a published inventory never changes, it can only be removed.            *)
(***************************************************************************)
EXTENDS Naturals

CONSTANTS
    Runs,
    MaxUploads,     \* artifacts a run may be given: 1..MaxUploads
    ArtifactLines   \* lines of an artifact

VARIABLES
    phase,      \* of a run
    artifact,   \* the artifact it was last given, 0 when none
    published   \* the inventory readers are shown as complete

contractVars == <<phase, artifact, published>>

Phase      == {"absent", "pending", "accepted", "complete", "failed"}
Content(v) == {v} \X (1 .. ArtifactLines)

ContractInit ==
    /\ phase = [r \in Runs |-> "absent"]
    /\ artifact = [r \in Runs |-> 0]
    /\ published = [r \in Runs |-> {}]

Create(r) ==
    /\ phase[r] = "absent"
    /\ phase' = [phase EXCEPT ![r] = "pending"]
    /\ UNCHANGED <<artifact, published>>

\* A new artifact replaces one that was not published.
Accept(r) ==
    /\ phase[r] \in {"pending", "accepted", "failed"}
    /\ \E v \in 1 .. MaxUploads :
          v > artifact[r] /\ artifact' = [artifact EXCEPT ![r] = v]
    /\ phase' = [phase EXCEPT ![r] = "accepted"]
    /\ UNCHANGED published

Publish(r) ==
    /\ phase[r] = "accepted"
    /\ phase' = [phase EXCEPT ![r] = "complete"]
    /\ published' = [published EXCEPT ![r] = Content(artifact[r])]
    /\ UNCHANGED artifact

Fail(r) ==
    /\ phase[r] \in {"pending", "accepted"}
    /\ phase' = [phase EXCEPT ![r] = "failed"]
    /\ UNCHANGED <<artifact, published>>

Remove(r) ==
    /\ phase[r] # "absent"
    /\ phase' = [phase EXCEPT ![r] = "absent"]
    /\ artifact' = [artifact EXCEPT ![r] = 0]
    /\ published' = [published EXCEPT ![r] = {}]

ContractNext ==
    \E r \in Runs : Create(r) \/ Accept(r) \/ Publish(r) \/ Fail(r) \/ Remove(r)

\* An accepted run does not stay accepted.
Settle(r) == phase[r] = "accepted" /\ (Publish(r) \/ Fail(r) \/ Remove(r))

ContractSafety == ContractInit /\ [][ContractNext]_contractVars
ContractSpec   == ContractSafety /\ \A r \in Runs : WF_contractVars(Settle(r))
=============================================================================

------------------------ MODULE MCArtifactLifecycle ------------------------
(* A small instance of ArtifactLifecycle: which run each request addresses. *)
EXTENDS ArtifactLifecycle, TLC

CONSTANTS r1, u1, u2, d1

OneRunTwoUploads == u1 :> r1 @@ u2 :> r1
OneDelete        == d1 :> r1

Symmetry == Permutations({u1, u2})
=============================================================================

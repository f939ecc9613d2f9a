------------------------ MODULE MCUserAdministration ------------------------
(* Small instances of UserAdministration. *)
EXTENDS UserAdministration, TLC

CONSTANTS u1, u2, q1, q2

Symmetry == Permutations({u1, u2}) \cup Permutations({q1, q2})
=============================================================================

-------------------------- MODULE MCProjectMembers --------------------------
(* Small instances of ProjectMembers. *)
EXTENDS ProjectMembers, TLC

CONSTANTS p1, p2, u1, u2, q1, q2

Upsert(u, new)            == [op |-> "upsert", target |-> u, new |-> new, overwrite |-> FALSE]
Remove(u)                 == [op |-> "remove", target |-> u, new |-> "none", overwrite |-> FALSE]
Assign(u, new, overwrite) == [op |-> "assign", target |-> u, new |-> new, overwrite |-> overwrite]

\* Everything that can be asked for a member.
Everything(u) ==
    {Remove(u)} \cup {Upsert(u, new) : new \in ProjectRole}
        \cup {Assign(u, new, overwrite) : new \in ProjectRole, overwrite \in BOOLEAN}
\* Everything that takes the role of an administrator from a member.
Demotions(u) == {Remove(u), Upsert(u, "viewer"), Assign(u, "viewer", TRUE)}
TwoMembers == q1 :> Everything(u1) @@ q2 :> Demotions(u2) \cup {Upsert(u1, "admin")}
=============================================================================

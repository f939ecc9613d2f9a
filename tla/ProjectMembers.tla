--------------------------- MODULE ProjectMembers ---------------------------
(***************************************************************************)
(* Memberships of projects, and the guard that is to keep an administrator *)
(* in each of them.                                                        *)
(*                                                                         *)
(* A request is one database transaction (READ COMMITTED, no autoflush):   *)
(* it reads the target's membership of one project, or of all of them, may *)
(* take a project's advisory lock to count its other administrators, and   *)
(* writes everything when it commits.  Authorization is left out: each     *)
(* change can be asked for through an endpoint for sysadmins.              *)
(***************************************************************************)
CONSTANTS
    Projects, Users, Requests,
    LesserRoles,    \* the ProjectRoles that are not "admin"
    Asked,          \* bound: what each request may be made for
    NoRequest, NoProject, NoUser

ProjectRole == {"admin"} \cup LesserRoles
Membership  == {"none"} \cup ProjectRole

\* What a request asks for its target; a removal gives the membership "none".
Ask == [op: {"upsert", "assign"}, target: Users, new: ProjectRole, overwrite: BOOLEAN]
           \cup [op: {"remove"}, target: Users, new: {"none"}, overwrite: {FALSE}]

ASSUME MembersAssumption ==
    /\ {"admin", "none", "keep"} \cap LesserRoles = {}
    /\ Asked \in [Requests -> SUBSET Ask]
    /\ NoRequest \notin Requests
    /\ NoProject \notin Projects
    /\ NoUser \notin Users

VARIABLES
    life,       \* "unborn", "live" or "deleted"
    role,       \* project_members: role[p][u], "none" when there is no row
    guard,      \* holder of the project's advisory lock
    req,        \* what each request is doing
    overtaken   \* history: projects where a commit took the admin role from
                \* a member whom its request had read in another role

vars == <<life, role, guard, req, overtaken>>

\* seen[p] is the membership it read in p and is going to change, "keep" while there is none.
Request == [op: {"idle", "upsert", "remove", "assign"},
            target: Users \cup {NoUser}, new: Membership, overwrite: BOOLEAN,
            todo: SUBSET Projects,          \* projects still to be read
            at: Projects \cup {NoProject},  \* project whose guard it needs
            seen: [Projects -> Membership \cup {"keep"}]]
Idle    == [op |-> "idle", target |-> NoUser, new |-> "none", overwrite |-> FALSE,
            todo |-> {}, at |-> NoProject, seen |-> [p \in Projects |-> "keep"]]

TypeOK ==
    /\ life \in [Projects -> {"unborn", "live", "deleted"}]
    /\ role \in [Projects -> [Users -> Membership]]
    /\ guard \in [Projects -> Requests \cup {NoRequest}]
    /\ req \in [Requests -> Request]
    /\ overtaken \subseteq Projects

Init ==
    /\ life = [p \in Projects |-> "unborn"]
    /\ role = [p \in Projects |-> [u \in Users |-> "none"]]
    /\ guard = [p \in Projects |-> NoRequest]
    /\ req = [r \in Requests |-> Idle]
    /\ overtaken = {}

\* Mutant of Others: the target is counted as well.
OthersAndTarget(p, u) == {v \in Users : role[p][v] = "admin"}

\* The administrators _count_project_admins counts for target u.
Others(p, u) == {v \in Users \ {u} : role[p][v] = "admin"}

-----------------------------------------------------------------------------
(* Projects *)

\* create_project: its creator becomes the administrator.
CreateProject(p, u) ==
    /\ life[p] = "unborn"
    /\ life' = [life EXCEPT ![p] = "live"]
    /\ role' = [role EXCEPT ![p][u] = "admin"]
    /\ UNCHANGED <<guard, req, overtaken>>

\* delete_project holds the guard from its first statement to its commit; the
\* memberships go by cascade.
DeleteProject(p) ==
    /\ life[p] = "live"
    /\ guard[p] = NoRequest
    /\ life' = [life EXCEPT ![p] = "deleted"]
    /\ role' = [role EXCEPT ![p] = [u \in Users |-> "none"]]
    /\ UNCHANGED <<guard, req, overtaken>>

-----------------------------------------------------------------------------
(* Requests *)

\* The transaction ends and its advisory locks with it.
End(r) ==
    /\ req' = [req EXCEPT ![r] = Idle]
    /\ guard' = [p \in Projects |-> IF guard[p] = r THEN NoRequest ELSE guard[p]]

Begin(r, ask, todo) ==
    /\ req[r].op = "idle"
    /\ req' = [req EXCEPT ![r] = [Idle EXCEPT !.op = ask.op, !.target = ask.target,
                                 !.new = ask.new, !.overwrite = ask.overwrite, !.todo = todo]]
    /\ UNCHANGED <<life, role, guard, overtaken>>

\* add_member, add_member_by_email, upsert_project_membership.
BeginUpsert(r, p, ask) == ask.op = "upsert" /\ life[p] = "live" /\ Begin(r, ask, {p})

\* remove_member, remove_project_membership.
BeginRemove(r, p, ask) == ask.op = "remove" /\ life[p] = "live" /\ Begin(r, ask, {p})

\* _assign_user_to_all_projects, called by three endpoints: the projects of one SELECT.
BeginAssign(r, ask) ==
    ask.op = "assign" /\ Begin(r, ask, {p \in Projects : life[p] = "live"})

\* What a request does once it knows the membership m of its target.
NothingToDo(r, m) ==
    /\ m # "none"
    /\ \/ req[r].op = "assign" /\ ~req[r].overwrite
       \/ req[r].op # "remove" /\ m = req[r].new

TakesAdmin(r, m) == m = "admin" /\ req[r].new # "admin" /\ ~NothingToDo(r, m)

\* db.get(ProjectMember, ...).  The SELECT has no ORDER BY, so an assignment
\* meets the projects in any order.  A removal that finds no row is refused.
ReadMembership(r, p) ==
    LET m == role[p][req[r].target] IN
    /\ req[r].at = NoProject
    /\ p \in req[r].todo
    /\ \/ /\ req[r].op = "remove" /\ m = "none"
          /\ End(r)
       \/ /\ req[r].op # "remove" \/ m # "none"
          /\ req' = [req EXCEPT ![r].todo = @ \ {p},
                                ![r].at = IF TakesAdmin(r, m) THEN p ELSE NoProject,
                                ![r].seen[p] = IF NothingToDo(r, m) THEN "keep" ELSE m]
          /\ UNCHANGED guard
    /\ UNCHANGED <<life, role, overtaken>>

\* Mutant of CountAdmins: the guard is not taken.
CountAdminsUnguarded(r, p) ==
    /\ req[r].at = p
    /\ Others(p, req[r].target) # {}
    /\ req' = [req EXCEPT ![r].at = NoProject]
    /\ UNCHANGED <<life, role, guard, overtaken>>

\* _count_project_admins waits for the guard and then counts.  Both are one
\* step: what others do between them is done before.  Without another
\* administrator an assignment skips the project, the others are refused.
CountAdmins(r, p) ==
    /\ req[r].at = p
    /\ guard[p] \in {NoRequest, r}
    /\ \/ /\ Others(p, req[r].target) # {}
          /\ guard' = [guard EXCEPT ![p] = r]
          /\ req' = [req EXCEPT ![r].at = NoProject]
       \/ /\ Others(p, req[r].target) = {} /\ req[r].op = "assign"
          /\ guard' = [guard EXCEPT ![p] = r]
          /\ req' = [req EXCEPT ![r].at = NoProject, ![r].seen[p] = "keep"]
       \/ /\ Others(p, req[r].target) = {} /\ req[r].op # "assign"
          /\ End(r)
    /\ UNCHANGED <<life, role, overtaken>>

Writes(r) == {p \in Projects : req[r].seen[p] # "keep"}
Ready(r)  == req[r].op # "idle" /\ req[r].todo = {} /\ req[r].at = NoProject

\* INSERT needs that there is no row and still a project, UPDATE by primary key
\* that there is a row; a DELETE that finds none only logs a warning.
Conflict(r, p) ==
    LET m == role[p][req[r].target] IN
    \/ req[r].seen[p] = "none" /\ (m # "none" \/ life[p] # "live")
    \/ req[r].seen[p] # "none" /\ req[r].op # "remove" /\ m = "none"

Written(r, p) == [role[p] EXCEPT ![req[r].target] = req[r].new]

\* The session flushes every change at once and commits.
Commit(r) ==
    /\ Ready(r)
    /\ \A p \in Writes(r) : ~Conflict(r, p)
    /\ role' = [p \in Projects |-> IF p \in Writes(r) THEN Written(r, p) ELSE role[p]]
    /\ overtaken' = overtaken \cup
           {p \in Writes(r) : /\ req[r].seen[p] # "admin"
                              /\ role[p][req[r].target] = "admin"
                              /\ req[r].new # "admin"}
    /\ End(r)
    /\ UNCHANGED life

\* IntegrityError or StaleDataError: nothing is written.
CommitFails(r) ==
    /\ Ready(r)
    /\ \E p \in Writes(r) : Conflict(r, p)
    /\ End(r)
    /\ UNCHANGED <<life, role, overtaken>>

\* Mutant of LockTimeout: a request that holds another project's guard tries again.
LockTimeoutRetried(r) ==
    /\ req[r].at # NoProject
    /\ guard[req[r].at] \notin {NoRequest, r}
    /\ \A p \in Projects : guard[p] # r
    /\ End(r)
    /\ UNCHANGED <<life, role, overtaken>>

\* lock_timeout, or PostgreSQL's own deadlock detection, ends a waiting request.
LockTimeout(r) ==
    /\ req[r].at # NoProject
    /\ guard[req[r].at] \notin {NoRequest, r}
    /\ End(r)
    /\ UNCHANGED <<life, role, overtaken>>

\* Any other statement fails, or the process dies: get_db rolls back.
Rollback(r) ==
    /\ req[r].op # "idle"
    /\ End(r)
    /\ UNCHANGED <<life, role, overtaken>>

-----------------------------------------------------------------------------
Progress(r) ==
    \/ \E p \in Projects : ReadMembership(r, p) \/ CountAdmins(r, p)
    \/ Commit(r)
    \/ CommitFails(r)
    \/ LockTimeout(r)

Next ==
    \/ \E p \in Projects : (\E u \in Users : CreateProject(p, u)) \/ DeleteProject(p)
    \/ \E r \in Requests :
          \/ \E ask \in Asked[r] :
                BeginAssign(r, ask) \/ \E p \in Projects : BeginUpsert(r, p, ask) \/ BeginRemove(r, p, ask)
          \/ Progress(r)
          \/ Rollback(r)

Spec     == Init /\ [][Next]_vars
FairSpec == Spec /\ \A r \in Requests : WF_vars(Progress(r))

-----------------------------------------------------------------------------
(* Properties *)

HasAdmin(p) == \E u \in Users : role[p][u] = "admin"

\* Whatever requests run at the same time, a live project has an administrator,
\* unless a commit demoted a member who had been promoted since its request
\* read the row: the guard of _count_project_admins orders all other changes.
AdminUnlessOvertaken ==
    \A p \in Projects : life[p] = "live" => HasAdmin(p) \/ p \in overtaken

\* r has counted the other administrators of p and will demote its target.
Counted(r, p) == req[r].seen[p] = "admin" /\ req[r].new # "admin" /\ req[r].at # p

\* What a request counted under the guard still holds when it commits: the
\* project it is about to take an administrator from has another one.
CountStaysTrue ==
    \A r \in Requests, p \in Projects :
        Counted(r, p) /\ p \notin overtaken => Others(p, req[r].target) # {}

\* The inductive invariant: with the two above, a counted decision owns the
\* guard until its transaction ends, and only a request for a user reads rows.
IInv ==
    /\ TypeOK
    /\ AdminUnlessOvertaken
    /\ CountStaysTrue
    /\ \A r \in Requests, p \in Projects : Counted(r, p) => guard[p] = r
    /\ \A r \in Requests :
           req[r].todo # {} \/ req[r].at # NoProject => req[r].target \in Users

\* Two assignments that demote members hold the guard of a project each and may wait for
\* each other's; the lock timeout ends that, so every request ends.
RequestsEnd ==
    \A r \in Requests : (req[r].op # "idle") ~> (req[r].op = "idle")
=============================================================================

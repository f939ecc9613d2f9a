------------------------ MODULE ProjectMembersProofs ------------------------
(***************************************************************************)
(* The guard keeps an administrator in every project, for any number of    *)
(* projects, users and concurrent requests, except where a commit demotes  *)
(* a member promoted since its request read the row.                       *)
(***************************************************************************)
EXTENDS ProjectMembers, TLAPS

OwnsGuard ==
    \A r \in Requests, p \in Projects : Counted(r, p) => guard[p] = r
HasTarget ==
    \A r \in Requests :
        req[r].todo # {} \/ req[r].at # NoProject => req[r].target \in Users

LEMMA Initial == Init => IInv
BY MembersAssumption
   DEF Init, IInv, TypeOK, AdminUnlessOvertaken, CountStaysTrue, Counted, Idle, Request, Membership, ProjectRole

\* A step that changes only requests, and ends none with a count, keeps IInv
\* when the request it changes keeps its own conjuncts.
LEMMA RequestStep ==
    ASSUME IInv, NEW r \in Requests,
           UNCHANGED <<life, role, overtaken>>,
           TypeOK', HasTarget',
           \A s \in Requests \ {r} : req'[s] = req[s],
           \A s \in Requests \ {r}, p \in Projects : guard[p] = s => guard'[p] = s,
           \A p \in Projects :
               Counted(r, p)' => /\ guard'[p] = r
                                 /\ p \in overtaken \/ Others(p, req'[r].target) # {}
    PROVE  IInv'
<1>1. AdminUnlessOvertaken'
  BY DEF IInv, AdminUnlessOvertaken, HasAdmin
<1>2. CountStaysTrue'
  <2> SUFFICES ASSUME NEW s \in Requests, NEW p \in Projects, Counted(s, p)', p \notin overtaken
               PROVE  Others(p, req'[s].target) # {}
    BY DEF CountStaysTrue, Others
  <2>1. CASE s = r
    BY <2>1
  <2>2. CASE s # r
    BY <2>2 DEF IInv, CountStaysTrue, Counted
  <2> QED BY <2>1, <2>2
<1>3. OwnsGuard'
  BY DEF IInv, OwnsGuard, Counted
<1> QED BY <1>1, <1>2, <1>3 DEF IInv, OwnsGuard, HasTarget

LEMMA EndKeeps ==
    ASSUME IInv, NEW r \in Requests, End(r)
    PROVE  /\ req' \in [Requests -> Request]
           /\ guard' \in [Projects -> Requests \cup {NoRequest}]
           /\ HasTarget'
           /\ \A s \in Requests \ {r} : req'[s] = req[s]
           /\ \A s \in Requests \ {r}, p \in Projects : guard[p] = s => guard'[p] = s
           /\ \A p \in Projects : ~Counted(r, p)'
<1>1. req' \in [Requests -> Request] /\ req'[r] = Idle
  BY MembersAssumption DEF IInv, TypeOK, End, Idle, Request, Membership
<1>2. guard' \in [Projects -> Requests \cup {NoRequest}]
  BY DEF IInv, TypeOK, End
<1>3. \A s \in Requests \ {r} : req'[s] = req[s]
  BY DEF IInv, TypeOK, End
<1>4. HasTarget'
  BY <1>1, <1>3 DEF IInv, HasTarget, Idle
<1>5. \A s \in Requests \ {r}, p \in Projects : guard[p] = s => guard'[p] = s
  BY DEF End
<1>6. \A p \in Projects : ~Counted(r, p)'
  BY <1>1 DEF Counted, Idle
<1> QED BY <1>1, <1>2, <1>3, <1>4, <1>5, <1>6

LEMMA EndStep ==
    ASSUME IInv, NEW r \in Requests, End(r), UNCHANGED <<life, role, overtaken>>
    PROVE  IInv'
<1>1. TypeOK'
  BY EndKeeps DEF IInv, TypeOK
<1> QED BY <1>1, EndKeeps, RequestStep

-----------------------------------------------------------------------------
LEMMA CreateProjectStep ==
    ASSUME IInv, NEW p \in Projects, NEW u \in Users, CreateProject(p, u)
    PROVE  IInv'
<1>1. TypeOK'
  BY DEF IInv, TypeOK, CreateProject, Membership, ProjectRole
<1>2. /\ \A q \in Projects, v \in Users : role[q][v] = "admin" => role'[q][v] = "admin"
      /\ role'[p][u] = "admin"
      /\ \A q \in Projects \ {p} : life'[q] = life[q]
  BY DEF IInv, TypeOK, CreateProject
<1>3. AdminUnlessOvertaken'
  BY <1>2 DEF IInv, AdminUnlessOvertaken, HasAdmin, CreateProject
<1>4. CountStaysTrue'
  BY <1>2 DEF IInv, CountStaysTrue, Counted, Others, CreateProject
<1> QED BY <1>1, <1>3, <1>4 DEF IInv, Counted, CreateProject

\* A project with a counted decision is not deleted: its guard is taken.
LEMMA DeleteProjectStep ==
    ASSUME IInv, NEW p \in Projects, DeleteProject(p)
    PROVE  IInv'
<1>1. TypeOK'
  BY DEF IInv, TypeOK, DeleteProject, Membership
<1>2. /\ \A q \in Projects \ {p} : role'[q] = role[q] /\ life'[q] = life[q]
      /\ life'[p] = "deleted"
  BY DEF IInv, TypeOK, DeleteProject
<1>3. AdminUnlessOvertaken'
  BY <1>2 DEF IInv, AdminUnlessOvertaken, HasAdmin, DeleteProject
<1>4. \A r \in Requests : ~Counted(r, p)
  BY MembersAssumption DEF IInv, DeleteProject
<1>5. CountStaysTrue'
  BY <1>2, <1>4 DEF IInv, CountStaysTrue, Counted, Others, DeleteProject
<1> QED BY <1>1, <1>3, <1>5 DEF IInv, Counted, DeleteProject

LEMMA BeginStep ==
    ASSUME IInv, NEW r \in Requests, NEW ask \in Asked[r], NEW todo \in SUBSET Projects,
           Begin(r, ask, todo)
    PROVE  IInv'
<1> DEFINE q == [Idle EXCEPT !.op = ask.op, !.target = ask.target, !.new = ask.new,
                             !.overwrite = ask.overwrite, !.todo = todo]
<1>1. ask \in Ask
  BY MembersAssumption
<1>2. /\ ask.op \in {"upsert", "remove", "assign"} /\ ask.target \in Users
      /\ ask.new \in Membership /\ ask.overwrite \in BOOLEAN
  BY <1>1 DEF Ask, Membership
<1>3. /\ q \in Request /\ q.target \in Users
      /\ q.seen = [p \in Projects |-> "keep"]
  BY <1>2 DEF Idle, Request
<1>4. req' = [req EXCEPT ![r] = q] /\ UNCHANGED <<life, role, guard, overtaken>>
  BY DEF Begin
<1> HIDE DEF q
<1>5. TypeOK' /\ req'[r] = q /\ \A s \in Requests \ {r} : req'[s] = req[s]
  BY <1>3, <1>4 DEF IInv, TypeOK
<1>6. HasTarget'
  BY <1>3, <1>5 DEF IInv, HasTarget
<1>7. \A p \in Projects : ~Counted(r, p)'
  BY <1>3, <1>5 DEF Counted
<1> QED BY <1>4, <1>5, <1>6, <1>7, RequestStep

LEMMA ReadMembershipStep ==
    ASSUME IInv, NEW r \in Requests, NEW p \in Projects, ReadMembership(r, p)
    PROVE  IInv'
<1> DEFINE m == role[p][req[r].target]
<1>1. CASE End(r)
  BY <1>1, EndStep DEF ReadMembership
<1>2. CASE ~End(r)
  <2>1. /\ req' = [req EXCEPT ![r].todo = @ \ {p},
                              ![r].at = IF TakesAdmin(r, m) THEN p ELSE NoProject,
                              ![r].seen[p] = IF NothingToDo(r, m) THEN "keep" ELSE m]
        /\ UNCHANGED <<life, role, guard, overtaken>>
        /\ req[r].at = NoProject /\ p \in req[r].todo
    BY <1>2 DEF ReadMembership
  <2>2. m \in Membership
    BY <2>1 DEF IInv, TypeOK
  <2> HIDE DEF m
  <2>3. TypeOK'
    <3>1. req[r] \in Request
      BY DEF IInv, TypeOK
    <3>2. [req[r] EXCEPT !.todo = @ \ {p},
                         !.at = IF TakesAdmin(r, m) THEN p ELSE NoProject,
                         !.seen[p] = IF NothingToDo(r, m) THEN "keep" ELSE m] \in Request
      BY <2>2, <3>1 DEF Request
    <3>3. req' = [req EXCEPT ![r] =
                     [req[r] EXCEPT !.todo = @ \ {p},
                                    !.at = IF TakesAdmin(r, m) THEN p ELSE NoProject,
                                    !.seen[p] = IF NothingToDo(r, m) THEN "keep" ELSE m]]
      BY <2>1
    <3> QED BY <2>1, <3>2, <3>3 DEF IInv, TypeOK
  <2>4. /\ \A s \in Requests \ {r} : req'[s] = req[s]
        /\ req'[r].target = req[r].target /\ req'[r].new = req[r].new
        /\ req'[r].at = IF TakesAdmin(r, m) THEN p ELSE NoProject
        /\ req'[r].seen[p] = IF NothingToDo(r, m) THEN "keep" ELSE m
        /\ \A o \in Projects \ {p} : req'[r].seen[o] = req[r].seen[o]
    BY <2>1 DEF IInv, TypeOK, Request
  <2>5. HasTarget'
    BY <2>1, <2>4 DEF IInv, HasTarget
  <2>6. ~Counted(r, p)'
    BY <2>4 DEF Counted, TakesAdmin
  <2>7. \A o \in Projects \ {p} : Counted(r, o)' => Counted(r, o)
    BY <2>1, <2>4, MembersAssumption DEF Counted
  <2>8. ASSUME NEW o \in Projects, Counted(r, o)'
        PROVE  guard'[o] = r /\ (o \in overtaken \/ Others(o, req'[r].target) # {})
    <3>1. o # p /\ Counted(r, o)
      BY <2>6, <2>7, <2>8
    <3> QED BY <2>1, <2>4, <3>1 DEF IInv, CountStaysTrue
  <2> QED BY <2>1, <2>3, <2>4, <2>5, <2>8, RequestStep
<1> QED BY <1>1, <1>2

LEMMA CountAdminsStep ==
    ASSUME IInv, NEW r \in Requests, NEW p \in Projects, CountAdmins(r, p)
    PROVE  IInv'
<1>1. CASE End(r)
  BY <1>1, EndStep DEF CountAdmins
<1>2. CASE ~End(r)
  <2>1. /\ guard' = [guard EXCEPT ![p] = r] /\ guard[p] \in {NoRequest, r}
        /\ UNCHANGED <<life, role, overtaken>>
        /\ req[r].at = p
    BY <1>2 DEF CountAdmins
  <2>2. /\ req' \in [Requests -> Request]
        /\ \A s \in Requests \ {r} : req'[s] = req[s]
        /\ req'[r].target = req[r].target /\ req'[r].new = req[r].new
        /\ req'[r].todo = req[r].todo /\ req'[r].at = NoProject
        /\ \A o \in Projects \ {p} : req'[r].seen[o] = req[r].seen[o]
        /\ \/ req'[r].seen[p] = "keep"
           \/ req'[r].seen[p] = req[r].seen[p] /\ Others(p, req[r].target) # {}
    <3>1. CASE req' = [req EXCEPT ![r].at = NoProject] /\ Others(p, req[r].target) # {}
      <4>1. req \in [Requests -> Request] /\ req[r] \in Request
        BY DEF IInv, TypeOK
      <4>2. [req[r] EXCEPT !.at = NoProject] \in Request
        BY <4>1 DEF Request
      <4>3. req' = [req EXCEPT ![r] = [req[r] EXCEPT !.at = NoProject]]
        BY <3>1
      <4>4. req' \in [Requests -> Request]
        BY <4>1, <4>2, <4>3
      <4>5. /\ req'[r] = [req[r] EXCEPT !.at = NoProject]
            /\ \A s \in Requests \ {r} : req'[s] = req[s]
        BY <4>1, <4>3
      <4> QED BY <3>1, <4>1, <4>4, <4>5 DEF Request
    <3>2. CASE req' = [req EXCEPT ![r].at = NoProject, ![r].seen[p] = "keep"]
      <4>1. /\ req'[r] = [req[r] EXCEPT !.at = NoProject, !.seen[p] = "keep"]
            /\ \A s \in Requests \ {r} : req'[s] = req[s]
            /\ req[r] \in Request /\ DOMAIN req' = Requests
        BY <3>2 DEF IInv, TypeOK
      <4>2. [req[r] EXCEPT !.at = NoProject, !.seen[p] = "keep"] \in Request
        <5>1. [req[r].seen EXCEPT ![p] = "keep"] \in [Projects -> Membership \cup {"keep"}]
          BY <4>1 DEF Request
        <5>2. [req[r] EXCEPT !.at = NoProject, !.seen = [req[r].seen EXCEPT ![p] = "keep"]] \in Request
          BY <4>1, <5>1 DEF Request
        <5> QED BY <5>2
      <4>3. req' \in [Requests -> Request]
        BY <3>2, <4>1, <4>2 DEF IInv, TypeOK
      <4> QED BY <4>1, <4>3 DEF Request
    <3> QED BY <1>2, <3>1, <3>2 DEF CountAdmins
  <2>3. TypeOK'
    BY <2>1, <2>2 DEF IInv, TypeOK
  <2>4. HasTarget'
    BY <2>2 DEF IInv, HasTarget
  <2>5. \A s \in Requests \ {r}, o \in Projects : guard[o] = s => guard'[o] = s
    BY <2>1, MembersAssumption DEF IInv, TypeOK
  <2>6. guard'[p] = r /\ \A o \in Projects \ {p} : guard'[o] = guard[o]
    BY <2>1 DEF IInv, TypeOK
  <2>7. Counted(r, p)' => Others(p, req'[r].target) # {}
    BY <2>2 DEF Counted
  <2>8. \A o \in Projects \ {p} : Counted(r, o)' => Counted(r, o)
    BY <2>1, <2>2 DEF Counted
  <2>9. \A o \in Projects \ {p} :
            Counted(r, o)' => guard'[o] = r /\ (o \in overtaken \/ Others(o, req'[r].target) # {})
    BY <2>2, <2>6, <2>8 DEF IInv, CountStaysTrue
  <2> QED BY <2>1, <2>2, <2>3, <2>4, <2>5, <2>6, <2>7, <2>9, RequestStep
<1> QED BY <1>1, <1>2

-----------------------------------------------------------------------------
\* What a commit does to the administrators of one project: unless it is
\* overtaken, it takes the role from its target at most, and only after a count.
LEMMA CommitEffect ==
    ASSUME IInv, NEW r \in Requests, Commit(r), NEW p \in Projects, p \notin overtaken'
    PROVE  /\ p \notin overtaken
           /\ \A v \in Users \ {req[r].target} : role'[p][v] = role[p][v]
           /\ \/ \A v \in Users : role[p][v] = "admin" => role'[p][v] = "admin"
              \/ Counted(r, p)
<1>1. p \notin overtaken
  BY DEF Commit
<1>2. role'[p] = IF p \in Writes(r) THEN Written(r, p) ELSE role[p]
  BY DEF Commit
<1>3. \A v \in Users : role'[p][v] =
          IF p \in Writes(r) /\ v = req[r].target THEN req[r].new ELSE role[p][v]
  BY <1>2 DEF IInv, TypeOK, Written
<1>4. ASSUME NEW v \in Users, role[p][v] = "admin", role'[p][v] # "admin"
      PROVE  Counted(r, p)
  <2>1. v = req[r].target /\ p \in Writes(r) /\ req[r].new # "admin"
    BY <1>3, <1>4
  <2>2. req[r].seen[p] = "admin"
    BY <1>4, <2>1 DEF Commit
  <2>3. req[r].at # p
    BY MembersAssumption DEF Commit, Ready
  <2> QED BY <2>1, <2>2, <2>3 DEF Counted
<1> QED BY <1>1, <1>3, <1>4

LEMMA CommitStep ==
    ASSUME IInv, NEW r \in Requests, Commit(r)
    PROVE  IInv'
<1>1. TypeOK'
  <2>1. \A p \in Projects : Written(r, p) \in [Users -> Membership]
    BY DEF IInv, TypeOK, Written, Request
  <2>2. role' \in [Projects -> [Users -> Membership]]
    BY <2>1 DEF IInv, TypeOK, Commit
  <2>3. overtaken' \subseteq Projects /\ life' = life
    BY DEF IInv, TypeOK, Commit, Writes
  <2> QED BY <2>2, <2>3, EndKeeps DEF IInv, TypeOK, Commit
<1>2. AdminUnlessOvertaken'
  <2> SUFFICES ASSUME NEW p \in Projects, life[p] = "live", p \notin overtaken'
               PROVE  \E u \in Users : role'[p][u] = "admin"
    BY DEF AdminUnlessOvertaken, HasAdmin, Commit
  <2>1. PICK u \in Users : role[p][u] = "admin"
    BY CommitEffect DEF IInv, AdminUnlessOvertaken, HasAdmin
  <2>2. CASE Counted(r, p)
    <3>1. PICK v \in Users \ {req[r].target} : role[p][v] = "admin"
      BY <2>2, CommitEffect DEF IInv, CountStaysTrue, Others
    <3> QED BY <3>1, CommitEffect
  <2>3. CASE ~Counted(r, p)
    BY <2>1, <2>3, CommitEffect
  <2> QED BY <2>2, <2>3
<1>3. CountStaysTrue'
  <2> SUFFICES ASSUME NEW s \in Requests, NEW p \in Projects, Counted(s, p)', p \notin overtaken'
               PROVE  Others(p, req[s].target)' # {}
    BY DEF CountStaysTrue, Others
  <2>1. s # r /\ req'[s] = req[s]
    BY EndKeeps DEF Commit
  <2>2. Counted(s, p) /\ guard[p] = s /\ Others(p, req[s].target) # {}
    BY <2>1, CommitEffect DEF IInv, CountStaysTrue, Counted
  <2>3. ~Counted(r, p)
    BY <2>1, <2>2 DEF IInv
  <2>4. \A v \in Users : role[p][v] = "admin" => role'[p][v] = "admin"
    BY <2>3, CommitEffect
  <2> QED BY <2>1, <2>2, <2>4 DEF Others
<1>4. OwnsGuard'
  BY EndKeeps DEF IInv, OwnsGuard, Counted, Commit
<1>5. HasTarget'
  BY EndKeeps DEF Commit
<1> QED BY <1>1, <1>2, <1>3, <1>4, <1>5 DEF IInv, OwnsGuard, HasTarget

-----------------------------------------------------------------------------
LEMMA Step == IInv /\ [Next]_vars => IInv'
<1> SUFFICES ASSUME IInv, [Next]_vars PROVE IInv'
  OBVIOUS
<1>1. ASSUME NEW p \in Projects, NEW u \in Users, CreateProject(p, u) PROVE IInv'
  BY <1>1, CreateProjectStep
<1>2. ASSUME NEW p \in Projects, DeleteProject(p) PROVE IInv'
  BY <1>2, DeleteProjectStep
<1>3. ASSUME NEW r \in Requests, NEW ask \in Asked[r], NEW p \in Projects,
             BeginUpsert(r, p, ask) \/ BeginRemove(r, p, ask)
      PROVE  IInv'
  BY <1>3, BeginStep DEF BeginUpsert, BeginRemove
<1>4. ASSUME NEW r \in Requests, NEW ask \in Asked[r], BeginAssign(r, ask) PROVE IInv'
  BY <1>4, BeginStep DEF BeginAssign
<1>5. ASSUME NEW r \in Requests, Progress(r) \/ Rollback(r) PROVE IInv'
  BY <1>5, ReadMembershipStep, CountAdminsStep, CommitStep, EndStep
     DEF Progress, Rollback, CommitFails, LockTimeout
<1>6. CASE UNCHANGED vars
  BY <1>6 DEF vars, IInv, TypeOK, AdminUnlessOvertaken, HasAdmin, CountStaysTrue, Counted, Others
<1> QED BY <1>1, <1>2, <1>3, <1>4, <1>5, <1>6 DEF Next

\* The inductive invariant holds in every reachable state.
THEOREM InductiveInvariant == Spec => []IInv
<1> QED BY Initial, Step, PTL DEF Spec

\* AdminUnlessOvertaken of ProjectMembers: the guard of _count_project_admins
\* keeps an administrator in every live project, whatever runs concurrently,
\* unless a member is demoted who was promoted after the request read the row.
THEOREM GuardKeepsAdmin == Spec => []AdminUnlessOvertaken
<1>1. IInv => AdminUnlessOvertaken
  BY DEF IInv
<1> QED BY <1>1, InductiveInvariant, PTL

\* CountStaysTrue of ProjectMembers: a count taken under the guard is still true
\* when the transaction that took it commits.
THEOREM CountsAreCurrent == Spec => []CountStaysTrue
<1>1. IInv => CountStaysTrue
  BY DEF IInv
<1> QED BY <1>1, InductiveInvariant, PTL
=============================================================================

---------------------- MODULE UserAdministrationProofs ----------------------
(***************************************************************************)
(* The sysadmin guard keeps an active approved sysadmin, for any number of *)
(* users and concurrent requests, except where a commit clears a flag of a *)
(* user who became a sysadmin after the request read the row.              *)
(***************************************************************************)
EXTENDS UserAdministration, TLAPS

CountsHold ==
    \A r \in Requests : Counted(r) =>
        guard = r /\ (overtaken \/ Sysadmins \ {req[r].target} # {})
HasTarget ==
    \A r \in Requests : req[r].pc = "begun" => req[r].target \in Users

LEMMA Initial == Init => IInv
<1> SUFFICES ASSUME Init PROVE IInv
  OBVIOUS
<1>1. TypeOK
  BY DEF Init, TypeOK, Request, Idle, Flags
<1>2. Sysadmins # {}
  BY DEF Init, Sysadmins
<1> QED BY <1>1, <1>2 DEF Init, IInv, SysadminUnlessOvertaken, Counted, Idle

\* A step that changes one request, and leaves it without a count of its own,
\* keeps the counts of the others.
LEMMA RequestStep ==
    ASSUME IInv, NEW r \in Requests, NEW q \in Request,
           req' = [req EXCEPT ![r] = q],
           UNCHANGED <<known, flags, overtaken>>,
           guard' \in Requests \cup {NoRequest},
           guard \in Requests \ {r} => guard' = guard,
           Counted(r)' => guard' = r /\ (overtaken \/ Sysadmins \ {q.target} # {}),
           q.pc = "begun" => q.target \in Users
    PROVE  IInv'
<1>1. TypeOK'
  BY DEF IInv, TypeOK
<1>2. Sysadmins' = Sysadmins
  BY DEF Sysadmins
<1>3. req'[r] = q /\ \A s \in Requests \ {r} : req'[s] = req[s]
  BY DEF IInv, TypeOK
<1>4. CountsHold'
  <2> SUFFICES ASSUME NEW s \in Requests, Counted(s)'
               PROVE  guard' = s /\ (overtaken \/ Sysadmins \ {req'[s].target} # {})
    BY <1>2 DEF CountsHold
  <2>1. CASE s = r
    BY <1>3, <2>1
  <2>2. CASE s # r
    BY <1>3, <2>2 DEF IInv, Counted
  <2> QED BY <2>1, <2>2
<1>5. HasTarget'
  BY <1>3 DEF IInv, HasTarget
<1> QED BY <1>1, <1>2, <1>4, <1>5 DEF IInv, CountsHold, HasTarget, SysadminUnlessOvertaken

LEMMA EndStep ==
    ASSUME IInv, NEW r \in Requests, End(r), UNCHANGED <<known, flags, overtaken>>
    PROVE  IInv'
<1>1. Idle \in Request
  BY DEF Idle, Request
<1>2. ~Counted(r)'
  BY DEF IInv, TypeOK, End, Counted, Idle
<1>3. Idle.pc # "begun"
  BY DEF Idle
<1> QED BY <1>1, <1>2, <1>3, RequestStep DEF End, IInv, TypeOK

-----------------------------------------------------------------------------
LEMMA CreateUserStep ==
    ASSUME IInv, NEW u \in Users, NEW fs \in SUBSET Flags, CreateUser(u, fs)
    PROVE  IInv'
<1>1. TypeOK'
  BY DEF IInv, TypeOK, CreateUser
<1>2. Sysadmins \subseteq Sysadmins'
  BY DEF IInv, TypeOK, CreateUser, Sysadmins
<1>3. CountsHold'
  BY <1>2 DEF IInv, CountsHold, Counted, CreateUser
<1> QED BY <1>1, <1>2, <1>3 DEF IInv, CountsHold, SysadminUnlessOvertaken, CreateUser

LEMMA BeginStep ==
    ASSUME IInv, NEW r \in Requests, NEW actor \in Users, NEW target \in Users,
           NEW on \in SUBSET Flags, NEW off \in SUBSET Flags,
           Begin(r, actor, target, on, off)
    PROVE  IInv'
<1> DEFINE q == [pc |-> "begun", actor |-> actor, target |-> target,
                 seen |-> {}, on |-> on, off |-> off]
<1>1. q \in Request
  BY DEF Request
<1>2. ~Counted(r)'
  BY DEF IInv, TypeOK, Begin, Counted
<1>3. req' = [req EXCEPT ![r] = q] /\ UNCHANGED <<known, flags, guard, overtaken>>
  BY DEF Begin
<1> QED BY <1>1, <1>2, <1>3, RequestStep DEF IInv, TypeOK

LEMMA ReadTargetStep ==
    ASSUME IInv, NEW r \in Requests, ReadTarget(r)
    PROVE  IInv'
<1> DEFINE seen == IF req[r].actor = req[r].target THEN Flags ELSE flags[req[r].target]
           next == (seen \cup req[r].on) \ req[r].off
           q    == [req[r] EXCEPT !.pc = IF seen = Flags /\ next # Flags THEN "counting" ELSE "ready",
                                  !.seen = seen,
                                  !.on = req[r].on \ seen,
                                  !.off = req[r].off \cap seen]
<1>1. CASE End(r)
  BY <1>1, EndStep DEF ReadTarget
<1>2. CASE req' = [req EXCEPT ![r] = q] /\ UNCHANGED guard
  <2>1. req[r] \in Request
    BY DEF IInv, TypeOK
  <2>2. seen \in SUBSET Flags
    BY <1>2 DEF IInv, TypeOK, ReadTarget
  <2>3. q \in Request
    BY <2>1, <2>2 DEF Request
  <2>4. q.seen = Flags /\ q.off # {} => q.pc = "counting"
    BY <2>1 DEF Request
  <2>5. req'[r] = q /\ q.pc # "begun"
    BY <1>2, <2>1 DEF IInv, TypeOK
  <2>6. ~Counted(r)'
    BY <2>4, <2>5 DEF Counted
  <2> QED BY <1>2, <2>3, <2>5, <2>6, RequestStep DEF ReadTarget, IInv, TypeOK
<1> QED BY <1>1, <1>2 DEF ReadTarget
LEMMA CountSysadminsStep ==
    ASSUME IInv, NEW r \in Requests, CountSysadmins(r)
    PROVE  IInv'
<1>1. CASE End(r)
  BY <1>1, EndStep DEF CountSysadmins
<1>2. CASE ~End(r)
  <2> DEFINE q == [req[r] EXCEPT !.pc = "ready"]
  <2>1. /\ guard = NoRequest /\ guard' = r
        /\ req' = [req EXCEPT ![r] = q]
        /\ Sysadmins \ {req[r].target} # {}
        /\ UNCHANGED <<known, flags, overtaken>>
    BY <1>2 DEF CountSysadmins
  <2>2. q \in Request /\ q.target = req[r].target /\ q.pc # "begun"
    BY DEF IInv, TypeOK, Request
  <2> HIDE DEF q
  <2> QED BY <2>1, <2>2, UsersAssumption, RequestStep
<1> QED BY <1>1, <1>2

\* Without being overtaken, a commit ends the rule of a sysadmin only after it
\* counted another one.
LEMMA CommitEffect ==
    ASSUME IInv, NEW r \in Requests, Commit(r), ~overtaken'
    PROVE  /\ ~overtaken
           /\ Sysadmins \ {req[r].target} \subseteq Sysadmins'
           /\ Sysadmins \subseteq Sysadmins' \/ Counted(r)
<1>1. ~overtaken /\ known' = known
  BY DEF Commit
<1>2. \A u \in Users \ {req[r].target} : flags'[u] = flags[u]
  BY DEF IInv, TypeOK, Commit
<1>3. Sysadmins \ {req[r].target} \subseteq Sysadmins'
  BY <1>1, <1>2 DEF IInv, TypeOK, Sysadmins
<1>4. ASSUME ~Counted(r), req[r].target \in Sysadmins
      PROVE  req[r].target \in Sysadmins'
  <2>1. req[r].off = {}
    BY <1>4 DEF Commit, Counted, Sysadmins
  <2>2. req[r].on \subseteq Flags
    BY DEF IInv, TypeOK, Request
  <2>3. flags'[req[r].target] = Flags
    BY <1>4, <2>1, <2>2 DEF IInv, TypeOK, Commit, Sysadmins
  <2> QED BY <1>1, <1>4, <2>3 DEF Sysadmins
<1> QED BY <1>1, <1>3, <1>4

LEMMA CommitStep ==
    ASSUME IInv, NEW r \in Requests, Commit(r)
    PROVE  IInv'
<1>1. req'[r] = Idle /\ \A s \in Requests \ {r} : req'[s] = req[s]
  BY DEF IInv, TypeOK, Commit, End
<1>2. TypeOK'
  <2>1. req' \in [Requests -> Request]
    BY DEF IInv, TypeOK, Commit, End, Idle, Request
  <2>2. req[r].on \subseteq Flags
    BY DEF IInv, TypeOK, Request
  <2>3. flags' \in [Users -> SUBSET Flags]
    BY <2>2 DEF IInv, TypeOK, Commit
  <2>4. overtaken' \in BOOLEAN
    BY DEF Commit
  <2> QED BY <2>1, <2>3, <2>4 DEF IInv, TypeOK, Commit, End
<1>3. SysadminUnlessOvertaken'
  BY CommitEffect DEF IInv, SysadminUnlessOvertaken
<1>4. CountsHold'
  <2> SUFFICES ASSUME NEW s \in Requests, Counted(s)'
               PROVE  guard' = s /\ (overtaken' \/ Sysadmins' \ {req'[s].target} # {})
    BY DEF CountsHold
  <2>1. s # r /\ req'[s] = req[s] /\ Counted(s)
    BY <1>1 DEF Counted, Idle
  <2>2. guard = s /\ guard' = s /\ ~Counted(r)
    BY <2>1 DEF IInv, Commit, End
  <2> QED BY <2>1, <2>2, CommitEffect DEF IInv
<1>5. HasTarget'
  BY <1>1 DEF IInv, HasTarget, Idle
<1> QED BY <1>2, <1>3, <1>4, <1>5 DEF IInv, CountsHold, HasTarget

-----------------------------------------------------------------------------
LEMMA Step == IInv /\ [Next]_vars => IInv'
<1> SUFFICES ASSUME IInv, [Next]_vars PROVE IInv'
  OBVIOUS
<1>1. CASE UNCHANGED vars
  BY <1>1 DEF vars, IInv, TypeOK, SysadminUnlessOvertaken, Counted, Sysadmins
<1> QED BY <1>1, CreateUserStep, BeginStep, ReadTargetStep, CountSysadminsStep, CommitStep,
           EndStep DEF Next, Rollback

\* The inductive invariant holds in every reachable state.
THEOREM InductiveInvariant == Spec => []IInv
<1> QED BY Initial, Step, PTL DEF Spec

\* SysadminUnlessOvertaken of UserAdministration: lock_sysadmin_guard keeps an
\* active approved sysadmin, whatever runs concurrently, unless a commit clears
\* a flag of a user who became one after the request read the row.
THEOREM GuardKeepsSysadmin == Spec => []SysadminUnlessOvertaken
<1>1. IInv => SysadminUnlessOvertaken
  BY DEF IInv
<1> QED BY <1>1, InductiveInvariant, PTL
=============================================================================

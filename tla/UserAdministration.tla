------------------------- MODULE UserAdministration -------------------------
(***************************************************************************)
(* Flags of user accounts, and the guard that is to keep an active,        *)
(* approved sysadmin.                                                      *)
(*                                                                         *)
(* A request is one database transaction (READ COMMITTED): it reads the    *)
(* target's flags, may take the advisory lock of lock_sysadmin_guard to    *)
(* count the other sysadmins, and writes the flags that differ from what   *)
(* it read.  E-mail addresses, passwords and sessions are left out.        *)
(***************************************************************************)
CONSTANTS Users, Requests, NoUser, NoRequest

ASSUME UsersAssumption == NoUser \notin Users /\ NoRequest \notin Requests

VARIABLES
    known,      \* users that have a row
    flags,      \* the flags that are true in each row
    guard,      \* holder of the advisory lock
    req,        \* what each request is doing
    overtaken   \* history: a commit cleared a flag of a sysadmin whom its
                \* request had read as something else

vars == <<known, flags, guard, req, overtaken>>

Flags     == {"is_active", "is_approved", "is_sysadmin"}
Sysadmins == {u \in known : flags[u] = Flags}

\* on and off are the flags a request writes.
Request == [pc: {"idle", "begun", "counting", "ready"}, actor: Users \cup {NoUser},
            target: Users \cup {NoUser}, seen: SUBSET Flags,
            on: SUBSET Flags, off: SUBSET Flags]
Idle    == [pc |-> "idle", actor |-> NoUser, target |-> NoUser,
            seen |-> {}, on |-> {}, off |-> {}]

TypeOK ==
    /\ known \subseteq Users
    /\ flags \in [Users -> SUBSET Flags]
    /\ guard \in Requests \cup {NoRequest}
    /\ req \in [Requests -> Request]
    /\ overtaken \in BOOLEAN

\* app.seed creates the first account.
Init ==
    /\ \E u \in Users :
          /\ known = {u}
          /\ flags = [v \in Users |-> IF v = u THEN Flags ELSE {}]
    /\ guard = NoRequest
    /\ req = [r \in Requests |-> Idle]
    /\ overtaken = FALSE

-----------------------------------------------------------------------------
\* create_user by a sysadmin, and the registrations of auth.py, which ask for
\* approval.
CreateUser(u, fs) ==
    /\ u \notin known
    /\ known' = known \cup {u}
    /\ flags' = [flags EXCEPT ![u] = fs]
    /\ UNCHANGED <<guard, req, overtaken>>

\* The transaction ends and its advisory lock with it.
End(r) ==
    /\ req' = [req EXCEPT ![r] = Idle]
    /\ guard' = IF guard = r THEN NoRequest ELSE guard

\* get_auth_context and require_sysadmin, then the payload: update_user may
\* change every flag, update_user_status and update_user_approval one.
Begin(r, actor, target, on, off) ==
    /\ req[r].pc = "idle"
    /\ actor \in Sysadmins /\ target \in known
    /\ on \cap off = {}
    /\ req' = [req EXCEPT ![r] = [pc |-> "begun", actor |-> actor, target |-> target,
                                  seen |-> {}, on |-> on, off |-> off]]
    /\ UNCHANGED <<known, flags, guard, overtaken>>

\* db.get(User, ...), which returns the row of authorization when the target is
\* the actor, and the first half of _enforce_admin_safety: an actor may not give
\* up an own flag, and only a sysadmin about to lose one is counted.
ReadTarget(r) ==
    LET q    == req[r]
        seen == IF q.actor = q.target THEN Flags ELSE flags[q.target]
        next == (seen \cup q.on) \ q.off
    IN
    /\ q.pc = "begun"
    /\ \/ q.actor = q.target /\ next # Flags /\ End(r)
       \/ /\ q.actor # q.target \/ next = Flags
          /\ req' = [req EXCEPT ![r] =
                        [q EXCEPT !.pc = IF seen = Flags /\ next # Flags THEN "counting" ELSE "ready",
                                  !.seen = seen,
                                  !.on = q.on \ seen,
                                  !.off = q.off \cap seen]]
          /\ UNCHANGED guard
    /\ UNCHANGED <<known, flags, overtaken>>

\* Mutant of CountSysadmins: the lock is not taken.
CountSysadminsUnlocked(r) ==
    /\ req[r].pc = "counting"
    /\ Sysadmins \ {req[r].target} # {}
    /\ req' = [req EXCEPT ![r].pc = "ready"]
    /\ UNCHANGED <<known, flags, guard, overtaken>>

\* Mutant of CountSysadmins: the target is counted as well.
CountSysadminsAndTarget(r) ==
    /\ req[r].pc = "counting"
    /\ guard = NoRequest /\ Sysadmins # {}
    /\ guard' = r
    /\ req' = [req EXCEPT ![r].pc = "ready"]
    /\ UNCHANGED <<known, flags, overtaken>>

\* lock_sysadmin_guard, then _count_active_approved_sysadmins.
CountSysadmins(r) ==
    /\ req[r].pc = "counting"
    /\ guard = NoRequest
    /\ \/ /\ Sysadmins \ {req[r].target} # {}
          /\ guard' = r
          /\ req' = [req EXCEPT ![r].pc = "ready"]
       \/ /\ Sysadmins \subseteq {req[r].target}
          /\ End(r)
    /\ UNCHANGED <<known, flags, overtaken>>

\* The UPDATE names the changed columns only.
Commit(r) ==
    LET u == req[r].target IN
    /\ req[r].pc = "ready"
    /\ flags' = [flags EXCEPT ![u] = (@ \cup req[r].on) \ req[r].off]
    /\ overtaken' = (overtaken \/ /\ req[r].seen # Flags /\ flags[u] = Flags
                                  /\ req[r].off # {})
    /\ End(r)
    /\ UNCHANGED known

\* A statement fails (the lock timeout, a taken e-mail address, a weak
\* password) or the process dies: get_db rolls back.
Rollback(r) ==
    /\ req[r].pc # "idle"
    /\ End(r)
    /\ UNCHANGED <<known, flags, overtaken>>

Next ==
    \/ \E u \in Users, fs \in SUBSET Flags : CreateUser(u, fs)
    \/ \E r \in Requests :
          \/ \E actor, target \in Users, on, off \in SUBSET Flags :
                Begin(r, actor, target, on, off)
          \/ ReadTarget(r)
          \/ CountSysadmins(r)
          \/ Commit(r)
          \/ Rollback(r)

Spec == Init /\ [][Next]_vars

-----------------------------------------------------------------------------
(* Properties *)

\* Whatever requests run at the same time, an active approved sysadmin remains,
\* unless a commit cleared a flag of a user who had become one since the
\* request read the row.
SysadminUnlessOvertaken == overtaken \/ Sysadmins # {}

\* r has counted the other sysadmins and will clear a flag of its target.
Counted(r) == req[r].pc = "ready" /\ req[r].seen = Flags /\ req[r].off # {}

\* The inductive invariant: a counted decision owns the guard until its
\* transaction ends, and another sysadmin is there as long; a request that
\* reads a row has a target.
IInv ==
    /\ TypeOK
    /\ SysadminUnlessOvertaken
    /\ \A r \in Requests : Counted(r) =>
           guard = r /\ (overtaken \/ Sysadmins \ {req[r].target} # {})
    /\ \A r \in Requests : req[r].pc = "begun" => req[r].target \in Users
=============================================================================

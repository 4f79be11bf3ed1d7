--------------------------- MODULE Administration ---------------------------
(***************************************************************************)
(* The rows of the User table as administrators and their owners change    *)
(* them (modules/admin/admin.service.ts, deleteMe of user.service.ts):     *)
(* role, status, soft deletion.  The super admin flag is set by the seed   *)
(* only, so it is a constant; a run of the seed that finds the row deleted *)
(* and creates it anew, and the second factor, are left out.  The          *)
(* revocation of the sessions that follows a change is in Sessions.        *)
(*                                                                         *)
(* A handler reads its target and then runs a transaction under READ       *)
(* COMMITTED: the count of the remaining super admins and the update are   *)
(* two statements, between which another transaction may commit.           *)
(***************************************************************************)
EXTENDS Naturals

CONSTANTS
  Users,        \* ids of rows
  SeedRole,     \* the rows that the seed creates, and the role it gives them
  SuperAdmins,  \* those of them with isSuperAdmin
  Workers,      \* handlers in flight
  Nobody        \* no target

Role == {"CITIZEN", "OFFICER", "ADMIN"}

Seeded == DOMAIN SeedRole

ASSUME AdministrationAssumption ==
  /\ Seeded \subseteq Users
  /\ SeedRole \in [Seeded -> Role]
  /\ SuperAdmins \subseteq {u \in Seeded : SeedRole[u] = "ADMIN"}
  /\ SuperAdmins # {}
  /\ Nobody \notin Users

VARIABLES
  rows,        \* ids that are taken
  role,        \* role of each row
  blocked,     \* rows whose status is BLOCKED
  deleted,     \* rows with deletedAt
  job,         \* what each handler is waiting for
  overlapped,  \* history: two removals of super admins were in flight together
  crossed      \* history: rows that became ADMIN while a plain admin's change of them was in flight

historyVars == <<overlapped, crossed>>
vars == <<rows, role, blocked, deleted, job, historyVars>>

\* Statements of updateRole, updateStatus, removeAdmin and deleteMe.
Steps == {"idle", "role", "block", "unblock", "remove"}

\* by: whose request it is; u: the target; r: the role to give; counted: the
\* handler has counted the super admins that remain.
Job == [pc : Steps, by : {"super", "plain", "self"}, u : Users \cup {Nobody}, r : Role,
        counted : {"yes", "no"}]

At(pc, by, u, r, counted) ==
  [pc |-> pc, by |-> by, u |-> u, r |-> r, counted |-> counted]

Idle == At("idle", "self", Nobody, "CITIZEN", "no")

\* The type of every variable.
TypeOK ==
  /\ rows \subseteq Users
  /\ role \in [Users -> Role]
  /\ blocked \subseteq Users
  /\ deleted \subseteq Users
  /\ job \in [Workers -> Job]
  /\ overlapped \in {"yes", "no"}
  /\ crossed \subseteq Users

\* After the first seed.
Init ==
  /\ rows = Seeded
  /\ role = [u \in Users |-> IF u \in Seeded THEN SeedRole[u] ELSE "CITIZEN"]
  /\ blocked = {}
  /\ deleted = {}
  /\ job = [w \in Workers |-> Idle]
  /\ overlapped = "no"
  /\ crossed = {}

Begin(w, locals) ==
  /\ job[w] = Idle
  /\ job' = [job EXCEPT ![w] = locals]

Await(w, locals) == job' = [job EXCEPT ![w] = locals]

Return(w) == job' = [job EXCEPT ![w] = Idle]

\* The process dies, an await throws or the transaction is rolled back.
Crash(w) ==
  /\ job[w] # Idle
  /\ Return(w)
  /\ UNCHANGED <<rows, role, blocked, deleted, historyVars>>

-----------------------------------------------------------------------------
(* Who may act, and on whom                                                *)

\* middlewares/auth.ts lets the user through.
active(u) == u \in rows \ (blocked \cup deleted)

\* middlewares/authorize.ts, on a user read when the request arrived.
superAdminOnly(a) == active(a) /\ role[a] = "ADMIN" /\ a \in SuperAdmins

\* actor.isSuperAdmin.
kind(a) == IF a \in SuperAdmins THEN "super" ELSE "plain"

\* Mutant: another admin is like any other target.
assertMayManage_AnyAdmin(a, u) == u # a

assertMayManage(a, u) ==
  /\ u # a
  /\ role[u] = "ADMIN" => a \in SuperAdmins

\* The rows findFirst finds.
found(u) == u \in rows \ deleted

\* Mutant: the count takes the target in.
remaining_WithTarget(u) == SuperAdmins \ (blocked \cup deleted)

\* The super admins that assertNotLastSuperAdmin and deleteMe count.
remaining(u) == SuperAdmins \ (blocked \cup deleted \cup {u})

\* The count of a handler about to take a super admin away.
assertNotLastSuperAdmin(w) ==
  LET j == job[w] IN
  /\ j.pc \in {"role", "block", "remove"}
  /\ j.u \in SuperAdmins /\ j.counted = "no"
  /\ j.pc = "role" => j.r # "ADMIN"
  /\ remaining(j.u) # {}
  /\ Await(w, At(j.pc, j.by, j.u, j.r, "yes"))
  /\ overlapped' = IF \E v \in Workers \ {w} : job[v].counted = "yes" THEN "yes" ELSE overlapped
  /\ UNCHANGED <<rows, role, blocked, deleted, crossed>>

\* LAST_SUPER_ADMIN.
lastSuperAdmin(w) ==
  LET j == job[w] IN
  /\ j.pc \in {"role", "block", "remove"}
  /\ j.u \in SuperAdmins /\ j.counted = "no"
  /\ j.pc = "role" => j.r # "ADMIN"
  /\ remaining(j.u) = {}
  /\ Return(w)
  /\ UNCHANGED <<rows, role, blocked, deleted, historyVars>>

-----------------------------------------------------------------------------
(* New rows                                                                *)

createOfficer(u) ==
  /\ \E a \in Users : active(a) /\ role[a] = "ADMIN"
  /\ u \notin rows
  /\ rows' = rows \cup {u}
  /\ role' = [role EXCEPT ![u] = "OFFICER"]
  /\ UNCHANGED <<blocked, deleted, job, historyVars>>

createAdmin(u) ==
  /\ \E a \in Users : superAdminOnly(a)
  /\ u \notin rows
  /\ rows' = rows \cup {u}
  /\ role' = [role EXCEPT ![u] = "ADMIN"]
  /\ UNCHANGED <<blocked, deleted, job, historyVars>>

\* verifyOtp's user.create (Signup).
createCitizen(u) ==
  /\ u \notin rows
  /\ rows' = rows \cup {u}
  /\ role' = [role EXCEPT ![u] = "CITIZEN"]
  /\ UNCHANGED <<blocked, deleted, job, historyVars>>

\* What becomes of crossed when the row's role is set to r.
crossedBy(u, r) ==
  IF r = "ADMIN" /\ \E v \in Workers : job[v].u = u /\ job[v].by = "plain"
  THEN crossed \cup {u} ELSE crossed

\* Another run of the seed gives a live row its role back.
upsertUser(u) ==
  /\ u \in Seeded /\ found(u)
  /\ role' = [role EXCEPT ![u] = SeedRole[u]]
  /\ crossed' = crossedBy(u, SeedRole[u])
  /\ UNCHANGED <<rows, blocked, deleted, job, overlapped>>

-----------------------------------------------------------------------------
(* updateRole                                                              *)

\* Granting ADMIN, and acting on an ADMIN, needs the flag.
updateRoleRead(w, a, u, r) ==
  /\ active(a) /\ role[a] = "ADMIN"
  /\ found(u)
  /\ assertMayManage(a, u)
  /\ r = "ADMIN" => a \in SuperAdmins
  /\ Begin(w, At("role", kind(a), u, r, "no"))
  /\ UNCHANGED <<rows, role, blocked, deleted, historyVars>>

\* CHECK ("isSuperAdmin" = false OR role = 'ADMIN').
user_superadmin_ck(u, r) == u \in SuperAdmins => r = "ADMIN"

\* By id: the row may have been promoted or deleted since it was read.
updateRoleWrite(w) ==
  LET j == job[w] IN
  /\ j.pc = "role"
  /\ j.u \in SuperAdmins /\ j.r # "ADMIN" => j.counted = "yes"
  /\ user_superadmin_ck(j.u, j.r)
  /\ role' = [role EXCEPT ![j.u] = j.r]
  /\ crossed' = crossedBy(j.u, j.r)
  /\ Return(w)
  /\ UNCHANGED <<rows, blocked, deleted, overlapped>>

-----------------------------------------------------------------------------
(* updateStatus                                                            *)

updateStatusRead(w, a, u, pc) ==
  /\ active(a) /\ role[a] = "ADMIN"
  /\ found(u)
  /\ assertMayManage(a, u)
  /\ Begin(w, At(pc, kind(a), u, "CITIZEN", "no"))
  /\ UNCHANGED <<rows, role, blocked, deleted, historyVars>>

updateStatusBlock(w) ==
  LET j == job[w] IN
  /\ j.pc = "block"
  /\ j.u \in SuperAdmins => j.counted = "yes"
  /\ blocked' = blocked \cup {j.u}
  /\ Return(w)
  /\ UNCHANGED <<rows, role, deleted, historyVars>>

updateStatusUnblock(w) ==
  /\ job[w].pc = "unblock"
  /\ blocked' = blocked \ {job[w].u}
  /\ Return(w)
  /\ UNCHANGED <<rows, role, deleted, historyVars>>

-----------------------------------------------------------------------------
(* removeAdmin, deleteMe and restore                                       *)

removeAdminRead(w, a, u) ==
  /\ superAdminOnly(a)
  /\ u # a
  /\ found(u) /\ role[u] = "ADMIN"
  /\ Begin(w, At("remove", "super", u, "CITIZEN", "no"))
  /\ UNCHANGED <<rows, role, blocked, deleted, historyVars>>

\* The count is not in the transaction here.
deleteMeRead(w, u) ==
  /\ active(u)
  /\ Begin(w, At("remove", "self", u, "CITIZEN", "no"))
  /\ UNCHANGED <<rows, role, blocked, deleted, historyVars>>

\* The update of removeAdmin and of deleteMe.
removeWrite(w) ==
  LET j == job[w] IN
  /\ j.pc = "remove"
  /\ j.u \in SuperAdmins => j.counted = "yes"
  /\ deleted' = deleted \cup {j.u}
  /\ Return(w)
  /\ UNCHANGED <<rows, role, blocked, historyVars>>

restore(u) ==
  /\ \E a \in Users : superAdminOnly(a)
  /\ u \in deleted
  /\ deleted' = deleted \ {u}
  /\ UNCHANGED <<rows, role, blocked, job, historyVars>>

-----------------------------------------------------------------------------
Receive(w) ==
  \E u \in Users :
    \/ deleteMeRead(w, u)
    \/ \E a \in Users :
         \/ removeAdminRead(w, a, u)
         \/ \E r \in Role : updateRoleRead(w, a, u, r)
         \/ \E pc \in {"block", "unblock"} : updateStatusRead(w, a, u, pc)

Handle(w) ==
  \/ assertNotLastSuperAdmin(w)
  \/ lastSuperAdmin(w)
  \/ updateRoleWrite(w)
  \/ updateStatusBlock(w)
  \/ updateStatusUnblock(w)
  \/ removeWrite(w)

Next ==
  \/ \E u \in Users : createOfficer(u) \/ createAdmin(u) \/ createCitizen(u) \/ restore(u)
                       \/ upsertUser(u)
  \/ \E w \in Workers : Receive(w) \/ Handle(w) \/ Crash(w)

Spec == Init /\ [][Next]_vars

-----------------------------------------------------------------------------
(* Properties                                                              *)

\* assertNotLastSuperAdmin, deleteMe and the constraint on the flag keep a super admin who can
\* sign in and whom superAdminOnly lets through, whatever demotions, suspensions and removals
\* are in flight, unless two of them counted before either wrote.
WayBackIn == overlapped = "yes" \/ \E u \in SuperAdmins : superAdminOnly(u)

\* A step gives or takes the role ADMIN, or suspends, reactivates or deletes an admin.
ActsOnAdmin(u) ==
  \/ role[u] = "ADMIN" /\ (role'[u] # "ADMIN" \/ u \in deleted' \ deleted)
  \/ role[u] = "ADMIN" /\ ~(u \in blocked <=> u \in blocked')
  \/ role[u] # "ADMIN" /\ role'[u] = "ADMIN"

\* "Granting or revoking ADMIN is a super admin decision either way" and "Only a super admin can
\* act on another admin" (updateRole, assertMayManage): whoever's update by id changes the
\* standing of an admin is a super admin, or the admin, or the seed, whatever was promoted
\* since the target was read; but for rows promoted while a plain admin's change was in flight.
SuperAdminDecides ==
  [][\A u \in rows \ crossed :
       ActsOnAdmin(u) =>
         \/ upsertUser(u)
         \/ \E w \in Workers : job[w].u = u /\ job[w].by # "plain" /\ job'[w] = Idle]_vars
=============================================================================

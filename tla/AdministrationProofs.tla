------------------------ MODULE AdministrationProofs ------------------------
(***************************************************************************)
(* Proofs about Administration, for any number of accounts, super admins   *)
(* and handlers in flight.                                                 *)
(***************************************************************************)
EXTENDS Administration, TLAPS

\* A super admin's row is there and its role is ADMIN: the table's constraint refuses every
\* other role, so the flag and the role never part.
SuperInv == SuperAdmins \subseteq rows /\ \A u \in SuperAdmins : role[u] = "ADMIN"

\* As long as no two removals overlapped, one handler at most has counted, and what it counted
\* is still there: nobody else may take a super admin away without counting.
CountInv ==
  overlapped = "no" =>
    /\ \A v, w \in Workers : job[v].counted = "yes" /\ job[w].counted = "yes" => v = w
    /\ \A w \in Workers : job[w].counted = "yes" => remaining(job[w].u) # {}
    /\ \E u \in SuperAdmins : u \notin blocked \cup deleted

\* Every handler in flight has a row for its target.
Targets == \A w \in Workers : job[w].pc # "idle" => job[w].u \in rows

\* A plain admin's request was read of somebody who is no admin, and does not make one; its
\* target is still none, or was promoted under it.
ManageInv ==
  \A w \in Workers :
    job[w].by = "plain" =>
      /\ job[w].pc \in {"role", "block", "unblock"}
      /\ job[w].r # "ADMIN"
      /\ role[job[w].u] # "ADMIN" \/ job[w].u \in crossed

\* The inductive invariant.
Inv == TypeOK /\ Targets /\ SuperInv /\ CountInv /\ ManageInv

-----------------------------------------------------------------------------
\* Rows and locals stay well formed.
LEMMA TypeStep ==
  ASSUME TypeOK, Targets, [Next]_vars
  PROVE  TypeOK' /\ Targets'
<1>. USE AdministrationAssumption DEF TypeOK, Seeded, Job, At, Idle, Steps, Role, Begin,
     Await, Return, historyVars, Targets
<1>1. ASSUME NEW u \in Users, createOfficer(u)
      PROVE  TypeOK' /\ Targets'
  BY <1>1 DEF createOfficer
<1>2. ASSUME NEW u \in Users, createAdmin(u)
      PROVE  TypeOK' /\ Targets'
  BY <1>2 DEF createAdmin
<1>3. ASSUME NEW u \in Users, createCitizen(u)
      PROVE  TypeOK' /\ Targets'
  BY <1>3 DEF createCitizen
<1>4. ASSUME NEW u \in Users, restore(u)
      PROVE  TypeOK' /\ Targets'
  BY <1>4 DEF restore
<1>5. ASSUME NEW u \in Users, upsertUser(u)
      PROVE  TypeOK' /\ Targets'
  BY <1>5 DEF upsertUser, found, crossedBy
<1>6. ASSUME NEW w \in Workers, NEW u \in Users, deleteMeRead(w, u)
      PROVE  TypeOK' /\ Targets'
  BY <1>6 DEF deleteMeRead, active
<1>7. ASSUME NEW w \in Workers, NEW a \in Users, NEW u \in Users, removeAdminRead(w, a, u)
      PROVE  TypeOK' /\ Targets'
  BY <1>7 DEF removeAdminRead, found
<1>8. ASSUME NEW w \in Workers, NEW a \in Users, NEW u \in Users, NEW r \in Role,
            updateRoleRead(w, a, u, r)
      PROVE  TypeOK' /\ Targets'
  BY <1>8 DEF updateRoleRead, found, kind
<1>9. ASSUME NEW w \in Workers, NEW a \in Users, NEW u \in Users, NEW pc \in {"block", "unblock"},
             updateStatusRead(w, a, u, pc)
      PROVE  TypeOK' /\ Targets'
  BY <1>9 DEF updateStatusRead, found, kind
<1>10. ASSUME NEW w \in Workers, assertNotLastSuperAdmin(w)
      PROVE  TypeOK' /\ Targets'
  BY <1>10 DEF assertNotLastSuperAdmin, remaining
<1>11. ASSUME NEW w \in Workers, lastSuperAdmin(w)
      PROVE  TypeOK' /\ Targets'
  BY <1>11 DEF lastSuperAdmin
<1>12. ASSUME NEW w \in Workers, updateRoleWrite(w)
      PROVE  TypeOK' /\ Targets'
  BY <1>12 DEF updateRoleWrite, user_superadmin_ck, crossedBy
<1>13. ASSUME NEW w \in Workers, updateStatusBlock(w)
      PROVE  TypeOK' /\ Targets'
  BY <1>13 DEF updateStatusBlock
<1>14. ASSUME NEW w \in Workers, updateStatusUnblock(w)
      PROVE  TypeOK' /\ Targets'
  BY <1>14 DEF updateStatusUnblock
<1>15. ASSUME NEW w \in Workers, removeWrite(w)
      PROVE  TypeOK' /\ Targets'
  BY <1>15 DEF removeWrite
<1>16. ASSUME NEW w \in Workers, Crash(w)
      PROVE  TypeOK' /\ Targets'
  BY <1>16 DEF Crash
<1>17. CASE UNCHANGED vars
  BY <1>17 DEF vars
<1>. QED
  BY <1>1, <1>2, <1>3, <1>4, <1>5, <1>6, <1>7, <1>8, <1>9, <1>10, <1>11, <1>12,
     <1>13, <1>14, <1>15, <1>16, <1>17 DEF Next, Receive, Handle

\* No handler takes the role of a super admin away, and no row is removed.
LEMMA SuperStep ==
  ASSUME TypeOK, SuperInv, [Next]_vars
  PROVE  SuperInv'
<1>. USE AdministrationAssumption DEF TypeOK, Seeded, Job, At, Idle, Steps, Role, Begin,
     Await, Return, historyVars, SuperInv
<1>1. ASSUME NEW u \in Users, createOfficer(u)
      PROVE  SuperInv'
  BY <1>1 DEF createOfficer
<1>2. ASSUME NEW u \in Users, createAdmin(u)
      PROVE  SuperInv'
  BY <1>2 DEF createAdmin
<1>3. ASSUME NEW u \in Users, createCitizen(u)
      PROVE  SuperInv'
  BY <1>3 DEF createCitizen
<1>4. ASSUME NEW u \in Users, restore(u)
      PROVE  SuperInv'
  BY <1>4 DEF restore
<1>5. ASSUME NEW u \in Users, upsertUser(u)
      PROVE  SuperInv'
  BY <1>5 DEF upsertUser, found, crossedBy
<1>6. ASSUME NEW w \in Workers, NEW u \in Users, deleteMeRead(w, u)
      PROVE  SuperInv'
  BY <1>6 DEF deleteMeRead, active
<1>7. ASSUME NEW w \in Workers, NEW a \in Users, NEW u \in Users, removeAdminRead(w, a, u)
      PROVE  SuperInv'
  BY <1>7 DEF removeAdminRead, found
<1>8. ASSUME NEW w \in Workers, NEW a \in Users, NEW u \in Users, NEW r \in Role,
            updateRoleRead(w, a, u, r)
      PROVE  SuperInv'
  BY <1>8 DEF updateRoleRead, found, kind
<1>9. ASSUME NEW w \in Workers, NEW a \in Users, NEW u \in Users, NEW pc \in {"block", "unblock"},
             updateStatusRead(w, a, u, pc)
      PROVE  SuperInv'
  BY <1>9 DEF updateStatusRead, found, kind
<1>10. ASSUME NEW w \in Workers, assertNotLastSuperAdmin(w)
      PROVE  SuperInv'
  BY <1>10 DEF assertNotLastSuperAdmin, remaining
<1>11. ASSUME NEW w \in Workers, lastSuperAdmin(w)
      PROVE  SuperInv'
  BY <1>11 DEF lastSuperAdmin
<1>12. ASSUME NEW w \in Workers, updateRoleWrite(w)
      PROVE  SuperInv'
  BY <1>12 DEF updateRoleWrite, user_superadmin_ck, crossedBy
<1>13. ASSUME NEW w \in Workers, updateStatusBlock(w)
      PROVE  SuperInv'
  BY <1>13 DEF updateStatusBlock
<1>14. ASSUME NEW w \in Workers, updateStatusUnblock(w)
      PROVE  SuperInv'
  BY <1>14 DEF updateStatusUnblock
<1>15. ASSUME NEW w \in Workers, removeWrite(w)
      PROVE  SuperInv'
  BY <1>15 DEF removeWrite
<1>16. ASSUME NEW w \in Workers, Crash(w)
      PROVE  SuperInv'
  BY <1>16 DEF Crash
<1>17. CASE UNCHANGED vars
  BY <1>17 DEF vars
<1>. QED
  BY <1>1, <1>2, <1>3, <1>4, <1>5, <1>6, <1>7, <1>8, <1>9, <1>10, <1>11, <1>12,
     <1>13, <1>14, <1>15, <1>16, <1>17 DEF Next, Receive, Handle

\* A handler that counted is alone with its count, or the overlap is on record.
LEMMA CountStep ==
  ASSUME TypeOK, SuperInv, CountInv, [Next]_vars
  PROVE  CountInv'
<1>. USE AdministrationAssumption DEF TypeOK, Seeded, Job, At, Idle, Steps, Role, Begin,
     Await, Return, historyVars, SuperInv, CountInv, remaining
<1>1. ASSUME NEW u \in Users, createOfficer(u)
      PROVE  CountInv'
  BY <1>1 DEF createOfficer
<1>2. ASSUME NEW u \in Users, createAdmin(u)
      PROVE  CountInv'
  BY <1>2 DEF createAdmin
<1>3. ASSUME NEW u \in Users, createCitizen(u)
      PROVE  CountInv'
  BY <1>3 DEF createCitizen
<1>4. ASSUME NEW u \in Users, restore(u)
      PROVE  CountInv'
  BY <1>4 DEF restore
<1>5. ASSUME NEW u \in Users, upsertUser(u)
      PROVE  CountInv'
  BY <1>5 DEF upsertUser, found, crossedBy
<1>6. ASSUME NEW w \in Workers, NEW u \in Users, deleteMeRead(w, u)
      PROVE  CountInv'
  BY <1>6 DEF deleteMeRead, active
<1>7. ASSUME NEW w \in Workers, NEW a \in Users, NEW u \in Users, removeAdminRead(w, a, u)
      PROVE  CountInv'
  BY <1>7 DEF removeAdminRead, found
<1>8. ASSUME NEW w \in Workers, NEW a \in Users, NEW u \in Users, NEW r \in Role,
            updateRoleRead(w, a, u, r)
      PROVE  CountInv'
  BY <1>8 DEF updateRoleRead, found, kind
<1>9. ASSUME NEW w \in Workers, NEW a \in Users, NEW u \in Users, NEW pc \in {"block", "unblock"},
             updateStatusRead(w, a, u, pc)
      PROVE  CountInv'
  BY <1>9 DEF updateStatusRead, found, kind
<1>10. ASSUME NEW w \in Workers, assertNotLastSuperAdmin(w)
      PROVE  CountInv'
  BY <1>10 DEF assertNotLastSuperAdmin, remaining
<1>11. ASSUME NEW w \in Workers, lastSuperAdmin(w)
      PROVE  CountInv'
  BY <1>11 DEF lastSuperAdmin
<1>12. ASSUME NEW w \in Workers, updateRoleWrite(w)
      PROVE  CountInv'
  BY <1>12 DEF updateRoleWrite, user_superadmin_ck, crossedBy
<1>13. ASSUME NEW w \in Workers, updateStatusBlock(w)
      PROVE  CountInv'
  BY <1>13 DEF updateStatusBlock
<1>14. ASSUME NEW w \in Workers, updateStatusUnblock(w)
      PROVE  CountInv'
  BY <1>14 DEF updateStatusUnblock
<1>15. ASSUME NEW w \in Workers, removeWrite(w)
      PROVE  CountInv'
  BY <1>15 DEF removeWrite
<1>16. ASSUME NEW w \in Workers, Crash(w)
      PROVE  CountInv'
  BY <1>16 DEF Crash
<1>17. CASE UNCHANGED vars
  BY <1>17 DEF vars
<1>. QED
  BY <1>1, <1>2, <1>3, <1>4, <1>5, <1>6, <1>7, <1>8, <1>9, <1>10, <1>11, <1>12,
     <1>13, <1>14, <1>15, <1>16, <1>17 DEF Next, Receive, Handle

\* A promotion under a plain admin's request is on record.
LEMMA ManageStep ==
  ASSUME TypeOK, Targets, ManageInv, [Next]_vars
  PROVE  ManageInv'
<1>. USE AdministrationAssumption DEF TypeOK, Seeded, Job, At, Idle, Steps, Role, Begin,
     Await, Return, historyVars, Targets, ManageInv, kind, assertMayManage, crossedBy
<1>1. ASSUME NEW u \in Users, createOfficer(u)
      PROVE  ManageInv'
  BY <1>1 DEF createOfficer
<1>2. ASSUME NEW u \in Users, createAdmin(u)
      PROVE  ManageInv'
  BY <1>2 DEF createAdmin
<1>3. ASSUME NEW u \in Users, createCitizen(u)
      PROVE  ManageInv'
  BY <1>3 DEF createCitizen
<1>4. ASSUME NEW u \in Users, restore(u)
      PROVE  ManageInv'
  BY <1>4 DEF restore
<1>5. ASSUME NEW u \in Users, upsertUser(u)
      PROVE  ManageInv'
  BY <1>5 DEF upsertUser, found, crossedBy
<1>6. ASSUME NEW w \in Workers, NEW u \in Users, deleteMeRead(w, u)
      PROVE  ManageInv'
  BY <1>6 DEF deleteMeRead, active
<1>7. ASSUME NEW w \in Workers, NEW a \in Users, NEW u \in Users, removeAdminRead(w, a, u)
      PROVE  ManageInv'
  BY <1>7 DEF removeAdminRead, found
<1>8. ASSUME NEW w \in Workers, NEW a \in Users, NEW u \in Users, NEW r \in Role,
            updateRoleRead(w, a, u, r)
      PROVE  ManageInv'
  BY <1>8 DEF updateRoleRead, found, kind
<1>9. ASSUME NEW w \in Workers, NEW a \in Users, NEW u \in Users, NEW pc \in {"block", "unblock"},
             updateStatusRead(w, a, u, pc)
      PROVE  ManageInv'
  BY <1>9 DEF updateStatusRead, found, kind
<1>10. ASSUME NEW w \in Workers, assertNotLastSuperAdmin(w)
      PROVE  ManageInv'
  BY <1>10 DEF assertNotLastSuperAdmin, remaining
<1>11. ASSUME NEW w \in Workers, lastSuperAdmin(w)
      PROVE  ManageInv'
  BY <1>11 DEF lastSuperAdmin
<1>12. ASSUME NEW w \in Workers, updateRoleWrite(w)
      PROVE  ManageInv'
  BY <1>12 DEF updateRoleWrite, user_superadmin_ck, crossedBy
<1>13. ASSUME NEW w \in Workers, updateStatusBlock(w)
      PROVE  ManageInv'
  BY <1>13 DEF updateStatusBlock
<1>14. ASSUME NEW w \in Workers, updateStatusUnblock(w)
      PROVE  ManageInv'
  BY <1>14 DEF updateStatusUnblock
<1>15. ASSUME NEW w \in Workers, removeWrite(w)
      PROVE  ManageInv'
  BY <1>15 DEF removeWrite
<1>16. ASSUME NEW w \in Workers, Crash(w)
      PROVE  ManageInv'
  BY <1>16 DEF Crash
<1>17. CASE UNCHANGED vars
  BY <1>17 DEF vars
<1>. QED
  BY <1>1, <1>2, <1>3, <1>4, <1>5, <1>6, <1>7, <1>8, <1>9, <1>10, <1>11, <1>12,
     <1>13, <1>14, <1>15, <1>16, <1>17 DEF Next, Receive, Handle

\* What a step may do to an admin.
Decides ==
  \A u \in rows \ crossed :
    ActsOnAdmin(u) =>
      \/ upsertUser(u)
      \/ \E w \in Workers : job[w].u = u /\ job[w].by # "plain" /\ job'[w] = Idle

\* An update by id reaches an admin by a super admin's request, or the admin's own.
LEMMA DecidesStep ==
  ASSUME TypeOK, Targets, ManageInv, [Next]_vars
  PROVE  Decides
<1>. USE AdministrationAssumption DEF TypeOK, Seeded, Job, At, Idle, Steps, Role, Begin,
     Await, Return, historyVars, Targets, ManageInv, Decides, ActsOnAdmin, found
<1>1. ASSUME NEW u \in Users, createOfficer(u)
      PROVE  Decides
  BY <1>1 DEF createOfficer
<1>2. ASSUME NEW u \in Users, createAdmin(u)
      PROVE  Decides
  BY <1>2 DEF createAdmin
<1>3. ASSUME NEW u \in Users, createCitizen(u)
      PROVE  Decides
  BY <1>3 DEF createCitizen
<1>4. ASSUME NEW u \in Users, restore(u)
      PROVE  Decides
  BY <1>4 DEF restore
<1>5. ASSUME NEW u \in Users, upsertUser(u)
      PROVE  Decides
  <2>1. \A v \in Users \ {u} : role'[v] = role[v]
    BY <1>5 DEF upsertUser
  <2>2. blocked' = blocked /\ deleted' = deleted
    BY <1>5 DEF upsertUser
  <2>3. \A v \in rows \ crossed : ActsOnAdmin(v) => v = u
    BY <2>1, <2>2
  <2>. QED
    BY <1>5, <2>3
<1>6. ASSUME NEW w \in Workers, NEW u \in Users, deleteMeRead(w, u)
      PROVE  Decides
  BY <1>6 DEF deleteMeRead, active
<1>7. ASSUME NEW w \in Workers, NEW a \in Users, NEW u \in Users, removeAdminRead(w, a, u)
      PROVE  Decides
  BY <1>7 DEF removeAdminRead, found
<1>8. ASSUME NEW w \in Workers, NEW a \in Users, NEW u \in Users, NEW r \in Role,
            updateRoleRead(w, a, u, r)
      PROVE  Decides
  BY <1>8 DEF updateRoleRead, found, kind
<1>9. ASSUME NEW w \in Workers, NEW a \in Users, NEW u \in Users, NEW pc \in {"block", "unblock"},
             updateStatusRead(w, a, u, pc)
      PROVE  Decides
  BY <1>9 DEF updateStatusRead, found, kind
<1>10. ASSUME NEW w \in Workers, assertNotLastSuperAdmin(w)
      PROVE  Decides
  BY <1>10 DEF assertNotLastSuperAdmin, remaining
<1>11. ASSUME NEW w \in Workers, lastSuperAdmin(w)
      PROVE  Decides
  BY <1>11 DEF lastSuperAdmin
<1>12. ASSUME NEW w \in Workers, updateRoleWrite(w)
      PROVE  Decides
  BY <1>12 DEF updateRoleWrite, user_superadmin_ck, crossedBy
<1>13. ASSUME NEW w \in Workers, updateStatusBlock(w)
      PROVE  Decides
  BY <1>13 DEF updateStatusBlock
<1>14. ASSUME NEW w \in Workers, updateStatusUnblock(w)
      PROVE  Decides
  BY <1>14 DEF updateStatusUnblock
<1>15. ASSUME NEW w \in Workers, removeWrite(w)
      PROVE  Decides
  BY <1>15 DEF removeWrite
<1>16. ASSUME NEW w \in Workers, Crash(w)
      PROVE  Decides
  BY <1>16 DEF Crash
<1>17. CASE UNCHANGED vars
  <2>1. role' = role /\ blocked' = blocked /\ deleted' = deleted
    BY <1>17 DEF vars
  <2>. QED
    BY <2>1
<1>. HIDE DEF Decides
<1>. QED
  BY <1>1, <1>2, <1>3, <1>4, <1>5, <1>6, <1>7, <1>8, <1>9, <1>10, <1>11, <1>12,
     <1>13, <1>14, <1>15, <1>16, <1>17 DEF Next, Receive, Handle

-----------------------------------------------------------------------------
\* The seed leaves live super admins, whom nobody has counted yet.
LEMMA InvInit == Init => Inv
<1>. SUFFICES ASSUME Init
              PROVE  Inv
  OBVIOUS
<1>1. PICK u \in SuperAdmins : TRUE
  BY AdministrationAssumption
<1>. QED
  BY <1>1, AdministrationAssumption DEF Init, Inv, TypeOK, Targets, SuperInv, CountInv, ManageInv,
   Seeded, Job, At, Idle, Steps, Role

\* Each handler's step keeps what the others rely on.
LEMMA InvStep == Inv /\ [Next]_vars => Inv'
BY TypeStep, SuperStep, CountStep, ManageStep DEF Inv

\* The invariant holds in every state of every behaviour.
THEOREM Invariance == Spec => []Inv
BY InvInit, InvStep, PTL DEF Spec

\* Rows and locals are well formed for any number of accounts and handlers.
THEOREM TypeCorrect == Spec => []TypeOK
<1>1. Inv => TypeOK
  BY DEF Inv
<1>. QED
  BY <1>1, Invariance, PTL

\* The checks of updateRole, updateStatus, removeAdmin and deleteMe keep a super admin who can
\* act, as long as no two of them counted before either wrote, for any number of super admins.
THEOREM SomebodyRemains == Spec => []WayBackIn
<1>1. Inv => WayBackIn
  BY DEF Inv, TypeOK, SuperInv, CountInv, WayBackIn, superAdminOnly, active
<1>. QED
  BY <1>1, Invariance, PTL

\* updateRole, updateStatus, removeAdmin: nobody but a super admin changes the standing of another
\* admin, unless the promotion and a plain admin's request crossed, for any number of accounts.
THEOREM AdminsAnswerToSuperAdmins == Spec => SuperAdminDecides
<1>1. Inv /\ [Next]_vars => [Decides]_vars
  BY DecidesStep DEF Inv
<1>2. Spec => [][Decides]_vars
  BY <1>1, Invariance, PTL DEF Spec
<1>. QED
  BY <1>2 DEF SuperAdminDecides, Decides
=============================================================================

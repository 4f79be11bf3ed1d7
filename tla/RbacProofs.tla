----------------------------- MODULE RbacProofs -----------------------------
(***************************************************************************)
(* Proofs about Rbac, for any catalogue, any roles, users and payloads and *)
(* any number of handlers in flight.                                       *)
(***************************************************************************)
EXTENDS Rbac, TLAPS

\* What a handler holds on to fits the step it is at: a save writes rows of its own role, an
\* assignment takes away and writes rows of its own user, and no system role is deleted.
JobInv ==
  \A w \in Workers :
    /\ job[w].pc = "save" => job[w].r \in Roles /\ job[w].rows = {job[w].r} \X job[w].codes
    /\ job[w].pc = "assign" => /\ job[w].u \in Users
                               /\ job[w].seen \subseteq {job[w].u} \X Roles
                               /\ job[w].rows \subseteq {job[w].u} \X Roles
    /\ job[w].pc = "drop" => job[w].r \in Roles \ Systems
    /\ job[w].pc \in {"assigned", "fallback", "fill"} => job[w].u \in Users
    /\ job[w].pc \in {"assigned", "fallback"} => job[w].t \in Types

\* The permissions of config/permissions.ts cannot be deleted.
CatalogueStays == \A p \in Catalogue : perm[p] = "live"

-----------------------------------------------------------------------------
\* What a commit does to the handlers: its own goes on, and the others find fewer rows left to
\* delete.
LEMMA CommitFacts ==
  ASSUME TypeOK, NEW w \in Workers, NEW j \in Job, Commit(w, j)
  PROVE  /\ job' \in [Workers -> Job]
         /\ job'[w] = j
         /\ \A v \in Workers : v # w =>
              /\ job'[v].pc = job[v].pc /\ job'[v].u = job[v].u /\ job'[v].r = job[v].r
              /\ job'[v].t = job[v].t /\ job'[v].codes = job[v].codes
              /\ job'[v].keys = job[v].keys /\ job'[v].rows = job[v].rows
              /\ job'[v].seen \subseteq job[v].seen
<1>. USE DEF TypeOK, Commit, Job
<1>1. \A v \in Workers : job'[v] \in Job
  <2>. SUFFICES ASSUME NEW v \in Workers
                PROVE  job'[v] \in Job
    OBVIOUS
  <2>1. CASE v = w
    BY <2>1
  <2>2. CASE v # w
    BY <2>2
  <2>. QED
    BY <2>1, <2>2
<1>2. job' \in [Workers -> Job]
  BY <1>1
<1>. QED
  BY <1>2

\* Roles carry permissions.
LEMMA CodesTyped == \A S : UNION {codesOf(r) : r \in S} \in SUBSET Perms
<1>1. \A r : codesOf(r) \subseteq Perms
  BY DEF codesOf
<1>. QED
  BY <1>1

\* After a commit the locals fit, its own and those of the others.
LEMMA CommitJobs ==
  ASSUME TypeOK, JobInv, NEW w \in Workers, NEW j \in Job, j.pc \in {"keys", "del"}, Commit(w, j)
  PROVE  job' \in [Workers -> Job] /\ JobInv'
<1>1. job' \in [Workers -> Job] /\ job'[w] = j
  BY CommitFacts
<1>2. \A v \in Workers : v # w =>
              /\ job'[v].pc = job[v].pc /\ job'[v].u = job[v].u /\ job'[v].r = job[v].r
              /\ job'[v].t = job[v].t /\ job'[v].codes = job[v].codes
              /\ job'[v].keys = job[v].keys /\ job'[v].rows = job[v].rows
              /\ job'[v].seen \subseteq job[v].seen
  BY CommitFacts
<1>. QED
  BY <1>1, <1>2 DEF JobInv

\* Rows and locals stay well formed.
LEMMA TypeStep ==
  ASSUME TypeOK, JobInv, [Next]_vars
  PROVE  TypeOK' /\ JobInv'
<1>. USE RbacAssumption DEF TypeOK, JobInv, Job, At, Idle, Steps, Life, Sweep, tables
<1>1. ASSUME NEW w \in Workers, NEW p \in Perms, deletePermission(w, p)
      PROVE  TypeOK' /\ JobInv'
  BY <1>1 DEF deletePermission, Begin, Sweep
<1>2. ASSUME NEW w \in Workers, NEW r \in Roles, deleteRoleRead(w, r)
      PROVE  TypeOK' /\ JobInv'
  BY <1>2 DEF deleteRoleRead, Begin, rolesOf
<1>3. ASSUME NEW w \in Workers, NEW r \in Roles, NEW ps \in Payloads,
            updateRoleDelete(w, r, ps)
      PROVE  TypeOK' /\ JobInv'
  BY <1>3 DEF updateRoleDelete, Begin
<1>4. ASSUME NEW w \in Workers, NEW u \in Users, getUserPermissions(w, u)
      PROVE  TypeOK' /\ JobInv'
  BY <1>4 DEF getUserPermissions, Begin
<1>5. ASSUME NEW w \in Workers, NEW u \in Users, NEW rs \in Picks,
            assignUserRolesDelete(w, u, rs)
      PROVE  TypeOK' /\ JobInv'
  BY <1>5 DEF assignUserRolesDelete, Begin
<1>6. ASSUME NEW w \in Workers, updateRoleSave(w)
      PROVE  TypeOK' /\ JobInv'
  <2>. DEFINE j == Sweep
  <2>1. j \in Job /\ j.pc = "keys" /\ Commit(w, j)
    BY <1>6 DEF updateRoleSave
  <2>. HIDE DEF j
  <2>2. job' \in [Workers -> Job] /\ JobInv'
    BY <2>1, CommitJobs
  <2>3. grants' \subseteq Roles \X Perms
    BY <1>6 DEF updateRoleSave
  <2>. QED
    BY <1>6, <2>2, <2>3 DEF updateRoleSave
<1>7. ASSUME NEW w \in Workers, deleteRoleDrop(w)
      PROVE  TypeOK' /\ JobInv'
  BY <1>7 DEF deleteRoleDrop, Await, Sweep
<1>8. ASSUME NEW w \in Workers, assignUserRolesSave(w)
      PROVE  TypeOK' /\ JobInv'
  <2>. DEFINE j == At("del", None, None, None, {}, {job[w].u}, {}, {})
  <2>1. j \in Job /\ j.pc = "del" /\ Commit(w, j)
    BY <1>8 DEF assignUserRolesSave
  <2>. HIDE DEF j
  <2>2. job' \in [Workers -> Job] /\ JobInv'
    BY <2>1, CommitJobs
  <2>3. holds' \subseteq Users \X Roles
    BY <1>8 DEF assignUserRolesSave
  <2>. QED
    BY <1>8, <2>2, <2>3 DEF assignUserRolesSave
<1>9. ASSUME NEW w \in Workers, invalidateAllKeys(w)
      PROVE  TypeOK' /\ JobInv'
  BY <1>9 DEF invalidateAllKeys, Await
<1>10. ASSUME NEW w \in Workers, invalidateDel(w)
      PROVE  TypeOK' /\ JobInv'
  BY <1>10 DEF invalidateDel, Return
<1>11. ASSUME NEW w \in Workers, invalidateFails(w)
      PROVE  TypeOK' /\ JobInv'
  BY <1>11 DEF invalidateFails, Return
<1>12. ASSUME NEW w \in Workers, assignedRead(w)
      PROVE  TypeOK' /\ JobInv'
  <2>1. UNION {codesOf(r) : r \in rolesOf(job[w].u)} \in SUBSET Perms
    BY CodesTyped
  <2>2. UNCHANGED <<tables, cache, excused>>
    BY <1>12 DEF assignedRead
  <2>3. job[w].u \in Users /\ job[w].t \in Types
    BY <1>12 DEF assignedRead
  <2>4. CASE rolesOf(job[w].u) # {}
    <3>1. PICK S \in SUBSET Perms :
            job' = [job EXCEPT ![w] = At("fill", job[w].u, None, None, S, {}, {}, {})]
      BY <1>12, <2>1, <2>4, Zenon DEF assignedRead, Await
    <3>. QED
      BY <2>2, <2>3, <3>1
  <2>5. CASE rolesOf(job[w].u) = {}
    <3>1. job' = [job EXCEPT ![w] = At("fallback", job[w].u, None, job[w].t, {}, {}, {}, {})]
      BY <1>12, <2>5, Zenon DEF assignedRead, Await
    <3>. QED
      BY <2>2, <2>3, <3>1
  <2>. QED
    BY <2>4, <2>5
<1>13. ASSUME NEW w \in Workers, fallbackRead(w)
      PROVE  TypeOK' /\ JobInv'
  BY <1>13 DEF fallbackRead, Await, codesOf
<1>14. ASSUME NEW w \in Workers, fill(w)
      PROVE  TypeOK' /\ JobInv'
  BY <1>14 DEF fill, Return
<1>15. ASSUME NEW w \in Workers, Crash(w)
      PROVE  TypeOK' /\ JobInv'
  BY <1>15 DEF Crash, Return
<1>16. ASSUME NEW p \in Perms, createPermission(p)
      PROVE  TypeOK' /\ JobInv'
  BY <1>16 DEF createPermission
<1>17. ASSUME NEW r \in Roles, NEW ps \in Payloads, createRole(r, ps)
      PROVE  TypeOK' /\ JobInv'
  BY <1>17 DEF createRole, assertPermissionsExist
<1>18. ASSUME NEW u \in Users, NEW t \in Types, adminUpdateRole(u, t)
      PROVE  TypeOK' /\ JobInv'
  BY <1>18 DEF adminUpdateRole
<1>19. ASSUME NEW u \in Users, cacheExpires(u)
      PROVE  TypeOK' /\ JobInv'
  BY <1>19 DEF cacheExpires
<1>20. ASSUME seed
      PROVE  TypeOK' /\ JobInv'
  BY <1>20 DEF seed, Systems
<1>21. CASE UNCHANGED vars
  BY <1>21 DEF vars
<1>. QED
  BY <1>1, <1>2, <1>3, <1>4, <1>5, <1>6, <1>7, <1>8, <1>9, <1>10, <1>11, <1>12, <1>13,
     <1>14, <1>15, <1>16, <1>17, <1>18, <1>19, <1>20, <1>21 DEF Next, Receive, Handle

\* The checks at the insert and the cascades keep every row pointing at something.
LEMMA ReferenceStep ==
  ASSUME TypeOK, JobInv, CatalogueStays, Referential, [Next]_vars
  PROVE  Referential' /\ CatalogueStays'
<1>. USE RbacAssumption DEF TypeOK, JobInv, Referential, CatalogueStays, Systems, tables
<1>1. ASSUME NEW w \in Workers, NEW p \in Perms, deletePermission(w, p)
      PROVE  Referential' /\ CatalogueStays'
  BY <1>1 DEF deletePermission, Begin, Sweep
<1>2. ASSUME NEW w \in Workers, NEW r \in Roles, deleteRoleRead(w, r)
      PROVE  Referential' /\ CatalogueStays'
  BY <1>2 DEF deleteRoleRead, Begin, rolesOf
<1>3. ASSUME NEW w \in Workers, NEW r \in Roles, NEW ps \in Payloads,
            updateRoleDelete(w, r, ps)
      PROVE  Referential' /\ CatalogueStays'
  BY <1>3 DEF updateRoleDelete, Begin
<1>4. ASSUME NEW w \in Workers, NEW u \in Users, getUserPermissions(w, u)
      PROVE  Referential' /\ CatalogueStays'
  BY <1>4 DEF getUserPermissions, Begin
<1>5. ASSUME NEW w \in Workers, NEW u \in Users, NEW rs \in Picks,
            assignUserRolesDelete(w, u, rs)
      PROVE  Referential' /\ CatalogueStays'
  BY <1>5 DEF assignUserRolesDelete, Begin
<1>6. ASSUME NEW w \in Workers, updateRoleSave(w)
      PROVE  Referential' /\ CatalogueStays'
  BY <1>6 DEF updateRoleSave, assertPermissionsExist
<1>7. ASSUME NEW w \in Workers, deleteRoleDrop(w)
      PROVE  Referential' /\ CatalogueStays'
  BY <1>7 DEF deleteRoleDrop, Await, Sweep
<1>8. ASSUME NEW w \in Workers, assignUserRolesSave(w)
      PROVE  Referential' /\ CatalogueStays'
  BY <1>8 DEF assignUserRolesSave
<1>9. ASSUME NEW w \in Workers, invalidateAllKeys(w)
      PROVE  Referential' /\ CatalogueStays'
  BY <1>9 DEF invalidateAllKeys, Await
<1>10. ASSUME NEW w \in Workers, invalidateDel(w)
      PROVE  Referential' /\ CatalogueStays'
  BY <1>10 DEF invalidateDel, Return
<1>11. ASSUME NEW w \in Workers, invalidateFails(w)
      PROVE  Referential' /\ CatalogueStays'
  BY <1>11 DEF invalidateFails, Return
<1>12. ASSUME NEW w \in Workers, assignedRead(w)
      PROVE  Referential' /\ CatalogueStays'
  BY <1>12 DEF assignedRead, Await, rolesOf, codesOf
<1>13. ASSUME NEW w \in Workers, fallbackRead(w)
      PROVE  Referential' /\ CatalogueStays'
  BY <1>13 DEF fallbackRead, Await, codesOf
<1>14. ASSUME NEW w \in Workers, fill(w)
      PROVE  Referential' /\ CatalogueStays'
  BY <1>14 DEF fill, Return
<1>15. ASSUME NEW w \in Workers, Crash(w)
      PROVE  Referential' /\ CatalogueStays'
  BY <1>15 DEF Crash, Return
<1>16. ASSUME NEW p \in Perms, createPermission(p)
      PROVE  Referential' /\ CatalogueStays'
  BY <1>16 DEF createPermission
<1>17. ASSUME NEW r \in Roles, NEW ps \in Payloads, createRole(r, ps)
      PROVE  Referential' /\ CatalogueStays'
  BY <1>17 DEF createRole, assertPermissionsExist
<1>18. ASSUME NEW u \in Users, NEW t \in Types, adminUpdateRole(u, t)
      PROVE  Referential' /\ CatalogueStays'
  BY <1>18 DEF adminUpdateRole
<1>19. ASSUME NEW u \in Users, cacheExpires(u)
      PROVE  Referential' /\ CatalogueStays'
  BY <1>19 DEF cacheExpires
<1>20. ASSUME seed
      PROVE  Referential' /\ CatalogueStays'
  BY <1>20 DEF seed, Systems
<1>21. CASE UNCHANGED vars
  BY <1>21 DEF vars
<1>. QED
  BY <1>1, <1>2, <1>3, <1>4, <1>5, <1>6, <1>7, <1>8, <1>9, <1>10, <1>11, <1>12, <1>13,
     <1>14, <1>15, <1>16, <1>17, <1>18, <1>19, <1>20, <1>21 DEF Next, Receive, Handle

-----------------------------------------------------------------------------
(* StaleExplained, as a predicate of the tables g, h and a.                *)

RolesIn(h, u) == {r \in Roles : <<u, r>> \in h}

CodesIn(g, r) == {p \in Perms : <<r, p>> \in g}

Eff(g, h, a, u) ==
  IF RolesIn(h, u) # {} THEN UNION {CodesIn(g, r) : r \in RolesIn(h, u)}
  ELSE CodesIn(g, Mirrors[a[u]])

Dropping(j, u) == \E w \in Workers : j[w].pc = "keys" \/ (j[w].pc = "del" /\ u \in j[w].keys)

Fits(g, h, a, c) == c[2] = Eff(g, h, a, c[1])

Explained ==
  \A c \in cache : Fits(grants, holds, account, c) \/ c[1] \in excused \/ Dropping(job, c[1])

\* effective reads the three tables and nothing else.
LEMMA EffectiveMeans == \A u : effective(u) = Eff(grants, holds, account, u)
BY DEF effective, Eff, RolesIn, CodesIn, rolesOf, codesOf

\* The two forms say the same.
LEMMA ExplainedMeans == TypeOK => (Explained <=> StaleExplained)
<1>. SUFFICES ASSUME TypeOK
              PROVE  Explained <=> StaleExplained
  OBVIOUS
<1>1. \A c \in cache : c[1] \in Users
  BY DEF TypeOK
<1>. QED
  BY <1>1, EffectiveMeans DEF Explained, Fits, Dropping, StaleExplained, stale, beingDropped

\* A step that changes what nobody may do, no entry, no excuse, and nobody who drops one.
LEMMA NothingNew ==
  ASSUME TypeOK, Explained, cache' = cache, excused' = excused,
         \A u \in Users : Eff(grants', holds', account', u) = Eff(grants, holds, account, u),
         \A v \in Workers : job[v].pc \in {"keys", "del"} => job'[v] = job[v]
  PROVE  Explained'
<1>1. \A c \in cache : c[1] \in Users
  BY DEF TypeOK
<1>2. \A u : Dropping(job, u) => Dropping(job', u)
  BY DEF Dropping
<1>. QED
  BY <1>1, <1>2 DEF Explained, Fits

\* A handler that is about to list the keys will drop every entry.
LEMMA SweepExplains ==
  ASSUME NEW w \in Workers, job'[w].pc = "keys"
  PROVE  Explained'
BY DEF Explained, Dropping

\* Whatever changes what a user may do drops the entry or excuses it.
LEMMA ExplainedStep ==
  ASSUME TypeOK, JobInv, Referential, Explained, [Next]_vars
  PROVE  Explained'
<1>1. ASSUME NEW w \in Workers, NEW p \in Perms, deletePermission(w, p)
      PROVE  Explained'
  <2>1. job'[w].pc = "keys"
    BY <1>1 DEF deletePermission, TypeOK, Sweep, At, Begin
  <2>. QED
    BY <2>1, SweepExplains
<1>2. ASSUME NEW w \in Workers, NEW r \in Roles, deleteRoleRead(w, r)
      PROVE  Explained'
  <2>1. UNCHANGED <<grants, holds, account, cache, excused>>
    BY <1>2 DEF deleteRoleRead, tables
  <2>2. \A v \in Workers : job[v].pc \in {"keys", "del"} => job'[v] = job[v]
    BY <1>2 DEF deleteRoleRead, TypeOK, Begin, Idle, At
  <2>. QED
    BY <2>1, <2>2, NothingNew
<1>3. ASSUME NEW w \in Workers, NEW r \in Roles, NEW ps \in Payloads,
            updateRoleDelete(w, r, ps)
      PROVE  Explained'
  <2>1. UNCHANGED <<grants, holds, account, cache, excused>>
    BY <1>3 DEF updateRoleDelete, tables
  <2>2. \A v \in Workers : job[v].pc \in {"keys", "del"} => job'[v] = job[v]
    BY <1>3 DEF updateRoleDelete, TypeOK, Begin, Idle, At
  <2>. QED
    BY <2>1, <2>2, NothingNew
<1>4. ASSUME NEW w \in Workers, NEW u \in Users, getUserPermissions(w, u)
      PROVE  Explained'
  <2>1. UNCHANGED <<grants, holds, account, cache, excused>>
    BY <1>4 DEF getUserPermissions, tables
  <2>2. \A v \in Workers : job[v].pc \in {"keys", "del"} => job'[v] = job[v]
    BY <1>4 DEF getUserPermissions, TypeOK, Begin, Idle, At
  <2>. QED
    BY <2>1, <2>2, NothingNew
<1>5. ASSUME NEW w \in Workers, NEW u \in Users, NEW rs \in Picks,
            assignUserRolesDelete(w, u, rs)
      PROVE  Explained'
  <2>1. UNCHANGED <<grants, holds, account, cache, excused>>
    BY <1>5 DEF assignUserRolesDelete, tables
  <2>2. \A v \in Workers : job[v].pc \in {"keys", "del"} => job'[v] = job[v]
    BY <1>5 DEF assignUserRolesDelete, TypeOK, Begin, Idle, At
  <2>. QED
    BY <2>1, <2>2, NothingNew
<1>6. ASSUME NEW w \in Workers, updateRoleSave(w)
      PROVE  Explained'
  <2>1. job'[w].pc = "keys"
    BY <1>6 DEF updateRoleSave, TypeOK, Sweep, At, Commit
  <2>. QED
    BY <2>1, SweepExplains
<1>7. ASSUME NEW w \in Workers, deleteRoleDrop(w)
      PROVE  Explained'
  <2>1. job'[w].pc = "keys"
    BY <1>7 DEF deleteRoleDrop, TypeOK, Sweep, At, Await
  <2>. QED
    BY <2>1, SweepExplains
<1>8. ASSUME NEW w \in Workers, assignUserRolesSave(w)
      PROVE  Explained'
  <2>. DEFINE j == At("del", None, None, None, {}, {job[w].u}, {}, {})
  <2>1. j \in Job /\ j.pc = "del" /\ j.keys = {job[w].u} /\ Commit(w, j)
    BY <1>8 DEF assignUserRolesSave, JobInv, At, Job, Steps
  <2>. HIDE DEF j
  <2>2. job'[w] = j /\ \A v \in Workers : v # w => job'[v].pc = job[v].pc /\ job'[v].keys = job[v].keys
    BY <2>1, CommitFacts
  <2>3. \A u : u = job[w].u \/ Dropping(job, u) => Dropping(job', u)
    BY <1>8, <2>1, <2>2 DEF Dropping, assignUserRolesSave
  <2>4. UNCHANGED <<grants, account, cache, excused>>
    BY <1>8 DEF assignUserRolesSave
  <2>5. ASSUME NEW u \in Users, u # job[w].u
        PROVE  Eff(grants', holds', account', u) = Eff(grants, holds, account, u)
    <3>1. RolesIn(holds', u) = RolesIn(holds, u)
      BY <1>8, <2>5 DEF RolesIn, assignUserRolesSave, JobInv
    <3>. QED
      BY <2>4, <3>1 DEF Eff
  <2>6. \A c \in cache : c[1] \in Users
    BY DEF TypeOK
  <2>. QED
    BY <2>3, <2>4, <2>5, <2>6 DEF Explained, Fits
<1>9. ASSUME NEW w \in Workers, invalidateAllKeys(w)
      PROVE  Explained'
  <2>1. UNCHANGED <<grants, holds, account, cache, excused>>
    BY <1>9 DEF invalidateAllKeys, tables
  <2>2. job'[w].pc = "del" /\ job'[w].keys = {c[1] : c \in cache}
    BY <1>9 DEF invalidateAllKeys, Await, At, TypeOK
  <2>3. \A c \in cache : Dropping(job', c[1])
    BY <2>2 DEF Dropping
  <2>. QED
    BY <2>1, <2>3 DEF Explained
<1>10. ASSUME NEW w \in Workers, invalidateDel(w)
      PROVE  Explained'
  <2>1. /\ UNCHANGED <<grants, holds, account>>
        /\ cache' = {c \in cache : c[1] \notin job[w].keys} /\ excused' = excused \ job[w].keys
    BY <1>10 DEF invalidateDel, tables
  <2>2. ASSUME NEW u \in Users, u \notin job[w].keys, Dropping(job, u)
        PROVE  Dropping(job', u)
    BY <1>10, <2>2 DEF invalidateDel, Return, Dropping, TypeOK
  <2>3. \A c \in cache : c[1] \in Users
    BY DEF TypeOK
  <2>. QED
    BY <2>1, <2>2, <2>3 DEF Explained
<1>11. ASSUME NEW w \in Workers, invalidateFails(w)
      PROVE  Explained'
  BY <1>11 DEF invalidateFails, Explained, TypeOK
<1>12. ASSUME NEW w \in Workers, assignedRead(w)
      PROVE  Explained'
  <2>1. UNCHANGED <<grants, holds, account, cache, excused>>
    BY <1>12 DEF assignedRead, tables
  <2>2. \A v \in Workers : job[v].pc \in {"keys", "del"} => job'[v] = job[v]
    BY <1>12 DEF assignedRead, TypeOK, Await
  <2>. QED
    BY <2>1, <2>2, NothingNew
<1>13. ASSUME NEW w \in Workers, fallbackRead(w)
      PROVE  Explained'
  <2>1. UNCHANGED <<grants, holds, account, cache, excused>>
    BY <1>13 DEF fallbackRead, tables
  <2>2. \A v \in Workers : job[v].pc \in {"keys", "del"} => job'[v] = job[v]
    BY <1>13 DEF fallbackRead, TypeOK, Await
  <2>. QED
    BY <2>1, <2>2, NothingNew
<1>14. ASSUME NEW w \in Workers, fill(w)
      PROVE  Explained'
  <2>. DEFINE u == job[w].u
  <2>1. /\ UNCHANGED <<grants, holds, account>>
        /\ cache' = {c \in cache : c[1] # u} \cup {<<u, job[w].codes>>}
        /\ excused' = IF job[w].codes = Eff(grants, holds, account, u)
                      THEN excused \ {u} ELSE excused \cup {u}
    BY <1>14, EffectiveMeans DEF fill, tables
  <2>2. ASSUME NEW v, Dropping(job, v)
        PROVE  Dropping(job', v)
    BY <1>14, <2>2 DEF fill, Return, Dropping, TypeOK
  <2>. SUFFICES ASSUME NEW c \in cache'
                PROVE  Fits(grants', holds', account', c) \/ c[1] \in excused' \/ Dropping(job', c[1])
    BY DEF Explained
  <2>3. CASE c \in cache /\ c[1] # u
    BY <2>1, <2>2, <2>3 DEF Explained
  <2>4. CASE c = <<u, job[w].codes>>
    BY <2>1, <2>4 DEF Fits
  <2>. QED
    BY <2>1, <2>3, <2>4
<1>15. ASSUME NEW w \in Workers, Crash(w)
      PROVE  Explained'
  <2>1. UNCHANGED <<grants, holds, account, cache, excused>>
    BY <1>15 DEF Crash, tables
  <2>2. \A v \in Workers : job[v].pc \in {"keys", "del"} => job'[v] = job[v]
    BY <1>15 DEF Crash, TypeOK, Return
  <2>. QED
    BY <2>1, <2>2, NothingNew
<1>16. ASSUME NEW p \in Perms, createPermission(p)
      PROVE  Explained'
  <2>1. UNCHANGED <<grants, holds, account, cache, excused>>
    BY <1>16 DEF createPermission, tables
  <2>2. \A v \in Workers : job[v].pc \in {"keys", "del"} => job'[v] = job[v]
    BY <1>16 DEF createPermission, TypeOK
  <2>. QED
    BY <2>1, <2>2, NothingNew
<1>17. ASSUME NEW r \in Roles, NEW ps \in Payloads, createRole(r, ps)
      PROVE  Explained'
  <2>1. UNCHANGED <<holds, account, cache, excused, job>> /\ grants' = grants \cup ({r} \X ps)
    BY <1>17 DEF createRole
  <2>2. r \notin Systems /\ \A h \in holds : h[2] # r
    BY <1>17 DEF createRole, Referential
  <2>3. \A q \in Roles : q # r => CodesIn(grants', q) = CodesIn(grants, q)
    BY <2>1 DEF CodesIn
  <2>4. ASSUME NEW u \in Users
        PROVE  Eff(grants', holds', account', u) = Eff(grants, holds, account, u)
    <3>1. RolesIn(holds', u) = RolesIn(holds, u)
      BY <2>1 DEF RolesIn
    <3>2. \A q \in RolesIn(holds, u) : CodesIn(grants', q) = CodesIn(grants, q)
      BY <2>2, <2>3 DEF RolesIn
    <3>3. Mirrors[account[u]] \in Systems /\ Mirrors[account[u]] \in Roles
      BY RbacAssumption DEF Systems, TypeOK
    <3>4. CodesIn(grants', Mirrors[account'[u]]) = CodesIn(grants, Mirrors[account[u]])
      BY <2>1, <2>2, <2>3, <3>3
    <3>5. {CodesIn(grants', q) : q \in RolesIn(holds, u)} = {CodesIn(grants, q) : q \in RolesIn(holds, u)}
      BY <3>2
    <3>. QED
      BY <3>1, <3>4, <3>5 DEF Eff
  <2>. QED
    BY <2>1, <2>4, NothingNew
<1>18. ASSUME NEW u \in Users, NEW t \in Types, adminUpdateRole(u, t)
      PROVE  Explained'
  <2>1. UNCHANGED <<grants, holds, cache, job>> /\ excused' = excused \cup {u}
    BY <1>18 DEF adminUpdateRole
  <2>2. \A v \in Users : v # u => account'[v] = account[v]
    BY <1>18 DEF adminUpdateRole, TypeOK
  <2>3. \A c \in cache : c[1] \in Users
    BY DEF TypeOK
  <2>4. ASSUME NEW v \in Users, v # u
        PROVE  Eff(grants', holds', account', v) = Eff(grants, holds, account, v)
    BY <2>1, <2>2, <2>4 DEF Eff
  <2>. QED
    BY <2>1, <2>3, <2>4 DEF Explained, Fits
<1>19. ASSUME NEW u \in Users, cacheExpires(u)
      PROVE  Explained'
  BY <1>19 DEF cacheExpires, Explained, tables
<1>20. ASSUME seed
      PROVE  Explained'
  BY <1>20 DEF seed, Explained, TypeOK
<1>21. CASE UNCHANGED vars
  BY <1>21 DEF vars, tables, Explained
<1>. QED
  BY <1>1, <1>2, <1>3, <1>4, <1>5, <1>6, <1>7, <1>8, <1>9, <1>10, <1>11, <1>12, <1>13,
     <1>14, <1>15, <1>16, <1>17, <1>18, <1>19, <1>20, <1>21 DEF Next, Receive, Handle

-----------------------------------------------------------------------------
\* The inductive invariant.
Inv == TypeOK /\ JobInv /\ CatalogueStays /\ Referential /\ Explained

\* The first seed.
LEMMA InvInit == Init => Inv
BY RbacAssumption DEF Init, Inv, TypeOK, JobInv, CatalogueStays, Referential, Explained, Job, At, Idle,
   Steps, Life, Systems

\* Each step keeps what the others rely on.
LEMMA InvStep == Inv /\ [Next]_vars => Inv'
BY TypeStep, ReferenceStep, ExplainedStep DEF Inv

\* The invariant holds in every state of every behaviour.
THEOREM Invariance == Spec => []Inv
BY InvInit, InvStep, PTL DEF Spec

\* Rows, locals and cached entries are well formed in every state.
THEOREM TypeCorrect == Spec => []TypeOK
<1>1. Inv => TypeOK
  BY DEF Inv
<1>. QED
  BY <1>1, Invariance, PTL

\* rbac.service.ts: no row of a join table dangles and no fallback role is missing, for any
\* number of saves, assignments and deletes at once.
THEOREM RowsPointAtSomething == Spec => []Referential
<1>1. Inv => Referential
  BY DEF Inv
<1>. QED
  BY <1>1, Invariance, PTL

\* lib/permissions.ts: an entry that is out of date is about to be dropped or has its excuse,
\* for any number of users, roles and handlers.
THEOREM EntriesAreExplained == Spec => []StaleExplained
<1>1. Inv => StaleExplained
  BY ExplainedMeans DEF Inv
<1>. QED
  BY <1>1, Invariance, PTL
=============================================================================

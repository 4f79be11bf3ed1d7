-------------------------------- MODULE Rbac --------------------------------
(***************************************************************************)
(* Access roles, the permissions they carry, the roles of each user, and   *)
(* the cache of what a user may do (modules/rbac/rbac.service.ts,          *)
(* lib/permissions.ts, lib/cache.ts and the last part of prisma/seed.ts).  *)
(*                                                                         *)
(* The two tables of a save (role and permission, user and role) are       *)
(* replaced by deleteMany followed by createMany.  Under READ COMMITTED    *)
(* deleteMany takes away the rows it saw when it began, and not the rows   *)
(* that another transaction inserts before it ends: a save is two steps,   *)
(* and rows that one transaction deleted are no longer there for the other *)
(* to delete.                                                              *)
(*                                                                         *)
(* An id is a uuid and is never given out again.  A permission is its code *)
(* here: it is the one column no operation changes.                        *)
(***************************************************************************)
EXTENDS Naturals

CONSTANTS
  Users,
  Perms,      \* ids of permissions
  Roles,      \* ids of access roles
  Types,      \* the account types, Role of schema.prisma
  Catalogue,  \* the permissions of config/permissions.ts
  Mirrors,    \* the system role of each account type
  Defaults,   \* the grants of the catalogue's defaultRoles
  Payloads,   \* bound: the sets of permissions a save asks for
  Picks,      \* bound: the sets of roles an assignment asks for
  Workers,    \* handlers in flight
  None        \* no id

Systems == {Mirrors[t] : t \in Types}

ASSUME RbacAssumption ==
  /\ Catalogue \subseteq Perms
  /\ Mirrors \in [Types -> Roles]
  /\ Defaults \subseteq Systems \X Catalogue
  /\ None \notin Users /\ None \notin Roles /\ None \notin Types
  /\ Payloads \subseteq SUBSET Perms
  /\ Picks \subseteq SUBSET Roles

VARIABLES
  perm,     \* each permission: "new", "live" or "gone"
  accessRole, \* each access role, likewise
  grants,   \* rows of AccessRolePermission
  holds,    \* rows of UserAccessRole
  account,  \* account type of each user
  cache,    \* perm:<user> in Redis, as pairs of the user and the codes
  job,      \* what each handler is waiting for
  excused   \* history: users whose entry is out of date for a reason of its own

tables == <<perm, accessRole, grants, holds, account>>
vars == <<tables, cache, job, excused>>

Life == {"new", "live", "gone"}

Steps == {"idle", "save", "assign", "drop", "keys", "del", "assigned", "fallback", "fill"}

\* u, r: the user or the role at hand; t: the account type the request came with; codes:
\* what was read for the cache; keys: the entries to delete; seen: rows deleteMany takes
\* away; rows: rows createMany puts in.
Job == [pc : Steps, u : Users \cup {None}, r : Roles \cup {None}, t : Types \cup {None},
        codes : SUBSET Perms, keys : SUBSET Users,
        seen : SUBSET ((Roles \X Perms) \cup (Users \X Roles)),
        rows : SUBSET ((Roles \X Perms) \cup (Users \X Roles))]

At(pc, u, r, t, codes, keys, seen, rows) ==
  [pc |-> pc, u |-> u, r |-> r, t |-> t, codes |-> codes, keys |-> keys, seen |-> seen,
   rows |-> rows]

Idle == At("idle", None, None, None, {}, {}, {}, {})

\* The type of every variable.
TypeOK ==
  /\ perm \in [Perms -> Life]
  /\ accessRole \in [Roles -> Life]
  /\ grants \subseteq Roles \X Perms
  /\ holds \subseteq Users \X Roles
  /\ account \in [Users -> Types]
  /\ cache \subseteq Users \X SUBSET Perms
  /\ job \in [Workers -> Job]
  /\ excused \subseteq Users

\* After the first seed.
Init ==
  /\ perm = [p \in Perms |-> IF p \in Catalogue THEN "live" ELSE "new"]
  /\ accessRole = [r \in Roles |-> IF r \in Systems THEN "live" ELSE "new"]
  /\ grants = Defaults
  /\ holds = {}
  /\ account \in [Users -> Types]
  /\ cache = {}
  /\ job = [w \in Workers |-> Idle]
  /\ excused = {}

-----------------------------------------------------------------------------
(* What a user may do                                                      *)

codesOf(r) == {p \in Perms : <<r, p>> \in grants}

rolesOf(u) == {r \in Roles : <<u, r>> \in holds}

\* The permissions of the roles that are assigned, of the mirroring role when there is none.
effective(u) ==
  IF rolesOf(u) # {} THEN UNION {codesOf(r) : r \in rolesOf(u)} ELSE codesOf(Mirrors[account[u]])

-----------------------------------------------------------------------------
Begin(w, locals) ==
  /\ job[w] = Idle
  /\ job' = [job EXCEPT ![w] = locals]

Await(w, locals) == job' = [job EXCEPT ![w] = locals]

Return(w) == job' = [job EXCEPT ![w] = Idle]

\* The handler commits: what it deleted is not there any more for those in flight.
Commit(w, locals) ==
  job' = [v \in Workers |-> IF v = w THEN locals
                            ELSE [job[v] EXCEPT !.seen = @ \ job[w].seen]]

Sweep == At("keys", None, None, None, {}, {}, {}, {})

\* A statement throws or the process dies before the commit or before the SET.
Crash(w) ==
  /\ job[w].pc \in {"save", "assign", "drop", "assigned", "fallback", "fill"}
  /\ Return(w)
  /\ UNCHANGED <<tables, cache, excused>>

-----------------------------------------------------------------------------
(* Permissions                                                             *)

\* With a unique code: two of them at once cannot both insert.
createPermission(p) ==
  /\ perm[p] = "new"
  /\ perm' = [perm EXCEPT ![p] = "live"]
  /\ UNCHANGED <<accessRole, grants, holds, account, cache, job, excused>>

\* Mutant: the cache is left to expire.
deletePermission_NoSweep(w, p) ==
  /\ perm[p] = "live" /\ p \notin Catalogue
  /\ perm' = [perm EXCEPT ![p] = "gone"]
  /\ grants' = {g \in grants : g[2] # p}
  /\ job[w] = Idle
  /\ UNCHANGED <<job, accessRole, holds, account, cache, excused>>

\* Not one of the catalogue; the rows of AccessRolePermission go with it.
deletePermission(w, p) ==
  /\ perm[p] = "live" /\ p \notin Catalogue
  /\ perm' = [perm EXCEPT ![p] = "gone"]
  /\ grants' = {g \in grants : g[2] # p}
  /\ Begin(w, Sweep)
  /\ UNCHANGED <<accessRole, holds, account, cache, excused>>

-----------------------------------------------------------------------------
(* Roles                                                                   *)

\* assertPermissionsExist, and the foreign key of the join table at the insert.
assertPermissionsExist(ps) == \A p \in ps : perm[p] = "live"

createRole(r, ps) ==
  /\ accessRole[r] = "new"
  /\ assertPermissionsExist(ps)
  /\ accessRole' = [accessRole EXCEPT ![r] = "live"]
  /\ grants' = grants \cup ({r} \X ps)
  /\ UNCHANGED <<perm, holds, account, cache, job, excused>>

\* deleteMany of the rows of the role.
updateRoleDelete(w, r, ps) ==
  /\ accessRole[r] = "live"
  /\ assertPermissionsExist(ps)
  /\ Begin(w, At("save", None, r, None, ps, {}, {g \in grants : g[1] = r}, {r} \X ps))
  /\ UNCHANGED <<tables, cache, excused>>

\* createMany, the update of the role and the commit.
updateRoleSave(w) ==
  /\ job[w].pc = "save"
  /\ accessRole[job[w].r] = "live"
  /\ assertPermissionsExist(job[w].codes)
  /\ grants' = (grants \ job[w].seen) \cup job[w].rows
  /\ Commit(w, Sweep)
  /\ UNCHANGED <<perm, accessRole, holds, account, cache, excused>>

\* Not a system role and nobody holds it.
deleteRoleRead(w, r) ==
  /\ accessRole[r] = "live" /\ r \notin Systems
  /\ \A u \in Users : r \notin rolesOf(u)
  /\ Begin(w, At("drop", None, r, None, {}, {}, {}, {}))
  /\ UNCHANGED <<tables, cache, excused>>

\* Mutant: the rows of those who were given the role since it was read stay behind.
deleteRoleDrop_NoCascade(w) ==
  LET r == job[w].r IN
  /\ job[w].pc = "drop"
  /\ accessRole[r] = "live"
  /\ accessRole' = [accessRole EXCEPT ![r] = "gone"]
  /\ grants' = {g \in grants : g[1] # r}
  /\ Await(w, Sweep)
  /\ UNCHANGED <<perm, holds, account, cache, excused>>

\* The rows of both join tables go with the role.
deleteRoleDrop(w) ==
  LET r == job[w].r IN
  /\ job[w].pc = "drop"
  /\ accessRole[r] = "live"
  /\ accessRole' = [accessRole EXCEPT ![r] = "gone"]
  /\ grants' = {g \in grants : g[1] # r}
  /\ holds' = {h \in holds : h[2] # r}
  /\ Await(w, Sweep)
  /\ UNCHANGED <<perm, account, cache, excused>>

-----------------------------------------------------------------------------
(* Assignment                                                              *)

\* The roles exist; deleteMany of the rows of the user.
assignUserRolesDelete(w, u, rs) ==
  /\ \A r \in rs : accessRole[r] = "live"
  /\ Begin(w, At("assign", u, None, None, {}, {}, {h \in holds : h[1] = u}, {u} \X rs))
  /\ UNCHANGED <<tables, cache, excused>>

\* createMany, the commit; invalidateUserPermissions is next.
assignUserRolesSave(w) ==
  /\ job[w].pc = "assign"
  /\ \A h \in job[w].rows : accessRole[h[2]] = "live"
  /\ holds' = (holds \ job[w].seen) \cup job[w].rows
  /\ Commit(w, At("del", None, None, None, {}, {job[w].u}, {}, {}))
  /\ UNCHANGED <<perm, accessRole, grants, account, cache, excused>>

\* admin.service.ts changes the account type and leaves the entry alone.
adminUpdateRole(u, t) ==
  /\ t # account[u]
  /\ account' = [account EXCEPT ![u] = t]
  /\ excused' = excused \cup {u}
  /\ UNCHANGED <<perm, accessRole, grants, holds, cache, job>>

\* A run of the seed on a live database adds the defaults and leaves the entries alone.
seed ==
  /\ grants' = grants \cup Defaults
  /\ grants' # grants
  /\ excused' = Users
  /\ UNCHANGED <<perm, accessRole, holds, account, cache, job>>

-----------------------------------------------------------------------------
(* The cache                                                               *)

\* redis.keys("perm:*").
invalidateAllKeys(w) ==
  /\ job[w].pc = "keys"
  /\ Await(w, At("del", None, None, None, {}, {c[1] : c \in cache}, {}, {}))
  /\ UNCHANGED <<tables, cache, excused>>

\* redis.del, of invalidateAllPermissions and of invalidateUserPermissions.
invalidateDel(w) ==
  /\ job[w].pc = "del"
  /\ cache' = {c \in cache : c[1] \notin job[w].keys}
  /\ excused' = excused \ job[w].keys
  /\ Return(w)
  /\ UNCHANGED tables

\* Redis failed, which is not an error, or the process died after the commit.
invalidateFails(w) ==
  /\ job[w].pc \in {"keys", "del"}
  /\ excused' = Users
  /\ Return(w)
  /\ UNCHANGED <<tables, cache>>

\* Mutant: an entry that is found is written back, with a new time to live.
getUserPermissions_Renewed(w, u) ==
  /\ \/ \E c \in cache : c[1] = u /\ Begin(w, At("fill", u, None, None, c[2], {}, {}, {}))
     \/ Begin(w, At("assigned", u, None, account[u], {}, {}, {}, {}))
  /\ UNCHANGED <<tables, cache, excused>>

\* A guarded request whose GET found nothing, or failed; with the account type that auth read.
getUserPermissions(w, u) ==
  /\ Begin(w, At("assigned", u, None, account[u], {}, {}, {}, {}))
  /\ UNCHANGED <<tables, cache, excused>>

assignedRead(w) ==
  LET j == job[w] IN
  /\ j.pc = "assigned"
  /\ \/ /\ rolesOf(j.u) # {}
        /\ Await(w, At("fill", j.u, None, None, UNION {codesOf(r) : r \in rolesOf(j.u)},
                       {}, {}, {}))
     \/ /\ rolesOf(j.u) = {}
        /\ Await(w, At("fallback", j.u, None, j.t, {}, {}, {}, {}))
  /\ UNCHANGED <<tables, cache, excused>>

fallbackRead(w) ==
  LET j == job[w] IN
  /\ j.pc = "fallback"
  /\ Await(w, At("fill", j.u, None, None, codesOf(Mirrors[j.t]), {}, {}, {}))
  /\ UNCHANGED <<tables, cache, excused>>

\* SET with the TTL, which nobody waits for: the tables may have changed since.
fill(w) ==
  LET j == job[w] IN
  /\ j.pc = "fill"
  /\ cache' = {c \in cache : c[1] # j.u} \cup {<<j.u, j.codes>>}
  /\ excused' = IF j.codes = effective(j.u) THEN excused \ {j.u} ELSE excused \cup {j.u}
  /\ Return(w)
  /\ UNCHANGED tables

\* PERMISSION_TTL has passed.
cacheExpires(u) ==
  /\ u \in {c[1] : c \in cache}
  /\ cache' = {c \in cache : c[1] # u}
  /\ excused' = excused \ {u}
  /\ UNCHANGED <<tables, job>>

-----------------------------------------------------------------------------
Receive(w) ==
  \/ \E p \in Perms : deletePermission(w, p)
  \/ \E r \in Roles : deleteRoleRead(w, r) \/ \E ps \in Payloads : updateRoleDelete(w, r, ps)
  \/ \E u \in Users : getUserPermissions(w, u) \/ \E rs \in Picks : assignUserRolesDelete(w, u, rs)

Handle(w) ==
  \/ updateRoleSave(w)
  \/ deleteRoleDrop(w)
  \/ assignUserRolesSave(w)
  \/ invalidateAllKeys(w)
  \/ invalidateDel(w)
  \/ invalidateFails(w)
  \/ assignedRead(w)
  \/ fallbackRead(w)
  \/ fill(w)

Next ==
  \/ \E w \in Workers : Receive(w) \/ Handle(w) \/ Crash(w)
  \/ \E p \in Perms : createPermission(p)
  \/ \E r \in Roles, ps \in Payloads : createRole(r, ps)
  \/ \E u \in Users, t \in Types : adminUpdateRole(u, t)
  \/ \E u \in Users : cacheExpires(u)
  \/ seed

Spec == Init /\ [][Next]_vars

\* Redis drops a key when its time to live has passed, and what a handler waits for answers or
\* fails.
LiveSpec ==
  /\ Spec
  /\ \A u \in Users : WF_vars(cacheExpires(u))
  /\ \A w \in Workers : WF_vars(Handle(w) \/ Crash(w))

-----------------------------------------------------------------------------
(* Properties                                                              *)

\* The rows of the join tables point at roles and permissions that exist, and the fallback of
\* every account type exists, whatever rbac.service.ts deletes while a save that was checked
\* against it is in flight.
Referential ==
  /\ \A g \in grants : accessRole[g[1]] = "live" /\ perm[g[2]] = "live"
  /\ \A h \in holds : accessRole[h[2]] = "live"
  /\ \A r \in Systems : accessRole[r] = "live"

\* The entry of u is not what the tables give.
stale(u) == \E c \in cache : c[1] = u /\ c[2] # effective(u)

\* Somebody is about to drop the entry of u.
beingDropped(u) ==
  \E w \in Workers : job[w].pc = "keys" \/ (job[w].pc = "del" /\ u \in job[w].keys)

\* An entry of the permission cache that differs from what the tables give the user is about
\* to be dropped, or it is one of the four cases that rbac.service.ts leaves to the TTL: the
\* account type changed, the seed ran, Redis failed, or the entry was read before the change
\* and written after it.
StaleExplained ==
  \A u \in Users : stale(u) => u \in excused \/ beingDropped(u)

\* Once the tables rest, what lib/permissions.ts answers settles on them: the sweeps that
\* missed an entry, the sweeps that failed and the fills of what was read before the last
\* change leave every user with an entry that is right, or with none, from some time on.
SettlesFresh == <>[][FALSE]_tables => \A u \in Users : <>[]~stale(u)
=============================================================================

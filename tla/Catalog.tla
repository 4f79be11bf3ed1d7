------------------------------- MODULE Catalog ------------------------------
(***************************************************************************)
(* Departments, categories, wards, zones, service types and settings, and  *)
(* the cached answers about them (the services of those modules, restore,  *)
(* dashboardStats and updateSetting of admin.service.ts, lib/cache.ts,     *)
(* lib/settings.ts and the master data of prisma/seed.ts).                 *)
(*                                                                         *)
(* What a cached answer holds is abstracted to whether the table it lists  *)
(* was written after it was read; the tables it embeds beside that one     *)
(* (the department of a category, the wards of a zone) are left to the     *)
(* time to live, as the services leave them.  A check of a service and its *)
(* transaction are two steps.                                              *)
(***************************************************************************)
EXTENDS Naturals, FiniteSets

CONSTANTS
  Departments, Categories,
  Processes,     \* of the API: each has a Map of settings, which is a key of its own here
  MaxCached,     \* bound: answers that are in the cache at once
  Workers,       \* handlers in flight
  None           \* no id

ASSUME CatalogAssumption ==
  /\ Departments # {}
  /\ MaxCached \in Nat
  /\ None \notin Departments \cup Categories
  /\ Processes \cap {"categories", "departments", "wards", "zones", "serviceTypes", "adminStats"} = {}

VARIABLES
  department,  \* each department: "new", "live" or "deleted"
  category,    \* each category, likewise
  departmentOf, \* departmentId of each category
  open,        \* categories with open complaints
  cached,      \* keys that hold an answer
  behind,      \* keys whose answer is older than the last write to their table
  job,         \* what each handler is waiting for
  excused,     \* history: keys whose answer is out of date for a reason of its own
  overlapped   \* history: departments that were deleted and given a category at once, or
               \* that got a category from restore or the seed while they were deleted

rows == <<department, category, departmentOf, open>>
keyVars == <<cached, behind, excused>>
vars == <<rows, keyVars, job, overlapped>>

\* CACHE_KEYS, and the Map of lib/settings.ts in each process.
MasterData == {"categories", "departments", "wards", "zones", "serviceTypes"}
Keys == MasterData \cup {"adminStats"} \cup Processes

Life == {"new", "live", "deleted"}

Seeding == {"seedZones", "seedWards", "seedDepartments", "seedCategories", "seedServiceTypes"}

Steps == {"idle", "create", "update", "remove", "close", "del", "fill"} \cup Seeding

\* c, d: the category and the department at hand; keys: what to drop or to fill; late: the
\* table of the answer was written after it was read.
Job == [pc : Steps, c : Categories \cup {None}, d : Departments \cup {None},
        keys : SUBSET Keys, late : {"yes", "no"}]

At(pc, c, d, keys, late) == [pc |-> pc, c |-> c, d |-> d, keys |-> keys, late |-> late]

Idle == At("idle", None, None, {}, "no")

\* The type of every variable.
TypeOK ==
  /\ department \in [Departments -> Life]
  /\ category \in [Categories -> Life]
  /\ departmentOf \in [Categories -> Departments]
  /\ open \subseteq Categories
  /\ cached \subseteq Keys
  /\ behind \subseteq Keys
  /\ job \in [Workers -> Job]
  /\ excused \subseteq Keys
  /\ overlapped \subseteq Departments

Init ==
  /\ department = [d \in Departments |-> "new"]
  /\ category = [c \in Categories |-> "new"]
  /\ departmentOf \in [Categories -> Departments]
  /\ open = {}
  /\ cached = {}
  /\ behind = {}
  /\ job = [w \in Workers |-> Idle]
  /\ excused = {}
  /\ overlapped = {}

Begin(w, locals) ==
  /\ job[w] = Idle
  /\ job' = [job EXCEPT ![w] = locals]

Await(w, locals) == job' = [job EXCEPT ![w] = locals]

Return(w) == job' = [job EXCEPT ![w] = Idle]

\* A commit to the table of the keys ks: the answers that are cached, or read and not yet
\* written, no longer tell what the table holds.
Written(w, ks, locals) ==
  /\ behind' = behind \cup (cached \cap ks)
  /\ job' = [v \in Workers |->
               IF v = w THEN locals
               ELSE IF job[v].pc = "fill" /\ job[v].keys \cap ks # {}
                    THEN At("fill", None, None, job[v].keys, "yes")
                    ELSE job[v]]

Deleting(ks) == At("del", None, None, ks, "no")

\* A commit to the table of key k, after which the handler drops ks.
Commit(w, k, ks) == Written(w, {k}, Deleting(ks))

\* The statement throws, or the process dies before the commit or before the SET.
Crash(w) ==
  /\ job[w].pc \in {"create", "update", "remove", "close", "fill"}
  /\ Return(w)
  /\ UNCHANGED <<rows, keyVars, overlapped>>

-----------------------------------------------------------------------------
(* The cache                                                               *)

\* The GET of key k found nothing, or Redis failed; the tables are read.
cachedRead(w, k) ==
  /\ Begin(w, At("fill", None, None, {k}, "no"))
  /\ UNCHANGED <<rows, keyVars, overlapped>>

categoryList(w) == cachedRead(w, "categories")

departmentList(w) == cachedRead(w, "departments")

wardList(w) == cachedRead(w, "wards")

zoneList(w) == cachedRead(w, "zones")

serviceTypeList(w) == cachedRead(w, "serviceTypes")

dashboardStats(w) == cachedRead(w, "adminStats")

getSetting(w, p) == cachedRead(w, p)

\* SET with the time to live; getSetting's Map likewise.
fill(w) ==
  /\ job[w].pc = "fill"
  /\ Cardinality(cached \cup job[w].keys) <= MaxCached
  /\ cached' = cached \cup job[w].keys
  /\ IF job[w].late = "yes"
       THEN /\ behind' = behind \cup job[w].keys
            /\ excused' = excused \cup job[w].keys
       ELSE /\ behind' = behind \ job[w].keys
            /\ excused' = excused \ job[w].keys
  /\ Return(w)
  /\ UNCHANGED <<rows, overlapped>>

Drop(ks) ==
  /\ cached' = cached \ ks
  /\ behind' = behind \ ks
  /\ excused' = excused \ ks

\* redis.del of invalidate and invalidateMasterData; clearSettingCache of one process.
invalidate(w) ==
  /\ job[w].pc = "del"
  /\ Drop(job[w].keys)
  /\ Return(w)
  /\ UNCHANGED <<rows, overlapped>>

\* Redis failed, which is not an error, or the process died after the commit: the Map of the
\* process is cleared before the DEL, and dies with it.
invalidateFails(w) ==
  LET cleared == job[w].keys \cap Processes IN
  /\ job[w].pc = "del"
  /\ cached' = cached \ cleared
  /\ behind' = behind \ cleared
  /\ excused' = (excused \cup (behind \cap job[w].keys)) \ cleared
  /\ Return(w)
  /\ UNCHANGED <<rows, overlapped>>

\* CACHE_TTL, or TTL_MS of lib/settings.ts, has passed.
expires(k) ==
  /\ k \in cached
  /\ Drop({k})
  /\ UNCHANGED <<rows, job, overlapped>>

-----------------------------------------------------------------------------
(* Departments                                                             *)

departmentCreate(w, d) ==
  /\ job[w] = Idle
  /\ department[d] = "new"
  /\ department' = [department EXCEPT ![d] = "live"]
  /\ Commit(w, "departments", {"departments"})
  /\ UNCHANGED <<category, departmentOf, open, cached, excused, overlapped>>

\* Mutant: the key of the categories is dropped.
departmentUpdate_OtherKey(w, d) ==
  /\ job[w] = Idle
  /\ department[d] = "live"
  /\ Commit(w, "departments", {"categories"})
  /\ UNCHANGED <<rows, cached, excused, overlapped>>

\* Name and address; by id, so also on a row deleted since.
departmentUpdate(w, d) ==
  /\ job[w] = Idle
  /\ department[d] = "live"
  /\ Commit(w, "departments", {"departments"})
  /\ UNCHANGED <<rows, cached, excused, overlapped>>

\* The live categories of a department.
categoriesOf(d) == {c \in Categories : category[c] = "live" /\ departmentOf[c] = d}

\* Handlers that are about to give d a category.
giving(d) == {w \in Workers : job[w].pc \in {"create", "update"} /\ job[w].d = d}

\* Handlers that are about to delete d.
closing(d) == {w \in Workers : job[w].pc = "close" /\ job[w].d = d}

\* Mutant: the categories are not counted.
departmentDeleteRead_NoCount(w, d) ==
  /\ department[d] = "live"
  /\ Begin(w, At("close", None, d, {}, "no"))
  /\ overlapped' = IF giving(d) # {} THEN overlapped \cup {d} ELSE overlapped
  /\ UNCHANGED <<rows, keyVars>>

\* "Deleting a department with live categories would orphan complaints."
departmentDeleteRead(w, d) ==
  /\ department[d] = "live"
  /\ categoriesOf(d) = {}
  /\ Begin(w, At("close", None, d, {}, "no"))
  /\ overlapped' = IF giving(d) # {} THEN overlapped \cup {d} ELSE overlapped
  /\ UNCHANGED <<rows, keyVars>>

departmentDeleteWrite(w) ==
  /\ job[w].pc = "close"
  /\ department' = [department EXCEPT ![job[w].d] = "deleted"]
  /\ Commit(w, "departments", {"departments"})
  /\ UNCHANGED <<category, departmentOf, open, cached, excused, overlapped>>

-----------------------------------------------------------------------------
(* Categories                                                              *)

\* findFirst leaves out what is deleted.
assertDepartment(d) == department[d] = "live"

\* create of a new category, update of a live one.
categoryRead(w, c, d, pc) ==
  /\ category[c] = (IF pc = "create" THEN "new" ELSE "live")
  /\ assertDepartment(d)
  /\ Begin(w, At(pc, c, d, {}, "no"))
  /\ overlapped' = IF closing(d) # {} THEN overlapped \cup {d} ELSE overlapped
  /\ UNCHANGED <<rows, keyVars>>

categoryCreate(w) ==
  LET j == job[w] IN
  /\ j.pc = "create"
  /\ category[j.c] = "new"
  /\ category' = [category EXCEPT ![j.c] = "live"]
  /\ departmentOf' = [departmentOf EXCEPT ![j.c] = j.d]
  /\ Commit(w, "categories", {"categories"})
  /\ UNCHANGED <<department, open, cached, excused, overlapped>>

\* By id: the category may be deleted by now.
categoryUpdate(w) ==
  LET j == job[w] IN
  /\ j.pc = "update"
  /\ departmentOf' = [departmentOf EXCEPT ![j.c] = j.d]
  /\ Commit(w, "categories", {"categories"})
  /\ UNCHANGED <<department, category, open, cached, excused, overlapped>>

categoryDeleteRead(w, c) ==
  /\ category[c] = "live"
  /\ c \notin open
  /\ Begin(w, At("remove", c, None, {}, "no"))
  /\ UNCHANGED <<rows, keyVars, overlapped>>

categoryDeleteWrite(w) ==
  /\ job[w].pc = "remove"
  /\ category' = [category EXCEPT ![job[w].c] = "deleted"]
  /\ Commit(w, "categories", {"categories"})
  /\ UNCHANGED <<department, departmentOf, open, cached, excused, overlapped>>

\* Complaints of a category are filed (complaint.service.ts create) and all closed.
complaints(c) ==
  /\ \/ category[c] = "live" /\ c \notin open /\ open' = open \cup {c}
     \/ c \in open /\ open' = open \ {c}
  /\ UNCHANGED <<department, category, departmentOf, keyVars, job, overlapped>>

-----------------------------------------------------------------------------
(* restore, of admin.service.ts, drops every list                          *)

\* updateMany of a row that is deleted; its department is not looked at.
restoreCategory(w, c) ==
  /\ job[w] = Idle
  /\ category[c] = "deleted"
  /\ category' = [category EXCEPT ![c] = "live"]
  /\ Commit(w, "categories", MasterData)
  /\ overlapped' = IF assertDepartment(departmentOf[c]) /\ closing(departmentOf[c]) = {}
                    THEN overlapped ELSE overlapped \cup {departmentOf[c]}
  /\ UNCHANGED <<department, departmentOf, open, cached, excused>>

restoreDepartment(w, d) ==
  /\ job[w] = Idle
  /\ department[d] = "deleted"
  /\ department' = [department EXCEPT ![d] = "live"]
  /\ Commit(w, "departments", MasterData)
  /\ UNCHANGED <<category, departmentOf, open, cached, excused, overlapped>>

-----------------------------------------------------------------------------
(* Wards, zones, service types and settings: no row is ever deleted        *)

\* create and update of ward.service.ts, after assertZone.
wardWrite(w) ==
  /\ job[w] = Idle
  /\ Commit(w, "wards", {"wards"})
  /\ UNCHANGED <<rows, cached, excused, overlapped>>

zoneCreate(w) ==
  /\ job[w] = Idle
  /\ Commit(w, "zones", {"zones"})
  /\ UNCHANGED <<rows, cached, excused, overlapped>>

\* create and update of serviceType.service.ts.
serviceTypeWrite(w) ==
  /\ job[w] = Idle
  /\ Commit(w, "serviceTypes", {"serviceTypes"})
  /\ UNCHANGED <<rows, cached, excused, overlapped>>

\* Served by process p: the Maps of the others keep the value they have until TTL_MS.
updateSetting(w, p) ==
  /\ job[w] = Idle
  /\ Written(w, Processes, Deleting({p, "adminStats"}))
  /\ excused' = excused \cup (behind' \cap (Processes \ {p}))
  /\ UNCHANGED <<rows, cached, overlapped>>

-----------------------------------------------------------------------------
(* The seed, run beside the live system: an upsert at a time, and one DEL  *)
(* of every list at the end.  The rows of SystemSetting that it creates    *)
(* hold the defaults of getSetting.                                        *)

Seeds(pc) == At(pc, None, None, MasterData, "no")

seed(w) ==
  /\ Begin(w, Seeds("seedZones"))
  /\ UNCHANGED <<rows, keyVars, overlapped>>

seedZones(w) ==
  /\ job[w].pc = "seedZones"
  /\ Written(w, {"zones"}, Seeds("seedWards"))
  /\ UNCHANGED <<rows, cached, excused, overlapped>>

seedWards(w) ==
  /\ job[w].pc = "seedWards"
  /\ Written(w, {"wards"}, Seeds("seedDepartments"))
  /\ UNCHANGED <<rows, cached, excused, overlapped>>

\* By name, deleted or not; pc: where the loop goes on.
seedDepartment(w, d, pc) ==
  /\ job[w].pc = "seedDepartments"
  /\ department' = [department EXCEPT ![d] = IF @ = "new" THEN "live" ELSE @]
  /\ Written(w, {"departments"}, Seeds(pc))
  /\ UNCHANGED <<category, departmentOf, open, cached, excused, overlapped>>

\* A category that is there, deleted or not, keeps its department.
seedCategoryUpdate(w, c, pc) ==
  /\ job[w].pc = "seedCategories"
  /\ category[c] # "new"
  /\ Written(w, {"categories"}, Seeds(pc))
  /\ UNCHANGED <<rows, cached, excused, overlapped>>

\* The department is one of the upserts above, and may be deleted.
seedCategoryCreate(w, c, d, pc) ==
  /\ job[w].pc = "seedCategories"
  /\ category[c] = "new"
  /\ department[d] # "new"
  /\ category' = [category EXCEPT ![c] = "live"]
  /\ departmentOf' = [departmentOf EXCEPT ![c] = d]
  /\ Written(w, {"categories"}, Seeds(pc))
  /\ overlapped' = IF assertDepartment(d) /\ closing(d) = {} THEN overlapped
                    ELSE overlapped \cup {d}
  /\ UNCHANGED <<department, open, cached, excused>>

seedServiceTypes(w) ==
  /\ job[w].pc = "seedServiceTypes"
  /\ Written(w, {"serviceTypes"}, Deleting(MasterData))
  /\ UNCHANGED <<rows, cached, excused, overlapped>>

\* An upsert throws or the process ends, and no list is dropped.
seedFails(w) ==
  /\ job[w].pc \in Seeding
  /\ excused' = excused \cup (behind \cap MasterData)
  /\ Return(w)
  /\ UNCHANGED <<rows, cached, behind, overlapped>>

-----------------------------------------------------------------------------
Receive(w) ==
  \/ categoryList(w) \/ departmentList(w) \/ wardList(w) \/ zoneList(w)
  \/ serviceTypeList(w) \/ dashboardStats(w)
  \/ \E p \in Processes : getSetting(w, p) \/ updateSetting(w, p)
  \/ \E d \in Departments :
       departmentCreate(w, d) \/ departmentUpdate(w, d) \/ departmentDeleteRead(w, d)
         \/ restoreDepartment(w, d)
  \/ \E c \in Categories :
       \/ categoryDeleteRead(w, c)
       \/ restoreCategory(w, c)
       \/ \E d \in Departments, pc \in {"create", "update"} : categoryRead(w, c, d, pc)
  \/ wardWrite(w) \/ zoneCreate(w) \/ serviceTypeWrite(w) \/ seed(w)

Seed(w) ==
  \/ seedZones(w) \/ seedWards(w) \/ seedServiceTypes(w) \/ seedFails(w)
  \/ \E d \in Departments, pc \in {"seedDepartments", "seedCategories"} : seedDepartment(w, d, pc)
  \/ \E c \in Categories, pc \in {"seedCategories", "seedServiceTypes"} :
       seedCategoryUpdate(w, c, pc) \/ \E d \in Departments : seedCategoryCreate(w, c, d, pc)

Handle(w) ==
  \/ fill(w)
  \/ invalidate(w)
  \/ invalidateFails(w)
  \/ departmentDeleteWrite(w)
  \/ categoryCreate(w)
  \/ categoryUpdate(w)
  \/ categoryDeleteWrite(w)
  \/ Seed(w)

Next ==
  \/ \E w \in Workers : Receive(w) \/ Handle(w) \/ Crash(w)
  \/ \E k \in Keys : expires(k)
  \/ \E c \in Categories : complaints(c)

Spec == Init /\ [][Next]_vars

-----------------------------------------------------------------------------
(* Properties                                                              *)

\* The handler drops its keys when it is through with its writes.
dropping(w) == job[w].pc \in {"del"} \cup Seeding

\* An answer of lib/cache.ts or lib/settings.ts that is older than the last write to its own
\* table is about to be dropped, or it is one of the cases that are left to the time to live:
\* the DEL failed, the seed stopped halfway, the answer was read before the write and stored
\* after the DEL, or it is in the Map of a process that did not serve the write.
OwnListFresh ==
  \A k \in behind : k \in excused \/ \E w \in Workers : dropping(w) /\ k \in job[w].keys

\* softDelete of department.service.ts: the department of a live category is live, unless one
\* handler deleted it while another put the category into it, or the category came back by
\* restore or was created by the seed in a department that was deleted.
NoOrphans ==
  \A c \in Categories :
    category[c] = "live" => department[departmentOf[c]] = "live" \/ departmentOf[c] \in overlapped
=============================================================================

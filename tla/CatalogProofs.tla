---------------------------- MODULE CatalogProofs ---------------------------
(***************************************************************************)
(* Proofs about Catalog, for any number of departments, categories and     *)
(* handlers in flight.                                                     *)
(***************************************************************************)
EXTENDS Catalog, TLAPS

\* What a handler holds on to fits the step it is at.
JobInv ==
  \A w \in Workers :
    /\ job[w].pc \in {"create", "update", "remove"} => job[w].c \in Categories
    /\ job[w].pc \in {"create", "update", "close"} => job[w].d \in Departments
    /\ job[w].pc \in Seeding => job[w].keys = MasterData

Gives(w) == job[w].pc \in {"create", "update"}

Closes(w) == job[w].pc = "close"

\* The department a handler found live is live when it writes, or the two crossed.
GivesLive == \A w \in Workers : Gives(w) => department[job[w].d] = "live" \/ job[w].d \in overlapped

\* A department that is given a category while it is being deleted is one of overlapped.
Crossing ==
  \A v, w \in Workers : Gives(v) /\ Closes(w) /\ job[v].d = job[w].d => job[w].d \in overlapped

\* So is one that has a category by the time it is deleted.
ClosesEmpty ==
  \A w \in Workers, c \in Categories :
    Closes(w) /\ category[c] = "live" /\ departmentOf[c] = job[w].d => job[w].d \in overlapped

\* The inductive invariant.
OrphanInv == GivesLive /\ Crossing /\ ClosesEmpty /\ NoOrphans

Inv == TypeOK /\ JobInv /\ OwnListFresh /\ OrphanInv

-----------------------------------------------------------------------------
\* What a commit does to the handlers: its own goes on, and the others are where they were,
\* except that an answer that is being stored may be late.
LEMMA WrittenFacts ==
  ASSUME TypeOK, NEW w \in Workers, NEW ks \in SUBSET Keys, NEW locals \in Job,
         Written(w, ks, locals)
  PROVE  /\ job' \in [Workers -> Job]
         /\ job'[w] = locals
         /\ \A v \in Workers : v # w => /\ job'[v].pc = job[v].pc
                                        /\ job[v].pc # "fill" => job'[v] = job[v]
         /\ behind' \subseteq behind \cup ks
         /\ behind' \subseteq Keys
<1>. USE DEF TypeOK, Written, At, Job, Steps
<1>1. \A v \in Workers : job'[v] \in Job
  <2>. SUFFICES ASSUME NEW v \in Workers
                PROVE  job'[v] \in Job
    OBVIOUS
  <2>1. CASE v = w
    BY <2>1
  <2>2. CASE v # w
    BY <2>2
  <2>. QED
    BY <2>1, <2>2
<1>2. job' \in [Workers -> Job]
  BY <1>1
<1>3. \A v \in Workers : v # w => /\ job'[v].pc = job[v].pc
                                  /\ job[v].pc # "fill" => job'[v] = job[v]
  OBVIOUS
<1>. QED
  BY <1>2, <1>3

\* Those who are about to give or to delete a department stay so.
LEMMA WrittenJobs ==
  ASSUME TypeOK, JobInv, NEW w \in Workers, NEW ks \in SUBSET Keys, NEW locals \in Job,
         locals.pc \in {"del"} \cup Seeding, locals.pc \in Seeding => locals.keys = MasterData,
         Written(w, ks, locals)
  PROVE  /\ job' \in [Workers -> Job] /\ JobInv' /\ behind' \subseteq Keys
         /\ \A v \in Workers :
              job'[v].pc \in {"create", "update", "close"} => v # w /\ job'[v] = job[v]
<1>1. job' \in [Workers -> Job] /\ behind' \subseteq Keys /\ job'[w] = locals
  BY WrittenFacts
<1>2. job'[w].pc \notin {"create", "update", "remove", "close"}
  BY <1>1 DEF Seeding
<1>3. \A v \in Workers : v # w => /\ job'[v].pc = job[v].pc
                                  /\ job[v].pc # "fill" => job'[v] = job[v]
  BY WrittenFacts
<1>. QED
  BY <1>1, <1>2, <1>3 DEF JobInv, Seeding

\* A handler that drops keys, and the seed, are well formed.
LEMMA Locals ==
  /\ \A ks \in SUBSET Keys : Deleting(ks) \in Job /\ Deleting(ks).pc = "del" /\ Deleting(ks).keys = ks
  /\ \A pc \in Seeding : Seeds(pc) \in Job /\ Seeds(pc).pc = pc /\ Seeds(pc).keys = MasterData
BY DEF Deleting, Seeds, Job, At, Steps, Keys

\* So does the commit of a service, which goes on to drop its keys.
LEMMA CommitJobs ==
  ASSUME TypeOK, JobInv, NEW w \in Workers, NEW k \in Keys, NEW ks \in SUBSET Keys, Commit(w, k, ks)
  PROVE  /\ job' \in [Workers -> Job] /\ JobInv' /\ behind' \subseteq Keys
         /\ \A v \in Workers :
              job'[v].pc \in {"create", "update", "close"} => v # w /\ job'[v] = job[v]
<1>1. Written(w, {k}, Deleting(ks)) /\ {k} \in SUBSET Keys
  BY DEF Commit
<1>2. Deleting(ks) \in Job /\ Deleting(ks).pc = "del"
  BY Locals
<1>. QED
  BY <1>1, <1>2, WrittenJobs DEF Seeding

\* And an upsert of the seed.
LEMMA SeedJobs ==
  ASSUME TypeOK, JobInv, NEW w \in Workers, NEW k \in Keys, NEW pc \in Seeding,
         Written(w, {k}, Seeds(pc))
  PROVE  /\ job' \in [Workers -> Job] /\ JobInv' /\ behind' \subseteq Keys
         /\ \A v \in Workers :
              job'[v].pc \in {"create", "update", "close"} => v # w /\ job'[v] = job[v]
<1>1. /\ {k} \in SUBSET Keys /\ Seeds(pc) \in Job /\ Seeds(pc).pc \in {"del"} \cup Seeding
      /\ Seeds(pc).keys = MasterData
  BY Locals
<1>. QED
  BY <1>1, WrittenJobs

\* Rows and locals stay well formed.
LEMMA TypeStep ==
  ASSUME TypeOK, JobInv, [Next]_vars
  PROVE  TypeOK' /\ JobInv'
<1>. USE CatalogAssumption DEF TypeOK, JobInv, Job, At, Idle, Steps, Seeding, Life, rows, keyVars
<1>1. ASSUME NEW w \in Workers, NEW k \in Keys, cachedRead(w, k)
      PROVE  TypeOK' /\ JobInv'
  BY <1>1 DEF cachedRead, Begin
<1>2. ASSUME NEW w \in Workers, fill(w)
      PROVE  TypeOK' /\ JobInv'
  BY <1>2 DEF fill, Return
<1>3. ASSUME NEW w \in Workers, invalidate(w)
      PROVE  TypeOK' /\ JobInv'
  BY <1>3 DEF invalidate, Return, Drop
<1>4. ASSUME NEW w \in Workers, invalidateFails(w)
      PROVE  TypeOK' /\ JobInv'
  BY <1>4 DEF invalidateFails, Return
<1>5. ASSUME NEW w \in Workers, NEW d \in Departments, departmentCreate(w, d)
      PROVE  TypeOK' /\ JobInv'
  <2>1. Commit(w, "departments", {"departments"}) /\ "departments" \in Keys /\ {"departments"} \in SUBSET Keys
    BY <1>5 DEF departmentCreate, Keys, MasterData
  <2>2. job' \in [Workers -> Job] /\ JobInv' /\ behind' \subseteq Keys
    BY <2>1, CommitJobs
  <2>. QED
    BY <1>5, <2>2 DEF departmentCreate
<1>6. ASSUME NEW w \in Workers, NEW d \in Departments, departmentUpdate(w, d)
      PROVE  TypeOK' /\ JobInv'
  <2>1. Commit(w, "departments", {"departments"}) /\ "departments" \in Keys /\ {"departments"} \in SUBSET Keys
    BY <1>6 DEF departmentUpdate, Keys, MasterData
  <2>2. job' \in [Workers -> Job] /\ JobInv' /\ behind' \subseteq Keys
    BY <2>1, CommitJobs
  <2>. QED
    BY <1>6, <2>2 DEF departmentUpdate
<1>7. ASSUME NEW w \in Workers, NEW d \in Departments, departmentDeleteRead(w, d)
      PROVE  TypeOK' /\ JobInv'
  BY <1>7 DEF departmentDeleteRead, Begin, categoriesOf, giving
<1>8. ASSUME NEW w \in Workers, departmentDeleteWrite(w)
      PROVE  TypeOK' /\ JobInv'
  <2>1. Commit(w, "departments", {"departments"}) /\ "departments" \in Keys /\ {"departments"} \in SUBSET Keys
    BY <1>8 DEF departmentDeleteWrite, Keys, MasterData
  <2>2. job' \in [Workers -> Job] /\ JobInv' /\ behind' \subseteq Keys
    BY <2>1, CommitJobs
  <2>. QED
    BY <1>8, <2>2 DEF departmentDeleteWrite
<1>9. ASSUME NEW w \in Workers, NEW c \in Categories, NEW d \in Departments, NEW pc \in {"create", "update"},
            categoryRead(w, c, d, pc)
      PROVE  TypeOK' /\ JobInv'
  BY <1>9 DEF categoryRead, Begin, assertDepartment, closing
<1>10. ASSUME NEW w \in Workers, categoryCreate(w)
      PROVE  TypeOK' /\ JobInv'
  <2>1. Commit(w, "categories", {"categories"}) /\ "categories" \in Keys /\ {"categories"} \in SUBSET Keys
    BY <1>10 DEF categoryCreate, Keys, MasterData
  <2>2. job' \in [Workers -> Job] /\ JobInv' /\ behind' \subseteq Keys
    BY <2>1, CommitJobs
  <2>. QED
    BY <1>10, <2>2 DEF categoryCreate
<1>11. ASSUME NEW w \in Workers, categoryUpdate(w)
      PROVE  TypeOK' /\ JobInv'
  <2>1. Commit(w, "categories", {"categories"}) /\ "categories" \in Keys /\ {"categories"} \in SUBSET Keys
    BY <1>11 DEF categoryUpdate, Keys, MasterData
  <2>2. job' \in [Workers -> Job] /\ JobInv' /\ behind' \subseteq Keys
    BY <2>1, CommitJobs
  <2>. QED
    BY <1>11, <2>2 DEF categoryUpdate
<1>12. ASSUME NEW w \in Workers, NEW c \in Categories, categoryDeleteRead(w, c)
      PROVE  TypeOK' /\ JobInv'
  BY <1>12 DEF categoryDeleteRead, Begin
<1>13. ASSUME NEW w \in Workers, categoryDeleteWrite(w)
      PROVE  TypeOK' /\ JobInv'
  <2>1. Commit(w, "categories", {"categories"}) /\ "categories" \in Keys /\ {"categories"} \in SUBSET Keys
    BY <1>13 DEF categoryDeleteWrite, Keys, MasterData
  <2>2. job' \in [Workers -> Job] /\ JobInv' /\ behind' \subseteq Keys
    BY <2>1, CommitJobs
  <2>. QED
    BY <1>13, <2>2 DEF categoryDeleteWrite
<1>14. ASSUME NEW w \in Workers, NEW c \in Categories, restoreCategory(w, c)
      PROVE  TypeOK' /\ JobInv'
  <2>1. Commit(w, "categories", MasterData) /\ "categories" \in Keys /\ MasterData \in SUBSET Keys
    BY <1>14 DEF restoreCategory, Keys, MasterData
  <2>2. job' \in [Workers -> Job] /\ JobInv' /\ behind' \subseteq Keys
    BY <2>1, CommitJobs
  <2>. QED
    BY <1>14, <2>2 DEF restoreCategory, assertDepartment, closing
<1>15. ASSUME NEW w \in Workers, NEW d \in Departments, restoreDepartment(w, d)
      PROVE  TypeOK' /\ JobInv'
  <2>1. Commit(w, "departments", MasterData) /\ "departments" \in Keys /\ MasterData \in SUBSET Keys
    BY <1>15 DEF restoreDepartment, Keys, MasterData
  <2>2. job' \in [Workers -> Job] /\ JobInv' /\ behind' \subseteq Keys
    BY <2>1, CommitJobs
  <2>. QED
    BY <1>15, <2>2 DEF restoreDepartment
<1>16. ASSUME NEW w \in Workers, wardWrite(w)
      PROVE  TypeOK' /\ JobInv'
  <2>1. Commit(w, "wards", {"wards"}) /\ "wards" \in Keys /\ {"wards"} \in SUBSET Keys
    BY <1>16 DEF wardWrite, Keys, MasterData
  <2>2. job' \in [Workers -> Job] /\ JobInv' /\ behind' \subseteq Keys
    BY <2>1, CommitJobs
  <2>. QED
    BY <1>16, <2>2 DEF wardWrite
<1>17. ASSUME NEW w \in Workers, zoneCreate(w)
      PROVE  TypeOK' /\ JobInv'
  <2>1. Commit(w, "zones", {"zones"}) /\ "zones" \in Keys /\ {"zones"} \in SUBSET Keys
    BY <1>17 DEF zoneCreate, Keys, MasterData
  <2>2. job' \in [Workers -> Job] /\ JobInv' /\ behind' \subseteq Keys
    BY <2>1, CommitJobs
  <2>. QED
    BY <1>17, <2>2 DEF zoneCreate
<1>18. ASSUME NEW w \in Workers, serviceTypeWrite(w)
      PROVE  TypeOK' /\ JobInv'
  <2>1. Commit(w, "serviceTypes", {"serviceTypes"}) /\ "serviceTypes" \in Keys /\ {"serviceTypes"} \in SUBSET Keys
    BY <1>18 DEF serviceTypeWrite, Keys, MasterData
  <2>2. job' \in [Workers -> Job] /\ JobInv' /\ behind' \subseteq Keys
    BY <2>1, CommitJobs
  <2>. QED
    BY <1>18, <2>2 DEF serviceTypeWrite
<1>19. ASSUME NEW w \in Workers, NEW p \in Processes, updateSetting(w, p)
      PROVE  TypeOK' /\ JobInv'
  <2>. DEFINE ks == {p, "adminStats"}
  <2>1. Written(w, Processes, Deleting(ks)) /\ Processes \in SUBSET Keys /\ ks \in SUBSET Keys
    BY <1>19 DEF updateSetting, Keys
  <2>2. Deleting(ks) \in Job /\ Deleting(ks).pc = "del" /\ Deleting(ks).keys = ks
    BY <2>1, Locals
  <2>3. job' \in [Workers -> Job] /\ JobInv' /\ behind' \subseteq Keys
    BY <2>1, <2>2, WrittenJobs DEF Seeding
  <2>. QED
    BY <1>19, <2>3 DEF updateSetting, Keys
<1>20. ASSUME NEW w \in Workers, Crash(w)
      PROVE  TypeOK' /\ JobInv'
  BY <1>20 DEF Crash, Return
<1>21. ASSUME NEW k \in Keys, expires(k)
      PROVE  TypeOK' /\ JobInv'
  BY <1>21 DEF expires, Drop
<1>22. ASSUME NEW c \in Categories, complaints(c)
      PROVE  TypeOK' /\ JobInv'
  BY <1>22 DEF complaints
<1>23. CASE UNCHANGED vars
  BY <1>23 DEF vars
<1>24. ASSUME NEW w \in Workers, seed(w)
      PROVE  TypeOK' /\ JobInv'
  BY <1>24 DEF seed, Seeds, Begin, Keys, MasterData, Seeding
<1>25. ASSUME NEW w \in Workers, seedZones(w)
      PROVE  TypeOK' /\ JobInv'
  <2>1. Written(w, {"zones"}, Seeds("seedWards")) /\ "zones" \in MasterData /\ "zones" \in Keys /\ "seedWards" \in Seeding
    BY <1>25 DEF seedZones, Keys, MasterData, Seeding
  <2>2. job' \in [Workers -> Job] /\ JobInv' /\ behind' \subseteq Keys
    BY <2>1, SeedJobs
  <2>. QED
    BY <1>25, <2>2 DEF seedZones
<1>26. ASSUME NEW w \in Workers, seedWards(w)
      PROVE  TypeOK' /\ JobInv'
  <2>1. Written(w, {"wards"}, Seeds("seedDepartments")) /\ "wards" \in MasterData /\ "wards" \in Keys /\ "seedDepartments" \in Seeding
    BY <1>26 DEF seedWards, Keys, MasterData, Seeding
  <2>2. job' \in [Workers -> Job] /\ JobInv' /\ behind' \subseteq Keys
    BY <2>1, SeedJobs
  <2>. QED
    BY <1>26, <2>2 DEF seedWards
<1>27. ASSUME NEW w \in Workers, NEW d \in Departments, NEW pc \in {"seedDepartments", "seedCategories"},
             seedDepartment(w, d, pc)
      PROVE  TypeOK' /\ JobInv'
  <2>1. Written(w, {"departments"}, Seeds(pc)) /\ "departments" \in MasterData /\ "departments" \in Keys /\ pc \in Seeding
    BY <1>27 DEF seedDepartment, Keys, MasterData, Seeding
  <2>2. job' \in [Workers -> Job] /\ JobInv' /\ behind' \subseteq Keys
    BY <2>1, SeedJobs
  <2>. QED
    BY <1>27, <2>2 DEF seedDepartment
<1>28. ASSUME NEW w \in Workers, NEW c \in Categories, NEW pc \in {"seedCategories", "seedServiceTypes"},
             seedCategoryUpdate(w, c, pc)
      PROVE  TypeOK' /\ JobInv'
  <2>1. Written(w, {"categories"}, Seeds(pc)) /\ "categories" \in MasterData /\ "categories" \in Keys /\ pc \in Seeding
    BY <1>28 DEF seedCategoryUpdate, Keys, MasterData, Seeding
  <2>2. job' \in [Workers -> Job] /\ JobInv' /\ behind' \subseteq Keys
    BY <2>1, SeedJobs
  <2>. QED
    BY <1>28, <2>2 DEF seedCategoryUpdate
<1>29. ASSUME NEW w \in Workers, NEW c \in Categories, NEW d \in Departments,
             NEW pc \in {"seedCategories", "seedServiceTypes"}, seedCategoryCreate(w, c, d, pc)
      PROVE  TypeOK' /\ JobInv'
  <2>1. Written(w, {"categories"}, Seeds(pc)) /\ "categories" \in MasterData /\ "categories" \in Keys /\ pc \in Seeding
    BY <1>29 DEF seedCategoryCreate, Keys, MasterData, Seeding
  <2>2. job' \in [Workers -> Job] /\ JobInv' /\ behind' \subseteq Keys
    BY <2>1, SeedJobs
  <2>. QED
    BY <1>29, <2>2 DEF seedCategoryCreate, assertDepartment, closing
<1>30. ASSUME NEW w \in Workers, seedServiceTypes(w)
      PROVE  TypeOK' /\ JobInv'
  <2>1. Written(w, {"serviceTypes"}, Deleting(MasterData)) /\ {"serviceTypes"} \in SUBSET Keys
    BY <1>30 DEF seedServiceTypes, Keys, MasterData
  <2>2. /\ Deleting(MasterData) \in Job /\ Deleting(MasterData).pc = "del"
        /\ Deleting(MasterData).keys = MasterData
    BY Locals DEF Keys
  <2>3. job' \in [Workers -> Job] /\ JobInv' /\ behind' \subseteq Keys
    BY <2>1, <2>2, WrittenJobs DEF Seeding
  <2>. QED
    BY <1>30, <2>3 DEF seedServiceTypes
<1>31. ASSUME NEW w \in Workers, seedFails(w)
      PROVE  TypeOK' /\ JobInv'
  BY <1>31 DEF seedFails, Return, Keys, Seeding
<1>. HIDE DEF TypeOK, JobInv, Job, At, Idle, Steps, Seeding, Life, rows, keyVars
<1>32. ASSUME NEW w \in Workers, Receive(w)
       PROVE  TypeOK' /\ JobInv'
  BY <1>1, <1>5, <1>6, <1>7, <1>9, <1>12, <1>14, <1>15, <1>16, <1>17, <1>18, <1>19, <1>24, <1>32
     DEF Receive, categoryList, departmentList, wardList, zoneList, serviceTypeList, dashboardStats,
         getSetting, Keys, MasterData
<1>33. ASSUME NEW w \in Workers, Handle(w)
       PROVE  TypeOK' /\ JobInv'
  BY <1>2, <1>3, <1>4, <1>8, <1>10, <1>11, <1>13, <1>25, <1>26, <1>27, <1>28, <1>29, <1>30, <1>31,
     <1>33 DEF Handle, Seed
<1>. QED
  BY <1>20, <1>21, <1>22, <1>23, <1>32, <1>33 DEF Next

\* A commit to a table whose keys its handler goes on to drop, or that are excused, keeps the
\* answers explained.
LEMMA WrittenFresh ==
  ASSUME TypeOK, OwnListFresh, NEW w \in Workers, NEW ks \in SUBSET Keys, NEW locals \in Job,
         Written(w, ks, locals), locals.pc \in {"del"} \cup Seeding,
         dropping(w) => job[w].keys \subseteq locals.keys,
         excused \subseteq excused', behind' \cap ks \subseteq excused' \cup locals.keys
  PROVE  OwnListFresh'
<1>. SUFFICES ASSUME NEW i \in behind', i \notin excused'
              PROVE  \E v \in Workers : (dropping(v))' /\ i \in job'[v].keys
  BY DEF OwnListFresh
<1>1. job'[w] = locals
  BY WrittenFacts
<1>2. (dropping(w))'
  BY <1>1 DEF dropping
<1>3. /\ behind' \subseteq behind \cup ks
      /\ \A v \in Workers : v # w /\ job[v].pc # "fill" => job'[v] = job[v]
  BY WrittenFacts
<1>4. CASE i \in ks
  BY <1>1, <1>2, <1>4
<1>5. CASE i \notin ks
  <2>1. PICK v \in Workers : dropping(v) /\ i \in job[v].keys
    BY <1>3, <1>5 DEF OwnListFresh
  <2>2. CASE v = w
    BY <1>1, <1>2, <2>1, <2>2
  <2>3. CASE v # w
    BY <1>3, <2>1, <2>3 DEF dropping, Seeding
  <2>. QED
    BY <2>2, <2>3
<1>. QED
  BY <1>4, <1>5

\* A service drops the key of the table it wrote.
LEMMA CommitFresh ==
  ASSUME TypeOK, OwnListFresh, NEW w \in Workers, NEW k \in Keys, NEW ks \in SUBSET Keys, k \in ks,
         Commit(w, k, ks), ~dropping(w), excused' = excused
  PROVE  OwnListFresh'
<1>1. Written(w, {k}, Deleting(ks)) /\ {k} \in SUBSET Keys
  BY DEF Commit
<1>2. Deleting(ks) \in Job /\ Deleting(ks).pc \in {"del"} \cup Seeding /\ Deleting(ks).keys = ks
  BY Locals
<1>. QED
  BY <1>1, <1>2, WrittenFresh

\* The seed drops every list in the end.
LEMMA SeedFresh ==
  ASSUME TypeOK, OwnListFresh, NEW w \in Workers, NEW k \in MasterData, NEW pc \in Seeding,
         Written(w, {k}, Seeds(pc)), dropping(w) => job[w].keys \subseteq MasterData, excused' = excused
  PROVE  OwnListFresh'
<1>1. {k} \in SUBSET Keys /\ k \in Keys
  BY DEF Keys
<1>2. Seeds(pc) \in Job /\ Seeds(pc).pc \in {"del"} \cup Seeding /\ Seeds(pc).keys = MasterData
  BY Locals
<1>. QED
  BY <1>1, <1>2, WrittenFresh

\* An answer that falls behind is about to be dropped, or it has its excuse.
LEMMA FreshStep ==
  ASSUME TypeOK, JobInv, OwnListFresh, [Next]_vars
  PROVE  OwnListFresh'
<1>1. ASSUME NEW w \in Workers, NEW k \in Keys, cachedRead(w, k)
      PROVE  OwnListFresh'
  BY <1>1 DEF cachedRead, OwnListFresh, dropping, Seeding, TypeOK, Job, At, Idle, keyVars, Begin
<1>2. ASSUME NEW w \in Workers, fill(w)
      PROVE  OwnListFresh'
  BY <1>2 DEF fill, OwnListFresh, dropping, Seeding, TypeOK, Job, At, Idle, keyVars, Return
<1>3. ASSUME NEW w \in Workers, invalidate(w)
      PROVE  OwnListFresh'
  BY <1>3 DEF invalidate, OwnListFresh, dropping, Seeding, TypeOK, Job, At, Idle, keyVars, Return, Drop
<1>4. ASSUME NEW w \in Workers, invalidateFails(w)
      PROVE  OwnListFresh'
  BY <1>4 DEF invalidateFails, OwnListFresh, dropping, Seeding, TypeOK, Job, At, Idle, keyVars, Return
<1>5. ASSUME NEW w \in Workers, NEW d \in Departments, departmentCreate(w, d)
      PROVE  OwnListFresh'
  <2>1. Commit(w, "departments", {"departments"}) /\ "departments" \in Keys /\ {"departments"} \in SUBSET Keys /\ "departments" \in {"departments"}
    BY <1>5 DEF departmentCreate, Keys, MasterData
  <2>2. ~dropping(w) /\ excused' = excused
    BY <1>5 DEF departmentCreate, Idle, At, dropping, Seeding
  <2>. QED
    BY <2>1, <2>2, CommitFresh
<1>6. ASSUME NEW w \in Workers, NEW d \in Departments, departmentUpdate(w, d)
      PROVE  OwnListFresh'
  <2>1. Commit(w, "departments", {"departments"}) /\ "departments" \in Keys /\ {"departments"} \in SUBSET Keys /\ "departments" \in {"departments"}
    BY <1>6 DEF departmentUpdate, Keys, MasterData
  <2>2. ~dropping(w) /\ excused' = excused
    BY <1>6 DEF departmentUpdate, Idle, At, dropping, Seeding
  <2>. QED
    BY <2>1, <2>2, CommitFresh
<1>7. ASSUME NEW w \in Workers, NEW d \in Departments, departmentDeleteRead(w, d)
      PROVE  OwnListFresh'
  BY <1>7 DEF departmentDeleteRead, OwnListFresh, dropping, Seeding, TypeOK, Job, At, Idle, keyVars, Begin
<1>8. ASSUME NEW w \in Workers, departmentDeleteWrite(w)
      PROVE  OwnListFresh'
  <2>1. Commit(w, "departments", {"departments"}) /\ "departments" \in Keys /\ {"departments"} \in SUBSET Keys /\ "departments" \in {"departments"}
    BY <1>8 DEF departmentDeleteWrite, Keys, MasterData
  <2>2. ~dropping(w) /\ excused' = excused
    BY <1>8 DEF departmentDeleteWrite, Idle, At, dropping, Seeding
  <2>. QED
    BY <2>1, <2>2, CommitFresh
<1>9. ASSUME NEW w \in Workers, NEW c \in Categories, NEW d \in Departments, NEW pc \in {"create", "update"},
            categoryRead(w, c, d, pc)
      PROVE  OwnListFresh'
  BY <1>9 DEF categoryRead, OwnListFresh, dropping, Seeding, TypeOK, Job, At, Idle, keyVars, Begin
<1>10. ASSUME NEW w \in Workers, categoryCreate(w)
      PROVE  OwnListFresh'
  <2>1. Commit(w, "categories", {"categories"}) /\ "categories" \in Keys /\ {"categories"} \in SUBSET Keys /\ "categories" \in {"categories"}
    BY <1>10 DEF categoryCreate, Keys, MasterData
  <2>2. ~dropping(w) /\ excused' = excused
    BY <1>10 DEF categoryCreate, Idle, At, dropping, Seeding
  <2>. QED
    BY <2>1, <2>2, CommitFresh
<1>11. ASSUME NEW w \in Workers, categoryUpdate(w)
      PROVE  OwnListFresh'
  <2>1. Commit(w, "categories", {"categories"}) /\ "categories" \in Keys /\ {"categories"} \in SUBSET Keys /\ "categories" \in {"categories"}
    BY <1>11 DEF categoryUpdate, Keys, MasterData
  <2>2. ~dropping(w) /\ excused' = excused
    BY <1>11 DEF categoryUpdate, Idle, At, dropping, Seeding
  <2>. QED
    BY <2>1, <2>2, CommitFresh
<1>12. ASSUME NEW w \in Workers, NEW c \in Categories, categoryDeleteRead(w, c)
      PROVE  OwnListFresh'
  BY <1>12 DEF categoryDeleteRead, OwnListFresh, dropping, Seeding, TypeOK, Job, At, Idle, keyVars, Begin
<1>13. ASSUME NEW w \in Workers, categoryDeleteWrite(w)
      PROVE  OwnListFresh'
  <2>1. Commit(w, "categories", {"categories"}) /\ "categories" \in Keys /\ {"categories"} \in SUBSET Keys /\ "categories" \in {"categories"}
    BY <1>13 DEF categoryDeleteWrite, Keys, MasterData
  <2>2. ~dropping(w) /\ excused' = excused
    BY <1>13 DEF categoryDeleteWrite, Idle, At, dropping, Seeding
  <2>. QED
    BY <2>1, <2>2, CommitFresh
<1>14. ASSUME NEW w \in Workers, NEW c \in Categories, restoreCategory(w, c)
      PROVE  OwnListFresh'
  <2>1. Commit(w, "categories", MasterData) /\ "categories" \in Keys /\ MasterData \in SUBSET Keys /\ "categories" \in MasterData
    BY <1>14 DEF restoreCategory, Keys, MasterData
  <2>2. ~dropping(w) /\ excused' = excused
    BY <1>14 DEF restoreCategory, Idle, At, dropping, Seeding
  <2>. QED
    BY <2>1, <2>2, CommitFresh
<1>15. ASSUME NEW w \in Workers, NEW d \in Departments, restoreDepartment(w, d)
      PROVE  OwnListFresh'
  <2>1. Commit(w, "departments", MasterData) /\ "departments" \in Keys /\ MasterData \in SUBSET Keys /\ "departments" \in MasterData
    BY <1>15 DEF restoreDepartment, Keys, MasterData
  <2>2. ~dropping(w) /\ excused' = excused
    BY <1>15 DEF restoreDepartment, Idle, At, dropping, Seeding
  <2>. QED
    BY <2>1, <2>2, CommitFresh
<1>16. ASSUME NEW w \in Workers, wardWrite(w)
      PROVE  OwnListFresh'
  <2>1. Commit(w, "wards", {"wards"}) /\ "wards" \in Keys /\ {"wards"} \in SUBSET Keys /\ "wards" \in {"wards"}
    BY <1>16 DEF wardWrite, Keys, MasterData
  <2>2. ~dropping(w) /\ excused' = excused
    BY <1>16 DEF wardWrite, Idle, At, dropping, Seeding
  <2>. QED
    BY <2>1, <2>2, CommitFresh
<1>17. ASSUME NEW w \in Workers, zoneCreate(w)
      PROVE  OwnListFresh'
  <2>1. Commit(w, "zones", {"zones"}) /\ "zones" \in Keys /\ {"zones"} \in SUBSET Keys /\ "zones" \in {"zones"}
    BY <1>17 DEF zoneCreate, Keys, MasterData
  <2>2. ~dropping(w) /\ excused' = excused
    BY <1>17 DEF zoneCreate, Idle, At, dropping, Seeding
  <2>. QED
    BY <2>1, <2>2, CommitFresh
<1>18. ASSUME NEW w \in Workers, serviceTypeWrite(w)
      PROVE  OwnListFresh'
  <2>1. Commit(w, "serviceTypes", {"serviceTypes"}) /\ "serviceTypes" \in Keys /\ {"serviceTypes"} \in SUBSET Keys /\ "serviceTypes" \in {"serviceTypes"}
    BY <1>18 DEF serviceTypeWrite, Keys, MasterData
  <2>2. ~dropping(w) /\ excused' = excused
    BY <1>18 DEF serviceTypeWrite, Idle, At, dropping, Seeding
  <2>. QED
    BY <2>1, <2>2, CommitFresh
<1>19. ASSUME NEW w \in Workers, NEW p \in Processes, updateSetting(w, p)
      PROVE  OwnListFresh'
  <2>. DEFINE ks == {p, "adminStats"}
  <2>1. Written(w, Processes, Deleting(ks)) /\ Processes \in SUBSET Keys /\ ks \in SUBSET Keys
    BY <1>19 DEF updateSetting, Keys
  <2>2. Deleting(ks) \in Job /\ Deleting(ks).pc = "del" /\ Deleting(ks).keys = ks
    BY <2>1, Locals
  <2>3. ~dropping(w)
    BY <1>19 DEF updateSetting, Idle, At, dropping, Seeding
  <2>4. excused \subseteq excused'
    BY <1>19 DEF updateSetting
  <2>5. behind' \cap Processes \subseteq excused' \cup {p}
    BY <1>19 DEF updateSetting
  <2>. QED
    BY <2>1, <2>2, <2>3, <2>4, <2>5, WrittenFresh
<1>20. ASSUME NEW w \in Workers, Crash(w)
      PROVE  OwnListFresh'
  BY <1>20 DEF Crash, OwnListFresh, dropping, Seeding, TypeOK, Job, At, Idle, keyVars, Return
<1>21. ASSUME NEW k \in Keys, expires(k)
      PROVE  OwnListFresh'
  BY <1>21 DEF expires, OwnListFresh, dropping, Seeding, TypeOK, Job, At, Idle, keyVars, Drop
<1>22. ASSUME NEW c \in Categories, complaints(c)
      PROVE  OwnListFresh'
  BY <1>22 DEF complaints, OwnListFresh, dropping, Seeding, TypeOK, Job, At, Idle, keyVars
<1>23. CASE UNCHANGED vars
  BY <1>23 DEF vars, keyVars, OwnListFresh, dropping
<1>24. ASSUME NEW w \in Workers, seed(w)
      PROVE  OwnListFresh'
  <2>1. /\ ~dropping(w) /\ behind' = behind /\ excused' = excused
        /\ \A v \in Workers : v # w => job'[v] = job[v]
    BY <1>24 DEF seed, Begin, dropping, Seeding, TypeOK, At, Idle, keyVars
  <2>2. \A v \in Workers : dropping(v) => (dropping(v))' /\ job'[v] = job[v]
    BY <2>1 DEF dropping
  <2>. QED
    BY <2>1, <2>2 DEF OwnListFresh
<1>25. ASSUME NEW w \in Workers, seedZones(w)
      PROVE  OwnListFresh'
  <2>1. Written(w, {"zones"}, Seeds("seedWards")) /\ "zones" \in MasterData /\ "zones" \in Keys /\ "seedWards" \in Seeding
    BY <1>25 DEF seedZones, Keys, MasterData, Seeding
  <2>2. (dropping(w) => job[w].keys \subseteq MasterData) /\ excused' = excused
    BY <1>25 DEF seedZones, JobInv, Seeding
  <2>. QED
    BY <2>1, <2>2, SeedFresh
<1>26. ASSUME NEW w \in Workers, seedWards(w)
      PROVE  OwnListFresh'
  <2>1. Written(w, {"wards"}, Seeds("seedDepartments")) /\ "wards" \in MasterData /\ "wards" \in Keys /\ "seedDepartments" \in Seeding
    BY <1>26 DEF seedWards, Keys, MasterData, Seeding
  <2>2. (dropping(w) => job[w].keys \subseteq MasterData) /\ excused' = excused
    BY <1>26 DEF seedWards, JobInv, Seeding
  <2>. QED
    BY <2>1, <2>2, SeedFresh
<1>27. ASSUME NEW w \in Workers, NEW d \in Departments, NEW pc \in {"seedDepartments", "seedCategories"},
             seedDepartment(w, d, pc)
      PROVE  OwnListFresh'
  <2>1. Written(w, {"departments"}, Seeds(pc)) /\ "departments" \in MasterData /\ "departments" \in Keys /\ pc \in Seeding
    BY <1>27 DEF seedDepartment, Keys, MasterData, Seeding
  <2>2. (dropping(w) => job[w].keys \subseteq MasterData) /\ excused' = excused
    BY <1>27 DEF seedDepartment, JobInv, Seeding
  <2>. QED
    BY <2>1, <2>2, SeedFresh
<1>28. ASSUME NEW w \in Workers, NEW c \in Categories, NEW pc \in {"seedCategories", "seedServiceTypes"},
             seedCategoryUpdate(w, c, pc)
      PROVE  OwnListFresh'
  <2>1. Written(w, {"categories"}, Seeds(pc)) /\ "categories" \in MasterData /\ "categories" \in Keys /\ pc \in Seeding
    BY <1>28 DEF seedCategoryUpdate, Keys, MasterData, Seeding
  <2>2. (dropping(w) => job[w].keys \subseteq MasterData) /\ excused' = excused
    BY <1>28 DEF seedCategoryUpdate, JobInv, Seeding
  <2>. QED
    BY <2>1, <2>2, SeedFresh
<1>29. ASSUME NEW w \in Workers, NEW c \in Categories, NEW d \in Departments,
             NEW pc \in {"seedCategories", "seedServiceTypes"}, seedCategoryCreate(w, c, d, pc)
      PROVE  OwnListFresh'
  <2>1. Written(w, {"categories"}, Seeds(pc)) /\ "categories" \in MasterData /\ "categories" \in Keys /\ pc \in Seeding
    BY <1>29 DEF seedCategoryCreate, Keys, MasterData, Seeding
  <2>2. (dropping(w) => job[w].keys \subseteq MasterData) /\ excused' = excused
    BY <1>29 DEF seedCategoryCreate, JobInv, Seeding
  <2>. QED
    BY <2>1, <2>2, SeedFresh
<1>30. ASSUME NEW w \in Workers, seedServiceTypes(w)
      PROVE  OwnListFresh'
  <2>1. Written(w, {"serviceTypes"}, Deleting(MasterData)) /\ {"serviceTypes"} \in SUBSET Keys
    BY <1>30 DEF seedServiceTypes, Keys, MasterData
  <2>2. /\ Deleting(MasterData) \in Job /\ Deleting(MasterData).pc = "del"
        /\ Deleting(MasterData).keys = MasterData
    BY Locals DEF Keys
  <2>3. job[w].keys = MasterData /\ excused' = excused /\ "serviceTypes" \in MasterData
    BY <1>30 DEF seedServiceTypes, JobInv, Seeding, MasterData
  <2>. QED
    BY <2>1, <2>2, <2>3, WrittenFresh
<1>31. ASSUME NEW w \in Workers, seedFails(w)
      PROVE  OwnListFresh'
  BY <1>31 DEF seedFails, OwnListFresh, dropping, Seeding, TypeOK, JobInv, Job, At, Idle, keyVars, Return
<1>32. ASSUME NEW w \in Workers, Receive(w)
       PROVE  OwnListFresh'
  BY <1>1, <1>5, <1>6, <1>7, <1>9, <1>12, <1>14, <1>15, <1>16, <1>17, <1>18, <1>19, <1>24, <1>32
     DEF Receive, categoryList, departmentList, wardList, zoneList, serviceTypeList, dashboardStats,
         getSetting, Keys, MasterData
<1>33. ASSUME NEW w \in Workers, Handle(w)
       PROVE  OwnListFresh'
  BY <1>2, <1>3, <1>4, <1>8, <1>10, <1>11, <1>13, <1>25, <1>26, <1>27, <1>28, <1>29, <1>30, <1>31,
     <1>33 DEF Handle, Seed
<1>. QED
  BY <1>20, <1>21, <1>22, <1>23, <1>32, <1>33 DEF Next

\* A department is deleted from under a category only when the two crossed.
LEMMA OrphanStep ==
  ASSUME TypeOK, JobInv, OrphanInv, [Next]_vars
  PROVE  OrphanInv'
<1>. USE DEF OrphanInv, GivesLive, Crossing, ClosesEmpty, NoOrphans, Gives, Closes, rows
<1>1. ASSUME NEW w \in Workers, NEW k \in Keys, cachedRead(w, k)
      PROVE  OrphanInv'
  BY <1>1 DEF cachedRead, Begin, TypeOK, JobInv, Job, At, Idle
<1>2. ASSUME NEW w \in Workers, fill(w)
      PROVE  OrphanInv'
  BY <1>2 DEF fill, Return, TypeOK, JobInv, Job, At, Idle
<1>3. ASSUME NEW w \in Workers, invalidate(w)
      PROVE  OrphanInv'
  BY <1>3 DEF invalidate, Return, Drop, TypeOK, JobInv, Job, At, Idle
<1>4. ASSUME NEW w \in Workers, invalidateFails(w)
      PROVE  OrphanInv'
  BY <1>4 DEF invalidateFails, Return, TypeOK, JobInv, Job, At, Idle
<1>5. ASSUME NEW w \in Workers, NEW d \in Departments, departmentCreate(w, d)
      PROVE  OrphanInv'
  <2>1. Commit(w, "departments", {"departments"}) /\ "departments" \in Keys /\ {"departments"} \in SUBSET Keys
    BY <1>5 DEF departmentCreate, Keys, MasterData
  <2>2. \A v \in Workers :
          job'[v].pc \in {"create", "update", "close"} => v # w /\ job'[v] = job[v]
    BY <2>1, CommitJobs
  <2>. QED
    BY <1>5, <2>2 DEF departmentCreate, TypeOK, JobInv, Job, At, Idle
<1>6. ASSUME NEW w \in Workers, NEW d \in Departments, departmentUpdate(w, d)
      PROVE  OrphanInv'
  <2>1. Commit(w, "departments", {"departments"}) /\ "departments" \in Keys /\ {"departments"} \in SUBSET Keys
    BY <1>6 DEF departmentUpdate, Keys, MasterData
  <2>2. \A v \in Workers :
          job'[v].pc \in {"create", "update", "close"} => v # w /\ job'[v] = job[v]
    BY <2>1, CommitJobs
  <2>. QED
    BY <1>6, <2>2 DEF departmentUpdate, TypeOK, JobInv, Job, At, Idle
<1>7. ASSUME NEW w \in Workers, NEW d \in Departments, departmentDeleteRead(w, d)
      PROVE  OrphanInv'
  BY <1>7 DEF departmentDeleteRead, Begin, categoriesOf, giving, TypeOK, JobInv, Job, At,
     Idle
<1>8. ASSUME NEW w \in Workers, departmentDeleteWrite(w)
      PROVE  OrphanInv'
  <2>1. Commit(w, "departments", {"departments"}) /\ "departments" \in Keys /\ {"departments"} \in SUBSET Keys
    BY <1>8 DEF departmentDeleteWrite, Keys, MasterData
  <2>2. \A v \in Workers :
          job'[v].pc \in {"create", "update", "close"} => v # w /\ job'[v] = job[v]
    BY <2>1, CommitJobs
  <2>. QED
    BY <1>8, <2>2 DEF departmentDeleteWrite, TypeOK, JobInv, Job, At, Idle
<1>9. ASSUME NEW w \in Workers, NEW c \in Categories, NEW d \in Departments, NEW pc \in {"create", "update"},
            categoryRead(w, c, d, pc)
      PROVE  OrphanInv'
  BY <1>9 DEF categoryRead, Begin, assertDepartment, closing, TypeOK, JobInv, Job, At, Idle
<1>10. ASSUME NEW w \in Workers, categoryCreate(w)
      PROVE  OrphanInv'
  <2>1. Commit(w, "categories", {"categories"}) /\ "categories" \in Keys /\ {"categories"} \in SUBSET Keys
    BY <1>10 DEF categoryCreate, Keys, MasterData
  <2>2. \A v \in Workers :
          job'[v].pc \in {"create", "update", "close"} => v # w /\ job'[v] = job[v]
    BY <2>1, CommitJobs
  <2>. QED
    BY <1>10, <2>2 DEF categoryCreate, TypeOK, JobInv, Job, At, Idle
<1>11. ASSUME NEW w \in Workers, categoryUpdate(w)
      PROVE  OrphanInv'
  <2>1. Commit(w, "categories", {"categories"}) /\ "categories" \in Keys /\ {"categories"} \in SUBSET Keys
    BY <1>11 DEF categoryUpdate, Keys, MasterData
  <2>2. \A v \in Workers :
          job'[v].pc \in {"create", "update", "close"} => v # w /\ job'[v] = job[v]
    BY <2>1, CommitJobs
  <2>. QED
    BY <1>11, <2>2 DEF categoryUpdate, TypeOK, JobInv, Job, At, Idle
<1>12. ASSUME NEW w \in Workers, NEW c \in Categories, categoryDeleteRead(w, c)
      PROVE  OrphanInv'
  BY <1>12 DEF categoryDeleteRead, Begin, TypeOK, JobInv, Job, At, Idle
<1>13. ASSUME NEW w \in Workers, categoryDeleteWrite(w)
      PROVE  OrphanInv'
  <2>1. Commit(w, "categories", {"categories"}) /\ "categories" \in Keys /\ {"categories"} \in SUBSET Keys
    BY <1>13 DEF categoryDeleteWrite, Keys, MasterData
  <2>2. \A v \in Workers :
          job'[v].pc \in {"create", "update", "close"} => v # w /\ job'[v] = job[v]
    BY <2>1, CommitJobs
  <2>. QED
    BY <1>13, <2>2 DEF categoryDeleteWrite, TypeOK, JobInv, Job, At, Idle
<1>14. ASSUME NEW w \in Workers, NEW c \in Categories, restoreCategory(w, c)
      PROVE  OrphanInv'
  <2>1. Commit(w, "categories", MasterData) /\ "categories" \in Keys /\ MasterData \in SUBSET Keys
    BY <1>14 DEF restoreCategory, Keys, MasterData
  <2>2. \A v \in Workers :
          job'[v].pc \in {"create", "update", "close"} => v # w /\ job'[v] = job[v]
    BY <2>1, CommitJobs
  <2>. QED
    BY <1>14, <2>2 DEF restoreCategory, TypeOK, JobInv, Job, At, Idle, assertDepartment,
       closing
<1>15. ASSUME NEW w \in Workers, NEW d \in Departments, restoreDepartment(w, d)
      PROVE  OrphanInv'
  <2>1. Commit(w, "departments", MasterData) /\ "departments" \in Keys /\ MasterData \in SUBSET Keys
    BY <1>15 DEF restoreDepartment, Keys, MasterData
  <2>2. \A v \in Workers :
          job'[v].pc \in {"create", "update", "close"} => v # w /\ job'[v] = job[v]
    BY <2>1, CommitJobs
  <2>. QED
    BY <1>15, <2>2 DEF restoreDepartment, TypeOK, JobInv, Job, At, Idle
<1>16. ASSUME NEW w \in Workers, wardWrite(w)
      PROVE  OrphanInv'
  <2>1. Commit(w, "wards", {"wards"}) /\ "wards" \in Keys /\ {"wards"} \in SUBSET Keys
    BY <1>16 DEF wardWrite, Keys, MasterData
  <2>2. \A v \in Workers :
          job'[v].pc \in {"create", "update", "close"} => v # w /\ job'[v] = job[v]
    BY <2>1, CommitJobs
  <2>. QED
    BY <1>16, <2>2 DEF wardWrite, TypeOK, JobInv, Job, At, Idle
<1>17. ASSUME NEW w \in Workers, zoneCreate(w)
      PROVE  OrphanInv'
  <2>1. Commit(w, "zones", {"zones"}) /\ "zones" \in Keys /\ {"zones"} \in SUBSET Keys
    BY <1>17 DEF zoneCreate, Keys, MasterData
  <2>2. \A v \in Workers :
          job'[v].pc \in {"create", "update", "close"} => v # w /\ job'[v] = job[v]
    BY <2>1, CommitJobs
  <2>. QED
    BY <1>17, <2>2 DEF zoneCreate, TypeOK, JobInv, Job, At, Idle
<1>18. ASSUME NEW w \in Workers, serviceTypeWrite(w)
      PROVE  OrphanInv'
  <2>1. Commit(w, "serviceTypes", {"serviceTypes"}) /\ "serviceTypes" \in Keys /\ {"serviceTypes"} \in SUBSET Keys
    BY <1>18 DEF serviceTypeWrite, Keys, MasterData
  <2>2. \A v \in Workers :
          job'[v].pc \in {"create", "update", "close"} => v # w /\ job'[v] = job[v]
    BY <2>1, CommitJobs
  <2>. QED
    BY <1>18, <2>2 DEF serviceTypeWrite, TypeOK, JobInv, Job, At, Idle
<1>19. ASSUME NEW w \in Workers, NEW p \in Processes, updateSetting(w, p)
      PROVE  OrphanInv'
  <2>. DEFINE ks == {p, "adminStats"}
  <2>1. Written(w, Processes, Deleting(ks)) /\ Processes \in SUBSET Keys /\ ks \in SUBSET Keys
    BY <1>19 DEF updateSetting, Keys
  <2>2. Deleting(ks) \in Job /\ Deleting(ks).pc = "del" /\ Deleting(ks).keys = ks
    BY <2>1, Locals
  <2>3. \A v \in Workers :
          job'[v].pc \in {"create", "update", "close"} => v # w /\ job'[v] = job[v]
    BY <2>1, <2>2, WrittenJobs DEF Seeding
  <2>. QED
    BY <1>19, <2>3 DEF updateSetting, TypeOK, JobInv, Job, At, Idle
<1>20. ASSUME NEW w \in Workers, Crash(w)
      PROVE  OrphanInv'
  BY <1>20 DEF Crash, Return, TypeOK, JobInv, Job, At, Idle
<1>21. ASSUME NEW k \in Keys, expires(k)
      PROVE  OrphanInv'
  BY <1>21 DEF expires, Drop, TypeOK, JobInv, Job, At, Idle
<1>22. ASSUME NEW c \in Categories, complaints(c)
      PROVE  OrphanInv'
  BY <1>22 DEF complaints, TypeOK, JobInv, Job, At, Idle
<1>23. CASE UNCHANGED vars
  BY <1>23 DEF vars
<1>24. ASSUME NEW w \in Workers, seed(w)
      PROVE  OrphanInv'
  BY <1>24 DEF seed, Seeds, Begin, TypeOK, JobInv, Job, At, Idle
<1>25. ASSUME NEW w \in Workers, seedZones(w)
      PROVE  OrphanInv'
  <2>1. Written(w, {"zones"}, Seeds("seedWards")) /\ "zones" \in MasterData /\ "zones" \in Keys /\ "seedWards" \in Seeding
    BY <1>25 DEF seedZones, Keys, MasterData, Seeding
  <2>2. \A v \in Workers :
          job'[v].pc \in {"create", "update", "close"} => v # w /\ job'[v] = job[v]
    BY <2>1, SeedJobs
  <2>. QED
    BY <1>25, <2>2 DEF seedZones, TypeOK, JobInv, Job, At, Idle
<1>26. ASSUME NEW w \in Workers, seedWards(w)
      PROVE  OrphanInv'
  <2>1. Written(w, {"wards"}, Seeds("seedDepartments")) /\ "wards" \in MasterData /\ "wards" \in Keys /\ "seedDepartments" \in Seeding
    BY <1>26 DEF seedWards, Keys, MasterData, Seeding
  <2>2. \A v \in Workers :
          job'[v].pc \in {"create", "update", "close"} => v # w /\ job'[v] = job[v]
    BY <2>1, SeedJobs
  <2>. QED
    BY <1>26, <2>2 DEF seedWards, TypeOK, JobInv, Job, At, Idle
<1>27. ASSUME NEW w \in Workers, NEW d \in Departments, NEW pc \in {"seedDepartments", "seedCategories"},
             seedDepartment(w, d, pc)
      PROVE  OrphanInv'
  <2>1. Written(w, {"departments"}, Seeds(pc)) /\ "departments" \in MasterData /\ "departments" \in Keys /\ pc \in Seeding
    BY <1>27 DEF seedDepartment, Keys, MasterData, Seeding
  <2>2. \A v \in Workers :
          job'[v].pc \in {"create", "update", "close"} => v # w /\ job'[v] = job[v]
    BY <2>1, SeedJobs
  <2>. QED
    BY <1>27, <2>2 DEF seedDepartment, TypeOK, JobInv, Job, At, Idle
<1>28. ASSUME NEW w \in Workers, NEW c \in Categories, NEW pc \in {"seedCategories", "seedServiceTypes"},
             seedCategoryUpdate(w, c, pc)
      PROVE  OrphanInv'
  <2>1. Written(w, {"categories"}, Seeds(pc)) /\ "categories" \in MasterData /\ "categories" \in Keys /\ pc \in Seeding
    BY <1>28 DEF seedCategoryUpdate, Keys, MasterData, Seeding
  <2>2. \A v \in Workers :
          job'[v].pc \in {"create", "update", "close"} => v # w /\ job'[v] = job[v]
    BY <2>1, SeedJobs
  <2>. QED
    BY <1>28, <2>2 DEF seedCategoryUpdate, TypeOK, JobInv, Job, At, Idle
<1>29. ASSUME NEW w \in Workers, NEW c \in Categories, NEW d \in Departments,
             NEW pc \in {"seedCategories", "seedServiceTypes"}, seedCategoryCreate(w, c, d, pc)
      PROVE  OrphanInv'
  <2>1. Written(w, {"categories"}, Seeds(pc)) /\ "categories" \in MasterData /\ "categories" \in Keys /\ pc \in Seeding
    BY <1>29 DEF seedCategoryCreate, Keys, MasterData, Seeding
  <2>2. \A v \in Workers :
          job'[v].pc \in {"create", "update", "close"} => v # w /\ job'[v] = job[v]
    BY <2>1, SeedJobs
  <2>. QED
    BY <1>29, <2>2 DEF seedCategoryCreate, TypeOK, JobInv, Job, At, Idle, assertDepartment, closing
<1>30. ASSUME NEW w \in Workers, seedServiceTypes(w)
      PROVE  OrphanInv'
  <2>1. Written(w, {"serviceTypes"}, Deleting(MasterData)) /\ {"serviceTypes"} \in SUBSET Keys
    BY <1>30 DEF seedServiceTypes, Keys, MasterData
  <2>2. /\ Deleting(MasterData) \in Job /\ Deleting(MasterData).pc = "del"
        /\ Deleting(MasterData).keys = MasterData
    BY Locals DEF Keys
  <2>3. \A v \in Workers :
          job'[v].pc \in {"create", "update", "close"} => v # w /\ job'[v] = job[v]
    BY <2>1, <2>2, WrittenJobs DEF Seeding
  <2>. QED
    BY <1>30, <2>3 DEF seedServiceTypes, TypeOK, JobInv, Job, At, Idle
<1>31. ASSUME NEW w \in Workers, seedFails(w)
      PROVE  OrphanInv'
  BY <1>31 DEF seedFails, Return, TypeOK, JobInv, Job, At, Idle, Seeding
<1>. HIDE DEF OrphanInv, GivesLive, Crossing, ClosesEmpty, NoOrphans, Gives, Closes, rows
<1>32. ASSUME NEW w \in Workers, Receive(w)
       PROVE  OrphanInv'
  BY <1>1, <1>5, <1>6, <1>7, <1>9, <1>12, <1>14, <1>15, <1>16, <1>17, <1>18, <1>19, <1>24, <1>32
     DEF Receive, categoryList, departmentList, wardList, zoneList, serviceTypeList, dashboardStats,
         getSetting, Keys, MasterData
<1>33. ASSUME NEW w \in Workers, Handle(w)
       PROVE  OrphanInv'
  BY <1>2, <1>3, <1>4, <1>8, <1>10, <1>11, <1>13, <1>25, <1>26, <1>27, <1>28, <1>29, <1>30, <1>31,
     <1>33 DEF Handle, Seed
<1>. QED
  BY <1>20, <1>21, <1>22, <1>23, <1>32, <1>33 DEF Next

-----------------------------------------------------------------------------
\* Nothing is there yet.
LEMMA InvInit == Init => Inv
BY CatalogAssumption DEF Init, Inv, TypeOK, JobInv, OwnListFresh, OrphanInv, GivesLive, Crossing,
   ClosesEmpty, NoOrphans, Gives, Closes, Job, At, Idle, Steps, Seeding, Life

\* Each step keeps what the others rely on.
LEMMA InvStep == Inv /\ [Next]_vars => Inv'
BY TypeStep, FreshStep, OrphanStep DEF Inv

\* The invariant holds in every state of every behaviour.
THEOREM Invariance == Spec => []Inv
BY InvInit, InvStep, PTL DEF Spec

\* Rows and locals of the catalogue services are well formed in every state.
THEOREM TypeCorrect == Spec => []TypeOK
<1>1. Inv => TypeOK
  BY DEF Inv
<1>. QED
  BY <1>1, Invariance, PTL

\* lib/cache.ts and lib/settings.ts: whatever is out of date is about to be dropped or is one of
\* the cases left to the time to live, for any number of handlers and processes.
THEOREM ListsAreFresh == Spec => []OwnListFresh
<1>1. Inv => OwnListFresh
  BY DEF Inv
<1>. QED
  BY <1>1, Invariance, PTL

\* department.service.ts: a live category is without a live department only after a crossing, a
\* restore or a run of the seed.
THEOREM CategoriesHaveADepartment == Spec => []NoOrphans
<1>1. Inv => NoOrphans
  BY DEF Inv, OrphanInv
<1>. QED
  BY <1>1, Invariance, PTL
=============================================================================

-------------------------- MODULE ComplaintsProofs --------------------------
(***************************************************************************)
(* Proofs about the life of a complaint: Complaints first, for any number  *)
(* of complaints, officers and handlers in flight and any limits, then     *)
(* Triage.                                                                 *)
(***************************************************************************)
EXTENDS Complaints, Triage, FiniteSetTheorems, TLAPS

\* What must be there already for a complaint to be given status s.
Backs(c, s) ==
  /\ s \in ProvenStatus => proofs[c] > 0
  /\ s \in HeldStatus => officerId[c] # Nobody

\* Both facts outlive the read that found them: proofs are never removed and an officer
\* is only ever replaced.  So the stale statuses in the locals are as good as the row's.
JobInv ==
  \A w \in Workers :
    /\ job[w].pc = "apply" =>
         /\ edge(job[w].from, job[w].to)
         /\ Backs(job[w].c, job[w].from)
         /\ Backs(job[w].c, job[w].to)
    /\ job[w].pc \in {"assign", "rate"} => Backs(job[w].c, job[w].from)
    /\ job[w].pc = "proof" => officerId[job[w].c] # Nobody

RowInv ==
  /\ \A c \in Complaints : Backs(c, status[c])
  /\ ResolvedIsProven
  /\ OfficerMatchesAssignment

\* The inductive invariant.
Inv == TypeOK /\ JobInv /\ RowInv

-----------------------------------------------------------------------------
(* Types.                                                                  *)

\* The locals a handler has at each await, and that they are what they should be.
LEMMA JobTypes ==
  ASSUME NEW w \in Workers, job \in [Workers -> Job]
  PROVE  /\ job[w].pc # "idle" => job[w].c \in Complaints
         /\ job[w].pc \in {"apply", "assign", "rate"} => job[w].from \in ComplaintStatus
         /\ job[w].pc = "apply" => job[w].to \in ComplaintStatus
         /\ job[w].pc = "assign" => job[w].officer \in Officers
         /\ job[w] # Idle => job[w].pc # "idle"
<1>1. job[w] \in Job
  OBVIOUS
<1>2. CASE job[w] = Idle
  BY <1>2 DEF Idle
<1>3. CASE job[w] \in [pc: {"apply"}, c: Complaints, from: ComplaintStatus, to: ComplaintStatus]
  BY <1>3
<1>4. CASE job[w] \in [pc: {"proof", "reopen"}, c: Complaints]
  BY <1>4
<1>5. CASE job[w] \in [pc: {"assign"}, c: Complaints, from: ComplaintStatus, officer: Officers]
  BY <1>5
<1>6. CASE job[w] \in [pc: {"attach"}, c: Complaints, kind: {"EVIDENCE", "RESOLUTION_PROOF"}]
  BY <1>6
<1>7. CASE job[w] \in [pc: {"rate"}, c: Complaints, from: ComplaintStatus]
  BY <1>7
<1>. QED
  BY <1>1, <1>2, <1>3, <1>4, <1>5, <1>6, <1>7 DEF Job

\* An upload has one of the two kinds.
LEMMA KindTypes ==
  ASSUME NEW w \in Workers, job \in [Workers -> Job], job[w].pc = "attach"
  PROVE  job[w].kind \in {"EVIDENCE", "RESOLUTION_PROOF"}
<1>1. job[w] \in Job
  OBVIOUS
<1>. QED
  BY <1>1 DEF Job, Idle

\* Every step of every handler keeps the rows and the locals well formed.
LEMMA TypeStep ==
  ASSUME TypeOK, [Next]_vars
  PROVE  TypeOK'
<1>. USE ComplaintsAssumption DEF TypeOK, rowVars, sideVars, Begin, Await, Return
<1>1. ASSUME NEW c \in Complaints, create(c)
      PROVE  TypeOK'
  BY <1>1, JobTypes DEF create, Job, Idle, ComplaintStatus
<1>2. ASSUME NEW c \in Complaints, softDelete(c)
      PROVE  TypeOK'
  BY <1>2, JobTypes DEF softDelete, Job, Idle, ComplaintStatus
<1>21. ASSUME NEW c \in Complaints, restore(c)
      PROVE  TypeOK'
  BY <1>21, JobTypes DEF restore, Job, Idle, ComplaintStatus
<1>3. ASSUME NEW c \in Complaints, WeekPasses(c)
      PROVE  TypeOK'
  BY <1>3, JobTypes DEF WeekPasses, Job, Idle, ComplaintStatus
<1>4. ASSUME NEW w \in Workers, NEW c \in Complaints,
              NEW to \in ComplaintStatus, NEW a \in Actors, changeStatusRead(w, c, to, a)
      PROVE  TypeOK'
  BY <1>4, JobTypes DEF changeStatusRead, Job, Idle, ComplaintStatus, mayChange, found
<1>5. ASSUME NEW w \in Workers, NEW c \in Complaints, NEW a \in Actors, resolveRead(w, c, a)
      PROVE  TypeOK'
  BY <1>5, JobTypes DEF resolveRead, Job, Idle, ComplaintStatus
<1>6. ASSUME NEW w \in Workers, NEW c \in Complaints, reopenRead(w, c)
      PROVE  TypeOK'
  BY <1>6, JobTypes DEF reopenRead, Job, Idle, ComplaintStatus
<1>7. ASSUME NEW w \in Workers, NEW c \in Complaints, NEW o \in Officers, assignRead(w, c, o)
      PROVE  TypeOK'
  BY <1>7, JobTypes DEF assignRead, Job, Idle, ComplaintStatus, found
<1>8. ASSUME NEW w \in Workers, NEW c \in Complaints,
              NEW kind \in {"EVIDENCE", "RESOLUTION_PROOF"}, NEW a \in Actors, addAttachmentRead(w, c, kind, a)
      PROVE  TypeOK'
  BY <1>8, JobTypes DEF addAttachmentRead, Job, Idle, ComplaintStatus
<1>9. ASSUME NEW w \in Workers, NEW c \in Complaints, feedbackRead(w, c)
      PROVE  TypeOK'
  BY <1>9, JobTypes DEF feedbackRead, Job, Idle, ComplaintStatus, found
<1>10. ASSUME NEW w \in Workers, NEW c \in Complaints, autoCloseRead(w, c)
      PROVE  TypeOK'
  BY <1>10, JobTypes DEF autoCloseRead, Job, Idle, ComplaintStatus
<1>11. ASSUME NEW w \in Workers, resolveProof(w)
      PROVE  TypeOK'
  BY <1>11, JobTypes DEF resolveProof, Job, Idle, ComplaintStatus
<1>12. ASSUME NEW w \in Workers, applyStatusChange(w)
      PROVE  TypeOK'
  BY <1>12, JobTypes DEF applyStatusChange, Job, Idle, ComplaintStatus
<1>13. ASSUME NEW w \in Workers, applyConflict(w)
      PROVE  TypeOK'
  BY <1>13, JobTypes DEF applyConflict, Job, Idle, ComplaintStatus
<1>14. ASSUME NEW w \in Workers, reopenChange(w)
      PROVE  TypeOK'
  BY <1>14, JobTypes DEF reopenChange, Job, Idle, ComplaintStatus, mayChange, found
<1>15. ASSUME NEW w \in Workers, refused(w)
      PROVE  TypeOK'
  BY <1>15, JobTypes DEF refused, Job, Idle, ComplaintStatus
<1>16. ASSUME NEW w \in Workers, assignWrite(w)
      PROVE  TypeOK'
  BY <1>16, JobTypes DEF assignWrite, Job, Idle, ComplaintStatus, nextStatus, handedTo
<1>17. ASSUME NEW w \in Workers, addAttachmentWrite(w)
      PROVE  TypeOK'
  BY <1>17, JobTypes DEF addAttachmentWrite, Job, Idle, ComplaintStatus
<1>18. ASSUME NEW w \in Workers, feedbackCreate(w)
      PROVE  TypeOK'
  BY <1>18, JobTypes DEF feedbackCreate, Job, Idle, ComplaintStatus
<1>19. ASSUME NEW w \in Workers, Crash(w)
      PROVE  TypeOK'
  BY <1>19, JobTypes DEF Crash, Job, Idle, ComplaintStatus
<1>20. CASE UNCHANGED vars
  BY <1>20 DEF vars
<1>. QED
  BY <1>1, <1>2, <1>3, <1>4, <1>5, <1>6, <1>7, <1>8, <1>9, <1>10, <1>11, <1>12, <1>13, <1>14, <1>15, <1>16, <1>17, <1>18, <1>19, <1>20,
     <1>21 DEF Next, Receive, Handle

-----------------------------------------------------------------------------
(* The inductive invariant.                                                *)

\* No row exists at first.
LEMMA InvInit == Init => Inv
BY ComplaintsAssumption DEF Init, Inv, TypeOK, JobInv, RowInv, Backs, Idle, Job, ProvenStatus,
   HeldStatus, ResolvedIsProven, OfficerMatchesAssignment

\* Each handler's step keeps what the others rely on.
LEMMA InvStep == Inv /\ [Next]_vars => Inv'
<1>. SUFFICES ASSUME Inv, [Next]_vars
              PROVE  Inv'
  OBVIOUS
<1>. USE ComplaintsAssumption
     DEF Inv, TypeOK, JobInv, RowInv, Backs, ResolvedIsProven, OfficerMatchesAssignment,
         ProvenStatus, HeldStatus, Idle, rowVars, sideVars, Begin, Await, Return
<1>0. TypeOK'
  BY TypeStep
<1>1. ASSUME NEW c \in Complaints, create(c)
      PROVE  (JobInv /\ RowInv)'
  <2>1. JobInv'
    BY <1>1, JobTypes DEF create
  <2>2. RowInv'
    BY <1>1, JobTypes DEF create
  <2>. QED
    BY <2>1, <2>2
<1>2. ASSUME NEW c \in Complaints, softDelete(c)
      PROVE  (JobInv /\ RowInv)'
  <2>1. JobInv'
    BY <1>2, JobTypes DEF softDelete
  <2>2. RowInv'
    BY <1>2, JobTypes DEF softDelete
  <2>. QED
    BY <2>1, <2>2
<1>21. ASSUME NEW c \in Complaints, restore(c)
      PROVE  (JobInv /\ RowInv)'
  <2>1. JobInv'
    BY <1>21, JobTypes DEF restore
  <2>2. RowInv'
    BY <1>21, JobTypes DEF restore
  <2>. QED
    BY <2>1, <2>2
<1>3. ASSUME NEW c \in Complaints, WeekPasses(c)
      PROVE  (JobInv /\ RowInv)'
  <2>1. JobInv'
    BY <1>3, JobTypes DEF WeekPasses
  <2>2. RowInv'
    BY <1>3, JobTypes DEF WeekPasses
  <2>. QED
    BY <2>1, <2>2
<1>4. ASSUME NEW w \in Workers, NEW c \in Complaints,
              NEW to \in ComplaintStatus, NEW a \in Actors, changeStatusRead(w, c, to, a)
      PROVE  (JobInv /\ RowInv)'
  <2>1. JobInv'
    BY <1>4, JobTypes DEF changeStatusRead, mayChange, found, transitions, RoleOf, edge, Roles, Actors
  <2>2. RowInv'
    BY <1>4, JobTypes DEF changeStatusRead, mayChange, found, transitions, RoleOf, edge, Roles, Actors
  <2>. QED
    BY <2>1, <2>2
<1>5. ASSUME NEW w \in Workers, NEW c \in Complaints, NEW a \in Actors, resolveRead(w, c, a)
      PROVE  (JobInv /\ RowInv)'
  <2>1. JobInv'
    BY <1>5, JobTypes DEF resolveRead, mayChange, found, transitions, RoleOf, Actors
  <2>2. RowInv'
    BY <1>5, JobTypes DEF resolveRead, mayChange, found, transitions, RoleOf, Actors
  <2>. QED
    BY <2>1, <2>2
<1>6. ASSUME NEW w \in Workers, NEW c \in Complaints, reopenRead(w, c)
      PROVE  (JobInv /\ RowInv)'
  <2>1. JobInv'
    BY <1>6, JobTypes DEF reopenRead, found
  <2>2. RowInv'
    BY <1>6, JobTypes DEF reopenRead, found
  <2>. QED
    BY <2>1, <2>2
<1>7. ASSUME NEW w \in Workers, NEW c \in Complaints, NEW o \in Officers, assignRead(w, c, o)
      PROVE  (JobInv /\ RowInv)'
  <2>1. JobInv'
    BY <1>7, JobTypes DEF assignRead, found
  <2>2. RowInv'
    BY <1>7, JobTypes DEF assignRead, found
  <2>. QED
    BY <2>1, <2>2
<1>8. ASSUME NEW w \in Workers, NEW c \in Complaints,
              NEW kind \in {"EVIDENCE", "RESOLUTION_PROOF"}, NEW a \in Actors, addAttachmentRead(w, c, kind, a)
      PROVE  (JobInv /\ RowInv)'
  <2>1. JobInv'
    BY <1>8, JobTypes DEF addAttachmentRead, found
  <2>2. RowInv'
    BY <1>8, JobTypes DEF addAttachmentRead, found
  <2>. QED
    BY <2>1, <2>2
<1>9. ASSUME NEW w \in Workers, NEW c \in Complaints, feedbackRead(w, c)
      PROVE  (JobInv /\ RowInv)'
  <2>1. JobInv'
    BY <1>9, JobTypes DEF feedbackRead, found
  <2>2. RowInv'
    BY <1>9, JobTypes DEF feedbackRead, found
  <2>. QED
    BY <2>1, <2>2
<1>10. ASSUME NEW w \in Workers, NEW c \in Complaints, autoCloseRead(w, c)
      PROVE  (JobInv /\ RowInv)'
  <2>1. JobInv'
    BY <1>10, JobTypes DEF autoCloseRead, found, transitions, edge, Roles
  <2>2. RowInv'
    BY <1>10, JobTypes DEF autoCloseRead, found, transitions, edge, Roles
  <2>. QED
    BY <2>1, <2>2
<1>11. ASSUME NEW w \in Workers, resolveProof(w)
      PROVE  (JobInv /\ RowInv)'
  <2>1. JobInv'
    BY <1>11, JobTypes DEF resolveProof, transitions, edge, Roles
  <2>2. RowInv'
    BY <1>11, JobTypes DEF resolveProof, transitions, edge, Roles
  <2>. QED
    BY <2>1, <2>2
<1>12. ASSUME NEW w \in Workers, applyStatusChange(w)
      PROVE  (JobInv /\ RowInv)'
  <2>1. JobInv'
    BY <1>12, JobTypes DEF applyStatusChange, locked, transitions, edge, Roles
  <2>2. RowInv'
    BY <1>12, JobTypes DEF applyStatusChange, locked, transitions, edge, Roles
  <2>. QED
    BY <2>1, <2>2
<1>13. ASSUME NEW w \in Workers, applyConflict(w)
      PROVE  (JobInv /\ RowInv)'
  <2>1. JobInv'
    BY <1>13, JobTypes DEF applyConflict
  <2>2. RowInv'
    BY <1>13, JobTypes DEF applyConflict
  <2>. QED
    BY <2>1, <2>2
<1>14. ASSUME NEW w \in Workers, reopenChange(w)
      PROVE  (JobInv /\ RowInv)'
  <2>1. JobInv'
    BY <1>14, JobTypes DEF reopenChange, mayChange, found, transitions, RoleOf, edge, Roles
  <2>2. RowInv'
    BY <1>14, JobTypes DEF reopenChange, mayChange, found, transitions, RoleOf, edge, Roles
  <2>. QED
    BY <2>1, <2>2
<1>15. ASSUME NEW w \in Workers, refused(w)
      PROVE  (JobInv /\ RowInv)'
  <2>1. JobInv'
    BY <1>15, JobTypes DEF refused
  <2>2. RowInv'
    BY <1>15, JobTypes DEF refused
  <2>. QED
    BY <2>1, <2>2
<1>16. ASSUME NEW w \in Workers, assignWrite(w)
      PROVE  (JobInv /\ RowInv)'
  <2>1. JobInv'
    BY <1>16, JobTypes DEF assignWrite, nextStatus, handedTo
  <2>2. RowInv'
    BY <1>16, JobTypes DEF assignWrite, nextStatus, handedTo
  <2>. QED
    BY <2>1, <2>2
<1>17. ASSUME NEW w \in Workers, addAttachmentWrite(w)
      PROVE  (JobInv /\ RowInv)'
  <2>1. JobInv'
    BY <1>17, JobTypes DEF addAttachmentWrite
  <2>2. RowInv'
    BY <1>17, JobTypes DEF addAttachmentWrite
  <2>. QED
    BY <2>1, <2>2
<1>18. ASSUME NEW w \in Workers, feedbackCreate(w)
      PROVE  (JobInv /\ RowInv)'
  <2>1. JobInv'
    BY <1>18, JobTypes DEF feedbackCreate, transitions, edge, Roles
  <2>2. RowInv'
    BY <1>18, JobTypes DEF feedbackCreate, transitions, edge, Roles
  <2>. QED
    BY <2>1, <2>2
<1>19. ASSUME NEW w \in Workers, Crash(w)
      PROVE  (JobInv /\ RowInv)'
  <2>1. JobInv'
    BY <1>19, JobTypes DEF Crash
  <2>2. RowInv'
    BY <1>19, JobTypes DEF Crash
  <2>. QED
    BY <2>1, <2>2
<1>20. CASE UNCHANGED vars
  BY <1>20 DEF vars
<1>. QED
  BY <1>0, <1>1, <1>2, <1>3, <1>4, <1>5, <1>6, <1>7, <1>8, <1>9, <1>10, <1>11, <1>12, <1>13, <1>14, <1>15, <1>16, <1>17, <1>18, <1>19, <1>20,
     <1>21 DEF Next, Receive, Handle

\* Inv holds in every reachable state.
THEOREM Invariance == Spec => []Inv
BY InvInit, InvStep, PTL DEF Spec

\* Rows and locals are always well formed.
THEOREM TypeCorrect == Spec => []TypeOK
<1>1. Inv => TypeOK
  BY DEF Inv
<1>. QED
  BY <1>1, Invariance, PTL

\* However reassignments, reopenings and the auto-close job interleave, nothing is called
\* resolved without a resolution proof.
THEOREM Proven == Spec => []ResolvedIsProven
<1>1. Inv => ResolvedIsProven
  BY DEF Inv, RowInv
<1>. QED
  BY <1>1, Invariance, PTL

\* However assignments interleave, the complaint row names the officer of the active
\* assignment and work that has begun has an officer.
THEOREM OfficerAssigned == Spec => []OfficerMatchesAssignment
<1>1. Inv => OfficerMatchesAssignment
  BY DEF Inv, RowInv
<1>. QED
  BY <1>1, Invariance, PTL

-----------------------------------------------------------------------------
(* The single door.                                                        *)

MovesByTheDoor ==
  \A c \in Complaints : status'[c] # status[c] =>
       \/ status[c] = "NONE" /\ status'[c] = "SUBMITTED"
       \/ edge(status[c], status'[c])
       \/ \E w \in Workers : /\ job[w].pc = "assign" /\ job[w].c = c
                             /\ job'[w] = Idle
                             /\ status'[c] = nextStatus(job[w].from)

\* Of all handlers only create, applyStatusChange and assign write a status.
LEMMA DoorStep == Inv /\ [Next]_vars => MovesByTheDoor
<1>. SUFFICES ASSUME Inv, [Next]_vars
              PROVE  MovesByTheDoor
  OBVIOUS
<1>. USE DEF Inv, TypeOK, JobInv, MovesByTheDoor, rowVars, sideVars, Begin, Await, Return
<1>1. ASSUME NEW c \in Complaints, create(c)
      PROVE  MovesByTheDoor
  BY <1>1, JobTypes DEF create
<1>2. ASSUME NEW c \in Complaints, softDelete(c)
      PROVE  MovesByTheDoor
  BY <1>2, JobTypes DEF softDelete
<1>21. ASSUME NEW c \in Complaints, restore(c)
      PROVE  MovesByTheDoor
  BY <1>21, JobTypes DEF restore
<1>3. ASSUME NEW c \in Complaints, WeekPasses(c)
      PROVE  MovesByTheDoor
  BY <1>3, JobTypes DEF WeekPasses
<1>4. ASSUME NEW w \in Workers, NEW c \in Complaints,
              NEW to \in ComplaintStatus, NEW a \in Actors, changeStatusRead(w, c, to, a)
      PROVE  MovesByTheDoor
  BY <1>4, JobTypes DEF changeStatusRead
<1>5. ASSUME NEW w \in Workers, NEW c \in Complaints, NEW a \in Actors, resolveRead(w, c, a)
      PROVE  MovesByTheDoor
  BY <1>5, JobTypes DEF resolveRead
<1>6. ASSUME NEW w \in Workers, NEW c \in Complaints, reopenRead(w, c)
      PROVE  MovesByTheDoor
  BY <1>6, JobTypes DEF reopenRead
<1>7. ASSUME NEW w \in Workers, NEW c \in Complaints, NEW o \in Officers, assignRead(w, c, o)
      PROVE  MovesByTheDoor
  BY <1>7, JobTypes DEF assignRead
<1>8. ASSUME NEW w \in Workers, NEW c \in Complaints,
              NEW kind \in {"EVIDENCE", "RESOLUTION_PROOF"}, NEW a \in Actors, addAttachmentRead(w, c, kind, a)
      PROVE  MovesByTheDoor
  BY <1>8, JobTypes DEF addAttachmentRead
<1>9. ASSUME NEW w \in Workers, NEW c \in Complaints, feedbackRead(w, c)
      PROVE  MovesByTheDoor
  BY <1>9, JobTypes DEF feedbackRead
<1>10. ASSUME NEW w \in Workers, NEW c \in Complaints, autoCloseRead(w, c)
      PROVE  MovesByTheDoor
  BY <1>10, JobTypes DEF autoCloseRead
<1>11. ASSUME NEW w \in Workers, resolveProof(w)
      PROVE  MovesByTheDoor
  BY <1>11, JobTypes DEF resolveProof
<1>12. ASSUME NEW w \in Workers, applyStatusChange(w)
      PROVE  MovesByTheDoor
  BY <1>12, JobTypes DEF applyStatusChange, locked
<1>13. ASSUME NEW w \in Workers, applyConflict(w)
      PROVE  MovesByTheDoor
  BY <1>13, JobTypes DEF applyConflict
<1>14. ASSUME NEW w \in Workers, reopenChange(w)
      PROVE  MovesByTheDoor
  BY <1>14, JobTypes DEF reopenChange
<1>15. ASSUME NEW w \in Workers, refused(w)
      PROVE  MovesByTheDoor
  BY <1>15, JobTypes DEF refused
<1>16. ASSUME NEW w \in Workers, assignWrite(w)
      PROVE  MovesByTheDoor
  BY <1>16, JobTypes DEF assignWrite, Idle
<1>17. ASSUME NEW w \in Workers, addAttachmentWrite(w)
      PROVE  MovesByTheDoor
  BY <1>17, JobTypes DEF addAttachmentWrite
<1>18. ASSUME NEW w \in Workers, feedbackCreate(w)
      PROVE  MovesByTheDoor
  BY <1>18, JobTypes DEF feedbackCreate
<1>19. ASSUME NEW w \in Workers, Crash(w)
      PROVE  MovesByTheDoor
  BY <1>19, JobTypes DEF Crash
<1>20. CASE UNCHANGED vars
  BY <1>20 DEF vars
<1>. QED
  BY <1>1, <1>2, <1>3, <1>4, <1>5, <1>6, <1>7, <1>8, <1>9, <1>10, <1>11, <1>12, <1>13, <1>14, <1>15, <1>16, <1>17, <1>18, <1>19, <1>20,
     <1>21 DEF Next, Receive, Handle

\* The optimistic lock holds whoever else writes: no status change made through
\* applyStatusChange overwrites a status other than the one it was decided on.
THEOREM OneDoor == Spec => SingleDoor
<1>1. Inv /\ [Next]_vars => [MovesByTheDoor]_vars
  BY DoorStep
<1>2. Spec => [][MovesByTheDoor]_vars
  BY <1>1, Invariance, PTL DEF Spec
<1>. QED
  BY <1>2 DEF SingleDoor, MovesByTheDoor

-----------------------------------------------------------------------------
(* Attachments: every handler between the count and the insert takes one   *)
(* place, so the limit is passed by less than the number of handlers.      *)

Uploads(j, c) == {w \in Workers : j[w].pc = "attach" /\ j[w].c = c}

\* A set of handlers has a size, at most the number of handlers.
LEMMA UploadsFinite ==
  ASSUME NEW j, NEW c
  PROVE  /\ IsFiniteSet(Uploads(j, c))
         /\ Cardinality(Uploads(j, c)) \in Nat
         /\ Cardinality(Workers) \in Nat
         /\ Cardinality(Uploads(j, c)) <= Cardinality(Workers)
<1>1. Uploads(j, c) \in SUBSET Workers
  BY DEF Uploads
<1>2. IsFiniteSet(Workers)
  BY ComplaintsAssumption
<1>3. IsFiniteSet(Uploads(j, c)) /\ Cardinality(Uploads(j, c)) <= Cardinality(Workers)
  BY <1>1, <1>2, FS_Subset
<1>. QED
  BY <1>2, <1>3, FS_CardinalityType

\* A step that stores no attachment and begins no upload keeps the bound.
LEMMA NoUpload ==
  ASSUME TypeOK, AttachmentsBounded, proofs' = proofs, evidence' = evidence,
         \A w \in Workers : job'[w] = job[w] \/ job'[w].pc # "attach"
  PROVE  AttachmentsBounded'
<1>. SUFFICES ASSUME NEW c \in Complaints
              PROVE  proofs[c] + evidence[c] + Cardinality(Uploads(job', c))
                       < MAX_ATTACHMENTS + Cardinality(Workers)
  BY DEF AttachmentsBounded, Uploads
<1>1. Uploads(job', c) \in SUBSET Uploads(job, c)
  BY DEF Uploads
<1>2. Cardinality(Uploads(job', c)) <= Cardinality(Uploads(job, c))
  BY <1>1, UploadsFinite, FS_Subset
<1>3. proofs[c] + evidence[c] + Cardinality(Uploads(job, c))
        < MAX_ATTACHMENTS + Cardinality(Workers)
  BY DEF AttachmentsBounded, Uploads
<1>4. /\ Cardinality(Uploads(job, c)) \in Nat
      /\ Cardinality(Uploads(job', c)) \in Nat
      /\ Cardinality(Workers) \in Nat
  BY UploadsFinite
<1>. QED
  BY <1>2, <1>3, <1>4, ComplaintsAssumption DEF TypeOK

\* The count of addAttachment leaves room for the uploads of all handlers.
LEMMA UploadBegins ==
  ASSUME TypeOK, AttachmentsBounded, NEW w \in Workers, NEW c \in Complaints,
         NEW kind \in {"EVIDENCE", "RESOLUTION_PROOF"}, NEW a \in Actors,
         addAttachmentRead(w, c, kind, a)
  PROVE  AttachmentsBounded'
<1>. SUFFICES ASSUME NEW d \in Complaints
              PROVE  proofs[d] + evidence[d] + Cardinality(Uploads(job', d))
                       < MAX_ATTACHMENTS + Cardinality(Workers)
  BY DEF AttachmentsBounded, Uploads, addAttachmentRead, sideVars
<1>1. /\ Cardinality(Uploads(job', d)) \in Nat
      /\ Cardinality(Workers) \in Nat
      /\ Cardinality(Uploads(job', d)) <= Cardinality(Workers)
  BY UploadsFinite
<1>2. CASE d = c
  BY <1>1, <1>2, ComplaintsAssumption DEF addAttachmentRead, TypeOK
<1>3. CASE d # c
  <2>1. Uploads(job', d) = Uploads(job, d)
    BY <1>3 DEF Uploads, addAttachmentRead, Begin, TypeOK, Idle
  <2>. QED
    BY <2>1 DEF AttachmentsBounded, Uploads
<1>. QED
  BY <1>2, <1>3

\* An upload that ends turns its place into a row.
LEMMA UploadEnds ==
  ASSUME TypeOK, AttachmentsBounded, NEW w \in Workers, addAttachmentWrite(w)
  PROVE  AttachmentsBounded'
<1>. SUFFICES ASSUME NEW d \in Complaints
              PROVE  proofs'[d] + evidence'[d] + Cardinality(Uploads(job', d))
                       < MAX_ATTACHMENTS + Cardinality(Workers)
  BY DEF AttachmentsBounded, Uploads
<1>0. /\ proofs[d] + evidence[d] + Cardinality(Uploads(job, d))
           < MAX_ATTACHMENTS + Cardinality(Workers)
      /\ proofs[d] \in Nat /\ evidence[d] \in Nat
  BY DEF AttachmentsBounded, Uploads, TypeOK
<1>1. IsFiniteSet(Uploads(job, d)) /\ Cardinality(Uploads(job, d)) \in Nat
  BY UploadsFinite
<1>2. CASE d = job[w].c
  <2>1. w \in Uploads(job, d)
    BY <1>2 DEF Uploads, addAttachmentWrite
  <2>2. Uploads(job', d) = Uploads(job, d) \ {w}
    BY DEF Uploads, addAttachmentWrite, Return, TypeOK, Idle
  <2>3. Cardinality(Uploads(job', d)) = Cardinality(Uploads(job, d)) - 1
    BY <1>1, <2>1, <2>2, FS_RemoveElement
  <2>4. proofs'[d] + evidence'[d] = proofs[d] + evidence[d] + 1
    <3>1. job[w].kind \in {"EVIDENCE", "RESOLUTION_PROOF"}
      BY KindTypes DEF addAttachmentWrite, TypeOK
    <3>. QED
      BY <1>0, <1>2, <3>1 DEF addAttachmentWrite, TypeOK
  <2>5. proofs'[d] + evidence'[d] + Cardinality(Uploads(job', d))
          = proofs[d] + evidence[d] + Cardinality(Uploads(job, d))
    BY <1>0, <1>1, <2>3, <2>4
  <2>. QED
    BY <1>0, <2>5
<1>3. CASE d # job[w].c
  <2>1. Uploads(job', d) = Uploads(job, d)
    BY <1>3 DEF Uploads, addAttachmentWrite, Return, TypeOK, Idle
  <2>2. proofs'[d] = proofs[d] /\ evidence'[d] = evidence[d]
    BY <1>3 DEF addAttachmentWrite, TypeOK
  <2>. QED
    BY <1>0, <2>1, <2>2
<1>. QED
  BY <1>2, <1>3

\* No other step begins an upload or stores an attachment.
LEMMA AttachmentsStep ==
  ASSUME TypeOK, AttachmentsBounded, [Next]_vars
  PROVE  AttachmentsBounded'
<1>. USE DEF TypeOK, rowVars, sideVars, Begin, Await, Return, Idle
<1>. DEFINE Quiet == /\ proofs' = proofs /\ evidence' = evidence
                    /\ \A v \in Workers : job'[v] = job[v] \/ job'[v].pc # "attach"
<1>0. Quiet => AttachmentsBounded'
  BY NoUpload
<1>1. ASSUME NEW c \in Complaints, create(c)
      PROVE  Quiet
  BY <1>1 DEF create
<1>2. ASSUME NEW c \in Complaints, softDelete(c)
      PROVE  Quiet
  BY <1>2 DEF softDelete
<1>21. ASSUME NEW c \in Complaints, restore(c)
      PROVE  Quiet
  BY <1>21 DEF restore
<1>3. ASSUME NEW c \in Complaints, WeekPasses(c)
      PROVE  Quiet
  BY <1>3 DEF WeekPasses
<1>4. ASSUME NEW w \in Workers, NEW c \in Complaints,
              NEW to \in ComplaintStatus, NEW a \in Actors, changeStatusRead(w, c, to, a)
      PROVE  Quiet
  BY <1>4 DEF changeStatusRead
<1>5. ASSUME NEW w \in Workers, NEW c \in Complaints, NEW a \in Actors, resolveRead(w, c, a)
      PROVE  Quiet
  BY <1>5 DEF resolveRead
<1>6. ASSUME NEW w \in Workers, NEW c \in Complaints, reopenRead(w, c)
      PROVE  Quiet
  BY <1>6 DEF reopenRead
<1>7. ASSUME NEW w \in Workers, NEW c \in Complaints, NEW o \in Officers, assignRead(w, c, o)
      PROVE  Quiet
  BY <1>7 DEF assignRead
<1>8. ASSUME NEW w \in Workers, NEW c \in Complaints,
              NEW kind \in {"EVIDENCE", "RESOLUTION_PROOF"}, NEW a \in Actors, addAttachmentRead(w, c, kind, a)
      PROVE  AttachmentsBounded'
  BY <1>8, UploadBegins
<1>9. ASSUME NEW w \in Workers, NEW c \in Complaints, feedbackRead(w, c)
      PROVE  Quiet
  BY <1>9 DEF feedbackRead
<1>10. ASSUME NEW w \in Workers, NEW c \in Complaints, autoCloseRead(w, c)
      PROVE  Quiet
  BY <1>10 DEF autoCloseRead
<1>11. ASSUME NEW w \in Workers, resolveProof(w)
      PROVE  Quiet
  BY <1>11 DEF resolveProof
<1>12. ASSUME NEW w \in Workers, applyStatusChange(w)
      PROVE  Quiet
  BY <1>12 DEF applyStatusChange
<1>13. ASSUME NEW w \in Workers, applyConflict(w)
      PROVE  Quiet
  BY <1>13 DEF applyConflict
<1>14. ASSUME NEW w \in Workers, reopenChange(w)
      PROVE  Quiet
  BY <1>14 DEF reopenChange
<1>15. ASSUME NEW w \in Workers, refused(w)
      PROVE  Quiet
  BY <1>15 DEF refused
<1>16. ASSUME NEW w \in Workers, assignWrite(w)
      PROVE  Quiet
  BY <1>16 DEF assignWrite
<1>17. ASSUME NEW w \in Workers, addAttachmentWrite(w)
      PROVE  AttachmentsBounded'
  BY <1>17, UploadEnds
<1>18. ASSUME NEW w \in Workers, feedbackCreate(w)
      PROVE  Quiet
  BY <1>18 DEF feedbackCreate
<1>19. ASSUME NEW w \in Workers, Crash(w)
      PROVE  Quiet
  BY <1>19 DEF Crash
<1>20. CASE UNCHANGED vars
  <2>1. Quiet
    BY <1>20 DEF vars
  <2>. QED
    BY <1>0, <2>1
<1>. HIDE DEF Quiet
<1>. QED
  BY <1>0, <1>1, <1>2, <1>3, <1>4, <1>5, <1>6, <1>7, <1>8, <1>9, <1>10, <1>11, <1>12, <1>13, <1>14, <1>15, <1>16, <1>17, <1>18, <1>19, <1>20,
     <1>21 DEF Next, Receive, Handle

\* Attachments pass their limit by less than the number of handlers in flight.
THEOREM AttachmentsLimited == Spec => []AttachmentsBounded
<1>1. Init => AttachmentsBounded
  <2>. SUFFICES ASSUME Init, NEW c \in Complaints
                PROVE  proofs[c] + evidence[c] + Cardinality(Uploads(job, c))
                         < MAX_ATTACHMENTS + Cardinality(Workers)
    BY DEF AttachmentsBounded, Uploads
  <2>1. Uploads(job, c) = {}
    BY DEF Init, Uploads, Idle
  <2>2. Cardinality(Uploads(job, c)) = 0
    BY <2>1, FS_EmptySet
  <2>3. Cardinality(Workers) \in Nat
    BY UploadsFinite
  <2>4. proofs[c] = 0 /\ evidence[c] = 0
    BY DEF Init
  <2>. QED
    BY <2>2, <2>3, <2>4, ComplaintsAssumption
<1>2. TypeOK /\ AttachmentsBounded /\ [Next]_vars => AttachmentsBounded'
  BY AttachmentsStep
<1>. QED
  BY <1>1, <1>2, TypeCorrect, PTL DEF Spec

-----------------------------------------------------------------------------
(* Triage, for any number of complaints, voters, upvotes in flight and job *)
(* runs, any threshold and any size of a batch.                            *)

\* A vote in flight is somebody's for something.
VoteInv == \A w \in Workers : vote[w] # NoVote => vote[w].c \in Complaints /\ vote[w].v \in Voters

\* What a run of the job read at its start is still so: levels only rise, the flag only goes up.
RunInv ==
  \A r \in Runs :
    /\ \A c \in run[r].todo : level[c] > 0
    /\ run[r].flagged \subseteq isEscalated

\* The inductive invariant.
TriageInv == TriageTypeOK /\ VoteInv /\ RunInv /\ VotesAgree /\ EscalatedOnce

-----------------------------------------------------------------------------
\* Rows, locals and what the runs read stay well formed and true.
LEMMA TriageTypeStep ==
  ASSUME TriageTypeOK, VoteInv, RunInv, [TriageNext]_triageVars
  PROVE  TriageTypeOK' /\ VoteInv' /\ RunInv'
<1>. USE TriageAssumption DEF TriageTypeOK, VoteInv, RunInv, Vote, NoVote, Run, NoRun, Level,
     Ladder, voteVars, slaVars
<1>1. ASSUME NEW c \in Complaints, levelRises(c)
      PROVE  TriageTypeOK' /\ VoteInv' /\ RunInv'
  BY <1>1 DEF levelRises
<1>2. ASSUME NEW c \in Complaints, closes(c)
      PROVE  TriageTypeOK' /\ VoteInv' /\ RunInv'
  BY <1>2 DEF closes
<1>3. ASSUME NEW c \in Complaints, reopens(c)
      PROVE  TriageTypeOK' /\ VoteInv' /\ RunInv'
  BY <1>3 DEF reopens
<1>4. ASSUME NEW w \in Workers, NEW c \in Complaints, NEW v \in Voters, upvoteRead(w, c, v)
      PROVE  TriageTypeOK' /\ VoteInv' /\ RunInv'
  BY <1>4 DEF upvoteRead
<1>5. ASSUME NEW w \in Workers, upvoteWrite(w)
      PROVE  TriageTypeOK' /\ VoteInv' /\ RunInv'
  BY <1>5 DEF upvoteWrite, upvote_key, crossing, bumpPriority
<1>6. ASSUME NEW w \in Workers, upvoteFails(w)
      PROVE  TriageTypeOK' /\ VoteInv' /\ RunInv'
  BY <1>6 DEF upvoteFails
<1>7. ASSUME NEW r \in Runs, runSlaRead(r)
      PROVE  TriageTypeOK' /\ VoteInv' /\ RunInv'
  <2>1. PICK S \in SUBSET breached :
          run' = [run EXCEPT ![r] = [pc |-> "loop", todo |-> S,
                                     already |-> {e \in escalations : e[1] \in S},
                                     flagged |-> isEscalated \cap S]]
    BY <1>7 DEF runSlaRead
  <2>2. S \subseteq Complaints /\ \A c \in S : level[c] > 0
    BY <2>1 DEF breached, overdue
  <2>. QED
    BY <1>7, <2>1, <2>2 DEF runSlaRead
<1>8. ASSUME NEW r \in Runs, NEW c \in Complaints, escalate(r, c)
      PROVE  TriageTypeOK' /\ VoteInv' /\ RunInv'
  BY <1>8 DEF escalate, escalation_uq, Later
<1>9. ASSUME NEW r \in Runs, NEW c \in Complaints, escalateSkips(r, c)
      PROVE  TriageTypeOK' /\ VoteInv' /\ RunInv'
  BY <1>9 DEF escalateSkips, Later
<1>10. ASSUME NEW r \in Runs, runSlaEnds(r)
      PROVE  TriageTypeOK' /\ VoteInv' /\ RunInv'
  BY <1>10 DEF runSlaEnds
<1>11. ASSUME NEW r \in Runs, runSlaFails(r)
      PROVE  TriageTypeOK' /\ VoteInv' /\ RunInv'
  BY <1>11 DEF runSlaFails
<1>12. ASSUME NEW r \in Runs, NEW c \in Complaints, escalateThrows(r, c)
      PROVE  TriageTypeOK' /\ VoteInv' /\ RunInv'
  BY <1>12 DEF escalateThrows, Later
<1>13. CASE UNCHANGED triageVars
  BY <1>13 DEF triageVars
<1>. QED
  BY <1>1, <1>2, <1>3, <1>4, <1>5, <1>6, <1>7, <1>8, <1>9, <1>10, <1>11, <1>12, <1>13 DEF
     TriageNext, runStep

-----------------------------------------------------------------------------
(* VotesAgree, as a predicate of the four tables it reads, u, n, p and d.  *)

VotersIn(u, c) == {v \in Voters : <<c, v>> \in u}

\* The priority that n upvotes give a complaint whose category's priority is p.
Lifted(p, n) == IF n < UPVOTES_FOR_PRIORITY_BUMP THEN p ELSE IF p = 4 THEN 4 ELSE p + 1

Agree(u, n, p, d, c) ==
  /\ n[c] = Cardinality(VotersIn(u, c))
  /\ p[c] = Lifted(d[c], n[c])

Agreement == \A c \in Complaints : Agree(upvotes, upvoteCount, priority, defaultPriority, c)

\* The two forms say the same.
LEMMA AgreementMeans == Agreement <=> VotesAgree
BY DEF Agreement, Agree, Lifted, VotesAgree, VotersIn, votersOf

\* A transaction of upvote adds one voter to one complaint and one to its count, and lifts its
\* priority when the count reaches the threshold.
LEMMA OneMoreVote ==
  ASSUME TriageTypeOK, Agreement, NEW c \in Complaints, NEW v \in Voters, <<c, v>> \notin upvotes,
         upvotes' = upvotes \cup {<<c, v>>},
         upvoteCount' = [upvoteCount EXCEPT ![c] = upvoteCount[c] + 1],
         priority' = IF crossing(upvoteCount[c] + 1)
                     THEN [priority EXCEPT ![c] = bumpPriority(@)] ELSE priority,
         defaultPriority' = defaultPriority
  PROVE  Agreement'
<1>. SUFFICES ASSUME NEW d \in Complaints
              PROVE  Agree(upvotes', upvoteCount', priority', defaultPriority', d)
  BY DEF Agreement
<1>. USE DEF Agreement, Agree
<1>1. CASE d = c
  <2>1. VotersIn(upvotes', c) = VotersIn(upvotes, c) \cup {v} /\ v \notin VotersIn(upvotes, c)
    BY DEF VotersIn
  <2>2. IsFiniteSet(VotersIn(upvotes, c))
    BY FS_Subset, TriageAssumption DEF VotersIn
  <2>3. Cardinality(VotersIn(upvotes', c)) = Cardinality(VotersIn(upvotes, c)) + 1
    BY <2>1, <2>2, FS_AddElement
  <2>4. upvoteCount'[c] = upvoteCount[c] + 1 /\ upvoteCount[c] \in Nat
    BY DEF TriageTypeOK
  <2>5. upvoteCount'[c] = Cardinality(VotersIn(upvotes', c))
    BY <2>3, <2>4
  <2>6. priority[c] \in 1 .. 4 /\ defaultPriority[c] \in 1 .. 4
    BY DEF TriageTypeOK, Ladder
  <2>7. priority'[c] = IF upvoteCount[c] + 1 = UPVOTES_FOR_PRIORITY_BUMP
                       THEN bumpPriority(priority[c]) ELSE priority[c]
    BY DEF TriageTypeOK, crossing
  <2>8. priority'[c] = Lifted(defaultPriority[c], upvoteCount[c] + 1)
    BY <2>4, <2>6, <2>7, TriageAssumption DEF Lifted, bumpPriority
  <2>. QED
    BY <1>1, <2>4, <2>5, <2>8
<1>2. CASE d # c
  <2>1. VotersIn(upvotes', d) = VotersIn(upvotes, d)
    BY <1>2 DEF VotersIn
  <2>2. upvoteCount'[d] = upvoteCount[d] /\ priority'[d] = priority[d]
    BY <1>2 DEF TriageTypeOK
  <2>. QED
    BY <2>1, <2>2
<1>. QED
  BY <1>1, <1>2

\* No other step touches the four tables.
LEMMA VoteStep ==
  ASSUME TriageTypeOK, VoteInv, Agreement, [TriageNext]_triageVars
  PROVE  Agreement'
<1>. DEFINE Kept == UNCHANGED <<upvotes, upvoteCount, priority, defaultPriority>>
<1>. USE DEF voteVars
<1>1. ASSUME NEW c \in Complaints, levelRises(c)
      PROVE  Kept
  BY <1>1 DEF levelRises
<1>2. ASSUME NEW c \in Complaints, closes(c)
      PROVE  Kept
  BY <1>2 DEF closes
<1>3. ASSUME NEW c \in Complaints, reopens(c)
      PROVE  Kept
  BY <1>3 DEF reopens
<1>4. ASSUME NEW w \in Workers, NEW c \in Complaints, NEW v \in Voters, upvoteRead(w, c, v)
      PROVE  Kept
  BY <1>4 DEF upvoteRead
<1>5. ASSUME NEW w \in Workers, upvoteFails(w)
      PROVE  Kept
  BY <1>5 DEF upvoteFails
<1>6. ASSUME NEW r \in Runs, runSlaRead(r)
      PROVE  Kept
  BY <1>6 DEF runSlaRead
<1>7. ASSUME NEW r \in Runs, NEW c \in Complaints, escalate(r, c)
      PROVE  Kept
  BY <1>7 DEF escalate
<1>8. ASSUME NEW r \in Runs, NEW c \in Complaints, escalateSkips(r, c)
      PROVE  Kept
  BY <1>8 DEF escalateSkips
<1>9. ASSUME NEW r \in Runs, runSlaEnds(r)
      PROVE  Kept
  BY <1>9 DEF runSlaEnds
<1>10. ASSUME NEW r \in Runs, runSlaFails(r)
      PROVE  Kept
  BY <1>10 DEF runSlaFails
<1>11. ASSUME NEW r \in Runs, NEW c \in Complaints, escalateThrows(r, c)
      PROVE  Kept
  BY <1>11 DEF escalateThrows
<1>12. ASSUME UNCHANGED triageVars
      PROVE  Kept
  BY <1>12 DEF triageVars
<1>13. ASSUME NEW w \in Workers, upvoteWrite(w)
      PROVE  Agreement'
  <2>1. PICK c \in Complaints, v \in Voters : c = vote[w].c /\ v = vote[w].v
    BY <1>13 DEF upvoteWrite, VoteInv
  <2>. QED
    BY <1>13, <2>1, OneMoreVote DEF upvoteWrite, upvote_key, NoVote, TriageTypeOK
<1>14. ASSUME Kept
      PROVE  Agreement'
  BY <1>14 DEF Agreement
<1>. HIDE DEF Kept
<1>. QED
  BY <1>1, <1>2, <1>3, <1>4, <1>5, <1>6, <1>7, <1>8, <1>9, <1>10, <1>11, <1>12, <1>13, <1>14
     DEF TriageNext, runStep

\* A level gets its row and its notices in one transaction, once.
LEMMA EscalationStep ==
  ASSUME TriageTypeOK, RunInv, EscalatedOnce, [TriageNext]_triageVars
  PROVE  EscalatedOnce'
<1>. USE TriageAssumption DEF TriageTypeOK, VoteInv, RunInv, Vote, NoVote, Run, NoRun, Level,
     Ladder, voteVars, slaVars, EscalatedOnce
<1>1. ASSUME NEW c \in Complaints, levelRises(c)
      PROVE  EscalatedOnce'
  BY <1>1 DEF levelRises
<1>2. ASSUME NEW c \in Complaints, closes(c)
      PROVE  EscalatedOnce'
  BY <1>2 DEF closes
<1>3. ASSUME NEW c \in Complaints, reopens(c)
      PROVE  EscalatedOnce'
  BY <1>3 DEF reopens
<1>4. ASSUME NEW w \in Workers, NEW c \in Complaints, NEW v \in Voters, upvoteRead(w, c, v)
      PROVE  EscalatedOnce'
  BY <1>4 DEF upvoteRead
<1>5. ASSUME NEW w \in Workers, upvoteWrite(w)
      PROVE  EscalatedOnce'
  BY <1>5 DEF upvoteWrite, upvote_key, crossing, bumpPriority
<1>6. ASSUME NEW w \in Workers, upvoteFails(w)
      PROVE  EscalatedOnce'
  BY <1>6 DEF upvoteFails
<1>7. ASSUME NEW r \in Runs, runSlaRead(r)
      PROVE  EscalatedOnce'
  BY <1>7 DEF runSlaRead, breached, overdue
<1>8. ASSUME NEW r \in Runs, NEW c \in Complaints, escalate(r, c)
      PROVE  EscalatedOnce'
  <2>. DEFINE l == level[c]
  <2>1. /\ l \in Level /\ <<c, l>> \notin escalations
        /\ escalations' = escalations \cup {<<c, l>>}
        /\ notices' = [notices EXCEPT ![<<c, l>>] = notices[<<c, l>>] + 1]
        /\ isEscalated' = isEscalated \cup {c}
    BY <1>8 DEF escalate, escalation_uq
  <2>. SUFFICES ASSUME NEW d \in Complaints, NEW m \in Level
                PROVE  /\ notices'[<<d, m>>] = IF <<d, m>> \in escalations' THEN 1 ELSE 0
                       /\ <<d, m>> \in escalations' => d \in isEscalated'
    OBVIOUS
  <2>. HIDE DEF l
  <2>2. CASE <<d, m>> = <<c, l>>
    <3>1. notices[<<c, l>>] = 0
      BY <2>1
    <3>2. notices'[<<c, l>>] = 1
      BY <2>1, <3>1
    <3>. QED
      BY <2>1, <2>2, <3>2
  <2>3. CASE <<d, m>> # <<c, l>>
    BY <2>1, <2>3
  <2>. QED
    BY <2>2, <2>3
<1>9. ASSUME NEW r \in Runs, NEW c \in Complaints, escalateSkips(r, c)
      PROVE  EscalatedOnce'
  BY <1>9 DEF escalateSkips, Later
<1>10. ASSUME NEW r \in Runs, runSlaEnds(r)
      PROVE  EscalatedOnce'
  BY <1>10 DEF runSlaEnds
<1>11. ASSUME NEW r \in Runs, runSlaFails(r)
      PROVE  EscalatedOnce'
  BY <1>11 DEF runSlaFails
<1>12. ASSUME NEW r \in Runs, NEW c \in Complaints, escalateThrows(r, c)
      PROVE  EscalatedOnce'
  BY <1>12 DEF escalateThrows, Later
<1>13. CASE UNCHANGED triageVars
  BY <1>13 DEF triageVars
<1>. QED
  BY <1>1, <1>2, <1>3, <1>4, <1>5, <1>6, <1>7, <1>8, <1>9, <1>10, <1>11, <1>12, <1>13 DEF
     TriageNext, runStep

-----------------------------------------------------------------------------
\* Nothing was voted for or escalated yet.
LEMMA TriageInvInit == TriageInit => TriageInv
<1>. SUFFICES ASSUME TriageInit
              PROVE  TriageInv
  OBVIOUS
<1>1. \A c \in Complaints : VotersIn(upvotes, c) = {}
  BY DEF TriageInit, VotersIn
<1>2. Agreement
  <2>. SUFFICES ASSUME NEW c \in Complaints
                PROVE  Agree(upvotes, upvoteCount, priority, defaultPriority, c)
    BY DEF Agreement
  <2>1. upvoteCount[c] = 0 /\ priority[c] = defaultPriority[c]
    BY DEF TriageInit
  <2>2. Cardinality(VotersIn(upvotes, c)) = 0
    BY <1>1, FS_EmptySet
  <2>3. Lifted(defaultPriority[c], 0) = defaultPriority[c]
    BY TriageAssumption DEF Lifted
  <2>. QED
    BY <2>1, <2>2, <2>3 DEF Agree
<1>3. VotesAgree
  BY <1>2, AgreementMeans
<1>. QED
  BY <1>3, TriageAssumption DEF TriageInit, TriageInv, TriageTypeOK, VoteInv, RunInv,
     EscalatedOnce, Vote, NoVote, Run, NoRun, Level, Ladder

\* Each step keeps what the others rely on.
LEMMA TriageInvStep == TriageInv /\ [TriageNext]_triageVars => TriageInv'
<1>. SUFFICES ASSUME TriageInv, [TriageNext]_triageVars
              PROVE  TriageInv'
  OBVIOUS
<1>1. TriageTypeOK' /\ VoteInv' /\ RunInv'
  BY TriageTypeStep DEF TriageInv
<1>2. VotesAgree'
  <2>1. Agreement
    BY AgreementMeans DEF TriageInv
  <2>2. Agreement'
    BY <2>1, VoteStep DEF TriageInv
  <2>. QED
    BY <2>2 DEF Agreement, Agree, Lifted, VotesAgree, VotersIn, votersOf
<1>3. EscalatedOnce'
  BY EscalationStep DEF TriageInv
<1>. QED
  BY <1>1, <1>2, <1>3 DEF TriageInv

\* The invariant holds in every state of every behaviour.
THEOREM TriageInvariance == TriageSpec => []TriageInv
BY TriageInvInit, TriageInvStep, PTL DEF TriageSpec

\* Rows and locals are well formed; no escalation is below level 1 or above 3.
THEOREM TriageTypeCorrect == TriageSpec => []TriageTypeOK
<1>1. TriageInv => TriageTypeOK
  BY DEF TriageInv
<1>. QED
  BY <1>1, TriageInvariance, PTL

\* upvote: counter, votes and priority agree for any number of votes in flight.
THEOREM VotesCount == TriageSpec => []VotesAgree
<1>1. TriageInv => VotesAgree
  BY DEF TriageInv
<1>. QED
  BY <1>1, TriageInvariance, PTL

\* runSlaCheck: a level is entered, flagged and announced once, for any number of runs at once.
THEOREM LevelsOnce == TriageSpec => []EscalatedOnce
<1>1. TriageInv => EscalatedOnce
  BY DEF TriageInv
<1>. QED
  BY <1>1, TriageInvariance, PTL
=============================================================================

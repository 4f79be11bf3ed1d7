----------------------------- MODULE Complaints -----------------------------
(***************************************************************************)
(* The life of a complaint: complaint.service.ts, the state machine of     *)
(* complaint.constants.ts and the auto-close half of jobs/slaChecker.ts,   *)
(* run by concurrent handlers and job runs (Workers) over one database.    *)
(*                                                                         *)
(* As in Payments, what a handler does between two awaits is a step, a     *)
(* transaction is a step, and what a handler read earlier stays in its job *)
(* record.  A refused request changes nothing and is a stuttering step.    *)
(***************************************************************************)
EXTENDS Cases

CONSTANTS
  Officers,         \* active officers of the category's department
  Nobody,           \* a null user id
  REOPEN_LIMIT,     \* the setting
  MAX_ATTACHMENTS,  \* complaint.constants.ts
  MaxReopens        \* bound: a citizen asks for no further reopening after this many

ASSUME ComplaintsAssumption ==
  /\ Nobody \notin Officers
  /\ {"owner", "admin"} \cap Officers = {}
  /\ IsFiniteSet(Workers)
  /\ REOPEN_LIMIT \in Nat /\ MAX_ATTACHMENTS \in Nat \ {0} /\ MaxReopens \in Nat

VARIABLES
  status,       \* Complaint.status, "NONE" before the row exists
  deleted,      \* the complaints whose deletedAt is set
  officerId,    \* Complaint.officerId
  reopenCount,  \* Complaint.reopenCount
  resolvedAt,   \* Complaint.resolvedAt: null, within the last 7 days, or older
  logged,       \* toStatus of the newest ComplaintStatusHistory row
  assignees,    \* officers with an active ComplaintAssignment row
  proofs,       \* RESOLUTION_PROOF attachments
  evidence,     \* EVIDENCE attachments
  rated,        \* the complaints with a Feedback row
  job           \* the handler in flight in each worker

rowVars == <<status, deleted, officerId, reopenCount, resolvedAt, logged>>
sideVars == <<assignees, proofs, evidence, rated>>
vars == <<status, deleted, officerId, reopenCount, resolvedAt, logged,
          assignees, proofs, evidence, rated, job>>

-----------------------------------------------------------------------------
(* complaint.constants.ts                                                  *)

ComplaintStatus ==
  {"SUBMITTED", "UNDER_REVIEW", "ASSIGNED", "IN_PROGRESS", "RESOLVED", "CLOSED", "REOPENED",
   "REJECTED", "CANCELLED"}

Roles == {"CITIZEN", "OFFICER", "ADMIN"}

transitions ==
  { <<"SUBMITTED", "UNDER_REVIEW", "ADMIN">>, <<"SUBMITTED", "CANCELLED", "CITIZEN">>,
    <<"UNDER_REVIEW", "ASSIGNED", "ADMIN">>, <<"UNDER_REVIEW", "REJECTED", "ADMIN">>,
    <<"ASSIGNED", "IN_PROGRESS", "OFFICER">>, <<"IN_PROGRESS", "RESOLVED", "OFFICER">>,
    <<"RESOLVED", "CLOSED", "CITIZEN">>, <<"RESOLVED", "CLOSED", "ADMIN">>,
    <<"RESOLVED", "REOPENED", "CITIZEN">>, <<"REOPENED", "ASSIGNED", "ADMIN">> }

edge(from, to) == \E role \in Roles : <<from, to, role>> \in transitions

-----------------------------------------------------------------------------
(* The values.                                                             *)

Actors == {"owner", "admin"} \cup Officers

RoleOf(a) == IF a = "owner" THEN "CITIZEN" ELSE IF a = "admin" THEN "ADMIN" ELSE "OFFICER"

Idle == [pc |-> "idle"]

\* The locals of a handler, by the await it is stopped at.
Job ==
  {Idle}
    \cup [pc: {"apply"}, c: Complaints, from: ComplaintStatus, to: ComplaintStatus]
    \cup [pc: {"proof", "reopen"}, c: Complaints]
    \cup [pc: {"assign"}, c: Complaints, from: ComplaintStatus, officer: Officers]
    \cup [pc: {"attach"}, c: Complaints, kind: {"EVIDENCE", "RESOLUTION_PROOF"}]
    \cup [pc: {"rate"}, c: Complaints, from: ComplaintStatus]

\* The one type invariant.
TypeOK ==
  /\ status \in [Complaints -> ComplaintStatus \cup {"NONE"}]
  /\ deleted \subseteq Complaints
  /\ officerId \in [Complaints -> Officers \cup {Nobody}]
  /\ reopenCount \in [Complaints -> Nat]
  /\ resolvedAt \in [Complaints -> {"null", "recent", "old"}]
  /\ logged \in [Complaints -> ComplaintStatus \cup {"NONE"}]
  /\ assignees \in [Complaints -> SUBSET Officers]
  /\ proofs \in [Complaints -> Nat]
  /\ evidence \in [Complaints -> Nat]
  /\ rated \subseteq Complaints
  /\ job \in [Workers -> Job]

Init ==
  /\ status = [c \in Complaints |-> "NONE"]
  /\ deleted = {}
  /\ officerId = [c \in Complaints |-> Nobody]
  /\ reopenCount = [c \in Complaints |-> 0]
  /\ resolvedAt = [c \in Complaints |-> "null"]
  /\ logged = [c \in Complaints |-> "NONE"]
  /\ assignees = [c \in Complaints |-> {}]
  /\ proofs = [c \in Complaints |-> 0]
  /\ evidence = [c \in Complaints |-> 0]
  /\ rated = {}
  /\ job = [w \in Workers |-> Idle]

Begin(w, locals) ==
  /\ job[w] = Idle
  /\ job' = [job EXCEPT ![w] = locals]

Await(w, locals) == job' = [job EXCEPT ![w] = locals]

Return(w) == job' = [job EXCEPT ![w] = Idle]

\* The process dies or an await throws: what is committed stays.
Crash(w) ==
  /\ job[w] # Idle
  /\ Return(w)
  /\ UNCHANGED <<rowVars, sideVars>>

\* Seven days pass after the resolution: the reopen window shuts, auto-close begins.
WeekPasses(c) ==
  /\ resolvedAt[c] = "recent"
  /\ resolvedAt' = [resolvedAt EXCEPT ![c] = "old"]
  /\ UNCHANGED <<status, deleted, officerId, reopenCount, logged, sideVars, job>>

\* getOrThrow: the soft delete extension hides the row from every read.
found(c) == status[c] # "NONE" /\ c \notin deleted

-----------------------------------------------------------------------------
(* create, softDelete, restore; update rewrites texts, which nothing reads *)

create(c) ==
  /\ status[c] = "NONE"
  /\ status' = [status EXCEPT ![c] = "SUBMITTED"]
  /\ logged' = [logged EXCEPT ![c] = "SUBMITTED"]
  /\ UNCHANGED <<deleted, officerId, reopenCount, resolvedAt, sideVars, job>>

\* Read and write in one step: a second delete in between would change nothing.
softDelete(c) ==
  /\ found(c)
  /\ deleted' = deleted \cup {c}
  /\ UNCHANGED <<status, officerId, reopenCount, resolvedAt, logged, sideVars, job>>

\* restore of admin.service.ts: updateMany of a row that is deleted, which is as it was left.
restore(c) ==
  /\ c \in deleted
  /\ deleted' = deleted \ {c}
  /\ UNCHANGED <<status, officerId, reopenCount, resolvedAt, logged, sideVars, job>>

-----------------------------------------------------------------------------
(* changeStatus and applyStatusChange                                      *)

\* What changeStatus checks against the row it read, for actor a.  A note is given.  The
\* last conjunct is the model's bound.
mayChange(c, to, a) ==
  /\ found(c)
  /\ <<status[c], to, RoleOf(a)>> \in transitions
  /\ a \in Officers => officerId[c] = a
  /\ to = "REOPENED" => reopenCount[c] < MaxReopens

changeStatusRead(w, c, to, a) ==
  /\ mayChange(c, to, a)
  /\ to # "RESOLVED"
  /\ Begin(w, [pc |-> "apply", c |-> c, from |-> status[c], to |-> to])
  /\ UNCHANGED <<rowVars, sideVars>>

\* RESOLVED is the one target with a further await before the transaction.
resolveRead(w, c, a) ==
  /\ mayChange(c, "RESOLVED", a)
  /\ Begin(w, [pc |-> "proof", c |-> c])
  /\ UNCHANGED <<rowVars, sideVars>>

\* Mutant: the count of proofs is not awaited for.
resolveProof_Unchecked(w) ==
  /\ job[w].pc = "proof"
  /\ Await(w, [pc |-> "apply", c |-> job[w].c, from |-> "IN_PROGRESS", to |-> "RESOLVED"])
  /\ UNCHANGED <<rowVars, sideVars>>

resolveProof(w) ==
  /\ job[w].pc = "proof"
  /\ proofs[job[w].c] > 0
  /\ Await(w, [pc |-> "apply", c |-> job[w].c, from |-> "IN_PROGRESS", to |-> "RESOLVED"])
  /\ UNCHANGED <<rowVars, sideVars>>

\* Mutant: the update names the row only.
locked_ById(c, from) == c \notin deleted

\* WHERE id, status = the one that was read, deletedAt IS NULL.
locked(c, from) == status[c] = from /\ c \notin deleted

applyStatusChange(w) ==
  LET c == job[w].c
      to == job[w].to
  IN
  /\ job[w].pc = "apply"
  /\ locked(c, job[w].from)
  /\ status' = [status EXCEPT ![c] = to]
  /\ resolvedAt' = [resolvedAt EXCEPT ![c] = CASE to = "RESOLVED" -> "recent"
                                               [] to = "REOPENED" -> "null"
                                               [] OTHER -> @]
  /\ reopenCount' = [reopenCount EXCEPT ![c] = IF to = "REOPENED" THEN @ + 1 ELSE @]
  /\ logged' = [logged EXCEPT ![c] = to]
  /\ Return(w)
  /\ UNCHANGED <<deleted, officerId, sideVars>>

\* count === 0: 409, nothing written.
applyConflict(w) ==
  /\ job[w].pc = "apply"
  /\ ~locked(job[w].c, job[w].from)
  /\ Return(w)
  /\ UNCHANGED <<rowVars, sideVars>>

\* reopen checks the limit and the window, then calls changeStatus, which reads again.
reopenRead(w, c) ==
  /\ found(c)
  /\ reopenCount[c] < REOPEN_LIMIT
  /\ resolvedAt[c] = "recent"
  /\ Begin(w, [pc |-> "reopen", c |-> c])
  /\ UNCHANGED <<rowVars, sideVars>>

reopenChange(w) ==
  /\ job[w].pc = "reopen"
  /\ mayChange(job[w].c, "REOPENED", "owner")
  /\ Await(w, [pc |-> "apply", c |-> job[w].c, from |-> status[job[w].c], to |-> "REOPENED"])
  /\ UNCHANGED <<rowVars, sideVars>>

\* An ApiError after the first await: 409, nothing written.
refused(w) ==
  LET c == job[w].c IN
  /\ \/ job[w].pc = "proof" /\ proofs[c] = 0
     \/ job[w].pc = "reopen" /\ ~mayChange(c, "REOPENED", "owner")
     \/ job[w].pc = "rate" /\ c \in rated
  /\ Return(w)
  /\ UNCHANGED <<rowVars, sideVars>>

-----------------------------------------------------------------------------
(* assign                                                                  *)

nextStatus(read) == IF read \in {"UNDER_REVIEW", "REOPENED"} THEN "ASSIGNED" ELSE read

\* Any status; auto picks one of the department's officers, so does the admin.
assignRead(w, c, o) ==
  /\ found(c)
  /\ Begin(w, [pc |-> "assign", c |-> c, from |-> status[c], officer |-> o])
  /\ UNCHANGED <<rowVars, sideVars>>

\* Mutant: only a complaint nobody holds gets the officer.
handedTo_FirstOnly(c, o) == IF officerId[c] = Nobody THEN o ELSE officerId[c]

\* The officer the complaint row is given.
handedTo(c, o) == o

\* The active assignment is ended and a new one created; assignment_active_uq aborts
\* one of two overlapping assignments, which is Crash.
\* The complaint is updated by id, with the status computed from what was read; a
\* history row is written only when that differs from what was read.
assignWrite(w) ==
  LET c == job[w].c
      to == nextStatus(job[w].from)
  IN
  /\ job[w].pc = "assign"
  /\ assignees' = [assignees EXCEPT ![c] = {job[w].officer}]
  /\ officerId' = [officerId EXCEPT ![c] = handedTo(c, job[w].officer)]
  /\ status' = [status EXCEPT ![c] = to]
  /\ logged' = [logged EXCEPT ![c] = IF to # job[w].from THEN to ELSE @]
  /\ Return(w)
  /\ UNCHANGED <<deleted, reopenCount, resolvedAt, proofs, evidence, rated>>

-----------------------------------------------------------------------------
(* addAttachment, feedback                                                 *)

mayAttach(c, kind, a) ==
  \/ a = "admin"
  \/ kind = "EVIDENCE" /\ a = "owner"
  \/ kind = "RESOLUTION_PROOF" /\ officerId[c] = a

\* Mutant: the attachments are not counted.
addAttachmentRead_Uncounted(w, c, kind, a) ==
  /\ found(c)
  /\ mayAttach(c, kind, a)
  /\ Begin(w, [pc |-> "attach", c |-> c, kind |-> kind])
  /\ UNCHANGED <<rowVars, sideVars>>

addAttachmentRead(w, c, kind, a) ==
  /\ found(c)
  /\ mayAttach(c, kind, a)
  /\ proofs[c] + evidence[c] < MAX_ATTACHMENTS
  /\ Begin(w, [pc |-> "attach", c |-> c, kind |-> kind])
  /\ UNCHANGED <<rowVars, sideVars>>

\* After the upload: the row is created without counting again.
addAttachmentWrite(w) ==
  LET c == job[w].c IN
  /\ job[w].pc = "attach"
  /\ proofs' = [proofs EXCEPT ![c] = IF job[w].kind = "RESOLUTION_PROOF" THEN @ + 1 ELSE @]
  /\ evidence' = [evidence EXCEPT ![c] = IF job[w].kind = "EVIDENCE" THEN @ + 1 ELSE @]
  /\ Return(w)
  /\ UNCHANGED <<rowVars, assignees, rated>>

feedbackRead(w, c) ==
  /\ found(c)
  /\ status[c] \in {"RESOLVED", "CLOSED"}
  /\ c \notin rated
  /\ Begin(w, [pc |-> "rate", c |-> c, from |-> status[c]])
  /\ UNCHANGED <<rowVars, sideVars>>

\* Feedback.complaintId is unique; a RESOLVED complaint is closed afterwards, in a
\* transaction of its own.
feedbackCreate(w) ==
  LET c == job[w].c IN
  /\ job[w].pc = "rate"
  /\ c \notin rated
  /\ rated' = rated \cup {c}
  /\ IF job[w].from = "RESOLVED"
     THEN Await(w, [pc |-> "apply", c |-> c, from |-> "RESOLVED", to |-> "CLOSED"])
     ELSE Return(w)
  /\ UNCHANGED <<rowVars, assignees, proofs, evidence>>

-----------------------------------------------------------------------------
(* jobs/slaChecker.ts: autoCloseResolved.  The complaints of one batch are *)
(* independent, so a job run is one step of reading per complaint.         *)

\* Mutant: the comparison with the cutoff is turned round.
autoCloseRead_Younger(w, c) ==
  /\ found(c)
  /\ status[c] = "RESOLVED" /\ resolvedAt[c] = "recent" /\ c \notin rated
  /\ Begin(w, [pc |-> "apply", c |-> c, from |-> "RESOLVED", to |-> "CLOSED"])
  /\ UNCHANGED <<rowVars, sideVars>>

autoCloseRead(w, c) ==
  /\ found(c)
  /\ status[c] = "RESOLVED" /\ resolvedAt[c] = "old" /\ c \notin rated
  /\ Begin(w, [pc |-> "apply", c |-> c, from |-> "RESOLVED", to |-> "CLOSED"])
  /\ UNCHANGED <<rowVars, sideVars>>

-----------------------------------------------------------------------------
Handle(w) ==
  \/ resolveProof(w)
  \/ applyStatusChange(w)
  \/ applyConflict(w)
  \/ reopenChange(w)
  \/ refused(w)
  \/ assignWrite(w)
  \/ addAttachmentWrite(w)
  \/ feedbackCreate(w)

Receive(w, c) ==
  \/ \E to \in ComplaintStatus, a \in Actors : changeStatusRead(w, c, to, a)
  \/ \E a \in Actors : resolveRead(w, c, a)
  \/ reopenRead(w, c)
  \/ \E o \in Officers : assignRead(w, c, o)
  \/ \E kind \in {"EVIDENCE", "RESOLUTION_PROOF"}, a \in Actors : addAttachmentRead(w, c, kind, a)
  \/ feedbackRead(w, c)
  \/ autoCloseRead(w, c)

Next ==
  \/ \E c \in Complaints : create(c) \/ softDelete(c) \/ restore(c) \/ WeekPasses(c)
  \/ \E w \in Workers, c \in Complaints : Receive(w, c)
  \/ \E w \in Workers : Handle(w) \/ Crash(w)

Spec == Init /\ [][Next]_vars

\* The job runs every hour for as long as the complaint waits, so it reads the complaint
\* once a worker is free; a handler that is not cut short goes on to its next await; and
\* of the hourly attempts at the update not every one is cut short by a crash.
Fairness ==
  /\ \A w \in Workers : WF_vars(Handle(w))
  /\ \A c \in Complaints :
       /\ SF_vars(\E w \in Workers : autoCloseRead(w, c))
       /\ SF_vars(\E w \in Workers :
                    job[w].pc = "apply" /\ job[w].c = c /\ applyStatusChange(w))

LiveSpec == Spec /\ Fairness

-----------------------------------------------------------------------------
(* Properties                                                              *)

ProvenStatus == {"RESOLVED", "CLOSED", "REOPENED"}
HeldStatus == ProvenStatus \cup {"IN_PROGRESS"}

\* "Resolved" must be provable: a complaint that is, was once or is about to be called
\* resolved has a resolution proof, however its handlers interleave with reassignments
\* that write back an old status.
ResolvedIsProven ==
  \A c \in Complaints : status[c] \in ProvenStatus \/ resolvedAt[c] # "null" => proofs[c] > 0

\* The officer on the complaint row is the one of the active assignment row, and work that
\* has begun is never left without an officer.
OfficerMatchesAssignment ==
  \A c \in Complaints :
    /\ assignees[c] = {officerId[c]} \ {Nobody}
    /\ status[c] \in HeldStatus => officerId[c] # Nobody

\* addAttachment counts before the upload and inserts after it without counting again, and yet
\* the limit is passed by less than the number of handlers that can be in flight.
AttachmentsBounded ==
  \A c \in Complaints :
    LET uploads == {w \in Workers : job[w].pc = "attach" /\ job[w].c = c}
    IN proofs[c] + evidence[c] + Cardinality(uploads) < MAX_ATTACHMENTS + Cardinality(Workers)

\* A status moves along an edge of the state machine, from the status the row has at that
\* moment and not the one a handler read, unless assign writes the status it read earlier.
SingleDoor ==
  [][\A c \in Complaints : status'[c] # status[c] =>
       \/ status[c] = "NONE" /\ status'[c] = "SUBMITTED"
       \/ edge(status[c], status'[c])
       \/ \E w \in Workers : /\ job[w].pc = "assign" /\ job[w].c = c
                             /\ job'[w] = Idle
                             /\ status'[c] = nextStatus(job[w].from)]_vars

\* A resolved complaint nobody rates closes, reopens or goes away some time after the week
\* is over: autoCloseResolved gets to it.
AutoClosed ==
  \A c \in Complaints :
    LET waiting == found(c) /\ status[c] = "RESOLVED" /\ resolvedAt[c] = "old" /\ c \notin rated
    IN waiting ~> ~waiting
=============================================================================

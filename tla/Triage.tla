------------------------------- MODULE Triage -------------------------------
(***************************************************************************)
(* What moves a complaint up: the upvotes of citizens (upvote of           *)
(* complaint.service.ts) and the escalations of the SLA job (runSlaCheck   *)
(* of jobs/slaChecker.ts), which the cron and the HTTP trigger of app.ts   *)
(* may run at the same time.  The statuses themselves are in Complaints.   *)
(*                                                                         *)
(* A transaction is one step: the increment locks the complaint's row to   *)
(* the commit.  What was read before it stays in the job record.           *)
(***************************************************************************)
EXTENDS Cases

CONSTANTS
  Voters,
  UPVOTES_FOR_PRIORITY_BUMP,
  BATCH,        \* complaints that one run takes up
  MaxFailures,  \* bound: job runs and escalations that fail
  Runs,         \* runs of the SLA job that may be in flight together
  None          \* nothing

ASSUME TriageAssumption ==
  /\ UPVOTES_FOR_PRIORITY_BUMP \in Nat \ {0}
  /\ BATCH \in Nat /\ MaxFailures \in Nat
  /\ None \notin Complaints \cup Voters
  /\ IsFiniteSet(Voters)

VARIABLES
  open,         \* complaints in one of OPEN_STATUSES
  level,        \* what levelFor gives: 0 before slaDueAt
  defaultPriority, \* the category's, when the complaint was filed
  priority,     \* index in PRIORITY_LADDER
  upvotes,      \* rows of Upvote
  upvoteCount,  \* Complaint.upvoteCount
  escalations,  \* rows of Escalation
  isEscalated,  \* complaints with isEscalated
  notices,      \* how often the admins were told of each complaint and level
  vote,         \* the upvotes in flight, one of each of the Workers
  run,          \* the job runs in flight
  failures      \* history: job runs and escalations that failed

voteVars == <<priority, upvotes, upvoteCount, vote>>
slaVars == <<escalations, isEscalated, notices, run>>
triageVars == <<open, level, defaultPriority, voteVars, slaVars, failures>>

Level == 1 .. 3
Ladder == 1 .. 4

Vote == [c : Complaints \cup {None}, v : Voters \cup {None}]

NoVote == [c |-> None, v |-> None]

\* todo: complaints of the batch to go; already: their escalations, and flagged: those with
\* isEscalated, as the batch was read.
Run == [pc : {"idle", "loop"}, todo : SUBSET Complaints, already : SUBSET (Complaints \X Level),
        flagged : SUBSET Complaints]

NoRun == [pc |-> "idle", todo |-> {}, already |-> {}, flagged |-> {}]

\* The type of every variable.
TriageTypeOK ==
  /\ open \subseteq Complaints
  /\ level \in [Complaints -> 0 .. 3]
  /\ defaultPriority \in [Complaints -> Ladder]
  /\ priority \in [Complaints -> Ladder]
  /\ upvotes \subseteq Complaints \X Voters
  /\ upvoteCount \in [Complaints -> Nat]
  /\ escalations \subseteq Complaints \X Level
  /\ isEscalated \subseteq Complaints
  /\ notices \in [Complaints \X Level -> Nat]
  /\ vote \in [Workers -> Vote]
  /\ run \in [Runs -> Run]
  /\ failures \in 0 .. MaxFailures

TriageInit ==
  /\ open = Complaints
  /\ level = [c \in Complaints |-> 0]
  /\ defaultPriority \in [Complaints -> Ladder]
  /\ priority = defaultPriority
  /\ upvotes = {}
  /\ upvoteCount = [c \in Complaints |-> 0]
  /\ escalations = {}
  /\ isEscalated = {}
  /\ notices = [e \in Complaints \X Level |-> 0]
  /\ vote = [w \in Workers |-> NoVote]
  /\ run = [r \in Runs |-> NoRun]
  /\ failures = 0

-----------------------------------------------------------------------------
(* upvote                                                                  *)

\* The complaint exists and findUnique finds no vote of the user.
upvoteRead(w, c, v) ==
  /\ vote[w] = NoVote
  /\ <<c, v>> \notin upvotes
  /\ vote' = [vote EXCEPT ![w] = [c |-> c, v |-> v]]
  /\ UNCHANGED <<open, level, defaultPriority, priority, upvotes, upvoteCount, slaVars, failures>>

bumpPriority(p) == IF p < 4 THEN p + 1 ELSE 4

\* Crossing the threshold once nudges the priority up a single step.
crossing(n) == n = UPVOTES_FOR_PRIORITY_BUMP

\* Mutant: the table takes a second vote of a user.
upvote_key_None(c, v) == TRUE

\* The unique key of Upvote, on complaint and user.
upvote_key(c, v) == <<c, v>> \notin upvotes

\* The transaction: the vote, the increment, the bump.
upvoteWrite(w) ==
  LET c == vote[w].c
      n == upvoteCount[c] + 1
  IN
  /\ vote[w] # NoVote
  /\ upvote_key(c, vote[w].v)
  /\ upvotes' = upvotes \cup {<<c, vote[w].v>>}
  /\ upvoteCount' = [upvoteCount EXCEPT ![c] = n]
  /\ priority' = IF crossing(n) THEN [priority EXCEPT ![c] = bumpPriority(@)] ELSE priority
  /\ vote' = [vote EXCEPT ![w] = NoVote]
  /\ UNCHANGED <<open, level, defaultPriority, slaVars, failures>>

\* The key is taken, or the request died: nothing is left of the transaction.
upvoteFails(w) ==
  /\ vote[w] # NoVote
  /\ vote' = [vote EXCEPT ![w] = NoVote]
  /\ UNCHANGED <<open, level, defaultPriority, priority, upvotes, upvoteCount, slaVars, failures>>

-----------------------------------------------------------------------------
(* The complaint's own life                                                *)

\* Time passes: at slaDueAt, a day later, and three days after that.
levelRises(c) ==
  /\ level[c] < 3
  /\ level' = [level EXCEPT ![c] = @ + 1]
  /\ UNCHANGED <<open, defaultPriority, voteVars, slaVars, failures>>

\* Its status leaves OPEN_STATUSES; reopened, it keeps its slaDueAt.
closes(c) ==
  /\ c \in open
  /\ open' = open \ {c}
  /\ UNCHANGED <<level, defaultPriority, voteVars, slaVars, failures>>

reopens(c) ==
  /\ c \notin open
  /\ open' = open \cup {c}
  /\ UNCHANGED <<level, defaultPriority, voteVars, slaVars, failures>>

-----------------------------------------------------------------------------
(* runSlaCheck                                                             *)

overdue == {c \in open : level[c] > 0}

\* Mutant: those that were escalated before are left out.
breached_NotFlagged == overdue \ isEscalated

breached == overdue

\* findMany with take, in no order: any BATCH of them.
runSlaRead(r) ==
  /\ run[r] = NoRun
  /\ breached # {}
  /\ \E S \in SUBSET breached :
       /\ S = breached \/ Cardinality(S) = BATCH
       /\ Cardinality(S) <= BATCH
       /\ run' = [run EXCEPT ![r] = [pc |-> "loop", todo |-> S,
                                     already |-> {e \in escalations : e[1] \in S},
                                     flagged |-> isEscalated \cap S]]
  /\ UNCHANGED <<open, level, defaultPriority, voteVars, escalations, isEscalated, notices,
                 failures>>

Later(r, c) == [run EXCEPT ![r] = [pc |-> "loop", todo |-> run[r].todo \ {c},
                                   already |-> run[r].already, flagged |-> run[r].flagged]]

\* UNIQUE (complaintId, level).
escalation_uq(e) == e \notin escalations

\* Mutant: the flag is not written.
escalate_NoFlag(r, c) ==
  LET e == <<c, level[c]>> IN
  /\ c \in run[r].todo /\ e \notin run[r].already
  /\ escalation_uq(e)
  /\ escalations' = escalations \cup {e}
  /\ isEscalated' = isEscalated
  /\ notices' = [notices EXCEPT ![e] = @ + 1]
  /\ run' = Later(r, c)
  /\ UNCHANGED <<open, level, defaultPriority, voteVars, failures>>

\* The row, the flag when it was not up, the notifications of the admins, and the commit;
\* by id, so also when the complaint was closed since it was read.
escalate(r, c) ==
  LET e == <<c, level[c]>> IN
  /\ c \in run[r].todo /\ e \notin run[r].already
  /\ escalation_uq(e)
  /\ escalations' = escalations \cup {e}
  /\ isEscalated' = IF c \in run[r].flagged THEN isEscalated ELSE isEscalated \cup {c}
  /\ notices' = [notices EXCEPT ![e] = @ + 1]
  /\ run' = Later(r, c)
  /\ UNCHANGED <<open, level, defaultPriority, voteVars, failures>>

\* The level is there already: as the batch was read, or by the clash of another run's row.
escalateSkips(r, c) ==
  LET e == <<c, level[c]>> IN
  /\ c \in run[r].todo
  /\ e \in run[r].already \/ ~escalation_uq(e)
  /\ run' = Later(r, c)
  /\ UNCHANGED <<open, level, defaultPriority, voteVars, escalations, isEscalated, notices,
                 failures>>

\* Any other error of the transaction is logged and skipped too.
escalateThrows(r, c) ==
  /\ c \in run[r].todo /\ <<c, level[c]>> \notin run[r].already
  /\ failures < MaxFailures
  /\ failures' = failures + 1
  /\ run' = Later(r, c)
  /\ UNCHANGED <<open, level, defaultPriority, voteVars, escalations, isEscalated, notices>>

\* The batch is done; autoCloseResolved follows, in Complaints.
runSlaEnds(r) ==
  /\ run[r].pc = "loop" /\ run[r].todo = {}
  /\ run' = [run EXCEPT ![r] = NoRun]
  /\ UNCHANGED <<open, level, defaultPriority, voteVars, escalations, isEscalated, notices,
                 failures>>

\* The process dies; guard keeps the next run coming.
runSlaFails(r) ==
  /\ run[r] # NoRun
  /\ failures < MaxFailures
  /\ failures' = failures + 1
  /\ run' = [run EXCEPT ![r] = NoRun]
  /\ UNCHANGED <<open, level, defaultPriority, voteVars, escalations, isEscalated, notices>>

-----------------------------------------------------------------------------
runStep(r) ==
  \/ \E c \in Complaints : escalate(r, c) \/ escalateSkips(r, c)
  \/ runSlaEnds(r)

TriageNext ==
  \/ \E c \in Complaints : levelRises(c) \/ closes(c) \/ reopens(c)
  \/ \E w \in Workers :
       \/ \E c \in Complaints, v \in Voters : upvoteRead(w, c, v)
       \/ upvoteWrite(w)
       \/ upvoteFails(w)
  \/ \E r \in Runs :
       \/ runSlaRead(r)
       \/ runStep(r)
       \/ runSlaFails(r)
       \/ \E c \in Complaints : escalateThrows(r, c)

TriageSpec == TriageInit /\ [][TriageNext]_triageVars

\* The cron fires every hour, and a run goes on to its end unless it dies.
TriageLiveSpec ==
  /\ TriageSpec
  /\ \A r \in Runs : WF_triageVars(runSlaRead(r)) /\ WF_triageVars(runStep(r))

-----------------------------------------------------------------------------
(* Properties                                                              *)

votersOf(c) == {v \in Voters : <<c, v>> \in upvotes}

\* upvote: the counter of a complaint is the number of its voters, and it is one step of the
\* ladder above its category's priority, capped at URGENT, exactly when the counter has reached
\* the threshold, whatever votes of the same and of different users cross between the check
\* and the transaction.
VotesAgree ==
  \A c \in Complaints :
    /\ upvoteCount[c] = Cardinality(votersOf(c))
    /\ priority[c] = IF upvoteCount[c] < UPVOTES_FOR_PRIORITY_BUMP THEN defaultPriority[c]
                     ELSE IF defaultPriority[c] = 4 THEN 4 ELSE defaultPriority[c] + 1

\* runSlaCheck: the admins are told of a level once, if and only if it has its row, and the
\* complaint is flagged, also when the cron and the HTTP trigger run side by side and each
\* works from the flags and levels it read at its start.
EscalatedOnce ==
  \A c \in Complaints, l \in Level :
    /\ notices[<<c, l>>] = IF <<c, l>> \in escalations THEN 1 ELSE 0
    /\ <<c, l>> \in escalations => c \in isEscalated

\* A complaint that stays open three days after the second escalation was due gets the third,
\* however many runs and transactions fail and whichever of the two runs gets there first.
TopLevelReached ==
  \A c \in Complaints : (level[c] = 3) ~> (<<c, 3>> \in escalations \/ c \notin open)
=============================================================================

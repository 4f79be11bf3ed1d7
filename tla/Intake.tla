------------------------------- MODULE Intake -------------------------------
(***************************************************************************)
(* Filing a complaint or a service request under an Idempotency-Key        *)
(* (middlewares/idempotency.ts, create of complaint.service.ts and of      *)
(* serviceRequest.service.ts, utils/trackingId.ts).  One user, one key.    *)
(*                                                                         *)
(* A request looks the key up, claims it, runs the handler, answers, and   *)
(* stores or drops its answer under the key without anybody waiting for    *)
(* it.  The counter's row stays locked from the increment to the commit.   *)
(***************************************************************************)
EXTENDS Naturals, FiniteSets

CONSTANTS
  Bodies,      \* request bodies
  Spots,       \* a category and a ward
  Spot,        \* what each body complains about
  MaxFiled,    \* bound: complaints and service requests filed
  Workers,     \* requests in flight
  None         \* nothing

ASSUME IntakeAssumption ==
  /\ Spot \in [Bodies -> Spots]
  /\ MaxFiled \in Nat
  /\ None \notin Bodies \cup Workers

VARIABLES
  key,         \* the row of IdempotencyKey
  filed,       \* rows of Complaint
  requests,    \* numbers of the rows of ServiceRequest
  counter,     \* the row of ComplaintCounter of each sequence
  lock,        \* who holds the row lock of each sequence
  job,         \* what each request is waiting for
  twoKeys,     \* history: two requests of the key were in flight together
  twoFilings,  \* history: places of which two filings were checked before either committed
  broughtBack  \* history: complaints that are open again beside another one of their place

historyVars == <<twoKeys, twoFilings, broughtBack>>
tables == <<filed, requests, counter, lock>>
vars == <<key, tables, job, historyVars>>

\* state: no row, a row, or one whose expiresAt has passed; hash: whose body; done:
\* statusCode is set; answer: the body that responseBody was an answer to.
KeyRow == [state : {"none", "live", "expired"}, hash : Bodies \cup {None},
           done : {"yes", "no"}, answer : Bodies \cup {None}]

NoKey == [state |-> "none", hash |-> None, done |-> "no", answer |-> None]

\* state: open; not open, or deleted; created more than DUPLICATE_WINDOW_HOURS ago.
Complaint == [no : 1 .. MaxFiled, body : Bodies, state : {"open", "closed", "old"}]

Sequence == {"CC", "SR"}

Steps == {"idle", "claim", "check", "number", "insert", "store", "forget"}

Job == [pc : Steps, b : Bodies \cup {None}, seq : Sequence, no : 0 .. MaxFiled,
        keyed : {"yes", "no"}]

At(pc, b, seq, no, keyed) == [pc |-> pc, b |-> b, seq |-> seq, no |-> no, keyed |-> keyed]

Idle == At("idle", None, "CC", 0, "no")

\* The type of every variable.
TypeOK ==
  /\ key \in KeyRow
  /\ filed \subseteq Complaint
  /\ requests \subseteq 1 .. MaxFiled
  /\ counter \in [Sequence -> 0 .. MaxFiled]
  /\ lock \in [Sequence -> Workers \cup {None}]
  /\ job \in [Workers -> Job]
  /\ twoKeys \in {"yes", "no"}
  /\ twoFilings \subseteq Spots
  /\ broughtBack \subseteq 1 .. MaxFiled

Init ==
  /\ key = NoKey
  /\ filed = {}
  /\ requests = {}
  /\ counter = [s \in Sequence |-> 0]
  /\ lock = [s \in Sequence |-> None]
  /\ job = [w \in Workers |-> Idle]
  /\ twoKeys = "no"
  /\ twoFilings = {}
  /\ broughtBack = {}

Begin(w, locals) ==
  /\ job[w] = Idle
  /\ job' = [job EXCEPT ![w] = locals]

Await(w, locals) == job' = [job EXCEPT ![w] = locals]

Return(w) == job' = [job EXCEPT ![w] = Idle]

\* The process dies: an open transaction is rolled back, with the increment.
Crash(w) ==
  /\ job[w] # Idle
  /\ lock' = [s \in Sequence |-> IF lock[s] = w THEN None ELSE lock[s]]
  /\ Return(w)
  /\ UNCHANGED <<key, filed, requests, counter, historyVars>>

-----------------------------------------------------------------------------
(* idempotency                                                             *)

\* POST /complaints without the header.
plainComplaint(w, b) ==
  /\ Begin(w, At("check", b, "CC", 0, "no"))
  /\ UNCHANGED <<key, tables, historyVars>>

\* Mutant: the hash of the body is not compared.
lookup_NoMismatch(w, b) ==
  /\ ~(key.state = "live" /\ key.hash = b /\ key.done = "yes")
  /\ Begin(w, At("claim", b, "CC", 0, "yes"))
  /\ twoKeys' = IF \E v \in Workers : job[v].keyed = "yes" THEN "yes" ELSE twoKeys
  /\ UNCHANGED <<key, tables, twoFilings, broughtBack>>

\* The key is new, expired, or has no answer yet.  Any other request ends here: with
\* IDEMPOTENCY_MISMATCH, or with the stored answer.
lookup(w, b) ==
  /\ ~(key.state = "live" /\ (key.hash # b \/ key.done = "yes"))
  /\ Begin(w, At("claim", b, "CC", 0, "yes"))
  /\ twoKeys' = IF \E v \in Workers : job[v].keyed = "yes" THEN "yes" ELSE twoKeys
  /\ UNCHANGED <<key, tables, twoFilings, broughtBack>>

\* Mutant: the status of the last use of the key is kept.
claim_KeepsStatus(w) ==
  LET j == job[w] IN
  /\ j.pc = "claim"
  /\ key' = [state |-> "live", hash |-> j.b, done |-> key.done, answer |-> key.answer]
  /\ Await(w, At("check", j.b, j.seq, 0, "yes"))
  /\ UNCHANGED <<tables, historyVars>>

\* The upsert: responseBody is undefined, so the last one stays in the row.
claim(w) ==
  LET j == job[w] IN
  /\ j.pc = "claim"
  /\ key' = [state |-> "live", hash |-> j.b, done |-> "no", answer |-> key.answer]
  /\ Await(w, At("check", j.b, j.seq, 0, "yes"))
  /\ UNCHANGED <<tables, historyVars>>

\* The hook on a successful answer; the row may be gone.
store(w) ==
  LET j == job[w] IN
  /\ j.pc = "store"
  /\ key' = IF key.state = "none" THEN key
            ELSE [state |-> key.state, hash |-> key.hash, done |-> "yes", answer |-> j.b]
  /\ Return(w)
  /\ UNCHANGED <<tables, historyVars>>

\* The hook on an error: only successful answers are worth replaying.
forget(w) ==
  /\ job[w].pc = "forget"
  /\ key' = NoKey
  /\ Return(w)
  /\ UNCHANGED <<tables, historyVars>>

\* expiresAt passes; purge.ts deletes the row later.
keyExpires ==
  /\ key.state = "live"
  /\ key' = [state |-> "expired", hash |-> key.hash, done |-> key.done, answer |-> key.answer]
  /\ UNCHANGED <<tables, job, historyVars>>

purgeKey ==
  /\ key.state = "expired"
  /\ key' = NoKey
  /\ UNCHANGED <<tables, job, historyVars>>

-----------------------------------------------------------------------------
(* create                                                                  *)

\* An answer goes out, and to the hook when the request has a key.
Answer(w, pc) ==
  IF job[w].keyed = "yes" THEN Await(w, At(pc, job[w].b, job[w].seq, 0, "yes")) ELSE Return(w)

\* Same person, same problem, same place, within a day.
duplicates(b) == {c \in filed : Spot[c.body] = Spot[b] /\ c.state = "open"}

\* Who has checked a complaint about this place and has not committed it.
filing(s) ==
  {v \in Workers : job[v].pc \in {"number", "insert"} /\ job[v].seq = "CC" /\ Spot[job[v].b] = s}

\* Mutant: closed complaints count for new ones, open ones do not.
create_AnyStatus(w) ==
  LET j == job[w] IN
  /\ j.pc = "check"
  /\ {c \in filed : Spot[c.body] = Spot[j.b] /\ c.state = "closed"} = {}
  /\ Await(w, At("number", j.b, j.seq, 0, j.keyed))
  /\ twoFilings' = IF filing(Spot[j.b]) # {} THEN twoFilings \cup {Spot[j.b]} ELSE twoFilings
  /\ UNCHANGED <<key, tables, twoKeys, broughtBack>>

\* Category and ward were found, and no duplicate.
create(w) ==
  LET j == job[w] IN
  /\ j.pc = "check"
  /\ duplicates(j.b) = {}
  /\ Await(w, At("number", j.b, j.seq, 0, j.keyed))
  /\ twoFilings' = IF filing(Spot[j.b]) # {} THEN twoFilings \cup {Spot[j.b]} ELSE twoFilings
  /\ UNCHANGED <<key, tables, twoKeys, broughtBack>>

\* DUPLICATE_COMPLAINT, or a reference that is not valid.
createFails(w) ==
  /\ job[w].pc = "check"
  /\ Answer(w, "forget")
  /\ UNCHANGED <<key, tables, historyVars>>

\* Mutant: the number is read without the row lock of the update.
nextTrackingId_Unlocked(w) ==
  LET j == job[w] IN
  /\ j.pc = "number"
  /\ counter[j.seq] < MaxFiled
  /\ Await(w, At("insert", j.b, j.seq, counter[j.seq] + 1, j.keyed))
  /\ UNCHANGED <<key, tables, historyVars>>

\* The upsert with an increment, nextReferenceNo's too: another transaction waits for it.
nextTrackingId(w) ==
  LET j == job[w] IN
  /\ j.pc = "number"
  /\ counter[j.seq] < MaxFiled
  /\ lock[j.seq] = None
  /\ lock' = [lock EXCEPT ![j.seq] = w]
  /\ Await(w, At("insert", j.b, j.seq, counter[j.seq] + 1, j.keyed))
  /\ UNCHANGED <<key, filed, requests, counter, historyVars>>

\* The transaction throws: it is rolled back, with the increment, and the answer is an error.
createThrows(w) ==
  /\ job[w].pc \in {"number", "insert"}
  /\ lock' = [s \in Sequence |-> IF lock[s] = w THEN None ELSE lock[s]]
  /\ Answer(w, "forget")
  /\ UNCHANGED <<key, filed, requests, counter, historyVars>>

\* The rest of the transaction and its commit.  findNearbyDuplicate, which runs after it, may
\* throw: then the complaint is filed and the answer is an error.
createCommit(w) ==
  LET j == job[w] IN
  /\ j.pc = "insert" /\ j.seq = "CC"
  /\ filed' = filed \cup {[no |-> j.no, body |-> j.b, state |-> "open"]}
  /\ counter' = [counter EXCEPT !["CC"] = j.no]
  /\ lock' = [lock EXCEPT !["CC"] = None]
  /\ Answer(w, "store") \/ Answer(w, "forget")
  /\ UNCHANGED <<key, requests, historyVars>>

\* create of serviceRequest.service.ts: nothing to compare with.
createRequest(w, b) ==
  /\ Begin(w, At("number", b, "SR", 0, "no"))
  /\ UNCHANGED <<key, tables, historyVars>>

requestCommit(w) ==
  LET j == job[w] IN
  /\ j.pc = "insert" /\ j.seq = "SR"
  /\ requests' = requests \cup {j.no}
  /\ counter' = [counter EXCEPT !["SR"] = j.no]
  /\ lock' = [lock EXCEPT !["SR"] = None]
  /\ Answer(w, "store")
  /\ UNCHANGED <<key, filed, historyVars>>

InState(c, state) == [no |-> c.no, body |-> c.body, state |-> state]

\* It is resolved, rejected, cancelled or deleted.
closes(c) ==
  /\ c.state = "open"
  /\ filed' = (filed \ {c}) \cup {InState(c, "closed")}
  /\ broughtBack' = broughtBack \ {c.no}
  /\ UNCHANGED <<key, requests, counter, lock, job, twoKeys, twoFilings>>

\* It is reopened, or restored: neither looks for another one of its place.
comesBack(c) ==
  /\ c.state = "closed"
  /\ filed' = (filed \ {c}) \cup {InState(c, "open")}
  /\ broughtBack' = IF duplicates(c.body) # {} \/ filing(Spot[c.body]) # {}
                    THEN broughtBack \cup {c.no} ELSE broughtBack
  /\ UNCHANGED <<key, requests, counter, lock, job, twoKeys, twoFilings>>

\* A day passes.
ages(c) ==
  /\ c.state # "old"
  /\ filed' = (filed \ {c}) \cup {InState(c, "old")}
  /\ broughtBack' = broughtBack \ {c.no}
  /\ UNCHANGED <<key, requests, counter, lock, job, twoKeys, twoFilings>>

-----------------------------------------------------------------------------
Receive(w) == \E b \in Bodies : plainComplaint(w, b) \/ lookup(w, b) \/ createRequest(w, b)

Handle(w) ==
  \/ claim(w)
  \/ store(w)
  \/ forget(w)
  \/ create(w)
  \/ createFails(w)
  \/ nextTrackingId(w)
  \/ createThrows(w)
  \/ createCommit(w)
  \/ requestCommit(w)

Next ==
  \/ \E w \in Workers : Receive(w) \/ Handle(w) \/ Crash(w)
  \/ \E c \in filed : closes(c) \/ comesBack(c) \/ ages(c)
  \/ keyExpires
  \/ purgeKey

Spec == Init /\ [][Next]_vars

-----------------------------------------------------------------------------
(* Properties                                                              *)

\* "two concurrent creates can never receive the same number" (trackingId.ts), and none is
\* lost to a transaction that was rolled back: the numbers of both sequences are 1 up to the
\* counter, each given once.
Numbered ==
  /\ {c.no : c \in filed} = 1 .. counter["CC"]
  /\ \A c, d \in filed : c.no = d.no => c = d
  /\ requests = 1 .. counter["SR"]

\* The answer that idempotency.ts would replay is an answer to the body whose hash the row
\* has, also when a request died after it claimed an expired key and left the old response in
\* place; unless two requests of the key were in flight together.
ReplayMatches == key.state = "live" /\ key.done = "yes" => key.answer = key.hash \/ twoKeys = "yes"

\* create: one citizen has one open complaint of a day about one problem at one place, unless
\* two filings about that place were checked before either was committed, or one of the two
\* was reopened or restored beside the other.
NoDoubleSubmit ==
  \A c, d \in filed :
    /\ Spot[c.body] = Spot[d.body]
    /\ c.state = "open" /\ d.state = "open"
    => c = d \/ Spot[c.body] \in twoFilings \/ {c.no, d.no} \cap broughtBack # {}

\* An answer that can be replayed goes by the end of its time only: no later request of the
\* key, whatever its body and its outcome, takes it away, unless it was in flight with another.
AnswerKept ==
  [][key.state = "live" /\ key.done = "yes" /\ key' # key => keyExpires \/ twoKeys = "yes"]_vars
=============================================================================

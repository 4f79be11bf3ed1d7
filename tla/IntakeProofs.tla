---------------------------- MODULE IntakeProofs ----------------------------
(***************************************************************************)
(* Proofs about Intake, for any number of bodies, places and requests in   *)
(* flight.                                                                 *)
(***************************************************************************)
EXTENDS Intake, TLAPS

\* What a request has at each await.
JobInv ==
  \A w \in Workers :
    /\ job[w].pc # "idle" => job[w].b \in Bodies
    /\ job[w].pc \in {"claim", "check"} => job[w].seq = "CC"
    /\ job[w].pc \in {"claim", "store", "forget"} => job[w].keyed = "yes"
    /\ job[w].keyed = "yes" => job[w].pc # "idle"

\* A number is in flight only under the lock of its sequence, and it is the next one.
LockInv ==
  \A w \in Workers :
    /\ job[w].pc = "insert" => /\ lock[job[w].seq] = w
                               /\ job[w].no = counter[job[w].seq] + 1
    /\ \A s \in Sequence : lock[s] = w => job[w].pc = "insert" /\ job[w].seq = s

\* Numbered, number by number.
NumberInv ==
  /\ \A c \in filed : c.no \in 1 .. counter["CC"]
  /\ \A n \in 1 .. counter["CC"] : \E c \in filed : c.no = n
  /\ \A c, d \in filed : c.no = d.no => c = d
  /\ \A n \in requests : n \in 1 .. counter["SR"]
  /\ \A n \in 1 .. counter["SR"] : n \in requests

\* As long as the key's requests do not overlap, the one in flight finds the row as it left it,
\* or finds none.
KeyInv ==
  twoKeys = "no" =>
    /\ \A v, w \in Workers : job[v].keyed = "yes" /\ job[w].keyed = "yes" => v = w
    /\ \A w \in Workers : job[w].pc = "claim" => key.state # "live" \/ key.done = "no"
    /\ \A w \in Workers : job[w].keyed = "yes" /\ job[w].pc # "claim" =>
         key.state = "none" \/ (key.hash = job[w].b /\ key.done = "no")
    /\ key.state = "live" /\ key.done = "yes" => key.answer = key.hash

\* A complaint between its check and its commit.
Filing(w) == job[w].pc \in {"number", "insert"} /\ job[w].seq = "CC"

\* What the check found holds until the commit, but for what came back, as long as filings
\* about the place do not overlap.
FilingInv ==
  /\ \A v, w \in Workers :
       Filing(v) /\ Filing(w) /\ Spot[job[v].b] = Spot[job[w].b] =>
         v = w \/ Spot[job[w].b] \in twoFilings
  /\ \A w \in Workers, c \in filed :
       Filing(w) /\ Spot[c.body] = Spot[job[w].b] /\ c.state = "open" =>
         c.no \in broughtBack \/ Spot[c.body] \in twoFilings
  /\ NoDoubleSubmit

\* The inductive invariant.
Inv == TypeOK /\ JobInv /\ LockInv /\ NumberInv /\ KeyInv /\ FilingInv

-----------------------------------------------------------------------------
\* The key's row, the tables and the locals stay well formed.
LEMMA TypeStep ==
  ASSUME TypeOK, JobInv, LockInv, [Next]_vars
  PROVE  TypeOK' /\ JobInv'
<1>. USE IntakeAssumption DEF TypeOK, KeyRow, NoKey, Complaint, Sequence, Steps, Job, At,
     Idle, Begin, Await, Return, tables, historyVars, JobInv, LockInv
<1>1. ASSUME NEW w \in Workers, NEW b \in Bodies, plainComplaint(w, b)
      PROVE  TypeOK' /\ JobInv'
  BY <1>1 DEF plainComplaint
<1>2. ASSUME NEW w \in Workers, NEW b \in Bodies, lookup(w, b)
      PROVE  TypeOK' /\ JobInv'
  BY <1>2 DEF lookup
<1>3. ASSUME NEW w \in Workers, NEW b \in Bodies, createRequest(w, b)
      PROVE  TypeOK' /\ JobInv'
  BY <1>3 DEF createRequest
<1>4. ASSUME NEW w \in Workers, claim(w)
      PROVE  TypeOK' /\ JobInv'
  BY <1>4 DEF claim
<1>5. ASSUME NEW w \in Workers, store(w)
      PROVE  TypeOK' /\ JobInv'
  BY <1>5 DEF store
<1>6. ASSUME NEW w \in Workers, forget(w)
      PROVE  TypeOK' /\ JobInv'
  BY <1>6 DEF forget
<1>7. ASSUME NEW w \in Workers, create(w)
      PROVE  TypeOK' /\ JobInv'
  BY <1>7 DEF create
<1>8. ASSUME NEW w \in Workers, createFails(w)
      PROVE  TypeOK' /\ JobInv'
  BY <1>8 DEF createFails, Answer
<1>9. ASSUME NEW w \in Workers, nextTrackingId(w)
      PROVE  TypeOK' /\ JobInv'
  BY <1>9 DEF nextTrackingId
<1>10. ASSUME NEW w \in Workers, createCommit(w)
      PROVE  TypeOK' /\ JobInv'
  BY <1>10 DEF createCommit, Answer
<1>11. ASSUME NEW w \in Workers, requestCommit(w)
      PROVE  TypeOK' /\ JobInv'
  <2>1. job[w].no \in 1 .. MaxFiled
    BY <1>11 DEF requestCommit
  <2>2. requests' \subseteq 1 .. MaxFiled
    <3>1. requests' = requests \cup {job[w].no}
      BY <1>11 DEF requestCommit
    <3>2. requests \subseteq 1 .. MaxFiled
      BY DEF TypeOK
    <3>. HIDE DEF TypeOK, JobInv, LockInv
    <3>. QED
      BY <2>1, <3>1, <3>2
  <2>3. counter' \in [Sequence -> 0 .. MaxFiled] /\ lock' \in [Sequence -> Workers \cup {None}]
    BY <1>11, <2>1 DEF requestCommit
  <2>4. job' \in [Workers -> Job] /\ JobInv'
    BY <1>11 DEF requestCommit, Answer
  <2>. QED
    BY <1>11, <2>2, <2>3, <2>4 DEF requestCommit
<1>12. ASSUME NEW w \in Workers, Crash(w)
      PROVE  TypeOK' /\ JobInv'
  BY <1>12 DEF Crash
<1>13. ASSUME NEW c \in filed, ages(c)
      PROVE  TypeOK' /\ JobInv'
  <2>1. c \in Complaint /\ InState(c, "old") \in Complaint
    BY DEF InState
  <2>2. filed' \subseteq Complaint
    BY <1>13, <2>1 DEF ages
  <2>3. broughtBack' \subseteq 1 .. MaxFiled
    BY <1>13, <2>1 DEF ages
  <2>. QED
    BY <1>13, <2>2, <2>3 DEF ages
<1>18. ASSUME NEW c \in filed, closes(c)
      PROVE  TypeOK' /\ JobInv'
  <2>1. c \in Complaint /\ InState(c, "closed") \in Complaint
    BY DEF InState
  <2>2. filed' \subseteq Complaint
    BY <1>18, <2>1 DEF closes
  <2>3. broughtBack' \subseteq 1 .. MaxFiled
    BY <1>18, <2>1 DEF closes
  <2>. QED
    BY <1>18, <2>2, <2>3 DEF closes
<1>19. ASSUME NEW c \in filed, comesBack(c)
      PROVE  TypeOK' /\ JobInv'
  <2>1. c \in Complaint /\ InState(c, "open") \in Complaint
    BY DEF InState
  <2>2. filed' \subseteq Complaint
    BY <1>19, <2>1 DEF comesBack
  <2>3. broughtBack' \subseteq broughtBack \cup {c.no} /\ c.no \in 1 .. MaxFiled
    BY <1>19, <2>1 DEF comesBack
  <2>4. broughtBack' \subseteq 1 .. MaxFiled
    BY <2>3
  <2>. QED
    BY <1>19, <2>2, <2>4 DEF comesBack
<1>14. ASSUME keyExpires
      PROVE  TypeOK' /\ JobInv'
  BY <1>14 DEF keyExpires
<1>15. ASSUME purgeKey
      PROVE  TypeOK' /\ JobInv'
  BY <1>15 DEF purgeKey
<1>16. CASE UNCHANGED vars
  BY <1>16 DEF vars
<1>17. ASSUME NEW w \in Workers, createThrows(w)
      PROVE  TypeOK' /\ JobInv'
  BY <1>17 DEF createThrows, Answer
<1>. QED
  BY <1>1, <1>2, <1>3, <1>4, <1>5, <1>6, <1>7, <1>8, <1>9, <1>10, <1>11, <1>12, <1>13,
     <1>14, <1>15, <1>16, <1>17, <1>18, <1>19 DEF Next, Receive, Handle

\* Only the holder of a sequence's lock has a number of it.
LEMMA LockStep ==
  ASSUME TypeOK, JobInv, LockInv, [Next]_vars
  PROVE  LockInv'
<1>. USE IntakeAssumption DEF TypeOK, KeyRow, NoKey, Complaint, Sequence, Steps, Job, At,
     Idle, Begin, Await, Return, tables, historyVars, JobInv, LockInv
<1>1. ASSUME NEW w \in Workers, NEW b \in Bodies, plainComplaint(w, b)
      PROVE  LockInv'
  BY <1>1 DEF plainComplaint
<1>2. ASSUME NEW w \in Workers, NEW b \in Bodies, lookup(w, b)
      PROVE  LockInv'
  BY <1>2 DEF lookup
<1>3. ASSUME NEW w \in Workers, NEW b \in Bodies, createRequest(w, b)
      PROVE  LockInv'
  BY <1>3 DEF createRequest
<1>4. ASSUME NEW w \in Workers, claim(w)
      PROVE  LockInv'
  BY <1>4 DEF claim
<1>5. ASSUME NEW w \in Workers, store(w)
      PROVE  LockInv'
  BY <1>5 DEF store
<1>6. ASSUME NEW w \in Workers, forget(w)
      PROVE  LockInv'
  BY <1>6 DEF forget
<1>7. ASSUME NEW w \in Workers, create(w)
      PROVE  LockInv'
  BY <1>7 DEF create
<1>8. ASSUME NEW w \in Workers, createFails(w)
      PROVE  LockInv'
  BY <1>8 DEF createFails, Answer
<1>9. ASSUME NEW w \in Workers, nextTrackingId(w)
      PROVE  LockInv'
  BY <1>9 DEF nextTrackingId
<1>10. ASSUME NEW w \in Workers, createCommit(w)
      PROVE  LockInv'
  BY <1>10 DEF createCommit, Answer
<1>11. ASSUME NEW w \in Workers, requestCommit(w)
      PROVE  LockInv'
  BY <1>11 DEF requestCommit, Answer
<1>12. ASSUME NEW w \in Workers, Crash(w)
      PROVE  LockInv'
  BY <1>12 DEF Crash
<1>13. ASSUME NEW c \in filed, ages(c)
      PROVE  LockInv'
  BY <1>13 DEF ages, InState
<1>18. ASSUME NEW c \in filed, closes(c)
      PROVE  LockInv'
  BY <1>18 DEF closes, InState
<1>19. ASSUME NEW c \in filed, comesBack(c)
      PROVE  LockInv'
  BY <1>19 DEF comesBack, InState
<1>14. ASSUME keyExpires
      PROVE  LockInv'
  BY <1>14 DEF keyExpires
<1>15. ASSUME purgeKey
      PROVE  LockInv'
  BY <1>15 DEF purgeKey
<1>16. CASE UNCHANGED vars
  BY <1>16 DEF vars
<1>17. ASSUME NEW w \in Workers, createThrows(w)
      PROVE  LockInv'
  BY <1>17 DEF createThrows, Answer
<1>. QED
  BY <1>1, <1>2, <1>3, <1>4, <1>5, <1>6, <1>7, <1>8, <1>9, <1>10, <1>11, <1>12, <1>13,
     <1>14, <1>15, <1>16, <1>17, <1>18, <1>19 DEF Next, Receive, Handle

\* A complaint that changes its state keeps its number.
LEMMA MoveNumbers ==
  ASSUME NumberInv, NEW c \in filed, NEW state,
         filed' = (filed \ {c}) \cup {InState(c, state)},
         counter' = counter, requests' = requests
  PROVE  NumberInv'
<1>. DEFINE moved == InState(c, state)
<1>1. filed' = (filed \ {c}) \cup {moved} /\ moved.no = c.no
  BY DEF InState
<1>. HIDE DEF moved
<1>2. \A n \in 1 .. counter["CC"] : \E d \in filed' : d.no = n
  <2>. SUFFICES ASSUME NEW n \in 1 .. counter["CC"]
                PROVE  \E d \in filed' : d.no = n
    OBVIOUS
  <2>1. PICK d \in filed : d.no = n
    BY DEF NumberInv
  <2>. QED
    BY <1>1, <2>1
<1>. QED
  BY <1>1, <1>2 DEF NumberInv

\* A commit adds the next number and nothing takes one away.
LEMMA NumberStep ==
  ASSUME TypeOK, JobInv, LockInv, NumberInv, [Next]_vars
  PROVE  NumberInv'
<1>. USE IntakeAssumption DEF TypeOK, KeyRow, NoKey, Complaint, Sequence, Steps, Job, At,
     Idle, Begin, Await, Return, tables, historyVars, JobInv, LockInv, NumberInv
<1>1. ASSUME NEW w \in Workers, NEW b \in Bodies, plainComplaint(w, b)
      PROVE  NumberInv'
  BY <1>1 DEF plainComplaint
<1>2. ASSUME NEW w \in Workers, NEW b \in Bodies, lookup(w, b)
      PROVE  NumberInv'
  BY <1>2 DEF lookup
<1>3. ASSUME NEW w \in Workers, NEW b \in Bodies, createRequest(w, b)
      PROVE  NumberInv'
  BY <1>3 DEF createRequest
<1>4. ASSUME NEW w \in Workers, claim(w)
      PROVE  NumberInv'
  BY <1>4 DEF claim
<1>5. ASSUME NEW w \in Workers, store(w)
      PROVE  NumberInv'
  BY <1>5 DEF store
<1>6. ASSUME NEW w \in Workers, forget(w)
      PROVE  NumberInv'
  BY <1>6 DEF forget
<1>7. ASSUME NEW w \in Workers, create(w)
      PROVE  NumberInv'
  BY <1>7 DEF create
<1>8. ASSUME NEW w \in Workers, createFails(w)
      PROVE  NumberInv'
  BY <1>8 DEF createFails, Answer
<1>9. ASSUME NEW w \in Workers, nextTrackingId(w)
      PROVE  NumberInv'
  BY <1>9 DEF nextTrackingId
<1>10. ASSUME NEW w \in Workers, createCommit(w)
      PROVE  NumberInv'
  <2>. DEFINE n == counter["CC"] + 1
              new == [no |-> n, body |-> job[w].b, state |-> "open"]
  <2>1. /\ job[w].no = n
        /\ filed' = filed \cup {new}
        /\ counter'["CC"] = n /\ counter'["SR"] = counter["SR"]
        /\ requests' = requests
        /\ counter["CC"] \in Nat
    BY <1>10 DEF createCommit
  <2>. HIDE DEF n, new
  <2>2. n = counter["CC"] + 1 /\ new.no = n
    BY DEF n, new
  <2>3. \A c \in filed' : c.no \in 1 .. n
    BY <2>1, <2>2
  <2>4. \A m \in 1 .. n : \E c \in filed' : c.no = m
    <3>. SUFFICES ASSUME NEW m \in 1 .. n
                  PROVE  \E c \in filed' : c.no = m
      OBVIOUS
    <3>1. CASE m = n
      BY <3>1, <2>1, <2>2
    <3>2. CASE m \in 1 .. counter["CC"]
      BY <3>2, <2>1
    <3>. QED
      BY <3>1, <3>2, <2>1, <2>2
  <2>5. \A c, d \in filed' : c.no = d.no => c = d
    BY <2>1, <2>2
  <2>. QED
    BY <2>1, <2>3, <2>4, <2>5
<1>11. ASSUME NEW w \in Workers, requestCommit(w)
      PROVE  NumberInv'
  BY <1>11 DEF requestCommit, Answer
<1>12. ASSUME NEW w \in Workers, Crash(w)
      PROVE  NumberInv'
  BY <1>12 DEF Crash
<1>13. ASSUME NEW c \in filed, ages(c)
      PROVE  NumberInv'
  BY <1>13, MoveNumbers DEF ages
<1>18. ASSUME NEW c \in filed, closes(c)
      PROVE  NumberInv'
  BY <1>18, MoveNumbers DEF closes
<1>19. ASSUME NEW c \in filed, comesBack(c)
      PROVE  NumberInv'
  BY <1>19, MoveNumbers DEF comesBack
<1>14. ASSUME keyExpires
      PROVE  NumberInv'
  BY <1>14 DEF keyExpires
<1>15. ASSUME purgeKey
      PROVE  NumberInv'
  BY <1>15 DEF purgeKey
<1>16. CASE UNCHANGED vars
  BY <1>16 DEF vars
<1>17. ASSUME NEW w \in Workers, createThrows(w)
      PROVE  NumberInv'
  BY <1>17 DEF createThrows, Answer
<1>. QED
  BY <1>1, <1>2, <1>3, <1>4, <1>5, <1>6, <1>7, <1>8, <1>9, <1>10, <1>11, <1>12, <1>13,
     <1>14, <1>15, <1>16, <1>17, <1>18, <1>19 DEF Next, Receive, Handle

\* The row of the key changes by the one request that claimed it, or by time.
LEMMA KeyStep ==
  ASSUME TypeOK, JobInv, KeyInv, [Next]_vars
  PROVE  KeyInv'
<1>. USE IntakeAssumption DEF TypeOK, KeyRow, NoKey, Complaint, Sequence, Steps, Job, At,
     Idle, Begin, Await, Return, tables, historyVars, JobInv, KeyInv
<1>1. ASSUME NEW w \in Workers, NEW b \in Bodies, plainComplaint(w, b)
      PROVE  KeyInv'
  BY <1>1 DEF plainComplaint
<1>2. ASSUME NEW w \in Workers, NEW b \in Bodies, lookup(w, b)
      PROVE  KeyInv'
  BY <1>2 DEF lookup
<1>3. ASSUME NEW w \in Workers, NEW b \in Bodies, createRequest(w, b)
      PROVE  KeyInv'
  BY <1>3 DEF createRequest
<1>4. ASSUME NEW w \in Workers, claim(w)
      PROVE  KeyInv'
  BY <1>4 DEF claim
<1>5. ASSUME NEW w \in Workers, store(w)
      PROVE  KeyInv'
  BY <1>5 DEF store
<1>6. ASSUME NEW w \in Workers, forget(w)
      PROVE  KeyInv'
  BY <1>6 DEF forget
<1>7. ASSUME NEW w \in Workers, create(w)
      PROVE  KeyInv'
  BY <1>7 DEF create
<1>8. ASSUME NEW w \in Workers, createFails(w)
      PROVE  KeyInv'
  <2>1. CASE job[w].keyed = "yes"
    BY <1>8, <2>1 DEF createFails, Answer
  <2>2. CASE job[w].keyed # "yes"
    BY <1>8, <2>2 DEF createFails, Answer
  <2>. QED
    BY <2>1, <2>2
<1>9. ASSUME NEW w \in Workers, nextTrackingId(w)
      PROVE  KeyInv'
  BY <1>9 DEF nextTrackingId
<1>10. ASSUME NEW w \in Workers, createCommit(w)
      PROVE  KeyInv'
  BY <1>10 DEF createCommit, Answer
<1>11. ASSUME NEW w \in Workers, requestCommit(w)
      PROVE  KeyInv'
  BY <1>11 DEF requestCommit, Answer
<1>12. ASSUME NEW w \in Workers, Crash(w)
      PROVE  KeyInv'
  BY <1>12 DEF Crash
<1>13. ASSUME NEW c \in filed, ages(c)
      PROVE  KeyInv'
  BY <1>13 DEF ages, InState
<1>18. ASSUME NEW c \in filed, closes(c)
      PROVE  KeyInv'
  BY <1>18 DEF closes, InState
<1>19. ASSUME NEW c \in filed, comesBack(c)
      PROVE  KeyInv'
  BY <1>19 DEF comesBack, InState
<1>14. ASSUME keyExpires
      PROVE  KeyInv'
  BY <1>14 DEF keyExpires
<1>15. ASSUME purgeKey
      PROVE  KeyInv'
  BY <1>15 DEF purgeKey
<1>16. CASE UNCHANGED vars
  BY <1>16 DEF vars
<1>17. ASSUME NEW w \in Workers, createThrows(w)
      PROVE  KeyInv'
  BY <1>17 DEF createThrows, Answer
<1>. QED
  BY <1>1, <1>2, <1>3, <1>4, <1>5, <1>6, <1>7, <1>8, <1>9, <1>10, <1>11, <1>12, <1>13,
     <1>14, <1>15, <1>16, <1>17, <1>18, <1>19 DEF Next, Receive, Handle

\* A filing that nobody overlaps commits what its check allowed.
LEMMA FilingStep ==
  ASSUME TypeOK, JobInv, NumberInv, FilingInv, [Next]_vars
  PROVE  FilingInv'
<1>. USE IntakeAssumption DEF TypeOK, KeyRow, NoKey, Complaint, Sequence, Steps, Job, At,
     Idle, Begin, Await, Return, tables, historyVars, JobInv, FilingInv, Filing, filing,
     duplicates, NoDoubleSubmit
<1>1. ASSUME NEW w \in Workers, NEW b \in Bodies, plainComplaint(w, b)
      PROVE  FilingInv'
  BY <1>1 DEF plainComplaint
<1>2. ASSUME NEW w \in Workers, NEW b \in Bodies, lookup(w, b)
      PROVE  FilingInv'
  BY <1>2 DEF lookup
<1>3. ASSUME NEW w \in Workers, NEW b \in Bodies, createRequest(w, b)
      PROVE  FilingInv'
  BY <1>3 DEF createRequest
<1>4. ASSUME NEW w \in Workers, claim(w)
      PROVE  FilingInv'
  BY <1>4 DEF claim
<1>5. ASSUME NEW w \in Workers, store(w)
      PROVE  FilingInv'
  BY <1>5 DEF store
<1>6. ASSUME NEW w \in Workers, forget(w)
      PROVE  FilingInv'
  BY <1>6 DEF forget
<1>7. ASSUME NEW w \in Workers, create(w)
      PROVE  FilingInv'
  BY <1>7 DEF create
<1>8. ASSUME NEW w \in Workers, createFails(w)
      PROVE  FilingInv'
  BY <1>8 DEF createFails, Answer
<1>9. ASSUME NEW w \in Workers, nextTrackingId(w)
      PROVE  FilingInv'
  BY <1>9 DEF nextTrackingId
<1>10. ASSUME NEW w \in Workers, createCommit(w)
      PROVE  FilingInv'
  BY <1>10 DEF createCommit, Answer
<1>11. ASSUME NEW w \in Workers, requestCommit(w)
      PROVE  FilingInv'
  BY <1>11 DEF requestCommit, Answer
<1>12. ASSUME NEW w \in Workers, Crash(w)
      PROVE  FilingInv'
  BY <1>12 DEF Crash
<1>13. ASSUME NEW c \in filed, ages(c)
      PROVE  FilingInv'
  <2>1. \A d \in filed' : d.state = "open" => d \in filed /\ d.no # c.no
    BY <1>13 DEF ages, InState, NumberInv
  <2>2. \A d \in filed' : d.state = "open" /\ d.no \in broughtBack => d.no \in broughtBack'
    BY <1>13, <2>1 DEF ages
  <2>3. UNCHANGED <<job, twoFilings>>
    BY <1>13 DEF ages
  <2>. QED
    BY <2>1, <2>2, <2>3
<1>18. ASSUME NEW c \in filed, closes(c)
      PROVE  FilingInv'
  <2>1. \A d \in filed' : d.state = "open" => d \in filed /\ d.no # c.no
    BY <1>18 DEF closes, InState, NumberInv
  <2>2. \A d \in filed' : d.state = "open" /\ d.no \in broughtBack => d.no \in broughtBack'
    BY <1>18, <2>1 DEF closes
  <2>3. UNCHANGED <<job, twoFilings>>
    BY <1>18 DEF closes
  <2>. QED
    BY <2>1, <2>2, <2>3
<1>19. ASSUME NEW c \in filed, comesBack(c)
      PROVE  FilingInv'
  <2>1. PICK e : e = InState(c, "open")
    OBVIOUS
  <2>2. /\ filed' = (filed \ {c}) \cup {e}
        /\ e.no = c.no /\ e.body = c.body
        /\ UNCHANGED <<job, twoFilings>>
        /\ broughtBack \subseteq broughtBack'
        /\ duplicates(c.body) # {} \/ filing(Spot[c.body]) # {} => c.no \in broughtBack'
    BY <1>19, <2>1 DEF comesBack, InState
  <2>3. \A w \in Workers, d \in filed' :
          Filing(w) /\ Spot[d.body] = Spot[job[w].b] /\ d.state = "open" =>
            d.no \in broughtBack' \/ Spot[d.body] \in twoFilings
    BY <2>2
  <2>4. \A d \in filed \ {c} :
          Spot[d.body] = Spot[e.body] /\ d.state = "open" => e.no \in broughtBack'
    BY <2>2
  <2>5. NoDoubleSubmit'
    BY <2>2, <2>4
  <2>. QED
    BY <2>2, <2>3, <2>5
<1>14. ASSUME keyExpires
      PROVE  FilingInv'
  BY <1>14 DEF keyExpires
<1>15. ASSUME purgeKey
      PROVE  FilingInv'
  BY <1>15 DEF purgeKey
<1>16. CASE UNCHANGED vars
  BY <1>16 DEF vars
<1>17. ASSUME NEW w \in Workers, createThrows(w)
      PROVE  FilingInv'
  BY <1>17 DEF createThrows, Answer
<1>. QED
  BY <1>1, <1>2, <1>3, <1>4, <1>5, <1>6, <1>7, <1>8, <1>9, <1>10, <1>11, <1>12, <1>13,
     <1>14, <1>15, <1>16, <1>17, <1>18, <1>19 DEF Next, Receive, Handle

-----------------------------------------------------------------------------
\* Nothing is filed, no key is known and nobody is in flight.
LEMMA InvInit == Init => Inv
BY IntakeAssumption DEF Init, Inv, TypeOK, JobInv, LockInv, NumberInv, KeyInv, FilingInv, Filing,
   NoDoubleSubmit, KeyRow, NoKey, Sequence, Steps, Job, At, Idle

\* Each request's step keeps what the others rely on.
LEMMA InvStep == Inv /\ [Next]_vars => Inv'
BY TypeStep, LockStep, NumberStep, KeyStep, FilingStep DEF Inv

\* The invariant holds in every state of every behaviour.
THEOREM Invariance == Spec => []Inv
BY InvInit, InvStep, PTL DEF Spec

\* The key's row, the tables and the locals are well formed.
THEOREM TypeCorrect == Spec => []TypeOK
<1>1. Inv => TypeOK
  BY DEF Inv
<1>. QED
  BY <1>1, Invariance, PTL

\* trackingId.ts: no number is given twice and none is lost, for any number of creates at once
\* and crashes anywhere.
THEOREM NumbersAreGivenOnce == Spec => []Numbered
<1>1. Inv => Numbered
  <2>. SUFFICES ASSUME Inv
                PROVE  Numbered
    OBVIOUS
  <2>1. {c.no : c \in filed} = 1 .. counter["CC"]
    BY DEF Inv, NumberInv
  <2>2. requests = 1 .. counter["SR"]
    BY DEF Inv, NumberInv
  <2>. QED
    BY <2>1, <2>2 DEF Inv, NumberInv, Numbered
<1>. QED
  BY <1>1, Invariance, PTL

\* idempotency.ts: what would be replayed answers the body it is replayed for, as long as the
\* key's requests come one after another.
THEOREM ReplaysMatch == Spec => []ReplayMatches
<1>1. Inv => ReplayMatches
  BY DEF Inv, TypeOK, KeyInv, ReplayMatches
<1>. QED
  BY <1>1, Invariance, PTL

\* create: a citizen's open complaints of a day are about different things, as long as filings
\* about a place come one after another and nothing is brought back beside another.
THEOREM NobodyFilesTwice == Spec => []NoDoubleSubmit
<1>1. Inv => NoDoubleSubmit
  BY DEF Inv, FilingInv
<1>. QED
  BY <1>1, Invariance, PTL

\* What a step may do to an answer that can be replayed.
KeepsTheAnswer ==
  key.state = "live" /\ key.done = "yes" /\ key' # key => keyExpires \/ twoKeys = "yes"

\* No request that is alone with its key takes a stored answer away.
LEMMA AnswerStep ==
  ASSUME TypeOK, JobInv, KeyInv, [Next]_vars
  PROVE  KeepsTheAnswer
<1>. USE IntakeAssumption DEF TypeOK, KeyRow, NoKey, Complaint, Sequence, Steps, Job, At,
     Idle, Begin, Await, Return, tables, historyVars, JobInv, KeyInv, KeepsTheAnswer
<1>1. ASSUME NEW w \in Workers, NEW b \in Bodies, plainComplaint(w, b)
      PROVE  KeepsTheAnswer
  BY <1>1 DEF plainComplaint
<1>2. ASSUME NEW w \in Workers, NEW b \in Bodies, lookup(w, b)
      PROVE  KeepsTheAnswer
  BY <1>2 DEF lookup
<1>3. ASSUME NEW w \in Workers, NEW b \in Bodies, createRequest(w, b)
      PROVE  KeepsTheAnswer
  BY <1>3 DEF createRequest
<1>4. ASSUME NEW w \in Workers, claim(w)
      PROVE  KeepsTheAnswer
  BY <1>4 DEF claim
<1>5. ASSUME NEW w \in Workers, store(w)
      PROVE  KeepsTheAnswer
  BY <1>5 DEF store
<1>6. ASSUME NEW w \in Workers, forget(w)
      PROVE  KeepsTheAnswer
  BY <1>6 DEF forget
<1>7. ASSUME NEW w \in Workers, create(w)
      PROVE  KeepsTheAnswer
  BY <1>7 DEF create
<1>8. ASSUME NEW w \in Workers, createFails(w)
      PROVE  KeepsTheAnswer
  BY <1>8 DEF createFails, Answer
<1>9. ASSUME NEW w \in Workers, nextTrackingId(w)
      PROVE  KeepsTheAnswer
  BY <1>9 DEF nextTrackingId
<1>10. ASSUME NEW w \in Workers, createCommit(w)
      PROVE  KeepsTheAnswer
  BY <1>10 DEF createCommit, Answer
<1>11. ASSUME NEW w \in Workers, requestCommit(w)
      PROVE  KeepsTheAnswer
  BY <1>11 DEF requestCommit, Answer
<1>12. ASSUME NEW w \in Workers, Crash(w)
      PROVE  KeepsTheAnswer
  BY <1>12 DEF Crash
<1>13. ASSUME NEW c \in filed, ages(c)
      PROVE  KeepsTheAnswer
  BY <1>13 DEF ages, InState
<1>18. ASSUME NEW c \in filed, closes(c)
      PROVE  KeepsTheAnswer
  BY <1>18 DEF closes, InState
<1>19. ASSUME NEW c \in filed, comesBack(c)
      PROVE  KeepsTheAnswer
  BY <1>19 DEF comesBack, InState
<1>14. ASSUME keyExpires
      PROVE  KeepsTheAnswer
  BY <1>14 DEF keyExpires
<1>15. ASSUME purgeKey
      PROVE  KeepsTheAnswer
  BY <1>15 DEF purgeKey
<1>16. CASE UNCHANGED vars
  BY <1>16 DEF vars
<1>17. ASSUME NEW w \in Workers, createThrows(w)
      PROVE  KeepsTheAnswer
  BY <1>17 DEF createThrows, Answer
<1>. QED
  BY <1>1, <1>2, <1>3, <1>4, <1>5, <1>6, <1>7, <1>8, <1>9, <1>10, <1>11, <1>12, <1>13,
     <1>14, <1>15, <1>16, <1>17, <1>18, <1>19 DEF Next, Receive, Handle

\* idempotency.ts: a stored answer lasts until it expires, as long as the key's requests come
\* one after another.
THEOREM AnswersLast == Spec => AnswerKept
<1>1. Inv /\ [Next]_vars => [KeepsTheAnswer]_vars
  BY AnswerStep DEF Inv
<1>2. Spec => [][KeepsTheAnswer]_vars
  BY <1>1, Invariance, PTL DEF Spec
<1>. QED
  BY <1>2 DEF AnswerKept, KeepsTheAnswer
=============================================================================

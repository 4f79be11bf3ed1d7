---------------------------- MODULE SignInProofs ----------------------------
(***************************************************************************)
(* Proofs about Challenges and Signup, for any number of challenges,       *)
(* addresses, rows, mails and handlers in flight and any limits.           *)
(***************************************************************************)
EXTENDS Challenges, Signup, FiniteSetTheorems, TLAPS

-----------------------------------------------------------------------------
(* Challenges: the inductive invariant                                     *)

\* What each await needs of the locals of a handler; a copy that will be written has attempts left.
JobInv ==
  \A w \in Workers :
    LET j == job[w] IN
    /\ j.pc \notin {"idle", "address", "compare", "ipFail", "issue"} => j.c \in Challenges
    /\ j.pc \in {"store", "restore", "cool", "magicChallenge", "magicDel"} => j.m \in Mails
    /\ j.pc \in {"endLink", "endKey"} /\ j.how = "link" => j.m \in Mails
    /\ j.pc \in {"keep", "store", "restore"} => j.ch.attempts < MaxAttempts

\* The attempts of a stored challenge.
AttemptsInv == \A c \in Challenges : challenge[c].attempts < MaxAttempts

\* A link stands, is being used, or has been used: one of the three, and once.
LinkInv ==
  \A m \in Mails :
    /\ m \notin drawn => byLink[m] = 0
    /\ link[m] # NoChallenge =>
         m \in drawn /\ byLink[m] = 0 /\ \A w \in Workers : ~Using(w, m)
    /\ \A w \in Workers : Using(w, m) =>
         m \in drawn /\ byLink[m] = 0 /\ \A v \in Workers : Using(v, m) => v = w
    /\ byLink[m] <= 1

\* A challenge id that was not drawn is nowhere.
FreshInv ==
  \A c \in Challenges : c \notin issued =>
    /\ ~present(c)
    /\ byCode[c] = 0
    /\ \A w \in Workers : job[w].c # c
    /\ \A m \in Mails : link[m] # c

\* Until its first write nobody holds a copy of a challenge that could be used or written.
StoreInv ==
  \A w \in Workers : job[w].pc = "store" =>
    /\ ~present(job[w].c)
    /\ byCode[job[w].c] = 0
    /\ \A v \in Workers : v # w /\ job[v].c = job[w].c => job[v].pc = "magicChallenge"

\* A record that stands is a session its codes may still open.
CodeInv ==
  \A c \in Challenges :
    /\ byCode[c] <= 1 + late[c]
    /\ present(c) => byCode[c] <= late[c]

\* The handlers that will still count a failure.
Failing(j, k) ==
  {w \in Workers : j[w].pc = "compare" \/ (k = "ip" /\ j[w].pc \in {"address", "ipFail"})}

\* A counter and the handlers that may still raise it stay below the limit, give or take the
\* handlers in flight together and those that read nothing.
FailInv ==
  \A k \in Counters :
    fails[k] + Cardinality(Failing(job, k)) < MaxFails[k] + Cardinality(Workers) + blind

-----------------------------------------------------------------------------
(* Challenges: types                                                       *)

\* Every step of every handler keeps the keys, the locals and the copies well formed.
LEMMA TypeStep ==
  ASSUME TypeOK, JobInv, AttemptsInv, [Next]_vars
  PROVE  TypeOK' /\ JobInv' /\ AttemptsInv'
<1>. USE MailingAssumption, ChallengesAssumption
        DEF TypeOK, JobInv, AttemptsInv, redisVars, mailVars,
     historyVars, Begin, Await, Return, At, Idle, Job, Steps, Writers, Endings, LoginChallenge,
     NoRecord, Counters, present, linkOf, mailsOf
<1>1. ASSUME NEW c \in Challenges, challengeExpires(c)
      PROVE  TypeOK' /\ JobInv' /\ AttemptsInv'
  BY <1>1 DEF challengeExpires
<1>2. ASSUME NEW c \in Challenges, cooldownExpires(c)
      PROVE  TypeOK' /\ JobInv' /\ AttemptsInv'
  BY <1>2 DEF cooldownExpires
<1>3. ASSUME NEW m \in Mails, linkExpires(m)
      PROVE  TypeOK' /\ JobInv' /\ AttemptsInv'
  BY <1>3 DEF linkExpires
<1>4. ASSUME NEW k \in Counters, failsExpire(k)
      PROVE  TypeOK' /\ JobInv' /\ AttemptsInv'
  BY <1>4 DEF failsExpire
<1>5. ASSUME NEW w \in Workers, loginRead(w)
      PROVE  TypeOK' /\ JobInv' /\ AttemptsInv'
  BY <1>5 DEF loginRead, passes
<1>33. ASSUME NEW w \in Workers, loginReadEmail(w)
      PROVE  TypeOK' /\ JobInv' /\ AttemptsInv'
  <2>1. \/ job' = [job EXCEPT ![w] = At("compare", NoChallenge, NoMail, NoRecord, "code")]
        \/ job' = [job EXCEPT ![w] = Idle]
    BY <1>33 DEF loginReadEmail
  <2>2. blind' \in 0 .. MaxBlind /\ UNCHANGED <<redisVars, fails, mailVars, byCode, byLink, late>>
    BY <1>33 DEF loginReadEmail, passes
  <2>3. CASE job' = [job EXCEPT ![w] = At("compare", NoChallenge, NoMail, NoRecord, "code")]
    BY <2>2, <2>3
  <2>4. CASE job' = [job EXCEPT ![w] = Idle]
    BY <2>2, <2>4
  <2>. QED
    BY <2>1, <2>3, <2>4
<1>6. ASSUME NEW w \in Workers, NEW c \in Challenges, verifyMismatch(w, c)
      PROVE  TypeOK' /\ JobInv' /\ AttemptsInv'
  BY <1>6 DEF verifyMismatch
<1>7. ASSUME NEW w \in Workers, NEW c \in Challenges, verifyWrong(w, c)
      PROVE  TypeOK' /\ JobInv' /\ AttemptsInv'
  <2>1. CASE challenge[c].attempts + 1 >= MaxAttempts
    <3>1. job' = [job EXCEPT ![w] = At("endLink", c, NoMail, linkOf(challenge[c]), "limit")]
      BY <1>7, <2>1 DEF verifyWrong
    <3>. QED
      BY <1>7, <3>1 DEF verifyWrong
  <2>2. CASE ~(challenge[c].attempts + 1 >= MaxAttempts)
    <3>1. job' = [job EXCEPT ![w] =
      At("keep", c, NoMail, [code |-> challenge[c].code, magic |-> challenge[c].magic,
                             attempts |-> challenge[c].attempts + 1,
                             resends |-> challenge[c].resends], "limit")]
      BY <1>7, <2>2 DEF verifyWrong
    <3>. QED
      BY <1>7, <3>1 DEF verifyWrong
  <2>. QED
    BY <2>1, <2>2
<1>8. ASSUME NEW w \in Workers, NEW c \in Challenges, verifyRight(w, c)
      PROVE  TypeOK' /\ JobInv' /\ AttemptsInv'
  BY <1>8 DEF verifyRight
<1>9. ASSUME NEW w \in Workers, NEW c \in Challenges, resendRead(w, c)
      PROVE  TypeOK' /\ JobInv' /\ AttemptsInv'
  BY <1>9 DEF resendRead
<1>10. ASSUME NEW w \in Workers, NEW c \in Challenges, toggleRead(w, c)
       PROVE  TypeOK' /\ JobInv' /\ AttemptsInv'
  BY <1>10 DEF toggleRead
<1>11. ASSUME NEW w \in Workers, NEW c \in Challenges, NEW m \in Mails, issueCode(w, c, m)
       PROVE  TypeOK' /\ JobInv' /\ AttemptsInv'
  BY <1>11 DEF issueCode
<1>12. ASSUME NEW w \in Workers, NEW c \in Challenges, NEW m \in Mails, googleChallenge(w, c, m)
       PROVE  TypeOK' /\ JobInv' /\ AttemptsInv'
  BY <1>12 DEF googleChallenge
<1>13. ASSUME NEW w \in Workers, NEW m \in Mails, magicRead(w, m)
       PROVE  TypeOK' /\ JobInv' /\ AttemptsInv'
  BY <1>13 DEF magicRead
<1>14. ASSUME NEW w \in Workers, loginWrong(w)
       PROVE  TypeOK' /\ JobInv' /\ AttemptsInv'
  BY <1>14 DEF loginWrong
<1>15. ASSUME NEW w \in Workers, loginWrongIp(w)
       PROVE  TypeOK' /\ JobInv' /\ AttemptsInv'
  BY <1>15 DEF loginWrongIp
<1>16. ASSUME NEW w \in Workers, NEW twoFactor \in BOOLEAN, loginRight(w, twoFactor)
       PROVE  TypeOK' /\ JobInv' /\ AttemptsInv'
  <2>1. CASE twoFactor
    <3>1. job' = [job EXCEPT ![w] = At("issue", NoChallenge, NoMail, NoRecord, "code")]
      BY <1>16, <2>1 DEF loginRight
    <3>. QED
      BY <1>16, <3>1 DEF loginRight
  <2>2. CASE ~(twoFactor)
    <3>1. job' = [job EXCEPT ![w] = Idle]
      BY <1>16, <2>2 DEF loginRight
    <3>. QED
      BY <1>16, <3>1 DEF loginRight
  <2>. QED
    BY <2>1, <2>2
<1>17. ASSUME NEW w \in Workers, NEW c \in Challenges, NEW m \in Mails, loginLink(w, c, m)
       PROVE  TypeOK' /\ JobInv' /\ AttemptsInv'
  BY <1>17 DEF loginLink
<1>18. ASSUME NEW w \in Workers, storeChallenge(w)
       PROVE  TypeOK' /\ JobInv' /\ AttemptsInv'
  BY <1>18 DEF storeChallenge
<1>19. ASSUME NEW w \in Workers, verifyMismatchDel(w)
       PROVE  TypeOK' /\ JobInv' /\ AttemptsInv'
  BY <1>19 DEF verifyMismatchDel
<1>20. ASSUME NEW w \in Workers, verifyKeep(w)
       PROVE  TypeOK' /\ JobInv' /\ AttemptsInv'
  BY <1>20 DEF verifyKeep
<1>21. ASSUME NEW w \in Workers, magicChallenge(w)
       PROVE  TypeOK' /\ JobInv' /\ AttemptsInv'
  <2>1. CASE present(job[w].c)
    <3>1. job' = [job EXCEPT ![w] =
                    At("magicDel", job[w].c, job[w].m, linkOf(challenge[job[w].c]), "link")]
      BY <1>21, <2>1 DEF magicChallenge
    <3>. QED
      BY <1>21, <3>1 DEF magicChallenge
  <2>2. CASE ~(present(job[w].c))
    <3>1. job' = [job EXCEPT ![w] = Idle]
      BY <1>21, <2>2 DEF magicChallenge
    <3>. QED
      BY <1>21, <3>1 DEF magicChallenge
  <2>. QED
    BY <2>1, <2>2
<1>22. ASSUME NEW w \in Workers, magicDel(w)
       PROVE  TypeOK' /\ JobInv' /\ AttemptsInv'
  <2>1. CASE link[job[w].m] # NoChallenge
    <3>1. job' = [job EXCEPT ![w] = At("endLink", job[w].c, job[w].m, job[w].ch, "link")]
      BY <1>22, <2>1 DEF magicDel
    <3>. QED
      BY <1>22, <3>1 DEF magicDel
  <2>2. CASE ~(link[job[w].m] # NoChallenge)
    <3>1. job' = [job EXCEPT ![w] = Idle]
      BY <1>22, <2>2 DEF magicDel
    <3>. QED
      BY <1>22, <3>1 DEF magicDel
  <2>. QED
    BY <2>1, <2>2
<1>23. ASSUME NEW w \in Workers, endLink(w)
       PROVE  TypeOK' /\ JobInv' /\ AttemptsInv'
  BY <1>23 DEF endLink
<1>24. ASSUME NEW w \in Workers, endKey(w)
       PROVE  TypeOK' /\ JobInv' /\ AttemptsInv'
  BY <1>24 DEF endKey
<1>25. ASSUME NEW w \in Workers, resendCooldown(w)
       PROVE  TypeOK' /\ JobInv' /\ AttemptsInv'
  <2>1. CASE job[w].c \in cooldown
    <3>1. job' = [job EXCEPT ![w] = Idle]
      BY <1>25, <2>1 DEF resendCooldown
    <3>. QED
      BY <1>25, <3>1 DEF resendCooldown
  <2>2. CASE ~(job[w].c \in cooldown)
    <3>1. job' = [job EXCEPT ![w] = At("unlink", job[w].c, NoMail, job[w].ch, "code")]
      BY <1>25, <2>2 DEF resendCooldown
    <3>. QED
      BY <1>25, <3>1 DEF resendCooldown
  <2>. QED
    BY <2>1, <2>2
<1>26. ASSUME NEW w \in Workers, resendUnlink(w)
       PROVE  TypeOK' /\ JobInv' /\ AttemptsInv'
  BY <1>26 DEF resendUnlink
<1>27. ASSUME NEW w \in Workers, NEW m \in Mails, resendLink(w, m)
       PROVE  TypeOK' /\ JobInv' /\ AttemptsInv'
  BY <1>27 DEF resendLink
<1>28. ASSUME NEW w \in Workers, resendStore(w)
       PROVE  TypeOK' /\ JobInv' /\ AttemptsInv'
  <2>1. /\ job[w].c \in Challenges /\ job[w].m \in Mails
        /\ job[w].ch \in LoginChallenge /\ job[w].ch.attempts < MaxAttempts
    BY <1>28 DEF resendStore
  <2>2. challenge' \in [Challenges -> LoginChallenge] /\ AttemptsInv'
    BY <1>28, <2>1 DEF resendStore
  <2>3. late' \in [Challenges -> Nat]
    BY <1>28, <2>1 DEF resendStore
  <2>4. job' \in [Workers -> Job] /\ JobInv'
    BY <1>28, <2>1 DEF resendStore
  <2>. QED
    BY <1>28, <2>2, <2>3, <2>4 DEF resendStore
<1>29. ASSUME NEW w \in Workers, resendMail(w)
       PROVE  TypeOK' /\ JobInv' /\ AttemptsInv'
  BY <1>29 DEF resendMail
<1>30. ASSUME NEW w \in Workers, toggleDel(w)
       PROVE  TypeOK' /\ JobInv' /\ AttemptsInv'
  BY <1>30 DEF toggleDel
<1>31. ASSUME NEW w \in Workers, Crash(w)
       PROVE  TypeOK' /\ JobInv' /\ AttemptsInv'
  BY <1>31 DEF Crash
<1>32. CASE UNCHANGED vars
  BY <1>32 DEF vars
<1>. QED
  BY <1>1, <1>2, <1>3, <1>4, <1>5, <1>6, <1>7, <1>8, <1>9, <1>10, <1>11, <1>12, <1>13,
     <1>14, <1>15, <1>16, <1>17, <1>18, <1>19, <1>20, <1>21, <1>22, <1>23, <1>24, <1>25,
     <1>26, <1>27, <1>28, <1>29, <1>30, <1>31, <1>32, <1>33
     DEF Next, Receive, Handle

-----------------------------------------------------------------------------
(* Challenges: links                                                       *)

\* Only whoever removed a link uses it, and a link is set once.
LEMMA LinkStep ==
  ASSUME TypeOK, JobInv, LinkInv, [Next]_vars
  PROVE  LinkInv'
<1>. USE MailingAssumption, ChallengesAssumption
        DEF TypeOK, JobInv, LinkInv, Using, redisVars, mailVars,
     historyVars, Begin, Await, Return, At, Idle
<1>1. ASSUME NEW c \in Challenges, challengeExpires(c)
      PROVE  LinkInv'
  BY <1>1 DEF challengeExpires
<1>2. ASSUME NEW c \in Challenges, cooldownExpires(c)
      PROVE  LinkInv'
  BY <1>2 DEF cooldownExpires
<1>3. ASSUME NEW m \in Mails, linkExpires(m)
      PROVE  LinkInv'
  BY <1>3 DEF linkExpires
<1>4. ASSUME NEW k \in Counters, failsExpire(k)
      PROVE  LinkInv'
  BY <1>4 DEF failsExpire
<1>5. ASSUME NEW w \in Workers, loginRead(w)
      PROVE  LinkInv'
  BY <1>5 DEF loginRead, passes
<1>33. ASSUME NEW w \in Workers, loginReadEmail(w)
      PROVE  LinkInv'
  BY <1>33 DEF loginReadEmail, passes
<1>6. ASSUME NEW w \in Workers, NEW c \in Challenges, verifyMismatch(w, c)
      PROVE  LinkInv'
  BY <1>6 DEF verifyMismatch
<1>7. ASSUME NEW w \in Workers, NEW c \in Challenges, verifyWrong(w, c)
      PROVE  LinkInv'
  BY <1>7 DEF verifyWrong
<1>8. ASSUME NEW w \in Workers, NEW c \in Challenges, verifyRight(w, c)
      PROVE  LinkInv'
  BY <1>8 DEF verifyRight
<1>9. ASSUME NEW w \in Workers, NEW c \in Challenges, resendRead(w, c)
      PROVE  LinkInv'
  BY <1>9 DEF resendRead
<1>10. ASSUME NEW w \in Workers, NEW c \in Challenges, toggleRead(w, c)
       PROVE  LinkInv'
  BY <1>10 DEF toggleRead
<1>11. ASSUME NEW w \in Workers, NEW c \in Challenges, NEW m \in Mails, issueCode(w, c, m)
       PROVE  LinkInv'
  BY <1>11 DEF issueCode
<1>12. ASSUME NEW w \in Workers, NEW c \in Challenges, NEW m \in Mails, googleChallenge(w, c, m)
       PROVE  LinkInv'
  BY <1>12 DEF googleChallenge
<1>13. ASSUME NEW w \in Workers, NEW m \in Mails, magicRead(w, m)
       PROVE  LinkInv'
  BY <1>13 DEF magicRead
<1>14. ASSUME NEW w \in Workers, loginWrong(w)
       PROVE  LinkInv'
  BY <1>14 DEF loginWrong
<1>15. ASSUME NEW w \in Workers, loginWrongIp(w)
       PROVE  LinkInv'
  BY <1>15 DEF loginWrongIp
<1>16. ASSUME NEW w \in Workers, NEW twoFactor \in BOOLEAN, loginRight(w, twoFactor)
       PROVE  LinkInv'
  BY <1>16 DEF loginRight
<1>17. ASSUME NEW w \in Workers, NEW c \in Challenges, NEW m \in Mails, loginLink(w, c, m)
       PROVE  LinkInv'
  BY <1>17 DEF loginLink
<1>18. ASSUME NEW w \in Workers, storeChallenge(w)
       PROVE  LinkInv'
  BY <1>18 DEF storeChallenge
<1>19. ASSUME NEW w \in Workers, verifyMismatchDel(w)
       PROVE  LinkInv'
  BY <1>19 DEF verifyMismatchDel
<1>20. ASSUME NEW w \in Workers, verifyKeep(w)
       PROVE  LinkInv'
  BY <1>20 DEF verifyKeep
<1>21. ASSUME NEW w \in Workers, magicChallenge(w)
       PROVE  LinkInv'
  BY <1>21 DEF magicChallenge
<1>22. ASSUME NEW w \in Workers, magicDel(w)
       PROVE  LinkInv'
  BY <1>22 DEF magicDel
<1>23. ASSUME NEW w \in Workers, endLink(w)
       PROVE  LinkInv'
  BY <1>23 DEF endLink
<1>24. ASSUME NEW w \in Workers, endKey(w)
       PROVE  LinkInv'
  BY <1>24 DEF endKey
<1>25. ASSUME NEW w \in Workers, resendCooldown(w)
       PROVE  LinkInv'
  BY <1>25 DEF resendCooldown
<1>26. ASSUME NEW w \in Workers, resendUnlink(w)
       PROVE  LinkInv'
  BY <1>26 DEF resendUnlink
<1>27. ASSUME NEW w \in Workers, NEW m \in Mails, resendLink(w, m)
       PROVE  LinkInv'
  BY <1>27 DEF resendLink
<1>28. ASSUME NEW w \in Workers, resendStore(w)
       PROVE  LinkInv'
  BY <1>28 DEF resendStore
<1>29. ASSUME NEW w \in Workers, resendMail(w)
       PROVE  LinkInv'
  BY <1>29 DEF resendMail
<1>30. ASSUME NEW w \in Workers, toggleDel(w)
       PROVE  LinkInv'
  BY <1>30 DEF toggleDel
<1>31. ASSUME NEW w \in Workers, Crash(w)
       PROVE  LinkInv'
  BY <1>31 DEF Crash
<1>32. CASE UNCHANGED vars
  BY <1>32 DEF vars
<1>. QED
  BY <1>1, <1>2, <1>3, <1>4, <1>5, <1>6, <1>7, <1>8, <1>9, <1>10, <1>11, <1>12, <1>13,
     <1>14, <1>15, <1>16, <1>17, <1>18, <1>19, <1>20, <1>21, <1>22, <1>23, <1>24, <1>25,
     <1>26, <1>27, <1>28, <1>29, <1>30, <1>31, <1>32, <1>33
     DEF Next, Receive, Handle

-----------------------------------------------------------------------------
(* Challenges: codes                                                       *)

\* Before its first write a challenge is known to its issuer alone; afterwards every session
\* its codes open takes a record away.
LEMMA CodeStep ==
  ASSUME TypeOK, JobInv, FreshInv, StoreInv, CodeInv, [Next]_vars
  PROVE  FreshInv' /\ StoreInv' /\ CodeInv'
<1>. USE MailingAssumption, ChallengesAssumption DEF TypeOK, JobInv, FreshInv, StoreInv, CodeInv,
     present, redisVars, mailVars, historyVars, Begin, Await, Return, At, Idle, NoRecord
<1>1. ASSUME NEW c \in Challenges, challengeExpires(c)
      PROVE  FreshInv' /\ StoreInv' /\ CodeInv'
  BY <1>1 DEF challengeExpires
<1>2. ASSUME NEW c \in Challenges, cooldownExpires(c)
      PROVE  FreshInv' /\ StoreInv' /\ CodeInv'
  BY <1>2 DEF cooldownExpires
<1>3. ASSUME NEW m \in Mails, linkExpires(m)
      PROVE  FreshInv' /\ StoreInv' /\ CodeInv'
  BY <1>3 DEF linkExpires
<1>4. ASSUME NEW k \in Counters, failsExpire(k)
      PROVE  FreshInv' /\ StoreInv' /\ CodeInv'
  BY <1>4 DEF failsExpire
<1>5. ASSUME NEW w \in Workers, loginRead(w)
      PROVE  FreshInv' /\ StoreInv' /\ CodeInv'
  BY <1>5 DEF loginRead, passes
<1>33. ASSUME NEW w \in Workers, loginReadEmail(w)
      PROVE  FreshInv' /\ StoreInv' /\ CodeInv'
  <2>1. \/ job' = [job EXCEPT ![w] = At("compare", NoChallenge, NoMail, NoRecord, "code")]
        \/ job' = [job EXCEPT ![w] = Idle]
    BY <1>33 DEF loginReadEmail
  <2>2. blind' \in 0 .. MaxBlind /\ UNCHANGED <<redisVars, fails, mailVars, byCode, byLink, late>>
    BY <1>33 DEF loginReadEmail, passes
  <2>3. CASE job' = [job EXCEPT ![w] = At("compare", NoChallenge, NoMail, NoRecord, "code")]
    BY <2>2, <2>3
  <2>4. CASE job' = [job EXCEPT ![w] = Idle]
    BY <2>2, <2>4
  <2>. QED
    BY <2>1, <2>3, <2>4
<1>6. ASSUME NEW w \in Workers, NEW c \in Challenges, verifyMismatch(w, c)
      PROVE  FreshInv' /\ StoreInv' /\ CodeInv'
  BY <1>6 DEF verifyMismatch
<1>7. ASSUME NEW w \in Workers, NEW c \in Challenges, verifyWrong(w, c)
      PROVE  FreshInv' /\ StoreInv' /\ CodeInv'
  BY <1>7 DEF verifyWrong
<1>8. ASSUME NEW w \in Workers, NEW c \in Challenges, verifyRight(w, c)
      PROVE  FreshInv' /\ StoreInv' /\ CodeInv'
  BY <1>8 DEF verifyRight
<1>9. ASSUME NEW w \in Workers, NEW c \in Challenges, resendRead(w, c)
      PROVE  FreshInv' /\ StoreInv' /\ CodeInv'
  BY <1>9 DEF resendRead
<1>10. ASSUME NEW w \in Workers, NEW c \in Challenges, toggleRead(w, c)
       PROVE  FreshInv' /\ StoreInv' /\ CodeInv'
  BY <1>10 DEF toggleRead
<1>11. ASSUME NEW w \in Workers, NEW c \in Challenges, NEW m \in Mails, issueCode(w, c, m)
       PROVE  FreshInv' /\ StoreInv' /\ CodeInv'
  BY <1>11 DEF issueCode
<1>12. ASSUME NEW w \in Workers, NEW c \in Challenges, NEW m \in Mails, googleChallenge(w, c, m)
       PROVE  FreshInv' /\ StoreInv' /\ CodeInv'
  BY <1>12 DEF googleChallenge
<1>13. ASSUME NEW w \in Workers, NEW m \in Mails, magicRead(w, m)
       PROVE  FreshInv' /\ StoreInv' /\ CodeInv'
  BY <1>13 DEF magicRead
<1>14. ASSUME NEW w \in Workers, loginWrong(w)
       PROVE  FreshInv' /\ StoreInv' /\ CodeInv'
  BY <1>14 DEF loginWrong
<1>15. ASSUME NEW w \in Workers, loginWrongIp(w)
       PROVE  FreshInv' /\ StoreInv' /\ CodeInv'
  BY <1>15 DEF loginWrongIp
<1>16. ASSUME NEW w \in Workers, NEW twoFactor \in BOOLEAN, loginRight(w, twoFactor)
       PROVE  FreshInv' /\ StoreInv' /\ CodeInv'
  BY <1>16 DEF loginRight
<1>17. ASSUME NEW w \in Workers, NEW c \in Challenges, NEW m \in Mails, loginLink(w, c, m)
       PROVE  FreshInv' /\ StoreInv' /\ CodeInv'
  BY <1>17 DEF loginLink
<1>18. ASSUME NEW w \in Workers, storeChallenge(w)
       PROVE  FreshInv' /\ StoreInv' /\ CodeInv'
  BY <1>18 DEF storeChallenge
<1>19. ASSUME NEW w \in Workers, verifyMismatchDel(w)
       PROVE  FreshInv' /\ StoreInv' /\ CodeInv'
  BY <1>19 DEF verifyMismatchDel
<1>20. ASSUME NEW w \in Workers, verifyKeep(w)
       PROVE  FreshInv' /\ StoreInv' /\ CodeInv'
  BY <1>20 DEF verifyKeep
<1>21. ASSUME NEW w \in Workers, magicChallenge(w)
       PROVE  FreshInv' /\ StoreInv' /\ CodeInv'
  BY <1>21 DEF magicChallenge
<1>22. ASSUME NEW w \in Workers, magicDel(w)
       PROVE  FreshInv' /\ StoreInv' /\ CodeInv'
  BY <1>22 DEF magicDel
<1>23. ASSUME NEW w \in Workers, endLink(w)
       PROVE  FreshInv' /\ StoreInv' /\ CodeInv'
  BY <1>23 DEF endLink
<1>24. ASSUME NEW w \in Workers, endKey(w)
       PROVE  FreshInv' /\ StoreInv' /\ CodeInv'
  BY <1>24 DEF endKey
<1>25. ASSUME NEW w \in Workers, resendCooldown(w)
       PROVE  FreshInv' /\ StoreInv' /\ CodeInv'
  BY <1>25 DEF resendCooldown
<1>26. ASSUME NEW w \in Workers, resendUnlink(w)
       PROVE  FreshInv' /\ StoreInv' /\ CodeInv'
  BY <1>26 DEF resendUnlink
<1>27. ASSUME NEW w \in Workers, NEW m \in Mails, resendLink(w, m)
       PROVE  FreshInv' /\ StoreInv' /\ CodeInv'
  BY <1>27 DEF resendLink
<1>28. ASSUME NEW w \in Workers, resendStore(w)
       PROVE  FreshInv' /\ StoreInv' /\ CodeInv'
  BY <1>28 DEF resendStore
<1>29. ASSUME NEW w \in Workers, resendMail(w)
       PROVE  FreshInv' /\ StoreInv' /\ CodeInv'
  BY <1>29 DEF resendMail
<1>30. ASSUME NEW w \in Workers, toggleDel(w)
       PROVE  FreshInv' /\ StoreInv' /\ CodeInv'
  BY <1>30 DEF toggleDel
<1>31. ASSUME NEW w \in Workers, Crash(w)
       PROVE  FreshInv' /\ StoreInv' /\ CodeInv'
  BY <1>31 DEF Crash
<1>32. CASE UNCHANGED vars
  BY <1>32 DEF vars
<1>. QED
  BY <1>1, <1>2, <1>3, <1>4, <1>5, <1>6, <1>7, <1>8, <1>9, <1>10, <1>11, <1>12, <1>13,
     <1>14, <1>15, <1>16, <1>17, <1>18, <1>19, <1>20, <1>21, <1>22, <1>23, <1>24, <1>25,
     <1>26, <1>27, <1>28, <1>29, <1>30, <1>31, <1>32, <1>33
     DEF Next, Receive, Handle

-----------------------------------------------------------------------------
(* Challenges: the failure counters.  Every handler between its read of    *)
(* the counters and its last INCR takes one place, so a limit is passed by *)
(* less than the number of handlers and of those that read nothing.        *)

FailBound(f, j, b, k) ==
  f[k] + Cardinality(Failing(j, k)) < MaxFails[k] + Cardinality(Workers) + b

\* A set of handlers has a size, at most the number of handlers.
LEMMA FailingFinite ==
  ASSUME NEW j, NEW k
  PROVE  /\ IsFiniteSet(Failing(j, k))
         /\ Cardinality(Failing(j, k)) \in Nat
         /\ Cardinality(Workers) \in Nat
         /\ Cardinality(Failing(j, k)) <= Cardinality(Workers)
<1>1. Failing(j, k) \in SUBSET Workers
  BY DEF Failing
<1>2. IsFiniteSet(Workers)
  BY MailingAssumption
<1>3. IsFiniteSet(Failing(j, k)) /\ Cardinality(Failing(j, k)) <= Cardinality(Workers)
  BY <1>1, <1>2, FS_Subset
<1>. QED
  BY <1>2, <1>3, FS_CardinalityType

\* The numbers in the bound are numbers.
LEMMA FailTypes ==
  ASSUME TypeOK, NEW k \in Counters
  PROVE  fails[k] \in Nat /\ blind \in Nat /\ MaxFails[k] \in Nat
BY ChallengesAssumption DEF TypeOK

\* A step that raises no counter and sends no handler to compare a password keeps the bound.
LEMMA FailKept ==
  ASSUME TypeOK, TypeOK', NEW k \in Counters, FailBound(fails, job, blind, k),
  fails'[k] <= fails[k],
         blind' = blind, Failing(job', k) \subseteq Failing(job, k)
  PROVE  FailBound(fails', job', blind', k)
<1>1. Cardinality(Failing(job', k)) <= Cardinality(Failing(job, k))
  BY FailingFinite, FS_Subset
<1>2. fails[k] \in Nat /\ blind \in Nat /\ MaxFails[k] \in Nat
  BY FailTypes
<1>3. fails'[k] \in Nat
  BY DEF TypeOK
<1>4. /\ Cardinality(Failing(job', k)) \in Nat
      /\ Cardinality(Failing(job, k)) \in Nat
      /\ Cardinality(Workers) \in Nat
  BY FailingFinite
<1>. QED
  BY <1>1, <1>2, <1>3, <1>4 DEF FailBound

\* A handler that counts its failure gives its place up.
LEMMA FailCounted ==
  ASSUME TypeOK, TypeOK', NEW k \in Counters, NEW w \in Failing(job, k),
         FailBound(fails, job, blind, k), fails'[k] <= fails[k] + 1, blind' = blind,
         Failing(job', k) = Failing(job, k) \ {w}
  PROVE  FailBound(fails', job', blind', k)
<1>1. Cardinality(Failing(job', k)) = Cardinality(Failing(job, k)) - 1
  BY FailingFinite, FS_RemoveElement
<1>2. fails[k] \in Nat /\ blind \in Nat /\ MaxFails[k] \in Nat
  BY FailTypes
<1>3. fails'[k] \in Nat
  BY DEF TypeOK
<1>4. Cardinality(Failing(job, k)) \in Nat /\ Cardinality(Workers) \in Nat
  BY FailingFinite
<1>. QED
  BY <1>1, <1>2, <1>3, <1>4 DEF FailBound

\* A read that finds the counter below its limit leaves room for every handler.
LEMMA FailBelow ==
  ASSUME TypeOK, TypeOK', NEW k \in Counters, fails'[k] = fails[k], fails[k] < MaxFails[k],
         blind' = blind
  PROVE  FailBound(fails', job', blind', k)
<1>1. fails[k] \in Nat /\ blind \in Nat /\ MaxFails[k] \in Nat
  BY FailTypes
<1>2. /\ Cardinality(Failing(job', k)) \in Nat
      /\ Cardinality(Workers) \in Nat
      /\ Cardinality(Failing(job', k)) <= Cardinality(Workers)
  BY FailingFinite
<1>. QED
  BY <1>1, <1>2 DEF FailBound

\* A read that failed is counted in blind, so it takes no place.
LEMMA FailBlind ==
  ASSUME TypeOK, TypeOK', NEW k \in Counters, FailBound(fails, job, blind, k), NEW w \in Workers,
         fails'[k] = fails[k], blind' = blind + 1, Failing(job', k) \subseteq Failing(job, k) \cup {w}
  PROVE  FailBound(fails', job', blind', k)
<1>1. fails[k] \in Nat /\ blind \in Nat /\ MaxFails[k] \in Nat
  BY FailTypes
<1>2. /\ Cardinality(Failing(job, k)) \in Nat
      /\ Cardinality(Failing(job', k)) \in Nat
      /\ Cardinality(Workers) \in Nat
  BY FailingFinite
<1>3. /\ IsFiniteSet(Failing(job, k) \cup {w})
      /\ Cardinality(Failing(job, k) \cup {w}) <= Cardinality(Failing(job, k)) + 1
  <2>1. CASE w \in Failing(job, k)
    <3>1. Failing(job, k) \cup {w} = Failing(job, k)
      BY <2>1
    <3>2. IsFiniteSet(Failing(job, k))
      BY FailingFinite
    <3>3. Cardinality(Failing(job, k)) <= Cardinality(Failing(job, k)) + 1
      BY <1>2
    <3>. QED
      BY <3>1, <3>2, <3>3
  <2>2. CASE w \notin Failing(job, k)
    <3>1. /\ IsFiniteSet(Failing(job, k) \cup {w})
          /\ Cardinality(Failing(job, k) \cup {w}) = Cardinality(Failing(job, k)) + 1
      BY <2>2, FailingFinite, FS_AddElement
    <3>. QED
      BY <1>2, <3>1
  <2>. QED
    BY <2>1, <2>2
<1>4. Cardinality(Failing(job', k)) <= Cardinality(Failing(job, k) \cup {w})
  BY <1>3, FS_Subset
<1>5. Cardinality(Failing(job, k) \cup {w}) \in Nat
  BY <1>3, FS_CardinalityType
<1>. QED
  BY <1>1, <1>2, <1>3, <1>4, <1>5 DEF FailBound

\* No other step raises a counter or begins a login.
LEMMA FailStep ==
  ASSUME TypeOK, TypeOK', FailInv, [Next]_vars
  PROVE  FailInv'
<1>. SUFFICES ASSUME NEW i \in Counters, FailBound(fails, job, blind, i)
              PROVE  FailBound(fails', job', blind', i)
  BY DEF FailInv, FailBound
<1>. DEFINE Quiet == /\ fails'[i] <= fails[i] /\ blind' = blind
                    /\ Failing(job', i) \subseteq Failing(job, i)
            Goal == FailBound(fails', job', blind', i)
<1>0. Quiet => Goal
  BY FailKept
<1>. HIDE DEF Goal
<1>. USE DEF TypeOK, redisVars, mailVars, historyVars, Begin, Await, Return, At, Idle
<1>1. ASSUME NEW c \in Challenges, challengeExpires(c)
      PROVE  Goal
  BY <1>1, <1>0 DEF challengeExpires, Failing
<1>2. ASSUME NEW c \in Challenges, cooldownExpires(c)
      PROVE  Goal
  BY <1>2, <1>0 DEF cooldownExpires, Failing
<1>3. ASSUME NEW m \in Mails, linkExpires(m)
      PROVE  Goal
  BY <1>3, <1>0 DEF linkExpires, Failing
<1>4. ASSUME NEW k \in Counters, failsExpire(k)
      PROVE  Goal
  BY <1>4, <1>0 DEF failsExpire, Failing
<1>5. ASSUME NEW w \in Workers, loginRead(w)
      PROVE  Goal
  <2>1. fails' = fails /\ Failing(job', i) \subseteq Failing(job, i) \cup {w}
    BY <1>5 DEF loginRead, Failing
  <2>2. CASE blind' = blind + 1
    BY <2>1, <2>2, FailBlind DEF Goal
  <2>3. CASE blind' = blind /\ i = "ip"
    <3>1. blind \in Nat
      BY <2>3, FailTypes DEF Counters
    <3>2. fails["ip"] < MaxFails["ip"]
      BY <1>5, <2>3, <3>1 DEF loginRead, passes
    <3>. QED
      BY <2>1, <2>3, <3>2, FailBelow DEF Goal
  <2>4. CASE blind' = blind /\ i = "email"
    <3>1. Failing(job', i) \subseteq Failing(job, i)
      BY <1>5, <2>4 DEF loginRead, Failing
    <3>. QED
      BY <1>0, <2>1, <2>4, <3>1, FailTypes
  <2>. QED
    BY <1>5, <2>2, <2>3, <2>4 DEF loginRead, passes, Counters
<1>33. ASSUME NEW w \in Workers, loginReadEmail(w)
       PROVE  Goal
  <2>1. fails' = fails /\ Failing(job', i) \subseteq Failing(job, i) \cup {w}
    BY <1>33 DEF loginReadEmail, Failing
  <2>2. CASE blind' = blind + 1
    BY <2>1, <2>2, FailBlind DEF Goal
  <2>3. CASE blind' = blind /\ i = "ip"
    <3>1. Failing(job', i) \subseteq Failing(job, i)
      BY <1>33, <2>3 DEF loginReadEmail, Failing
    <3>. QED
      BY <1>0, <2>1, <2>3, <3>1, FailTypes
  <2>4. CASE blind' = blind /\ i = "email"
    <3>1. CASE fails["email"] < MaxFails["email"]
      BY <2>1, <2>4, <3>1, FailBelow DEF Goal
    <3>2. CASE job' = [job EXCEPT ![w] = Idle]
      <4>1. Failing(job', i) \subseteq Failing(job, i)
        BY <3>2 DEF Failing
      <4>. QED
        BY <1>0, <2>1, <2>4, <4>1, FailTypes
    <3>. QED
      BY <1>33, <2>4, <3>1, <3>2, FailTypes DEF loginReadEmail, passes
  <2>. QED
    BY <1>33, <2>2, <2>3, <2>4 DEF loginReadEmail, passes, Counters
<1>6. ASSUME NEW w \in Workers, NEW c \in Challenges, verifyMismatch(w, c)
      PROVE  Goal
  BY <1>6, <1>0 DEF verifyMismatch, Failing
<1>7. ASSUME NEW w \in Workers, NEW c \in Challenges, verifyWrong(w, c)
      PROVE  Goal
  BY <1>7, <1>0 DEF verifyWrong, Failing
<1>8. ASSUME NEW w \in Workers, NEW c \in Challenges, verifyRight(w, c)
      PROVE  Goal
  BY <1>8, <1>0 DEF verifyRight, Failing
<1>9. ASSUME NEW w \in Workers, NEW c \in Challenges, resendRead(w, c)
      PROVE  Goal
  BY <1>9, <1>0 DEF resendRead, Failing
<1>10. ASSUME NEW w \in Workers, NEW c \in Challenges, toggleRead(w, c)
       PROVE  Goal
  BY <1>10, <1>0 DEF toggleRead, Failing
<1>11. ASSUME NEW w \in Workers, NEW c \in Challenges, NEW m \in Mails, issueCode(w, c, m)
       PROVE  Goal
  BY <1>11, <1>0 DEF issueCode, Failing
<1>12. ASSUME NEW w \in Workers, NEW c \in Challenges, NEW m \in Mails, googleChallenge(w, c, m)
       PROVE  Goal
  BY <1>12, <1>0 DEF googleChallenge, Failing
<1>13. ASSUME NEW w \in Workers, NEW m \in Mails, magicRead(w, m)
       PROVE  Goal
  BY <1>13, <1>0 DEF magicRead, Failing
<1>14. ASSUME NEW w \in Workers, loginWrong(w)
       PROVE  Goal
  <2>1. CASE i = "email"
    <3>1. w \in Failing(job, i) /\ Failing(job', i) = Failing(job, i) \ {w}
      BY <1>14, <2>1 DEF loginWrong, Failing
    <3>2. fails'[i] <= fails[i] + 1 /\ blind' = blind
      BY <1>14, <2>1 DEF loginWrong
    <3>. QED
      BY <3>1, <3>2, FailCounted DEF Goal
  <2>2. CASE i = "ip"
    BY <1>14, <1>0, <2>2 DEF loginWrong, Failing
  <2>. QED
    BY <2>1, <2>2 DEF Counters
<1>15. ASSUME NEW w \in Workers, loginWrongIp(w)
       PROVE  Goal
  <2>1. CASE i = "ip"
    <3>1. w \in Failing(job, i) /\ Failing(job', i) = Failing(job, i) \ {w}
      BY <1>15, <2>1 DEF loginWrongIp, Failing
    <3>2. fails'[i] <= fails[i] + 1 /\ blind' = blind
      BY <1>15, <2>1 DEF loginWrongIp
    <3>. QED
      BY <3>1, <3>2, FailCounted DEF Goal
  <2>2. CASE i = "email"
    BY <1>15, <1>0, <2>2 DEF loginWrongIp, Failing
  <2>. QED
    BY <2>1, <2>2 DEF Counters
<1>16. ASSUME NEW w \in Workers, NEW twoFactor \in BOOLEAN, loginRight(w, twoFactor)
       PROVE  Goal
  BY <1>16, <1>0 DEF loginRight, Failing
<1>17. ASSUME NEW w \in Workers, NEW c \in Challenges, NEW m \in Mails, loginLink(w, c, m)
       PROVE  Goal
  BY <1>17, <1>0 DEF loginLink, Failing
<1>18. ASSUME NEW w \in Workers, storeChallenge(w)
       PROVE  Goal
  BY <1>18, <1>0 DEF storeChallenge, Failing
<1>19. ASSUME NEW w \in Workers, verifyMismatchDel(w)
       PROVE  Goal
  BY <1>19, <1>0 DEF verifyMismatchDel, Failing
<1>20. ASSUME NEW w \in Workers, verifyKeep(w)
       PROVE  Goal
  BY <1>20, <1>0 DEF verifyKeep, Failing
<1>21. ASSUME NEW w \in Workers, magicChallenge(w)
       PROVE  Goal
  BY <1>21, <1>0 DEF magicChallenge, Failing
<1>22. ASSUME NEW w \in Workers, magicDel(w)
       PROVE  Goal
  BY <1>22, <1>0 DEF magicDel, Failing
<1>23. ASSUME NEW w \in Workers, endLink(w)
       PROVE  Goal
  BY <1>23, <1>0 DEF endLink, Failing
<1>24. ASSUME NEW w \in Workers, endKey(w)
       PROVE  Goal
  BY <1>24, <1>0 DEF endKey, Failing
<1>25. ASSUME NEW w \in Workers, resendCooldown(w)
       PROVE  Goal
  BY <1>25, <1>0 DEF resendCooldown, Failing
<1>26. ASSUME NEW w \in Workers, resendUnlink(w)
       PROVE  Goal
  BY <1>26, <1>0 DEF resendUnlink, Failing
<1>27. ASSUME NEW w \in Workers, NEW m \in Mails, resendLink(w, m)
       PROVE  Goal
  BY <1>27, <1>0 DEF resendLink, Failing
<1>28. ASSUME NEW w \in Workers, resendStore(w)
       PROVE  Goal
  BY <1>28, <1>0 DEF resendStore, Failing
<1>29. ASSUME NEW w \in Workers, resendMail(w)
       PROVE  Goal
  BY <1>29, <1>0 DEF resendMail, Failing
<1>30. ASSUME NEW w \in Workers, toggleDel(w)
       PROVE  Goal
  BY <1>30, <1>0 DEF toggleDel, Failing
<1>31. ASSUME NEW w \in Workers, Crash(w)
       PROVE  Goal
  BY <1>31, <1>0 DEF Crash, Failing
<1>32. CASE UNCHANGED vars
  BY <1>32, <1>0 DEF vars, Failing
<1>. QED
  BY <1>1, <1>2, <1>3, <1>4, <1>5, <1>6, <1>7, <1>8, <1>9, <1>10, <1>11, <1>12, <1>13,
     <1>14, <1>15, <1>16, <1>17, <1>18, <1>19, <1>20, <1>21, <1>22, <1>23, <1>24, <1>25,
     <1>26, <1>27, <1>28, <1>29, <1>30, <1>31, <1>32, <1>33
     DEF Next, Receive, Handle, Goal

-----------------------------------------------------------------------------
\* The inductive invariant of Challenges.
Inv ==
  /\ TypeOK /\ JobInv /\ AttemptsInv
  /\ LinkInv
  /\ FreshInv /\ StoreInv /\ CodeInv
  /\ FailInv

\* No key, no mail and no handler at the start.
LEMMA InvInit == Init => Inv
<1>. SUFFICES ASSUME Init
              PROVE  Inv
  OBVIOUS
<1>. USE MailingAssumption, ChallengesAssumption DEF Init, Idle, At, NoRecord
<1>1. TypeOK /\ JobInv /\ AttemptsInv
  BY DEF TypeOK, JobInv, AttemptsInv, Job, Steps, Endings, LoginChallenge, Counters
<1>2. LinkInv
  BY DEF LinkInv, Using
<1>3. FreshInv /\ StoreInv /\ CodeInv
  BY DEF FreshInv, StoreInv, CodeInv, present
<1>4. FailInv
  <2>. SUFFICES ASSUME NEW k \in Counters
                PROVE  fails[k] + Cardinality(Failing(job, k))
                         < MaxFails[k] + Cardinality(Workers) + blind
    BY DEF FailInv
  <2>1. Cardinality(Failing(job, k)) \in Nat /\ Cardinality(Workers) \in Nat
    BY FailingFinite
  <2>2. Cardinality(Failing(job, k)) <= Cardinality(Workers)
    BY FailingFinite
  <2>3. fails[k] = 0 /\ blind = 0 /\ MaxFails[k] \in Nat \ {0}
    OBVIOUS
  <2>. QED
    BY <2>1, <2>2, <2>3
<1>. QED
  BY <1>1, <1>2, <1>3, <1>4 DEF Inv

\* Each step keeps what the others rely on.
LEMMA InvStep == Inv /\ [Next]_vars => Inv'
<1>. SUFFICES ASSUME Inv, [Next]_vars
              PROVE  Inv'
  OBVIOUS
<1>1. TypeOK' /\ JobInv' /\ AttemptsInv'
  BY TypeStep DEF Inv
<1>2. LinkInv'
  BY LinkStep DEF Inv
<1>3. FreshInv' /\ StoreInv' /\ CodeInv'
  BY CodeStep DEF Inv
<1>4. FailInv'
  BY <1>1, FailStep DEF Inv
<1>. QED
  BY <1>1, <1>2, <1>3, <1>4 DEF Inv

\* The invariant holds in every state of every behaviour.
THEOREM Invariance == Spec => []Inv
BY InvInit, InvStep, PTL DEF Spec

\* Keys, counters and locals of the sign-in flow are well formed.
THEOREM TypeCorrect == Spec => []TypeOK
<1>1. Inv => TypeOK
  BY DEF Inv
<1>. QED
  BY <1>1, Invariance, PTL

\* completeMagicLogin: no link opens two sessions, for any number of clicks in flight.
THEOREM LinkUsedOnce == Spec => []LinkOnce
<1>1. Inv => LinkOnce
  BY DEF Inv, LinkInv, LinkOnce
<1>. QED
  BY <1>1, Invariance, PTL

\* verifyLoginOtp: the sessions of a challenge's codes are one and those that late writes of
\* its record allow.
THEOREM CodeUsedOnce == Spec => []CodeOnce
<1>1. Inv => CodeOnce
  BY DEF Inv, CodeInv, CodeOnce
<1>. QED
  BY <1>1, Invariance, PTL

\* login and verifyLoginOtp: the limits hold for any number of handlers in flight.
THEOREM LoginLimited == Spec => []LimitsHold
<1>1. Inv => LimitsHold
  <2>. SUFFICES ASSUME Inv
                PROVE  LimitsHold
    OBVIOUS
  <2>1. \A c \in Challenges : challenge[c].attempts < MaxAttempts
    BY DEF Inv, AttemptsInv
  <2>2. ASSUME NEW k \in Counters
        PROVE  fails[k] < MaxFails[k] + Cardinality(Workers) + blind
    <3>1. fails[k] + Cardinality(Failing(job, k)) < MaxFails[k] + Cardinality(Workers) + blind
      BY DEF Inv, FailInv
    <3>2. fails[k] \in Nat /\ blind \in Nat /\ MaxFails[k] \in Nat
      BY FailTypes DEF Inv
    <3>3. Cardinality(Failing(job, k)) \in Nat /\ Cardinality(Workers) \in Nat
      BY FailingFinite
    <3>. QED
      BY <3>1, <3>2, <3>3
  <2>. QED
    BY <2>1, <2>2 DEF LimitsHold
<1>. QED
  BY <1>1, Invariance, PTL

\* A challenge that is over, and that no handler under way will write.
Ended(c) == ~present(c) /\ \A w \in Workers : ~holds(w, c)

\* What one step does to the challenges that are over.
StaysEnded ==
  \A c \in issued :
    ~present(c) /\ (\A w \in Workers : ~holds(w, c))
      => ~present(c)' /\ (\A w \in Workers : ~holds(w, c)')

\* A handler comes to hold a challenge only by reading its record or by drawing its id.
LEMMA EndedStep ==
  ASSUME TypeOK, JobInv, [Next]_vars
  PROVE  StaysEnded
<1>. SUFFICES ASSUME NEW x \in issued, Ended(x)
              PROVE  Ended(x)'
  BY DEF StaysEnded, Ended
<1>. USE MailingAssumption, ChallengesAssumption
        DEF TypeOK, JobInv, Ended, holds, present, Writers, NoRecord,
     redisVars, mailVars, historyVars, Begin, Await, Return, At, Idle
<1>1. ASSUME NEW c \in Challenges, challengeExpires(c)
      PROVE  Ended(x)'
  BY <1>1 DEF challengeExpires
<1>2. ASSUME NEW c \in Challenges, cooldownExpires(c)
      PROVE  Ended(x)'
  BY <1>2 DEF cooldownExpires
<1>3. ASSUME NEW m \in Mails, linkExpires(m)
      PROVE  Ended(x)'
  BY <1>3 DEF linkExpires
<1>4. ASSUME NEW k \in Counters, failsExpire(k)
      PROVE  Ended(x)'
  BY <1>4 DEF failsExpire
<1>5. ASSUME NEW w \in Workers, loginRead(w)
      PROVE  Ended(x)'
  BY <1>5 DEF loginRead, passes
<1>33. ASSUME NEW w \in Workers, loginReadEmail(w)
      PROVE  Ended(x)'
  BY <1>33 DEF loginReadEmail, passes
<1>6. ASSUME NEW w \in Workers, NEW c \in Challenges, verifyMismatch(w, c)
      PROVE  Ended(x)'
  BY <1>6 DEF verifyMismatch
<1>7. ASSUME NEW w \in Workers, NEW c \in Challenges, verifyWrong(w, c)
      PROVE  Ended(x)'
  BY <1>7 DEF verifyWrong
<1>8. ASSUME NEW w \in Workers, NEW c \in Challenges, verifyRight(w, c)
      PROVE  Ended(x)'
  BY <1>8 DEF verifyRight
<1>9. ASSUME NEW w \in Workers, NEW c \in Challenges, resendRead(w, c)
      PROVE  Ended(x)'
  BY <1>9 DEF resendRead
<1>10. ASSUME NEW w \in Workers, NEW c \in Challenges, toggleRead(w, c)
       PROVE  Ended(x)'
  BY <1>10 DEF toggleRead
<1>11. ASSUME NEW w \in Workers, NEW c \in Challenges, NEW m \in Mails, issueCode(w, c, m)
       PROVE  Ended(x)'
  BY <1>11 DEF issueCode
<1>12. ASSUME NEW w \in Workers, NEW c \in Challenges, NEW m \in Mails, googleChallenge(w, c, m)
       PROVE  Ended(x)'
  BY <1>12 DEF googleChallenge
<1>13. ASSUME NEW w \in Workers, NEW m \in Mails, magicRead(w, m)
       PROVE  Ended(x)'
  BY <1>13 DEF magicRead
<1>14. ASSUME NEW w \in Workers, loginWrong(w)
       PROVE  Ended(x)'
  BY <1>14 DEF loginWrong
<1>15. ASSUME NEW w \in Workers, loginWrongIp(w)
       PROVE  Ended(x)'
  BY <1>15 DEF loginWrongIp
<1>16. ASSUME NEW w \in Workers, NEW twoFactor \in BOOLEAN, loginRight(w, twoFactor)
       PROVE  Ended(x)'
  BY <1>16 DEF loginRight
<1>17. ASSUME NEW w \in Workers, NEW c \in Challenges, NEW m \in Mails, loginLink(w, c, m)
       PROVE  Ended(x)'
  BY <1>17 DEF loginLink
<1>18. ASSUME NEW w \in Workers, storeChallenge(w)
       PROVE  Ended(x)'
  BY <1>18 DEF storeChallenge
<1>19. ASSUME NEW w \in Workers, verifyMismatchDel(w)
       PROVE  Ended(x)'
  BY <1>19 DEF verifyMismatchDel
<1>20. ASSUME NEW w \in Workers, verifyKeep(w)
       PROVE  Ended(x)'
  BY <1>20 DEF verifyKeep
<1>21. ASSUME NEW w \in Workers, magicChallenge(w)
       PROVE  Ended(x)'
  BY <1>21 DEF magicChallenge
<1>22. ASSUME NEW w \in Workers, magicDel(w)
       PROVE  Ended(x)'
  BY <1>22 DEF magicDel
<1>23. ASSUME NEW w \in Workers, endLink(w)
       PROVE  Ended(x)'
  BY <1>23 DEF endLink
<1>24. ASSUME NEW w \in Workers, endKey(w)
       PROVE  Ended(x)'
  BY <1>24 DEF endKey
<1>25. ASSUME NEW w \in Workers, resendCooldown(w)
       PROVE  Ended(x)'
  BY <1>25 DEF resendCooldown
<1>26. ASSUME NEW w \in Workers, resendUnlink(w)
       PROVE  Ended(x)'
  BY <1>26 DEF resendUnlink
<1>27. ASSUME NEW w \in Workers, NEW m \in Mails, resendLink(w, m)
       PROVE  Ended(x)'
  BY <1>27 DEF resendLink
<1>28. ASSUME NEW w \in Workers, resendStore(w)
       PROVE  Ended(x)'
  BY <1>28 DEF resendStore
<1>29. ASSUME NEW w \in Workers, resendMail(w)
       PROVE  Ended(x)'
  BY <1>29 DEF resendMail
<1>30. ASSUME NEW w \in Workers, toggleDel(w)
       PROVE  Ended(x)'
  BY <1>30 DEF toggleDel
<1>31. ASSUME NEW w \in Workers, Crash(w)
       PROVE  Ended(x)'
  BY <1>31 DEF Crash
<1>32. CASE UNCHANGED vars
  BY <1>32 DEF vars
<1>. QED
  BY <1>1, <1>2, <1>3, <1>4, <1>5, <1>6, <1>7, <1>8, <1>9, <1>10, <1>11, <1>12, <1>13,
     <1>14, <1>15, <1>16, <1>17, <1>18, <1>19, <1>20, <1>21, <1>22, <1>23, <1>24, <1>25,
     <1>26, <1>27, <1>28, <1>29, <1>30, <1>31, <1>32, <1>33
     DEF Next, Receive, Handle

\* verifyLoginOtp and its kin: a challenge that ended stays ended.
THEOREM EndedStays == Spec => EndedForGood
<1>1. Inv /\ [Next]_vars => [StaysEnded]_vars
  BY EndedStep DEF Inv
<1>2. Spec => [][StaysEnded]_vars
  BY <1>1, Invariance, PTL DEF Spec
<1>. QED
  BY <1>2 DEF EndedForGood, StaysEnded

-----------------------------------------------------------------------------
(* Challenges: refinement of the abstract link                             *)

\* A step that moves no link is a stuttering step of the abstract links.
LEMMA LinksStutter ==
  ASSUME \A m \in Mails : linkState(m)' = linkState(m), byLink' = byLink
  PROVE  UNCHANGED Promise!vars
BY DEF Promise!vars

\* A step that moves one link along its life is a step of the abstract links.
LEMMA OneLinkMoves ==
  ASSUME TypeOK, NEW m \in Mails, <<linkState(m), linkState(m)'>> \in Promise!Life,
         \A n \in Mails \ {m} : linkState(n)' = linkState(n),
         byLink' = IF linkState(m)' = "used" THEN [byLink EXCEPT ![m] = @ + 1] ELSE byLink
  PROVE  Promise!Next
<1>. DEFINE before == [l \in Mails |-> linkState(l)]
            after == [l \in Mails |-> linkState(l)']
<1>1. before[m] = linkState(m) /\ after[m] = linkState(m)'
  OBVIOUS
<1>2. after = [before EXCEPT ![m] = after[m]]
  OBVIOUS
<1>3. Promise!Moves(m)
  BY <1>1, <1>2 DEF Promise!Moves
<1>. QED
  BY <1>3 DEF Promise!Next

\* What each step of a handler, and of time, is in the life of a link.
LEMMA LinkLifeStep ==
  ASSUME TypeOK, JobInv, LinkInv, [Next]_vars
  PROVE  [Promise!Next]_(Promise!vars)
<1>0. ASSUME \A m \in Mails : linkState(m)' = linkState(m), byLink' = byLink
      PROVE  [Promise!Next]_(Promise!vars)
  BY <1>0, LinksStutter
<1>00. ASSUME NEW m \in Mails, <<linkState(m), linkState(m)'>> \in Promise!Life,
              \A n \in Mails \ {m} : linkState(n)' = linkState(n),
              byLink' = IF linkState(m)' = "used" THEN [byLink EXCEPT ![m] = @ + 1] ELSE byLink
       PROVE  [Promise!Next]_(Promise!vars)
  BY <1>00, OneLinkMoves
<1>. USE MailingAssumption, ChallengesAssumption DEF TypeOK, JobInv, LinkInv, Using, linkState,
     redisVars, mailVars, historyVars, Begin, Await, Return, At, Idle
<1>1. ASSUME NEW c \in Challenges, challengeExpires(c)
      PROVE  [Promise!Next]_(Promise!vars)
  BY <1>1, <1>0 DEF challengeExpires
<1>2. ASSUME NEW c \in Challenges, cooldownExpires(c)
      PROVE  [Promise!Next]_(Promise!vars)
  BY <1>2, <1>0 DEF cooldownExpires
<1>3. ASSUME NEW m \in Mails, linkExpires(m)
      PROVE  [Promise!Next]_(Promise!vars)
  <2>1. linkState(m) = "open" /\ linkState(m)' = "void"
    BY <1>3 DEF linkExpires
  <2>2. \A n \in Mails \ {m} : linkState(n)' = linkState(n)
    BY <1>3 DEF linkExpires
  <2>3. byLink' = byLink
    BY <1>3 DEF linkExpires
  <2>. QED
    BY <1>00, <2>1, <2>2, <2>3 DEF Promise!Life
<1>4. ASSUME NEW k \in Counters, failsExpire(k)
      PROVE  [Promise!Next]_(Promise!vars)
  BY <1>4, <1>0 DEF failsExpire
<1>5. ASSUME NEW w \in Workers, loginRead(w)
      PROVE  [Promise!Next]_(Promise!vars)
  BY <1>5, <1>0 DEF loginRead, passes
<1>33. ASSUME NEW w \in Workers, loginReadEmail(w)
      PROVE  [Promise!Next]_(Promise!vars)
  BY <1>33, <1>0 DEF loginReadEmail, passes
<1>6. ASSUME NEW w \in Workers, NEW c \in Challenges, verifyMismatch(w, c)
      PROVE  [Promise!Next]_(Promise!vars)
  BY <1>6, <1>0 DEF verifyMismatch
<1>7. ASSUME NEW w \in Workers, NEW c \in Challenges, verifyWrong(w, c)
      PROVE  [Promise!Next]_(Promise!vars)
  BY <1>7, <1>0 DEF verifyWrong
<1>8. ASSUME NEW w \in Workers, NEW c \in Challenges, verifyRight(w, c)
      PROVE  [Promise!Next]_(Promise!vars)
  BY <1>8, <1>0 DEF verifyRight
<1>9. ASSUME NEW w \in Workers, NEW c \in Challenges, resendRead(w, c)
      PROVE  [Promise!Next]_(Promise!vars)
  BY <1>9, <1>0 DEF resendRead
<1>10. ASSUME NEW w \in Workers, NEW c \in Challenges, toggleRead(w, c)
       PROVE  [Promise!Next]_(Promise!vars)
  BY <1>10, <1>0 DEF toggleRead
<1>11. ASSUME NEW w \in Workers, NEW c \in Challenges, NEW m \in Mails, issueCode(w, c, m)
       PROVE  [Promise!Next]_(Promise!vars)
  <2>1. linkState(m) = "blank" /\ linkState(m)' = "void"
    BY <1>11 DEF issueCode
  <2>2. \A n \in Mails \ {m} : linkState(n)' = linkState(n)
    BY <1>11 DEF issueCode
  <2>3. byLink' = byLink
    BY <1>11 DEF issueCode
  <2>. QED
    BY <1>00, <2>1, <2>2, <2>3 DEF Promise!Life
<1>12. ASSUME NEW w \in Workers, NEW c \in Challenges, NEW m \in Mails, googleChallenge(w, c, m)
       PROVE  [Promise!Next]_(Promise!vars)
  <2>1. linkState(m) = "blank" /\ linkState(m)' = "void"
    BY <1>12 DEF googleChallenge
  <2>2. \A n \in Mails \ {m} : linkState(n)' = linkState(n)
    BY <1>12 DEF googleChallenge
  <2>3. byLink' = byLink
    BY <1>12 DEF googleChallenge
  <2>. QED
    BY <1>00, <2>1, <2>2, <2>3 DEF Promise!Life
<1>13. ASSUME NEW w \in Workers, NEW m \in Mails, magicRead(w, m)
       PROVE  [Promise!Next]_(Promise!vars)
  BY <1>13, <1>0 DEF magicRead
<1>14. ASSUME NEW w \in Workers, loginWrong(w)
       PROVE  [Promise!Next]_(Promise!vars)
  BY <1>14, <1>0 DEF loginWrong
<1>15. ASSUME NEW w \in Workers, loginWrongIp(w)
       PROVE  [Promise!Next]_(Promise!vars)
  BY <1>15, <1>0 DEF loginWrongIp
<1>16. ASSUME NEW w \in Workers, NEW twoFactor \in BOOLEAN, loginRight(w, twoFactor)
       PROVE  [Promise!Next]_(Promise!vars)
  BY <1>16, <1>0 DEF loginRight
<1>17. ASSUME NEW w \in Workers, NEW c \in Challenges, NEW m \in Mails, loginLink(w, c, m)
       PROVE  [Promise!Next]_(Promise!vars)
  <2>1. linkState(m) = "blank" /\ linkState(m)' = "open"
    BY <1>17 DEF loginLink
  <2>2. \A n \in Mails \ {m} : linkState(n)' = linkState(n)
    BY <1>17 DEF loginLink
  <2>3. byLink' = byLink
    BY <1>17 DEF loginLink
  <2>. QED
    BY <1>00, <2>1, <2>2, <2>3 DEF Promise!Life
<1>18. ASSUME NEW w \in Workers, storeChallenge(w)
       PROVE  [Promise!Next]_(Promise!vars)
  BY <1>18, <1>0 DEF storeChallenge
<1>19. ASSUME NEW w \in Workers, verifyMismatchDel(w)
       PROVE  [Promise!Next]_(Promise!vars)
  BY <1>19, <1>0 DEF verifyMismatchDel
<1>20. ASSUME NEW w \in Workers, verifyKeep(w)
       PROVE  [Promise!Next]_(Promise!vars)
  BY <1>20, <1>0 DEF verifyKeep
<1>21. ASSUME NEW w \in Workers, magicChallenge(w)
       PROVE  [Promise!Next]_(Promise!vars)
  BY <1>21, <1>0 DEF magicChallenge
<1>22. ASSUME NEW w \in Workers, magicDel(w)
       PROVE  [Promise!Next]_(Promise!vars)
  <2>0. PICK m \in Mails : m = job[w].m
    BY <1>22 DEF magicDel
  <2>1. CASE link[m] # NoChallenge
    <3>1. linkState(m) = "open" /\ linkState(m)' = "taken"
      BY <1>22, <2>0, <2>1 DEF magicDel
    <3>2. \A n \in Mails \ {m} : linkState(n)' = linkState(n)
      BY <1>22, <2>0, <2>1 DEF magicDel
    <3>3. byLink' = byLink
      BY <1>22 DEF magicDel
    <3>. QED
      BY <1>00, <3>1, <3>2, <3>3 DEF Promise!Life
  <2>2. CASE link[m] = NoChallenge
    BY <1>22, <1>0, <2>0, <2>2 DEF magicDel
  <2>. QED
    BY <2>1, <2>2
<1>23. ASSUME NEW w \in Workers, endLink(w)
       PROVE  [Promise!Next]_(Promise!vars)
  <2>1. CASE link' = link
    BY <1>23, <1>0, <2>1 DEF endLink
  <2>2. CASE link' # link
    <3>0. PICK m \in Mails : m = job[w].ch.magic /\ link[m] # NoChallenge
      BY <1>23, <2>2 DEF endLink
    <3>1. linkState(m) = "open" /\ linkState(m)' = "void"
      BY <1>23, <2>2, <3>0 DEF endLink
    <3>2. \A n \in Mails \ {m} : linkState(n)' = linkState(n)
      BY <1>23, <2>2, <3>0 DEF endLink
    <3>3. byLink' = byLink
      BY <1>23 DEF endLink
    <3>. QED
      BY <1>00, <3>1, <3>2, <3>3 DEF Promise!Life
  <2>. QED
    BY <2>1, <2>2
<1>24. ASSUME NEW w \in Workers, endKey(w)
       PROVE  [Promise!Next]_(Promise!vars)
  <2>1. CASE job[w].how = "link"
    <3>0. PICK m \in Mails : m = job[w].m /\ Using(w, m)
      BY <1>24, <2>1 DEF endKey
    <3>1. linkState(m) = "taken" /\ linkState(m)' = "used"
      BY <1>24, <2>1, <3>0 DEF endKey
    <3>2. \A n \in Mails \ {m} : linkState(n)' = linkState(n)
      BY <1>24, <2>1, <3>0 DEF endKey
    <3>3. byLink' = [byLink EXCEPT ![m] = @ + 1]
      BY <1>24, <2>1, <3>0 DEF endKey
    <3>. QED
      BY <1>00, <3>1, <3>2, <3>3 DEF Promise!Life
  <2>2. CASE job[w].how # "link"
    BY <1>24, <1>0, <2>2 DEF endKey
  <2>. QED
    BY <2>1, <2>2
<1>25. ASSUME NEW w \in Workers, resendCooldown(w)
       PROVE  [Promise!Next]_(Promise!vars)
  BY <1>25, <1>0 DEF resendCooldown
<1>26. ASSUME NEW w \in Workers, resendUnlink(w)
       PROVE  [Promise!Next]_(Promise!vars)
  <2>1. CASE link' = link
    BY <1>26, <1>0, <2>1 DEF resendUnlink
  <2>2. CASE link' # link
    <3>0. PICK m \in Mails : m = job[w].ch.magic /\ link[m] # NoChallenge
      BY <1>26, <2>2 DEF resendUnlink
    <3>1. linkState(m) = "open" /\ linkState(m)' = "void"
      BY <1>26, <2>2, <3>0 DEF resendUnlink
    <3>2. \A n \in Mails \ {m} : linkState(n)' = linkState(n)
      BY <1>26, <2>2, <3>0 DEF resendUnlink
    <3>3. byLink' = byLink
      BY <1>26 DEF resendUnlink
    <3>. QED
      BY <1>00, <3>1, <3>2, <3>3 DEF Promise!Life
  <2>. QED
    BY <2>1, <2>2
<1>27. ASSUME NEW w \in Workers, NEW m \in Mails, resendLink(w, m)
       PROVE  [Promise!Next]_(Promise!vars)
  <2>1. linkState(m) = "blank" /\ linkState(m)' = "open"
    BY <1>27 DEF resendLink
  <2>2. \A n \in Mails \ {m} : linkState(n)' = linkState(n)
    BY <1>27 DEF resendLink
  <2>3. byLink' = byLink
    BY <1>27 DEF resendLink
  <2>. QED
    BY <1>00, <2>1, <2>2, <2>3 DEF Promise!Life
<1>28. ASSUME NEW w \in Workers, resendStore(w)
       PROVE  [Promise!Next]_(Promise!vars)
  BY <1>28, <1>0 DEF resendStore
<1>29. ASSUME NEW w \in Workers, resendMail(w)
       PROVE  [Promise!Next]_(Promise!vars)
  BY <1>29, <1>0 DEF resendMail
<1>30. ASSUME NEW w \in Workers, toggleDel(w)
       PROVE  [Promise!Next]_(Promise!vars)
  BY <1>30, <1>0 DEF toggleDel
<1>31. ASSUME NEW w \in Workers, Crash(w)
       PROVE  [Promise!Next]_(Promise!vars)
  <2>1. CASE job[w].pc \in {"endLink", "endKey"} /\ job[w].how = "link"
    <3>0. PICK m \in Mails : m = job[w].m /\ Using(w, m)
      BY <2>1
    <3>1. linkState(m) = "taken" /\ linkState(m)' = "void"
      BY <1>31, <3>0 DEF Crash
    <3>2. \A n \in Mails \ {m} : linkState(n)' = linkState(n)
      BY <1>31, <3>0 DEF Crash
    <3>3. byLink' = byLink
      BY <1>31 DEF Crash
    <3>. QED
      BY <1>00, <3>1, <3>2, <3>3 DEF Promise!Life
  <2>2. CASE ~(job[w].pc \in {"endLink", "endKey"} /\ job[w].how = "link")
    BY <1>31, <1>0, <2>2 DEF Crash
  <2>. QED
    BY <2>1, <2>2
<1>32. CASE UNCHANGED vars
  BY <1>32, <1>0 DEF vars
<1>. QED
  BY <1>1, <1>2, <1>3, <1>4, <1>5, <1>6, <1>7, <1>8, <1>9, <1>10, <1>11, <1>12, <1>13,
     <1>14, <1>15, <1>16, <1>17, <1>18, <1>19, <1>20, <1>21, <1>22, <1>23, <1>24, <1>25,
     <1>26, <1>27, <1>28, <1>29, <1>30, <1>31, <1>32, <1>33
     DEF Next, Receive, Handle

\* completeMagicLogin: whatever expires, fails, crashes or is clicked at the same time, the
\* link of every mail lives the life of a one-time link.
THEOREM LinksAreOneTime == Spec => ImplementsOneTimeLinks
<1>1. Init => Promise!Init
  BY DEF Init, Promise!Init, linkState
<1>2. Inv /\ [Next]_vars => [Promise!Next]_(Promise!vars)
  BY LinkLifeStep DEF Inv
<1>. QED
  BY <1>1, <1>2, Invariance, PTL DEF Spec, ImplementsOneTimeLinks, Promise!Spec

-----------------------------------------------------------------------------
(* Signup: the inductive invariant                                         *)

\* What each await needs of the locals of a handler.
TaskInv ==
  \A w \in Workers :
    LET j == task[w] IN
    /\ j.pc \notin {"idle", "anonymise"} => j.e \in Emails
    /\ j.pc = "mail" => j.p.code \in Mails
    /\ j.pc = "keep" => j.p.code \in Mails /\ j.p.attempts <= MaxOtpAttempts

-----------------------------------------------------------------------------
(* Signup: types                                                           *)

\* Every step of every handler keeps the rows, the keys and the locals well formed.
LEMMA SignupTypeStep ==
  ASSUME SignupTypeOK, TaskInv, [SignupNext]_signupVars
  PROVE  SignupTypeOK' /\ TaskInv'
<1>. USE MailingAssumption, SignupAssumption
        DEF SignupTypeOK, TaskInv, dbVars, pendingVars, codeVars, signupHistory,
     Start, Wait, Finish, Doing, Free, Task, TaskSteps, PendingWriters, PendingSignup, NoPending,
     RowState, Provider, isPending
<1>1. ASSUME NEW e \in Emails, pendingExpires(e)
      PROVE  SignupTypeOK' /\ TaskInv'
  BY <1>1 DEF pendingExpires
<1>2. ASSUME NEW e \in Emails, otpCooldownExpires(e)
      PROVE  SignupTypeOK' /\ TaskInv'
  BY <1>2 DEF otpCooldownExpires
<1>3. ASSUME NEW e \in Emails, sendsExpire(e)
      PROVE  SignupTypeOK' /\ TaskInv'
  BY <1>3 DEF sendsExpire
<1>4. ASSUME NEW u \in Users, deleteUser(u)
      PROVE  SignupTypeOK' /\ TaskInv'
  BY <1>4 DEF deleteUser
<1>5. ASSUME NEW u \in Users, restore(u)
      PROVE  SignupTypeOK' /\ TaskInv'
  BY <1>5 DEF restore
<1>6. ASSUME NEW w \in Workers, anonymiseRead(w)
      PROVE  SignupTypeOK' /\ TaskInv'
  BY <1>6 DEF anonymiseRead
<1>7. ASSUME NEW w \in Workers, NEW e \in Emails, startSignup(w, e)
      PROVE  SignupTypeOK' /\ TaskInv'
  BY <1>7 DEF startSignup
<1>8. ASSUME NEW w \in Workers, NEW e \in Emails, resendOtp(w, e)
      PROVE  SignupTypeOK' /\ TaskInv'
  BY <1>8 DEF resendOtp
<1>9. ASSUME NEW w \in Workers, NEW e \in Emails, verifyOtpTooMany(w, e)
      PROVE  SignupTypeOK' /\ TaskInv'
  BY <1>9 DEF verifyOtpTooMany
<1>10. ASSUME NEW w \in Workers, NEW e \in Emails, verifyOtpWrong(w, e)
       PROVE  SignupTypeOK' /\ TaskInv'
  BY <1>10 DEF verifyOtpWrong
<1>11. ASSUME NEW w \in Workers, NEW e \in Emails, verifyOtpRight(w, e)
       PROVE  SignupTypeOK' /\ TaskInv'
  BY <1>11 DEF verifyOtpRight
<1>12. ASSUME NEW w \in Workers, NEW e \in Emails, googleProfile(w, e)
       PROVE  SignupTypeOK' /\ TaskInv'
  BY <1>12 DEF googleProfile
<1>13. ASSUME NEW w \in Workers, NEW e \in Emails, createStaff(w, e)
       PROVE  SignupTypeOK' /\ TaskInv'
  BY <1>13 DEF createStaff
<1>14. ASSUME NEW w \in Workers, startExists(w)
       PROVE  SignupTypeOK' /\ TaskInv'
  <2>1. CASE liveRows(task[w].e) = {}
    <3>1. task' = [task EXCEPT ![w] = Doing("cooldown", task[w].e, task[w].p, {})]
      BY <1>14, <2>1 DEF startExists
    <3>. QED
      BY <1>14, <3>1 DEF startExists
  <2>2. CASE liveRows(task[w].e) # {}
    <3>1. task' = [task EXCEPT ![w] = Free]
      BY <1>14, <2>2 DEF startExists
    <3>. QED
      BY <1>14, <3>1 DEF startExists
  <2>. QED
    BY <2>1, <2>2
<1>15. ASSUME NEW w \in Workers, checkCooldown(w)
       PROVE  SignupTypeOK' /\ TaskInv'
  <2>1. CASE task[w].e \in otpCooldown
    <3>1. task' = [task EXCEPT ![w] = Free]
      BY <1>15, <2>1 DEF checkCooldown
    <3>. QED
      BY <1>15, <3>1 DEF checkCooldown
  <2>2. CASE ~(task[w].e \in otpCooldown)
    <3>1. task' = [task EXCEPT ![w] = Doing("incr", task[w].e, task[w].p, {})]
      BY <1>15, <2>2 DEF checkCooldown
    <3>. QED
      BY <1>15, <3>1 DEF checkCooldown
  <2>. QED
    BY <2>1, <2>2
<1>16. ASSUME NEW w \in Workers, countSend(w)
       PROVE  SignupTypeOK' /\ TaskInv'
  <2>1. CASE sends[task[w].e] >= MaxSends
    <3>1. task' = [task EXCEPT ![w] = Free]
      BY <1>16, <2>1 DEF countSend
    <3>. QED
      BY <1>16, <3>1 DEF countSend
  <2>2. CASE ~(sends[task[w].e] >= MaxSends)
    <3>1. task' = [task EXCEPT ![w] = Doing("set", task[w].e, task[w].p, {})]
      BY <1>16, <2>2 DEF countSend
    <3>. QED
      BY <1>16, <3>1 DEF countSend
  <2>. QED
    BY <2>1, <2>2
<1>17. ASSUME NEW w \in Workers, NEW m \in Mails, setPending(w, m)
       PROVE  SignupTypeOK' /\ TaskInv'
  BY <1>17 DEF setPending
<1>18. ASSUME NEW w \in Workers, sendMail(w)
       PROVE  SignupTypeOK' /\ TaskInv'
  BY <1>18 DEF sendMail
<1>19. ASSUME NEW w \in Workers, verifyOtpDrop(w)
       PROVE  SignupTypeOK' /\ TaskInv'
  BY <1>19 DEF verifyOtpDrop
<1>20. ASSUME NEW w \in Workers, verifyOtpKeep(w)
       PROVE  SignupTypeOK' /\ TaskInv'
  BY <1>20 DEF verifyOtpKeep
<1>21. ASSUME NEW w \in Workers, verifyOtpConflict(w)
       PROVE  SignupTypeOK' /\ TaskInv'
  BY <1>21 DEF verifyOtpConflict
<1>22. ASSUME NEW w \in Workers, verifyOtpClean(w)
       PROVE  SignupTypeOK' /\ TaskInv'
  BY <1>22 DEF verifyOtpClean
<1>23. ASSUME NEW w \in Workers, verifyOtpCleanFailed(w)
       PROVE  SignupTypeOK' /\ TaskInv'
  BY <1>23 DEF verifyOtpCleanFailed
<1>24. ASSUME NEW w \in Workers, googleSignup(w)
       PROVE  SignupTypeOK' /\ TaskInv'
  BY <1>24 DEF googleSignup
<1>25. ASSUME NEW w \in Workers, googleKnown(w)
       PROVE  SignupTypeOK' /\ TaskInv'
  BY <1>25 DEF googleKnown
<1>26. ASSUME NEW w \in Workers, NEW u \in Users, googleFound(w, u)
       PROVE  SignupTypeOK' /\ TaskInv'
  BY <1>26 DEF googleFound
<1>27. ASSUME NEW w \in Workers, googleLink(w)
       PROVE  SignupTypeOK' /\ TaskInv'
  BY <1>27 DEF googleLink
<1>28. ASSUME NEW w \in Workers, createStaffConflict(w)
       PROVE  SignupTypeOK' /\ TaskInv'
  BY <1>28 DEF createStaffConflict
<1>29. ASSUME NEW w \in Workers, NEW u \in Users, verifyOtpCreate(w, u)
       PROVE  SignupTypeOK' /\ TaskInv'
  BY <1>29 DEF verifyOtpCreate
<1>30. ASSUME NEW w \in Workers, NEW u \in Users, createStaffInsert(w, u)
       PROVE  SignupTypeOK' /\ TaskInv'
  BY <1>30 DEF createStaffInsert
<1>31. ASSUME NEW w \in Workers, NEW u \in Users, anonymiseWrite(w, u)
       PROVE  SignupTypeOK' /\ TaskInv'
  <2>. DEFINE S == task[w].ids \ {u}
  <2>0. S \in SUBSET Users
    OBVIOUS
  <2>1. CASE task[w].ids = {u}
    <3>1. task' = [task EXCEPT ![w] = Free]
      BY <1>31, <2>1 DEF anonymiseWrite
    <3>. QED
      BY <1>31, <3>1 DEF anonymiseWrite
  <2>2. CASE task[w].ids # {u}
    <3>1. task' = [task EXCEPT ![w] = Doing("anonymise", NoEmail, NoPending, S)]
      BY <1>31, <2>2 DEF anonymiseWrite
    <3>. HIDE DEF S
    <3>. QED
      BY <1>31, <2>0, <3>1 DEF anonymiseWrite
  <2>. QED
    BY <2>1, <2>2
<1>32. ASSUME NEW w \in Workers, SignupCrash(w)
       PROVE  SignupTypeOK' /\ TaskInv'
  <2>1. guesses' \in [Mails -> Nat]
    <3>1. CASE task[w].pc = "keep" /\ guesses[task[w].p.code] # 0
      BY <1>32, <3>1 DEF SignupCrash
    <3>2. CASE ~(task[w].pc = "keep" /\ guesses[task[w].p.code] # 0)
      BY <1>32, <3>2 DEF SignupCrash
    <3>. QED
      BY <3>1, <3>2
  <2>2. task' = [task EXCEPT ![w] = Free]
    BY <1>32 DEF SignupCrash
  <2>3. task' \in [Workers -> Task] /\ TaskInv'
    BY <2>2
  <2>. QED
    BY <1>32, <2>1, <2>3 DEF SignupCrash
<1>33. CASE UNCHANGED signupVars
  BY <1>33 DEF signupVars
<1>. QED
  BY <1>1, <1>2, <1>3, <1>4, <1>5, <1>6, <1>7, <1>8, <1>9, <1>10, <1>11, <1>12, <1>13,
     <1>14, <1>15, <1>16, <1>17, <1>18, <1>19, <1>20, <1>21, <1>22, <1>23, <1>24, <1>25,
     <1>26, <1>27, <1>28, <1>29, <1>30, <1>31, <1>32, <1>33
     DEF SignupNext, SignupReceive, SignupHandle

-----------------------------------------------------------------------------
(* Signup: the accounts of an address                                      *)

\* Whoever creates or restores a row meets the partial unique index in the same step.
LEMMA AccountStep ==
  ASSUME SignupTypeOK, TaskInv, OneAccountPerEmail, [SignupNext]_signupVars
  PROVE  OneAccountPerEmail'
<1>. USE SignupAssumption DEF SignupTypeOK, TaskInv, OneAccountPerEmail, liveRows, dbVars
<1>1. ASSUME NEW e \in Emails, pendingExpires(e)
      PROVE  OneAccountPerEmail'
  BY <1>1 DEF pendingExpires
<1>2. ASSUME NEW e \in Emails, otpCooldownExpires(e)
      PROVE  OneAccountPerEmail'
  BY <1>2 DEF otpCooldownExpires
<1>3. ASSUME NEW e \in Emails, sendsExpire(e)
      PROVE  OneAccountPerEmail'
  BY <1>3 DEF sendsExpire
<1>4. ASSUME NEW u \in Users, deleteUser(u)
      PROVE  OneAccountPerEmail'
  BY <1>4 DEF deleteUser
<1>5. ASSUME NEW u \in Users, restore(u)
      PROVE  OneAccountPerEmail'
  BY <1>5 DEF restore, user_email_active_uq
<1>6. ASSUME NEW w \in Workers, anonymiseRead(w)
      PROVE  OneAccountPerEmail'
  BY <1>6 DEF anonymiseRead
<1>7. ASSUME NEW w \in Workers, NEW e \in Emails, startSignup(w, e)
      PROVE  OneAccountPerEmail'
  BY <1>7 DEF startSignup
<1>8. ASSUME NEW w \in Workers, NEW e \in Emails, resendOtp(w, e)
      PROVE  OneAccountPerEmail'
  BY <1>8 DEF resendOtp
<1>9. ASSUME NEW w \in Workers, NEW e \in Emails, verifyOtpTooMany(w, e)
      PROVE  OneAccountPerEmail'
  BY <1>9 DEF verifyOtpTooMany
<1>10. ASSUME NEW w \in Workers, NEW e \in Emails, verifyOtpWrong(w, e)
       PROVE  OneAccountPerEmail'
  BY <1>10 DEF verifyOtpWrong
<1>11. ASSUME NEW w \in Workers, NEW e \in Emails, verifyOtpRight(w, e)
       PROVE  OneAccountPerEmail'
  BY <1>11 DEF verifyOtpRight
<1>12. ASSUME NEW w \in Workers, NEW e \in Emails, googleProfile(w, e)
       PROVE  OneAccountPerEmail'
  BY <1>12 DEF googleProfile
<1>13. ASSUME NEW w \in Workers, NEW e \in Emails, createStaff(w, e)
       PROVE  OneAccountPerEmail'
  BY <1>13 DEF createStaff
<1>14. ASSUME NEW w \in Workers, startExists(w)
       PROVE  OneAccountPerEmail'
  BY <1>14 DEF startExists
<1>15. ASSUME NEW w \in Workers, checkCooldown(w)
       PROVE  OneAccountPerEmail'
  BY <1>15 DEF checkCooldown
<1>16. ASSUME NEW w \in Workers, countSend(w)
       PROVE  OneAccountPerEmail'
  BY <1>16 DEF countSend
<1>17. ASSUME NEW w \in Workers, NEW m \in Mails, setPending(w, m)
       PROVE  OneAccountPerEmail'
  BY <1>17 DEF setPending
<1>18. ASSUME NEW w \in Workers, sendMail(w)
       PROVE  OneAccountPerEmail'
  BY <1>18 DEF sendMail
<1>19. ASSUME NEW w \in Workers, verifyOtpDrop(w)
       PROVE  OneAccountPerEmail'
  BY <1>19 DEF verifyOtpDrop
<1>20. ASSUME NEW w \in Workers, verifyOtpKeep(w)
       PROVE  OneAccountPerEmail'
  BY <1>20 DEF verifyOtpKeep
<1>21. ASSUME NEW w \in Workers, verifyOtpConflict(w)
       PROVE  OneAccountPerEmail'
  BY <1>21 DEF verifyOtpConflict
<1>22. ASSUME NEW w \in Workers, verifyOtpClean(w)
       PROVE  OneAccountPerEmail'
  BY <1>22 DEF verifyOtpClean
<1>23. ASSUME NEW w \in Workers, verifyOtpCleanFailed(w)
       PROVE  OneAccountPerEmail'
  BY <1>23 DEF verifyOtpCleanFailed
<1>24. ASSUME NEW w \in Workers, googleSignup(w)
       PROVE  OneAccountPerEmail'
  BY <1>24 DEF googleSignup
<1>25. ASSUME NEW w \in Workers, googleKnown(w)
       PROVE  OneAccountPerEmail'
  BY <1>25 DEF googleKnown
<1>26. ASSUME NEW w \in Workers, NEW u \in Users, googleFound(w, u)
       PROVE  OneAccountPerEmail'
  BY <1>26 DEF googleFound
<1>27. ASSUME NEW w \in Workers, googleLink(w)
       PROVE  OneAccountPerEmail'
  BY <1>27 DEF googleLink
<1>28. ASSUME NEW w \in Workers, createStaffConflict(w)
       PROVE  OneAccountPerEmail'
  BY <1>28 DEF createStaffConflict
<1>29. ASSUME NEW w \in Workers, NEW u \in Users, verifyOtpCreate(w, u)
       PROVE  OneAccountPerEmail'
  BY <1>29 DEF verifyOtpCreate, refused, user_email_active_uq
<1>30. ASSUME NEW w \in Workers, NEW u \in Users, createStaffInsert(w, u)
       PROVE  OneAccountPerEmail'
  BY <1>30 DEF createStaffInsert, refused, user_email_active_uq
<1>31. ASSUME NEW w \in Workers, NEW u \in Users, anonymiseWrite(w, u)
       PROVE  OneAccountPerEmail'
  BY <1>31 DEF anonymiseWrite
<1>32. ASSUME NEW w \in Workers, SignupCrash(w)
       PROVE  OneAccountPerEmail'
  BY <1>32 DEF SignupCrash
<1>33. CASE UNCHANGED signupVars
  BY <1>33 DEF signupVars
<1>. QED
  BY <1>1, <1>2, <1>3, <1>4, <1>5, <1>6, <1>7, <1>8, <1>9, <1>10, <1>11, <1>12, <1>13,
     <1>14, <1>15, <1>16, <1>17, <1>18, <1>19, <1>20, <1>21, <1>22, <1>23, <1>24, <1>25,
     <1>26, <1>27, <1>28, <1>29, <1>30, <1>31, <1>32, <1>33
     DEF SignupNext, SignupReceive, SignupHandle

-----------------------------------------------------------------------------
(* Signup: the Google ids                                                  *)

\* What a Google sign-in read of a row, and what a run of the purge job read of it, is still
\* so when they write; the two never have the same row in hand, unless it was restored
\* between the job's read and its write.
BelongInv ==
  \A u \in Users :
    /\ row[u] = "none" => email[u] = NoEmail /\ googleId[u] = NoEmail
    /\ \A w \in Workers : u \in task[w].ids => row[u] # "none"
    /\ u \notin revived =>
         \A w \in Workers : u \in task[w].ids =>
           /\ task[w].pc = "link" => email[u] = task[w].e
           /\ task[w].pc = "anonymise" =>
                /\ row[u] = "deleted"
                /\ \A v \in Workers : task[v].pc = "link" => u \notin task[v].ids

\* A row is linked by the address it still has, and anonymised when nobody is about to link it.
LEMMA BelongStep ==
  ASSUME SignupTypeOK, TaskInv, BelongInv, GoogleIdMatches, [SignupNext]_signupVars
  PROVE  BelongInv' /\ GoogleIdMatches'
<1>. USE SignupAssumption DEF SignupTypeOK, TaskInv, BelongInv, GoogleIdMatches, dbVars,
     signupHistory, Start, Wait, Finish, Doing, Free, RowState
<1>1. ASSUME NEW e \in Emails, pendingExpires(e)
      PROVE  BelongInv' /\ GoogleIdMatches'
  BY <1>1 DEF pendingExpires
<1>2. ASSUME NEW e \in Emails, otpCooldownExpires(e)
      PROVE  BelongInv' /\ GoogleIdMatches'
  BY <1>2 DEF otpCooldownExpires
<1>3. ASSUME NEW e \in Emails, sendsExpire(e)
      PROVE  BelongInv' /\ GoogleIdMatches'
  BY <1>3 DEF sendsExpire
<1>4. ASSUME NEW u \in Users, deleteUser(u)
      PROVE  BelongInv' /\ GoogleIdMatches'
  BY <1>4 DEF deleteUser
<1>5. ASSUME NEW u \in Users, restore(u)
      PROVE  BelongInv' /\ GoogleIdMatches'
  BY <1>5 DEF restore, onPurgeList
<1>6. ASSUME NEW w \in Workers, anonymiseRead(w)
      PROVE  BelongInv' /\ GoogleIdMatches'
  BY <1>6 DEF anonymiseRead
<1>7. ASSUME NEW w \in Workers, NEW e \in Emails, startSignup(w, e)
      PROVE  BelongInv' /\ GoogleIdMatches'
  BY <1>7 DEF startSignup
<1>8. ASSUME NEW w \in Workers, NEW e \in Emails, resendOtp(w, e)
      PROVE  BelongInv' /\ GoogleIdMatches'
  BY <1>8 DEF resendOtp
<1>9. ASSUME NEW w \in Workers, NEW e \in Emails, verifyOtpTooMany(w, e)
      PROVE  BelongInv' /\ GoogleIdMatches'
  BY <1>9 DEF verifyOtpTooMany
<1>10. ASSUME NEW w \in Workers, NEW e \in Emails, verifyOtpWrong(w, e)
       PROVE  BelongInv' /\ GoogleIdMatches'
  BY <1>10 DEF verifyOtpWrong
<1>11. ASSUME NEW w \in Workers, NEW e \in Emails, verifyOtpRight(w, e)
       PROVE  BelongInv' /\ GoogleIdMatches'
  BY <1>11 DEF verifyOtpRight
<1>12. ASSUME NEW w \in Workers, NEW e \in Emails, googleProfile(w, e)
       PROVE  BelongInv' /\ GoogleIdMatches'
  BY <1>12 DEF googleProfile
<1>13. ASSUME NEW w \in Workers, NEW e \in Emails, createStaff(w, e)
       PROVE  BelongInv' /\ GoogleIdMatches'
  BY <1>13 DEF createStaff
<1>14. ASSUME NEW w \in Workers, startExists(w)
       PROVE  BelongInv' /\ GoogleIdMatches'
  BY <1>14 DEF startExists
<1>15. ASSUME NEW w \in Workers, checkCooldown(w)
       PROVE  BelongInv' /\ GoogleIdMatches'
  BY <1>15 DEF checkCooldown
<1>16. ASSUME NEW w \in Workers, countSend(w)
       PROVE  BelongInv' /\ GoogleIdMatches'
  BY <1>16 DEF countSend
<1>17. ASSUME NEW w \in Workers, NEW m \in Mails, setPending(w, m)
       PROVE  BelongInv' /\ GoogleIdMatches'
  BY <1>17 DEF setPending
<1>18. ASSUME NEW w \in Workers, sendMail(w)
       PROVE  BelongInv' /\ GoogleIdMatches'
  BY <1>18 DEF sendMail
<1>19. ASSUME NEW w \in Workers, verifyOtpDrop(w)
       PROVE  BelongInv' /\ GoogleIdMatches'
  BY <1>19 DEF verifyOtpDrop
<1>20. ASSUME NEW w \in Workers, verifyOtpKeep(w)
       PROVE  BelongInv' /\ GoogleIdMatches'
  BY <1>20 DEF verifyOtpKeep
<1>21. ASSUME NEW w \in Workers, verifyOtpConflict(w)
       PROVE  BelongInv' /\ GoogleIdMatches'
  BY <1>21 DEF verifyOtpConflict
<1>22. ASSUME NEW w \in Workers, verifyOtpClean(w)
       PROVE  BelongInv' /\ GoogleIdMatches'
  BY <1>22 DEF verifyOtpClean
<1>23. ASSUME NEW w \in Workers, verifyOtpCleanFailed(w)
       PROVE  BelongInv' /\ GoogleIdMatches'
  BY <1>23 DEF verifyOtpCleanFailed
<1>24. ASSUME NEW w \in Workers, googleSignup(w)
       PROVE  BelongInv' /\ GoogleIdMatches'
  BY <1>24 DEF googleSignup
<1>25. ASSUME NEW w \in Workers, googleKnown(w)
       PROVE  BelongInv' /\ GoogleIdMatches'
  BY <1>25 DEF googleKnown
<1>26. ASSUME NEW w \in Workers, NEW u \in Users, googleFound(w, u)
       PROVE  BelongInv' /\ GoogleIdMatches'
  BY <1>26 DEF googleFound, googleRows
<1>27. ASSUME NEW w \in Workers, googleLink(w)
       PROVE  BelongInv' /\ GoogleIdMatches'
  BY <1>27 DEF googleLink, googleId_key
<1>28. ASSUME NEW w \in Workers, createStaffConflict(w)
       PROVE  BelongInv' /\ GoogleIdMatches'
  BY <1>28 DEF createStaffConflict
<1>29. ASSUME NEW w \in Workers, NEW u \in Users, verifyOtpCreate(w, u)
       PROVE  BelongInv' /\ GoogleIdMatches'
  BY <1>29 DEF verifyOtpCreate
<1>30. ASSUME NEW w \in Workers, NEW u \in Users, createStaffInsert(w, u)
       PROVE  BelongInv' /\ GoogleIdMatches'
  BY <1>30 DEF createStaffInsert
<1>31. ASSUME NEW w \in Workers, NEW u \in Users, anonymiseWrite(w, u)
       PROVE  BelongInv' /\ GoogleIdMatches'
  BY <1>31 DEF anonymiseWrite
<1>32. ASSUME NEW w \in Workers, SignupCrash(w)
       PROVE  BelongInv' /\ GoogleIdMatches'
  BY <1>32 DEF SignupCrash
<1>33. CASE UNCHANGED signupVars
  BY <1>33 DEF signupVars
<1>. QED
  BY <1>1, <1>2, <1>3, <1>4, <1>5, <1>6, <1>7, <1>8, <1>9, <1>10, <1>11, <1>12, <1>13,
     <1>14, <1>15, <1>16, <1>17, <1>18, <1>19, <1>20, <1>21, <1>22, <1>23, <1>24, <1>25,
     <1>26, <1>27, <1>28, <1>29, <1>30, <1>31, <1>32, <1>33
     DEF SignupNext, SignupReceive, SignupHandle

-----------------------------------------------------------------------------
(* Signup: wrong guesses at a code                                         *)

\* A code belongs to one address, in the key and in the hands of whoever writes an attempt.
OwnerInv ==
  /\ \A e, f \in Emails : isPending(e) /\ pending[e].code = pending[f].code => e = f
  /\ \A e \in Emails, w \in Workers :
       task[w].pc = "keep" /\ task[w].p.code = pending[e].code => task[w].e = e
  /\ \A v, w \in Workers :
       task[v].pc = "keep" /\ task[w].pc = "keep" /\ task[v].p.code = task[w].p.code =>
         task[v].e = task[w].e

\* A record that nobody is about to write has counted every guess, and so has every copy that
\* will be written; a code that was not drawn has met none.
GuessInv ==
  /\ \A m \in Mails \ codes :
       /\ guesses[m] = 0
       /\ \A e \in Emails : pending[e].code # m
       /\ \A w \in Workers : task[w].pc = "keep" => task[w].p.code # m
  /\ \A w \in Workers : task[w].pc = "keep" => guesses[task[w].p.code] <= task[w].p.attempts
  /\ \A e \in Emails :
       isPending(e) =>
         /\ guesses[pending[e].code] <= pending[e].attempts + 1
         /\ guessing(pending[e].code) = {} => guesses[pending[e].code] <= pending[e].attempts
  /\ GuessesCounted

\* A step that draws no code, compares none, and writes no attempt, may only end records.
LEMMA GuessKept ==
  ASSUME OwnerInv, GuessInv, SignupTypeOK, TaskInv,
         guesses' = guesses, codes' = codes,
         \A e \in Emails : pending'[e] = pending[e] \/ pending'[e] = NoPending,
         \A w \in Workers : task[w].pc = "keep" \/ task'[w].pc = "keep" => task'[w] = task[w]
  PROVE  OwnerInv' /\ GuessInv'
<1>. USE MailingAssumption DEF NoPending, isPending
<1>1. OwnerInv'
  BY DEF OwnerInv, TaskInv
<1>2. \A e \in Emails : isPending(e)' => pending'[e] = pending[e] /\ isPending(e)
  OBVIOUS
<1>3. \A m \in Mails \ codes' :
        /\ guesses'[m] = 0
        /\ \A e \in Emails : pending'[e].code # m
        /\ \A w \in Workers : task'[w].pc = "keep" => task'[w].p.code # m
  BY DEF GuessInv
<1>4. \A w \in Workers : task'[w].pc = "keep" => guesses'[task'[w].p.code] <= task'[w].p.attempts
  BY DEF GuessInv
<1>5. ASSUME NEW e \in Emails, isPending(e)'
      PROVE  (/\ guesses[pending[e].code] <= pending[e].attempts + 1
              /\ guessing(pending[e].code) = {} => guesses[pending[e].code] <= pending[e].attempts)'
  <2>1. pending'[e] = pending[e] /\ isPending(e)
    BY <1>2, <1>5
  <2>2. guessing(pending[e].code)' = guessing(pending[e].code)
    BY <2>1 DEF guessing
  <2>. QED
    BY <2>1, <2>2 DEF GuessInv
<1>6. GuessesCounted'
  BY DEF GuessInv, GuessesCounted
<1>. QED
  BY <1>1, <1>3, <1>4, <1>5, <1>6 DEF GuessInv

\* Guesses and attempts go up together, and only a write that is lost takes them apart.
LEMMA GuessStep ==
  ASSUME SignupTypeOK, TaskInv, OwnerInv, GuessInv, [SignupNext]_signupVars
  PROVE  OwnerInv' /\ GuessInv'
<1>. USE SignupAssumption, MailingAssumption DEF SignupTypeOK, TaskInv, pendingVars, codeVars,
     signupHistory, Start, Wait, Finish, Doing, Free, Task, TaskSteps, PendingWriters,
     PendingSignup, NoPending, isPending
<1>1. ASSUME NEW e \in Emails, pendingExpires(e)
      PROVE  OwnerInv' /\ GuessInv'
  BY <1>1, GuessKept DEF pendingExpires
<1>2. ASSUME NEW e \in Emails, otpCooldownExpires(e)
      PROVE  OwnerInv' /\ GuessInv'
  BY <1>2, GuessKept DEF otpCooldownExpires
<1>3. ASSUME NEW e \in Emails, sendsExpire(e)
      PROVE  OwnerInv' /\ GuessInv'
  BY <1>3, GuessKept DEF sendsExpire
<1>4. ASSUME NEW u \in Users, deleteUser(u)
      PROVE  OwnerInv' /\ GuessInv'
  BY <1>4, GuessKept DEF deleteUser
<1>5. ASSUME NEW u \in Users, restore(u)
      PROVE  OwnerInv' /\ GuessInv'
  BY <1>5, GuessKept DEF restore
<1>6. ASSUME NEW w \in Workers, anonymiseRead(w)
      PROVE  OwnerInv' /\ GuessInv'
  BY <1>6, GuessKept DEF anonymiseRead
<1>7. ASSUME NEW w \in Workers, NEW e \in Emails, startSignup(w, e)
      PROVE  OwnerInv' /\ GuessInv'
  BY <1>7, GuessKept DEF startSignup
<1>8. ASSUME NEW w \in Workers, NEW e \in Emails, resendOtp(w, e)
      PROVE  OwnerInv' /\ GuessInv'
  BY <1>8, GuessKept DEF resendOtp
<1>9. ASSUME NEW w \in Workers, NEW e \in Emails, verifyOtpTooMany(w, e)
      PROVE  OwnerInv' /\ GuessInv'
  BY <1>9, GuessKept DEF verifyOtpTooMany
<1>10. ASSUME NEW w \in Workers, NEW e \in Emails, verifyOtpWrong(w, e)
       PROVE  OwnerInv' /\ GuessInv'
  BY <1>10 DEF verifyOtpWrong, OwnerInv, GuessInv, GuessesCounted, guessing
<1>11. ASSUME NEW w \in Workers, NEW e \in Emails, verifyOtpRight(w, e)
       PROVE  OwnerInv' /\ GuessInv'
  BY <1>11, GuessKept DEF verifyOtpRight
<1>12. ASSUME NEW w \in Workers, NEW e \in Emails, googleProfile(w, e)
       PROVE  OwnerInv' /\ GuessInv'
  BY <1>12, GuessKept DEF googleProfile
<1>13. ASSUME NEW w \in Workers, NEW e \in Emails, createStaff(w, e)
       PROVE  OwnerInv' /\ GuessInv'
  BY <1>13, GuessKept DEF createStaff
<1>14. ASSUME NEW w \in Workers, startExists(w)
       PROVE  OwnerInv' /\ GuessInv'
  BY <1>14, GuessKept DEF startExists
<1>15. ASSUME NEW w \in Workers, checkCooldown(w)
       PROVE  OwnerInv' /\ GuessInv'
  BY <1>15, GuessKept DEF checkCooldown
<1>16. ASSUME NEW w \in Workers, countSend(w)
       PROVE  OwnerInv' /\ GuessInv'
  BY <1>16, GuessKept DEF countSend
<1>17. ASSUME NEW w \in Workers, NEW m \in Mails, setPending(w, m)
       PROVE  OwnerInv' /\ GuessInv'
  BY <1>17 DEF setPending, OwnerInv, GuessInv, GuessesCounted, guessing
<1>18. ASSUME NEW w \in Workers, sendMail(w)
       PROVE  OwnerInv' /\ GuessInv'
  BY <1>18, GuessKept DEF sendMail
<1>19. ASSUME NEW w \in Workers, verifyOtpDrop(w)
       PROVE  OwnerInv' /\ GuessInv'
  BY <1>19, GuessKept DEF verifyOtpDrop
<1>20. ASSUME NEW w \in Workers, verifyOtpKeep(w)
       PROVE  OwnerInv' /\ GuessInv'
  <2>1. /\ task[w].pc = "keep" /\ task[w].e \in Emails /\ task[w].p.code \in Mails
        /\ pending' = [pending EXCEPT ![task[w].e] = task[w].p]
        /\ task' = [task EXCEPT ![w] = Free]
        /\ UNCHANGED <<guesses, codes>>
    BY <1>20 DEF verifyOtpKeep
  <2>2. \A v \in Workers : task'[v].pc = "keep" => v # w /\ task'[v] = task[v]
    BY <2>1
  <2>3. OwnerInv'
    BY <2>1, <2>2 DEF OwnerInv
  <2>4. ASSUME NEW m \in Mails \ codes
        PROVE  /\ \A e \in Emails : pending'[e].code # m
               /\ \A v \in Workers : task'[v].pc = "keep" => task'[v].p.code # m
    BY <2>1, <2>2 DEF GuessInv
  <2>5. ASSUME NEW e \in Emails, isPending(e)'
        PROVE  (/\ guesses[pending[e].code] <= pending[e].attempts + 1
                /\ guessing(pending[e].code) = {} =>
                     guesses[pending[e].code] <= pending[e].attempts)'
    <3>1. CASE e = task[w].e
      <4>1. pending'[e] = task[w].p /\ guesses[task[w].p.code] <= task[w].p.attempts
        BY <2>1, <3>1 DEF GuessInv
      <4>. QED
        BY <2>1, <4>1
    <3>2. CASE e # task[w].e
      <4>1. pending'[e] = pending[e] /\ isPending(e)
        BY <2>1, <2>5, <3>2
      <4>2. pending[e].code # task[w].p.code
        BY <2>1, <3>2 DEF OwnerInv
      <4>3. guessing(pending[e].code)' = guessing(pending[e].code)
        BY <2>1, <4>1, <4>2 DEF guessing
      <4>. QED
        BY <2>1, <4>1, <4>3 DEF GuessInv
    <3>. QED
      BY <3>1, <3>2
  <2>. QED
    BY <2>1, <2>2, <2>3, <2>4, <2>5 DEF GuessInv, GuessesCounted
<1>21. ASSUME NEW w \in Workers, verifyOtpConflict(w)
       PROVE  OwnerInv' /\ GuessInv'
  BY <1>21, GuessKept DEF verifyOtpConflict
<1>22. ASSUME NEW w \in Workers, verifyOtpClean(w)
       PROVE  OwnerInv' /\ GuessInv'
  BY <1>22, GuessKept DEF verifyOtpClean
<1>23. ASSUME NEW w \in Workers, verifyOtpCleanFailed(w)
       PROVE  OwnerInv' /\ GuessInv'
  BY <1>23, GuessKept DEF verifyOtpCleanFailed
<1>24. ASSUME NEW w \in Workers, googleSignup(w)
       PROVE  OwnerInv' /\ GuessInv'
  BY <1>24, GuessKept DEF googleSignup
<1>25. ASSUME NEW w \in Workers, googleKnown(w)
       PROVE  OwnerInv' /\ GuessInv'
  BY <1>25, GuessKept DEF googleKnown
<1>26. ASSUME NEW w \in Workers, NEW u \in Users, googleFound(w, u)
       PROVE  OwnerInv' /\ GuessInv'
  BY <1>26, GuessKept DEF googleFound
<1>27. ASSUME NEW w \in Workers, googleLink(w)
       PROVE  OwnerInv' /\ GuessInv'
  BY <1>27, GuessKept DEF googleLink
<1>28. ASSUME NEW w \in Workers, createStaffConflict(w)
       PROVE  OwnerInv' /\ GuessInv'
  BY <1>28, GuessKept DEF createStaffConflict
<1>29. ASSUME NEW w \in Workers, NEW u \in Users, verifyOtpCreate(w, u)
       PROVE  OwnerInv' /\ GuessInv'
  BY <1>29, GuessKept DEF verifyOtpCreate
<1>30. ASSUME NEW w \in Workers, NEW u \in Users, createStaffInsert(w, u)
       PROVE  OwnerInv' /\ GuessInv'
  BY <1>30, GuessKept DEF createStaffInsert
<1>31. ASSUME NEW w \in Workers, NEW u \in Users, anonymiseWrite(w, u)
       PROVE  OwnerInv' /\ GuessInv'
  BY <1>31, GuessKept DEF anonymiseWrite
<1>32. ASSUME NEW w \in Workers, SignupCrash(w)
       PROVE  OwnerInv' /\ GuessInv'
  BY <1>32 DEF SignupCrash, OwnerInv, GuessInv, GuessesCounted, guessing
<1>33. CASE UNCHANGED signupVars
  BY <1>33, GuessKept DEF signupVars
<1>. QED
  BY <1>1, <1>2, <1>3, <1>4, <1>5, <1>6, <1>7, <1>8, <1>9, <1>10, <1>11, <1>12, <1>13,
     <1>14, <1>15, <1>16, <1>17, <1>18, <1>19, <1>20, <1>21, <1>22, <1>23, <1>24, <1>25,
     <1>26, <1>27, <1>28, <1>29, <1>30, <1>31, <1>32, <1>33
     DEF SignupNext, SignupReceive, SignupHandle

-----------------------------------------------------------------------------
\* The inductive invariant of Signup.
SignupInv == SignupTypeOK /\ TaskInv /\ OneAccountPerEmail /\ OwnerInv /\ GuessInv
             /\ BelongInv /\ GoogleIdMatches

\* No row, no key and no handler at the start.
LEMMA SignupInvInit == SignupInit => SignupInv
BY SignupAssumption, MailingAssumption DEF SignupInit, SignupInv, SignupTypeOK, TaskInv,
   OneAccountPerEmail,
   OwnerInv, GuessInv, GuessesCounted, isPending, BelongInv, GoogleIdMatches, liveRows, Free, Doing, Task, TaskSteps,
   PendingSignup, NoPending, RowState,
   Provider

\* Each step keeps what the others rely on.
LEMMA SignupInvStep == SignupInv /\ [SignupNext]_signupVars => SignupInv'
BY SignupTypeStep, AccountStep, GuessStep, BelongStep DEF SignupInv

\* The invariant holds in every state of every behaviour.
THEOREM SignupInvariance == SignupSpec => []SignupInv
BY SignupInvInit, SignupInvStep, PTL DEF SignupSpec

\* Rows, keys and locals of the signup flow are well formed.
THEOREM SignupTypeCorrect == SignupSpec => []SignupTypeOK
<1>1. SignupInv => SignupTypeOK
  BY DEF SignupInv
<1>. QED
  BY <1>1, SignupInvariance, PTL

\* An address never has two live accounts, however many signups, staff accounts and
\* restorations race for it.
THEOREM OneAccount == SignupSpec => []OneAccountPerEmail
<1>1. SignupInv => OneAccountPerEmail
  BY DEF SignupInv
<1>. QED
  BY <1>1, SignupInvariance, PTL

\* verifyOtp: a code meets no more wrong guesses than the limit, but for those beside another one
\* and those whose write was lost, for any limit and any number of handlers.
THEOREM OtpGuessesLimited == SignupSpec => []GuessesCounted
<1>1. SignupInv => GuessesCounted
  BY DEF SignupInv, GuessInv
<1>. QED
  BY <1>1, SignupInvariance, PTL

\* handleGoogleProfile and runPurge: a Google id is on the row of its own address and leaves
\* with it, for any number of sign-ins and job runs.
THEOREM GoogleIdsMatch == SignupSpec => []GoogleIdMatches
<1>1. SignupInv => GoogleIdMatches
  BY DEF SignupInv
<1>. QED
  BY <1>1, SignupInvariance, PTL

\* A pending record that is gone and that no handler under way will write.
SignupDone(e) ==
  /\ ~isPending(e)
  /\ \A w \in Workers : task[w].e = e => task[w].pc \notin PendingWriters

\* What one step does to the signups that are over.
StaysOver ==
  \A e \in Emails : liveRows(e) # {} /\ SignupDone(e) => SignupDone(e)' \/ liveRows(e)' = {}

\* A pending record comes back only through a handler that read it, or read that nobody has
\* the address, before.
LEMMA OverStep ==
  ASSUME SignupTypeOK, TaskInv, [SignupNext]_signupVars
  PROVE  StaysOver
<1>. SUFFICES ASSUME NEW x \in Emails, liveRows(x) # {}, SignupDone(x)
              PROVE  SignupDone(x)' \/ liveRows(x)' = {}
  BY DEF StaysOver
<1>. USE SignupAssumption DEF SignupTypeOK, TaskInv, SignupDone, isPending, NoPending,
     PendingWriters, dbVars, pendingVars, Start, Wait, Finish, Doing, Free
<1>1. ASSUME NEW e \in Emails, pendingExpires(e)
      PROVE  SignupDone(x)' \/ liveRows(x)' = {}
  BY <1>1 DEF pendingExpires
<1>2. ASSUME NEW e \in Emails, otpCooldownExpires(e)
      PROVE  SignupDone(x)' \/ liveRows(x)' = {}
  BY <1>2 DEF otpCooldownExpires
<1>3. ASSUME NEW e \in Emails, sendsExpire(e)
      PROVE  SignupDone(x)' \/ liveRows(x)' = {}
  BY <1>3 DEF sendsExpire
<1>4. ASSUME NEW u \in Users, deleteUser(u)
      PROVE  SignupDone(x)' \/ liveRows(x)' = {}
  BY <1>4 DEF deleteUser
<1>5. ASSUME NEW u \in Users, restore(u)
      PROVE  SignupDone(x)' \/ liveRows(x)' = {}
  BY <1>5 DEF restore
<1>6. ASSUME NEW w \in Workers, anonymiseRead(w)
      PROVE  SignupDone(x)' \/ liveRows(x)' = {}
  BY <1>6 DEF anonymiseRead
<1>7. ASSUME NEW w \in Workers, NEW e \in Emails, startSignup(w, e)
      PROVE  SignupDone(x)' \/ liveRows(x)' = {}
  BY <1>7 DEF startSignup
<1>8. ASSUME NEW w \in Workers, NEW e \in Emails, resendOtp(w, e)
      PROVE  SignupDone(x)' \/ liveRows(x)' = {}
  BY <1>8 DEF resendOtp
<1>9. ASSUME NEW w \in Workers, NEW e \in Emails, verifyOtpTooMany(w, e)
      PROVE  SignupDone(x)' \/ liveRows(x)' = {}
  BY <1>9 DEF verifyOtpTooMany
<1>10. ASSUME NEW w \in Workers, NEW e \in Emails, verifyOtpWrong(w, e)
       PROVE  SignupDone(x)' \/ liveRows(x)' = {}
  BY <1>10 DEF verifyOtpWrong
<1>11. ASSUME NEW w \in Workers, NEW e \in Emails, verifyOtpRight(w, e)
       PROVE  SignupDone(x)' \/ liveRows(x)' = {}
  BY <1>11 DEF verifyOtpRight
<1>12. ASSUME NEW w \in Workers, NEW e \in Emails, googleProfile(w, e)
       PROVE  SignupDone(x)' \/ liveRows(x)' = {}
  BY <1>12 DEF googleProfile
<1>13. ASSUME NEW w \in Workers, NEW e \in Emails, createStaff(w, e)
       PROVE  SignupDone(x)' \/ liveRows(x)' = {}
  BY <1>13 DEF createStaff
<1>14. ASSUME NEW w \in Workers, startExists(w)
       PROVE  SignupDone(x)' \/ liveRows(x)' = {}
  BY <1>14 DEF startExists
<1>15. ASSUME NEW w \in Workers, checkCooldown(w)
       PROVE  SignupDone(x)' \/ liveRows(x)' = {}
  BY <1>15 DEF checkCooldown
<1>16. ASSUME NEW w \in Workers, countSend(w)
       PROVE  SignupDone(x)' \/ liveRows(x)' = {}
  BY <1>16 DEF countSend
<1>17. ASSUME NEW w \in Workers, NEW m \in Mails, setPending(w, m)
       PROVE  SignupDone(x)' \/ liveRows(x)' = {}
  BY <1>17 DEF setPending
<1>18. ASSUME NEW w \in Workers, sendMail(w)
       PROVE  SignupDone(x)' \/ liveRows(x)' = {}
  BY <1>18 DEF sendMail
<1>19. ASSUME NEW w \in Workers, verifyOtpDrop(w)
       PROVE  SignupDone(x)' \/ liveRows(x)' = {}
  BY <1>19 DEF verifyOtpDrop
<1>20. ASSUME NEW w \in Workers, verifyOtpKeep(w)
       PROVE  SignupDone(x)' \/ liveRows(x)' = {}
  BY <1>20 DEF verifyOtpKeep
<1>21. ASSUME NEW w \in Workers, verifyOtpConflict(w)
       PROVE  SignupDone(x)' \/ liveRows(x)' = {}
  BY <1>21 DEF verifyOtpConflict
<1>22. ASSUME NEW w \in Workers, verifyOtpClean(w)
       PROVE  SignupDone(x)' \/ liveRows(x)' = {}
  BY <1>22 DEF verifyOtpClean
<1>23. ASSUME NEW w \in Workers, verifyOtpCleanFailed(w)
       PROVE  SignupDone(x)' \/ liveRows(x)' = {}
  BY <1>23 DEF verifyOtpCleanFailed
<1>24. ASSUME NEW w \in Workers, googleSignup(w)
       PROVE  SignupDone(x)' \/ liveRows(x)' = {}
  BY <1>24 DEF googleSignup
<1>25. ASSUME NEW w \in Workers, googleKnown(w)
       PROVE  SignupDone(x)' \/ liveRows(x)' = {}
  BY <1>25 DEF googleKnown
<1>26. ASSUME NEW w \in Workers, NEW u \in Users, googleFound(w, u)
       PROVE  SignupDone(x)' \/ liveRows(x)' = {}
  BY <1>26 DEF googleFound
<1>27. ASSUME NEW w \in Workers, googleLink(w)
       PROVE  SignupDone(x)' \/ liveRows(x)' = {}
  BY <1>27 DEF googleLink
<1>28. ASSUME NEW w \in Workers, createStaffConflict(w)
       PROVE  SignupDone(x)' \/ liveRows(x)' = {}
  BY <1>28 DEF createStaffConflict
<1>29. ASSUME NEW w \in Workers, NEW u \in Users, verifyOtpCreate(w, u)
       PROVE  SignupDone(x)' \/ liveRows(x)' = {}
  BY <1>29 DEF verifyOtpCreate
<1>30. ASSUME NEW w \in Workers, NEW u \in Users, createStaffInsert(w, u)
       PROVE  SignupDone(x)' \/ liveRows(x)' = {}
  BY <1>30 DEF createStaffInsert
<1>31. ASSUME NEW w \in Workers, NEW u \in Users, anonymiseWrite(w, u)
       PROVE  SignupDone(x)' \/ liveRows(x)' = {}
  BY <1>31 DEF anonymiseWrite
<1>32. ASSUME NEW w \in Workers, SignupCrash(w)
       PROVE  SignupDone(x)' \/ liveRows(x)' = {}
  BY <1>32 DEF SignupCrash
<1>33. CASE UNCHANGED signupVars
  BY <1>33 DEF signupVars
<1>. QED
  BY <1>1, <1>2, <1>3, <1>4, <1>5, <1>6, <1>7, <1>8, <1>9, <1>10, <1>11, <1>12, <1>13,
     <1>14, <1>15, <1>16, <1>17, <1>18, <1>19, <1>20, <1>21, <1>22, <1>23, <1>24, <1>25,
     <1>26, <1>27, <1>28, <1>29, <1>30, <1>31, <1>32, <1>33
     DEF SignupNext, SignupReceive, SignupHandle

\* A signup that ended in an account stays over while the account lives.
THEOREM OverForGood == SignupSpec => SignupOver
<1>1. SignupInv /\ [SignupNext]_signupVars => [StaysOver]_signupVars
  BY OverStep DEF SignupInv
<1>2. SignupSpec => [][StaysOver]_signupVars
  BY <1>1, SignupInvariance, PTL DEF SignupSpec
<1>. QED
  BY <1>2 DEF SignupOver, StaysOver, SignupDone
=============================================================================

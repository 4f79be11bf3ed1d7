--------------------------- MODULE SessionsProofs ---------------------------
(***************************************************************************)
(* Proofs about Sessions, for any number of sessions, token pairs and      *)
(* handlers in flight, with Redis working or failing.                      *)
(***************************************************************************)
EXTENDS Sessions, TLAPS

Signer == {"token", "rotate"}

\* The pair a handler has signed and not yet stored.
Fresh(w) == IF job[w].pc = "rotate" THEN job[w].n ELSE job[w].t

\* A handler that is about to store a refresh token is the only one that knows it.
FreshInv ==
  /\ \A t \in Tokens : t \notin signed => refreshToken[t] = "none"
  /\ \A w \in Workers : job[w].pc \in Signer =>
       /\ Fresh(w) \in signed
       /\ refreshToken[Fresh(w)] = "none"
  /\ \A v, w \in Workers : job[v].pc \in Signer /\ job[w].pc \in Signer /\ Fresh(v) = Fresh(w)
       => v = w

\* What a client holds or a handler works with was stored, in a session that was created.
StoredInv ==
  /\ \A t \in held : refreshToken[t] # "none" /\ session[SessionOf[t]] # "none"
  /\ \A w \in Workers :
       /\ job[w].pc \in {"answer", "user", "rotate"} => refreshToken[job[w].t] # "none"
       /\ job[w].pc \in {"token", "answer", "user", "rotate"} =>
            session[SessionOf[job[w].t]] # "none"
       /\ job[w].pc = "rotate" => SessionOf[job[w].n] = SessionOf[job[w].t]

\* A null that is cached or about to be is the last word on its session.
NullInv ==
  /\ NullIsDead
  /\ \A w \in Workers : job[w].pc = "fill" /\ job[w].data = "null" => dead(job[w].s)

\* A logout that is past its Redis transaction has denied its token.
DenyInv ==
  ~RedisMayFail =>
    /\ signedOut \subseteq denied
    /\ \A w \in Workers : job[w].pc = "logout" /\ "redis" \notin job[w].todo
         => job[w].deny \subseteq denied

\* The inductive invariant.
Inv == TypeOK /\ FreshInv /\ StoredInv /\ NullInv /\ DenyInv

-----------------------------------------------------------------------------
(* Types.                                                                  *)

\* The locals a handler has at each await, and that they are what they should be.
LEMMA JobTypes ==
  ASSUME NEW w \in Workers, job \in [Workers -> Job]
  PROVE  /\ job[w].pc \in {"token", "answer", "user", "rotate"} => job[w].t \in Tokens
         /\ job[w].pc = "rotate" => job[w].n \in Tokens
         /\ job[w].pc \in {"fill", "logout"} => job[w].s \in Sessions
         /\ job[w].pc = "fill" => job[w].data \in {"session", "null"}
         /\ job[w].pc = "logout" => job[w].deny \in SUBSET Tokens
         /\ job[w].pc = "logout" => job[w].todo \in SUBSET {"session", "tokens", "redis"}
         /\ job[w].pc \in {"revokeAll", "invalidate"} => job[w].ids \in SUBSET Sessions
         /\ job[w].pc = "idle" => job[w] = Idle
<1>1. job[w] \in Job
  OBVIOUS
<1>2. CASE job[w] = Idle
  BY <1>2 DEF Idle
<1>3. CASE job[w] \in [pc: {"session"}]
  BY <1>3
<1>4. CASE job[w] \in [pc: {"token", "answer", "user"}, t: Tokens]
  BY <1>4
<1>5. CASE job[w] \in [pc: {"rotate"}, t: Tokens, n: Tokens]
  BY <1>5
<1>6. CASE job[w] \in [pc: {"fill"}, s: Sessions, data: {"session", "null"}]
  BY <1>6
<1>7. CASE job[w] \in [pc: {"logout"}, s: Sessions, deny: SUBSET Tokens,
                       todo: SUBSET {"session", "tokens", "redis"}]
  BY <1>7
<1>8. CASE job[w] \in [pc: {"password", "sessions"}]
  BY <1>8
<1>9. CASE job[w] \in [pc: {"revokeAll", "invalidate"}, ids: SUBSET Sessions]
  BY <1>9
<1>. QED
  BY <1>1, <1>2, <1>3, <1>4, <1>5, <1>6, <1>7, <1>8, <1>9 DEF Job

\* A handler about to fill the cache has nothing but the entry in its locals.
LEMMA FillJob ==
  ASSUME NEW w \in Workers, job \in [Workers -> Job], job[w].pc = "fill"
  PROVE  job[w] = [pc |-> "fill", s |-> job[w].s, data |-> job[w].data]
BY DEF Job, Idle

\* Every step of every handler keeps the rows and the locals well formed.
LEMMA TypeStep ==
  ASSUME TypeOK, [Next]_vars
  PROVE  TypeOK'
<1>. USE SessionsAssumption DEF TypeOK, dbVars, jwtVars, redisVars, historyVars, Begin, Await, Return
<1>1. ASSUME NEW s \in Sessions, SessionExpires(s)
      PROVE  TypeOK'
  BY <1>1, JobTypes DEF SessionExpires, Job, Idle, Row
<1>2. ASSUME NEW s \in Sessions, cacheExpires(s)
      PROVE  TypeOK'
  BY <1>2, JobTypes DEF cacheExpires, Job, Idle, Row
<1>3. ASSUME unblock
      PROVE  TypeOK'
  BY <1>3, JobTypes DEF unblock, Job, Idle, Row
<1>4. ASSUME NEW w \in Workers, login(w)
      PROVE  TypeOK'
  BY <1>4, JobTypes DEF login, Job, Idle, Row
<1>5. ASSUME NEW w \in Workers, logoutAll(w)
      PROVE  TypeOK'
  BY <1>5, JobTypes DEF logoutAll, Job, Idle, Row
<1>6. ASSUME NEW w \in Workers, passwordRead(w)
      PROVE  TypeOK'
  BY <1>6, JobTypes DEF passwordRead, Job, Idle, Row
<1>7. ASSUME NEW w \in Workers, block(w)
      PROVE  TypeOK'
  BY <1>7, JobTypes DEF block, Job, Idle, Row
<1>8. ASSUME NEW w \in Workers, NEW s \in Sessions, revokeSession(w, s)
      PROVE  TypeOK'
  BY <1>8, JobTypes DEF revokeSession, Job, Idle, Row, Revoked, TokensOf
<1>9. ASSUME NEW w \in Workers, NEW t \in Tokens, cachedRead(w, t)
      PROVE  TypeOK'
  BY <1>9, JobTypes DEF cachedRead, Job, Idle, Row, found, live
<1>10. ASSUME NEW w \in Workers, NEW t \in Tokens, refreshRead(w, t)
      PROVE  TypeOK'
  BY <1>10, JobTypes DEF refreshRead, Job, Idle, Row
<1>11. ASSUME NEW w \in Workers, NEW t \in Tokens, refreshReuse(w, t)
      PROVE  TypeOK'
  BY <1>11, JobTypes DEF refreshReuse, Job, Idle, Row
<1>12. ASSUME NEW w \in Workers, NEW t \in Tokens, logout(w, t)
      PROVE  TypeOK'
  BY <1>12, JobTypes DEF logout, Job, Idle, Row, LogoutJob
<1>13. ASSUME NEW w \in Workers, NEW t \in Tokens, NEW claims \in {{}, {t}},
             logoutByToken(w, t, claims)
      PROVE  TypeOK'
  BY <1>13, JobTypes DEF logoutByToken, Job, Idle, Row, LogoutJob
<1>14. ASSUME NEW w \in Workers, cachedFill(w)
      PROVE  TypeOK'
  BY <1>14, JobTypes DEF cachedFill, Job, Idle, Row
<1>15. ASSUME NEW w \in Workers, NEW t \in Tokens, createSession(w, t)
      PROVE  TypeOK'
  BY <1>15, JobTypes DEF createSession, Job, Idle, Row
<1>16. ASSUME NEW w \in Workers, createToken(w)
      PROVE  TypeOK'
  BY <1>16, JobTypes DEF createToken, Job, Idle, Row
<1>17. ASSUME NEW w \in Workers, answer(w)
      PROVE  TypeOK'
  BY <1>17, JobTypes DEF answer, Job, Idle, Row
<1>18. ASSUME NEW w \in Workers, NEW n \in Tokens, refreshUser(w, n)
      PROVE  TypeOK'
  BY <1>18, JobTypes DEF refreshUser, Job, Idle, Row
<1>19. ASSUME NEW w \in Workers, refreshRotate(w)
      PROVE  TypeOK'
  BY <1>19, JobTypes DEF refreshRotate, Job, Idle, Row
<1>20. ASSUME NEW w \in Workers, logoutSession(w)
      PROVE  TypeOK'
  BY <1>20, JobTypes DEF logoutSession, Job, Idle, Row, Revoked, LogoutJob
<1>21. ASSUME NEW w \in Workers, logoutTokens(w)
      PROVE  TypeOK'
  BY <1>21, JobTypes DEF logoutTokens, Job, Idle, Row, Revoked, TokensOf, LogoutJob
<1>22. ASSUME NEW w \in Workers, logoutRedis(w)
      PROVE  TypeOK'
  BY <1>22, JobTypes DEF logoutRedis, Job, Idle, Row, LogoutJob
<1>23. ASSUME NEW w \in Workers, logoutRedisFailed(w)
      PROVE  TypeOK'
  BY <1>23, JobTypes DEF logoutRedisFailed, Job, Idle, Row, LogoutJob
<1>24. ASSUME NEW w \in Workers, logoutAnswer(w)
      PROVE  TypeOK'
  BY <1>24, JobTypes DEF logoutAnswer, Job, Idle, Row
<1>25. ASSUME NEW w \in Workers, passwordWrite(w)
      PROVE  TypeOK'
  BY <1>25, JobTypes DEF passwordWrite, Job, Idle, Row
<1>26. ASSUME NEW w \in Workers, revokeAllRead(w)
      PROVE  TypeOK'
  BY <1>26, JobTypes DEF revokeAllRead, Job, Idle, Row
<1>27. ASSUME NEW w \in Workers, revokeAllWrite(w)
      PROVE  TypeOK'
  BY <1>27, JobTypes DEF revokeAllWrite, Job, Idle, Row, Revoked
<1>28. ASSUME NEW w \in Workers, invalidate(w)
      PROVE  TypeOK'
  BY <1>28, JobTypes DEF invalidate, Job, Idle, Row
<1>29. ASSUME NEW w \in Workers, invalidateFailed(w)
      PROVE  TypeOK'
  BY <1>29, JobTypes DEF invalidateFailed, Job, Idle, Row
<1>30. ASSUME NEW w \in Workers, Crash(w)
      PROVE  TypeOK'
  BY <1>30, JobTypes DEF Crash, Job, Idle, Row
<1>31. CASE UNCHANGED vars
  BY <1>31 DEF vars
<1>32. ASSUME NEW w \in Workers, NEW t \in Tokens, changePassword(w, t)
      PROVE  TypeOK'
  BY <1>32, JobTypes DEF changePassword, Job, Idle, Row
<1>33. ASSUME NEW w \in Workers, forceLogout(w)
      PROVE  TypeOK'
  BY <1>33, JobTypes DEF forceLogout, Job, Idle, Row
<1>. QED
  BY <1>1, <1>2, <1>3, <1>4, <1>5, <1>6, <1>7, <1>8, <1>9, <1>10, <1>11, <1>12, <1>13,
     <1>14, <1>15, <1>16, <1>17, <1>18, <1>19, <1>20, <1>21, <1>22, <1>23, <1>24, <1>25,
     <1>26, <1>27, <1>28, <1>29, <1>30, <1>31, <1>32, <1>33 DEF Next, Receive, Handle

-----------------------------------------------------------------------------
(* The inductive invariant.                                                *)

\* Nothing is signed, stored or cached at first.
LEMMA InvInit == Init => Inv
BY SessionsAssumption DEF Init, Inv, TypeOK, FreshInv, StoredInv, NullInv, DenyInv, NullIsDead,
   Signer, Idle, Job, Row

\* No two handlers store the same pair, and none stores it twice.
LEMMA FreshStep ==
  ASSUME Inv, [Next]_vars
  PROVE  FreshInv'
<1>. USE SessionsAssumption
     DEF Inv, TypeOK, FreshInv, StoredInv, Fresh, Signer, Idle, Row,
         dbVars, jwtVars, redisVars, historyVars, Begin, Await, Return
<1>1. ASSUME NEW s \in Sessions, SessionExpires(s)
      PROVE  FreshInv'
  BY <1>1, JobTypes DEF SessionExpires
<1>2. ASSUME NEW s \in Sessions, cacheExpires(s)
      PROVE  FreshInv'
  BY <1>2, JobTypes DEF cacheExpires
<1>3. ASSUME unblock
      PROVE  FreshInv'
  BY <1>3, JobTypes DEF unblock
<1>4. ASSUME NEW w \in Workers, login(w)
      PROVE  FreshInv'
  BY <1>4, JobTypes DEF login
<1>5. ASSUME NEW w \in Workers, logoutAll(w)
      PROVE  FreshInv'
  BY <1>5, JobTypes DEF logoutAll
<1>6. ASSUME NEW w \in Workers, passwordRead(w)
      PROVE  FreshInv'
  BY <1>6, JobTypes DEF passwordRead
<1>7. ASSUME NEW w \in Workers, block(w)
      PROVE  FreshInv'
  BY <1>7, JobTypes DEF block
<1>8. ASSUME NEW w \in Workers, NEW s \in Sessions, revokeSession(w, s)
      PROVE  FreshInv'
  BY <1>8, JobTypes DEF revokeSession, Revoked, TokensOf
<1>9. ASSUME NEW w \in Workers, NEW t \in Tokens, cachedRead(w, t)
      PROVE  FreshInv'
  BY <1>9, JobTypes DEF cachedRead, found
<1>10. ASSUME NEW w \in Workers, NEW t \in Tokens, refreshRead(w, t)
      PROVE  FreshInv'
  BY <1>10, JobTypes DEF refreshRead
<1>11. ASSUME NEW w \in Workers, NEW t \in Tokens, refreshReuse(w, t)
      PROVE  FreshInv'
  BY <1>11, JobTypes DEF refreshReuse
<1>12. ASSUME NEW w \in Workers, NEW t \in Tokens, logout(w, t)
      PROVE  FreshInv'
  BY <1>12, JobTypes DEF logout, LogoutJob
<1>13. ASSUME NEW w \in Workers, NEW t \in Tokens, NEW claims \in {{}, {t}},
             logoutByToken(w, t, claims)
      PROVE  FreshInv'
  BY <1>13, JobTypes DEF logoutByToken, LogoutJob
<1>14. ASSUME NEW w \in Workers, cachedFill(w)
      PROVE  FreshInv'
  BY <1>14, JobTypes DEF cachedFill
<1>15. ASSUME NEW w \in Workers, NEW t \in Tokens, createSession(w, t)
      PROVE  FreshInv'
  BY <1>15, JobTypes DEF createSession
<1>16. ASSUME NEW w \in Workers, createToken(w)
      PROVE  FreshInv'
  BY <1>16, JobTypes DEF createToken
<1>17. ASSUME NEW w \in Workers, answer(w)
      PROVE  FreshInv'
  BY <1>17, JobTypes DEF answer
<1>18. ASSUME NEW w \in Workers, NEW n \in Tokens, refreshUser(w, n)
      PROVE  FreshInv'
  BY <1>18, JobTypes DEF refreshUser
<1>19. ASSUME NEW w \in Workers, refreshRotate(w)
      PROVE  FreshInv'
  BY <1>19, JobTypes DEF refreshRotate
<1>20. ASSUME NEW w \in Workers, logoutSession(w)
      PROVE  FreshInv'
  BY <1>20, JobTypes DEF logoutSession, Revoked, LogoutJob
<1>21. ASSUME NEW w \in Workers, logoutTokens(w)
      PROVE  FreshInv'
  BY <1>21, JobTypes DEF logoutTokens, Revoked, TokensOf, LogoutJob
<1>22. ASSUME NEW w \in Workers, logoutRedis(w)
      PROVE  FreshInv'
  BY <1>22, JobTypes DEF logoutRedis, LogoutJob
<1>23. ASSUME NEW w \in Workers, logoutRedisFailed(w)
      PROVE  FreshInv'
  BY <1>23, JobTypes DEF logoutRedisFailed, LogoutJob
<1>24. ASSUME NEW w \in Workers, logoutAnswer(w)
      PROVE  FreshInv'
  BY <1>24, JobTypes DEF logoutAnswer
<1>25. ASSUME NEW w \in Workers, passwordWrite(w)
      PROVE  FreshInv'
  BY <1>25, JobTypes DEF passwordWrite
<1>26. ASSUME NEW w \in Workers, revokeAllRead(w)
      PROVE  FreshInv'
  BY <1>26, JobTypes DEF revokeAllRead
<1>27. ASSUME NEW w \in Workers, revokeAllWrite(w)
      PROVE  FreshInv'
  BY <1>27, JobTypes DEF revokeAllWrite, Revoked
<1>28. ASSUME NEW w \in Workers, invalidate(w)
      PROVE  FreshInv'
  BY <1>28, JobTypes DEF invalidate
<1>29. ASSUME NEW w \in Workers, invalidateFailed(w)
      PROVE  FreshInv'
  BY <1>29, JobTypes DEF invalidateFailed
<1>30. ASSUME NEW w \in Workers, Crash(w)
      PROVE  FreshInv'
  BY <1>30, JobTypes DEF Crash
<1>31. CASE UNCHANGED vars
  BY <1>31 DEF vars
<1>32. ASSUME NEW w \in Workers, NEW t \in Tokens, changePassword(w, t)
      PROVE  FreshInv'
  BY <1>32, JobTypes DEF changePassword
<1>33. ASSUME NEW w \in Workers, forceLogout(w)
      PROVE  FreshInv'
  BY <1>33, JobTypes DEF forceLogout
<1>. QED
  BY <1>1, <1>2, <1>3, <1>4, <1>5, <1>6, <1>7, <1>8, <1>9, <1>10, <1>11, <1>12, <1>13,
     <1>14, <1>15, <1>16, <1>17, <1>18, <1>19, <1>20, <1>21, <1>22, <1>23, <1>24, <1>25,
     <1>26, <1>27, <1>28, <1>29, <1>30, <1>31, <1>32, <1>33 DEF Next, Receive, Handle

\* Rows are never deleted.
LEMMA StoredStep ==
  ASSUME Inv, [Next]_vars
  PROVE  StoredInv'
<1>. USE SessionsAssumption
     DEF Inv, TypeOK, FreshInv, StoredInv, Fresh, Signer, Idle, Row,
         dbVars, jwtVars, redisVars, historyVars, Begin, Await, Return
<1>1. ASSUME NEW s \in Sessions, SessionExpires(s)
      PROVE  StoredInv'
  BY <1>1, JobTypes DEF SessionExpires, live
<1>2. ASSUME NEW s \in Sessions, cacheExpires(s)
      PROVE  StoredInv'
  BY <1>2, JobTypes DEF cacheExpires
<1>3. ASSUME unblock
      PROVE  StoredInv'
  BY <1>3, JobTypes DEF unblock
<1>4. ASSUME NEW w \in Workers, login(w)
      PROVE  StoredInv'
  BY <1>4, JobTypes DEF login
<1>5. ASSUME NEW w \in Workers, logoutAll(w)
      PROVE  StoredInv'
  BY <1>5, JobTypes DEF logoutAll
<1>6. ASSUME NEW w \in Workers, passwordRead(w)
      PROVE  StoredInv'
  BY <1>6, JobTypes DEF passwordRead
<1>7. ASSUME NEW w \in Workers, block(w)
      PROVE  StoredInv'
  BY <1>7, JobTypes DEF block
<1>8. ASSUME NEW w \in Workers, NEW s \in Sessions, revokeSession(w, s)
      PROVE  StoredInv'
  BY <1>8, JobTypes DEF revokeSession, Revoked, TokensOf
<1>9. ASSUME NEW w \in Workers, NEW t \in Tokens, cachedRead(w, t)
      PROVE  StoredInv'
  BY <1>9, JobTypes DEF cachedRead, found, live
<1>10. ASSUME NEW w \in Workers, NEW t \in Tokens, refreshRead(w, t)
      PROVE  StoredInv'
  BY <1>10, JobTypes DEF refreshRead, live
<1>11. ASSUME NEW w \in Workers, NEW t \in Tokens, refreshReuse(w, t)
      PROVE  StoredInv'
  BY <1>11, JobTypes DEF refreshReuse
<1>12. ASSUME NEW w \in Workers, NEW t \in Tokens, logout(w, t)
      PROVE  StoredInv'
  BY <1>12, JobTypes DEF logout, LogoutJob
<1>13. ASSUME NEW w \in Workers, NEW t \in Tokens, NEW claims \in {{}, {t}},
             logoutByToken(w, t, claims)
      PROVE  StoredInv'
  BY <1>13, JobTypes DEF logoutByToken, LogoutJob
<1>14. ASSUME NEW w \in Workers, cachedFill(w)
      PROVE  StoredInv'
  BY <1>14, JobTypes DEF cachedFill
<1>15. ASSUME NEW w \in Workers, NEW t \in Tokens, createSession(w, t)
      PROVE  StoredInv'
  BY <1>15, JobTypes DEF createSession
<1>16. ASSUME NEW w \in Workers, createToken(w)
      PROVE  StoredInv'
  BY <1>16, JobTypes DEF createToken
<1>17. ASSUME NEW w \in Workers, answer(w)
      PROVE  StoredInv'
  BY <1>17, JobTypes DEF answer
<1>18. ASSUME NEW w \in Workers, NEW n \in Tokens, refreshUser(w, n)
      PROVE  StoredInv'
  BY <1>18, JobTypes DEF refreshUser
<1>19. ASSUME NEW w \in Workers, refreshRotate(w)
      PROVE  StoredInv'
  BY <1>19, JobTypes DEF refreshRotate
<1>20. ASSUME NEW w \in Workers, logoutSession(w)
      PROVE  StoredInv'
  BY <1>20, JobTypes DEF logoutSession, Revoked, LogoutJob
<1>21. ASSUME NEW w \in Workers, logoutTokens(w)
      PROVE  StoredInv'
  BY <1>21, JobTypes DEF logoutTokens, Revoked, TokensOf, LogoutJob
<1>22. ASSUME NEW w \in Workers, logoutRedis(w)
      PROVE  StoredInv'
  BY <1>22, JobTypes DEF logoutRedis, LogoutJob
<1>23. ASSUME NEW w \in Workers, logoutRedisFailed(w)
      PROVE  StoredInv'
  BY <1>23, JobTypes DEF logoutRedisFailed, LogoutJob
<1>24. ASSUME NEW w \in Workers, logoutAnswer(w)
      PROVE  StoredInv'
  BY <1>24, JobTypes DEF logoutAnswer
<1>25. ASSUME NEW w \in Workers, passwordWrite(w)
      PROVE  StoredInv'
  BY <1>25, JobTypes DEF passwordWrite
<1>26. ASSUME NEW w \in Workers, revokeAllRead(w)
      PROVE  StoredInv'
  BY <1>26, JobTypes DEF revokeAllRead
<1>27. ASSUME NEW w \in Workers, revokeAllWrite(w)
      PROVE  StoredInv'
  BY <1>27, JobTypes DEF revokeAllWrite, Revoked
<1>28. ASSUME NEW w \in Workers, invalidate(w)
      PROVE  StoredInv'
  BY <1>28, JobTypes DEF invalidate
<1>29. ASSUME NEW w \in Workers, invalidateFailed(w)
      PROVE  StoredInv'
  BY <1>29, JobTypes DEF invalidateFailed
<1>30. ASSUME NEW w \in Workers, Crash(w)
      PROVE  StoredInv'
  BY <1>30, JobTypes DEF Crash
<1>31. CASE UNCHANGED vars
  BY <1>31 DEF vars
<1>32. ASSUME NEW w \in Workers, NEW t \in Tokens, changePassword(w, t)
      PROVE  StoredInv'
  BY <1>32, JobTypes DEF changePassword
<1>33. ASSUME NEW w \in Workers, forceLogout(w)
      PROVE  StoredInv'
  BY <1>33, JobTypes DEF forceLogout
<1>. QED
  BY <1>1, <1>2, <1>3, <1>4, <1>5, <1>6, <1>7, <1>8, <1>9, <1>10, <1>11, <1>12, <1>13,
     <1>14, <1>15, <1>16, <1>17, <1>18, <1>19, <1>20, <1>21, <1>22, <1>23, <1>24, <1>25,
     <1>26, <1>27, <1>28, <1>29, <1>30, <1>31, <1>32, <1>33 DEF Next, Receive, Handle

\* Nothing brings a session back that a null was read for.
LEMMA NullStep ==
  ASSUME Inv, [Next]_vars
  PROVE  NullInv'
<1>. USE SessionsAssumption
     DEF Inv, TypeOK, StoredInv, NullInv, NullIsDead, dead, Idle, Row,
         dbVars, jwtVars, redisVars, historyVars, Begin, Await, Return
<1>1. ASSUME NEW s \in Sessions, SessionExpires(s)
      PROVE  NullInv'
  BY <1>1, JobTypes DEF SessionExpires, live
<1>2. ASSUME NEW s \in Sessions, cacheExpires(s)
      PROVE  NullInv'
  BY <1>2, JobTypes DEF cacheExpires
<1>3. ASSUME unblock
      PROVE  NullInv'
  BY <1>3, JobTypes DEF unblock
<1>4. ASSUME NEW w \in Workers, login(w)
      PROVE  NullInv'
  BY <1>4, JobTypes DEF login
<1>5. ASSUME NEW w \in Workers, logoutAll(w)
      PROVE  NullInv'
  BY <1>5, JobTypes DEF logoutAll
<1>6. ASSUME NEW w \in Workers, passwordRead(w)
      PROVE  NullInv'
  BY <1>6, JobTypes DEF passwordRead
<1>7. ASSUME NEW w \in Workers, block(w)
      PROVE  NullInv'
  BY <1>7, JobTypes DEF block
<1>8. ASSUME NEW w \in Workers, NEW s \in Sessions, revokeSession(w, s)
      PROVE  NullInv'
  BY <1>8, JobTypes DEF revokeSession, Revoked, TokensOf
<1>9. ASSUME NEW w \in Workers, NEW t \in Tokens, cachedRead(w, t)
      PROVE  NullInv'
  BY <1>9, JobTypes DEF cachedRead, found, live
<1>10. ASSUME NEW w \in Workers, NEW t \in Tokens, refreshRead(w, t)
      PROVE  NullInv'
  BY <1>10, JobTypes DEF refreshRead, live
<1>11. ASSUME NEW w \in Workers, NEW t \in Tokens, refreshReuse(w, t)
      PROVE  NullInv'
  BY <1>11, JobTypes DEF refreshReuse
<1>12. ASSUME NEW w \in Workers, NEW t \in Tokens, logout(w, t)
      PROVE  NullInv'
  BY <1>12, JobTypes DEF logout, LogoutJob
<1>13. ASSUME NEW w \in Workers, NEW t \in Tokens, NEW claims \in {{}, {t}},
             logoutByToken(w, t, claims)
      PROVE  NullInv'
  BY <1>13, JobTypes DEF logoutByToken, LogoutJob
<1>14. ASSUME NEW w \in Workers, cachedFill(w)
      PROVE  NullInv'
  BY <1>14, JobTypes DEF cachedFill
<1>15. ASSUME NEW w \in Workers, NEW t \in Tokens, createSession(w, t)
      PROVE  NullInv'
  BY <1>15, JobTypes DEF createSession
<1>16. ASSUME NEW w \in Workers, createToken(w)
      PROVE  NullInv'
  BY <1>16, JobTypes DEF createToken
<1>17. ASSUME NEW w \in Workers, answer(w)
      PROVE  NullInv'
  BY <1>17, JobTypes DEF answer
<1>18. ASSUME NEW w \in Workers, NEW n \in Tokens, refreshUser(w, n)
      PROVE  NullInv'
  BY <1>18, JobTypes DEF refreshUser
<1>19. ASSUME NEW w \in Workers, refreshRotate(w)
      PROVE  NullInv'
  BY <1>19, JobTypes DEF refreshRotate
<1>20. ASSUME NEW w \in Workers, logoutSession(w)
      PROVE  NullInv'
  BY <1>20, JobTypes DEF logoutSession, Revoked, LogoutJob
<1>21. ASSUME NEW w \in Workers, logoutTokens(w)
      PROVE  NullInv'
  BY <1>21, JobTypes DEF logoutTokens, Revoked, TokensOf, LogoutJob
<1>22. ASSUME NEW w \in Workers, logoutRedis(w)
      PROVE  NullInv'
  BY <1>22, JobTypes DEF logoutRedis, LogoutJob
<1>23. ASSUME NEW w \in Workers, logoutRedisFailed(w)
      PROVE  NullInv'
  BY <1>23, JobTypes DEF logoutRedisFailed, LogoutJob
<1>24. ASSUME NEW w \in Workers, logoutAnswer(w)
      PROVE  NullInv'
  BY <1>24, JobTypes DEF logoutAnswer
<1>25. ASSUME NEW w \in Workers, passwordWrite(w)
      PROVE  NullInv'
  BY <1>25, JobTypes DEF passwordWrite
<1>26. ASSUME NEW w \in Workers, revokeAllRead(w)
      PROVE  NullInv'
  BY <1>26, JobTypes DEF revokeAllRead
<1>27. ASSUME NEW w \in Workers, revokeAllWrite(w)
      PROVE  NullInv'
  BY <1>27, JobTypes DEF revokeAllWrite, Revoked
<1>28. ASSUME NEW w \in Workers, invalidate(w)
      PROVE  NullInv'
  BY <1>28, JobTypes DEF invalidate
<1>29. ASSUME NEW w \in Workers, invalidateFailed(w)
      PROVE  NullInv'
  BY <1>29, JobTypes DEF invalidateFailed
<1>30. ASSUME NEW w \in Workers, Crash(w)
      PROVE  NullInv'
  BY <1>30, JobTypes DEF Crash
<1>31. CASE UNCHANGED vars
  BY <1>31 DEF vars
<1>32. ASSUME NEW w \in Workers, NEW t \in Tokens, changePassword(w, t)
      PROVE  NullInv'
  BY <1>32, JobTypes DEF changePassword
<1>33. ASSUME NEW w \in Workers, forceLogout(w)
      PROVE  NullInv'
  BY <1>33, JobTypes DEF forceLogout
<1>. QED
  BY <1>1, <1>2, <1>3, <1>4, <1>5, <1>6, <1>7, <1>8, <1>9, <1>10, <1>11, <1>12, <1>13,
     <1>14, <1>15, <1>16, <1>17, <1>18, <1>19, <1>20, <1>21, <1>22, <1>23, <1>24, <1>25,
     <1>26, <1>27, <1>28, <1>29, <1>30, <1>31, <1>32, <1>33 DEF Next, Receive, Handle

\* A denied token stays denied.
LEMMA DenyStep ==
  ASSUME Inv, [Next]_vars
  PROVE  DenyInv'
<1>. USE SessionsAssumption
     DEF Inv, TypeOK, DenyInv, Idle, Row,
         dbVars, jwtVars, redisVars, historyVars, Begin, Await, Return
<1>1. ASSUME NEW s \in Sessions, SessionExpires(s)
      PROVE  DenyInv'
  BY <1>1, JobTypes DEF SessionExpires
<1>2. ASSUME NEW s \in Sessions, cacheExpires(s)
      PROVE  DenyInv'
  BY <1>2, JobTypes DEF cacheExpires
<1>3. ASSUME unblock
      PROVE  DenyInv'
  BY <1>3, JobTypes DEF unblock
<1>4. ASSUME NEW w \in Workers, login(w)
      PROVE  DenyInv'
  BY <1>4, JobTypes DEF login
<1>5. ASSUME NEW w \in Workers, logoutAll(w)
      PROVE  DenyInv'
  BY <1>5, JobTypes DEF logoutAll
<1>6. ASSUME NEW w \in Workers, passwordRead(w)
      PROVE  DenyInv'
  BY <1>6, JobTypes DEF passwordRead
<1>7. ASSUME NEW w \in Workers, block(w)
      PROVE  DenyInv'
  BY <1>7, JobTypes DEF block
<1>8. ASSUME NEW w \in Workers, NEW s \in Sessions, revokeSession(w, s)
      PROVE  DenyInv'
  BY <1>8, JobTypes DEF revokeSession, Revoked, TokensOf
<1>9. ASSUME NEW w \in Workers, NEW t \in Tokens, cachedRead(w, t)
      PROVE  DenyInv'
  BY <1>9, JobTypes DEF cachedRead, found
<1>10. ASSUME NEW w \in Workers, NEW t \in Tokens, refreshRead(w, t)
      PROVE  DenyInv'
  BY <1>10, JobTypes DEF refreshRead
<1>11. ASSUME NEW w \in Workers, NEW t \in Tokens, refreshReuse(w, t)
      PROVE  DenyInv'
  BY <1>11, JobTypes DEF refreshReuse
<1>12. ASSUME NEW w \in Workers, NEW t \in Tokens, logout(w, t)
      PROVE  DenyInv'
  BY <1>12, JobTypes DEF logout, LogoutJob
<1>13. ASSUME NEW w \in Workers, NEW t \in Tokens, NEW claims \in {{}, {t}},
             logoutByToken(w, t, claims)
      PROVE  DenyInv'
  BY <1>13, JobTypes DEF logoutByToken, LogoutJob
<1>14. ASSUME NEW w \in Workers, cachedFill(w)
      PROVE  DenyInv'
  BY <1>14, JobTypes DEF cachedFill
<1>15. ASSUME NEW w \in Workers, NEW t \in Tokens, createSession(w, t)
      PROVE  DenyInv'
  BY <1>15, JobTypes DEF createSession
<1>16. ASSUME NEW w \in Workers, createToken(w)
      PROVE  DenyInv'
  BY <1>16, JobTypes DEF createToken
<1>17. ASSUME NEW w \in Workers, answer(w)
      PROVE  DenyInv'
  BY <1>17, JobTypes DEF answer
<1>18. ASSUME NEW w \in Workers, NEW n \in Tokens, refreshUser(w, n)
      PROVE  DenyInv'
  BY <1>18, JobTypes DEF refreshUser
<1>19. ASSUME NEW w \in Workers, refreshRotate(w)
      PROVE  DenyInv'
  BY <1>19, JobTypes DEF refreshRotate
<1>20. ASSUME NEW w \in Workers, logoutSession(w)
      PROVE  DenyInv'
  BY <1>20, JobTypes DEF logoutSession, Revoked, LogoutJob
<1>21. ASSUME NEW w \in Workers, logoutTokens(w)
      PROVE  DenyInv'
  BY <1>21, JobTypes DEF logoutTokens, Revoked, TokensOf, LogoutJob
<1>22. ASSUME NEW w \in Workers, logoutRedis(w)
      PROVE  DenyInv'
  BY <1>22, JobTypes DEF logoutRedis, LogoutJob
<1>23. ASSUME NEW w \in Workers, logoutRedisFailed(w)
      PROVE  DenyInv'
  BY <1>23, JobTypes DEF logoutRedisFailed, LogoutJob
<1>24. ASSUME NEW w \in Workers, logoutAnswer(w)
      PROVE  DenyInv'
  BY <1>24, JobTypes DEF logoutAnswer
<1>25. ASSUME NEW w \in Workers, passwordWrite(w)
      PROVE  DenyInv'
  BY <1>25, JobTypes DEF passwordWrite
<1>26. ASSUME NEW w \in Workers, revokeAllRead(w)
      PROVE  DenyInv'
  BY <1>26, JobTypes DEF revokeAllRead
<1>27. ASSUME NEW w \in Workers, revokeAllWrite(w)
      PROVE  DenyInv'
  BY <1>27, JobTypes DEF revokeAllWrite, Revoked
<1>28. ASSUME NEW w \in Workers, invalidate(w)
      PROVE  DenyInv'
  BY <1>28, JobTypes DEF invalidate
<1>29. ASSUME NEW w \in Workers, invalidateFailed(w)
      PROVE  DenyInv'
  BY <1>29, JobTypes DEF invalidateFailed
<1>30. ASSUME NEW w \in Workers, Crash(w)
      PROVE  DenyInv'
  BY <1>30, JobTypes DEF Crash
<1>31. CASE UNCHANGED vars
  BY <1>31 DEF vars
<1>32. ASSUME NEW w \in Workers, NEW t \in Tokens, changePassword(w, t)
      PROVE  DenyInv'
  BY <1>32, JobTypes DEF changePassword
<1>33. ASSUME NEW w \in Workers, forceLogout(w)
      PROVE  DenyInv'
  BY <1>33, JobTypes DEF forceLogout
<1>. QED
  BY <1>1, <1>2, <1>3, <1>4, <1>5, <1>6, <1>7, <1>8, <1>9, <1>10, <1>11, <1>12, <1>13,
     <1>14, <1>15, <1>16, <1>17, <1>18, <1>19, <1>20, <1>21, <1>22, <1>23, <1>24, <1>25,
     <1>26, <1>27, <1>28, <1>29, <1>30, <1>31, <1>32, <1>33 DEF Next, Receive, Handle

\* Inv holds in every reachable state.
THEOREM Invariance == Spec => []Inv
<1>1. Inv /\ [Next]_vars => Inv'
  BY TypeStep, FreshStep, StoredStep, NullStep, DenyStep DEF Inv
<1>. QED
  BY <1>1, InvInit, PTL DEF Spec

\* Rows and locals are always well formed.
THEOREM TypeCorrect == Spec => []TypeOK
<1>1. Inv => TypeOK
  BY DEF Inv
<1>. QED
  BY <1>1, Invariance, PTL

\* A cached null never refuses a session that is alive.
THEOREM NullsAreDead == Spec => []NullIsDead
<1>1. Inv => NullIsDead
  BY DEF Inv, NullInv
<1>. QED
  BY <1>1, Invariance, PTL

\* The access token of an answered logout is refused beside any other handlers, as long as
\* Redis works.
THEOREM SignedOut == Spec => []SignedOutIsRefused
<1>1. Inv => SignedOutIsRefused
  BY DEF Inv, DenyInv, SignedOutIsRefused, accepts
<1>. QED
  BY <1>1, Invariance, PTL

-----------------------------------------------------------------------------
(* What is over stays over.                                                *)

StaysRevoked ==
  /\ \A s \in Sessions : session[s] = "revoked" => session'[s] = "revoked"
  /\ \A t \in Tokens : refreshToken[t] = "revoked" => refreshToken'[t] = "revoked"

\* A row is made live only where there was none.
LEMMA RevokedStep ==
  ASSUME Inv, [Next]_vars
  PROVE  StaysRevoked
<1>. USE SessionsAssumption
     DEF Inv, TypeOK, FreshInv, StoredInv, Fresh, Signer, StaysRevoked, Row,
         dbVars, jwtVars, redisVars, historyVars, Begin, Await, Return
<1>1. ASSUME NEW s \in Sessions, SessionExpires(s)
      PROVE  StaysRevoked
  BY <1>1, JobTypes DEF SessionExpires
<1>2. ASSUME NEW s \in Sessions, cacheExpires(s)
      PROVE  StaysRevoked
  BY <1>2, JobTypes DEF cacheExpires
<1>3. ASSUME unblock
      PROVE  StaysRevoked
  BY <1>3, JobTypes DEF unblock
<1>4. ASSUME NEW w \in Workers, login(w)
      PROVE  StaysRevoked
  BY <1>4, JobTypes DEF login
<1>5. ASSUME NEW w \in Workers, logoutAll(w)
      PROVE  StaysRevoked
  BY <1>5, JobTypes DEF logoutAll
<1>6. ASSUME NEW w \in Workers, passwordRead(w)
      PROVE  StaysRevoked
  BY <1>6, JobTypes DEF passwordRead
<1>7. ASSUME NEW w \in Workers, block(w)
      PROVE  StaysRevoked
  BY <1>7, JobTypes DEF block
<1>8. ASSUME NEW w \in Workers, NEW s \in Sessions, revokeSession(w, s)
      PROVE  StaysRevoked
  BY <1>8, JobTypes DEF revokeSession, Revoked, TokensOf
<1>9. ASSUME NEW w \in Workers, NEW t \in Tokens, cachedRead(w, t)
      PROVE  StaysRevoked
  BY <1>9, JobTypes DEF cachedRead
<1>10. ASSUME NEW w \in Workers, NEW t \in Tokens, refreshRead(w, t)
      PROVE  StaysRevoked
  BY <1>10, JobTypes DEF refreshRead
<1>11. ASSUME NEW w \in Workers, NEW t \in Tokens, refreshReuse(w, t)
      PROVE  StaysRevoked
  BY <1>11, JobTypes DEF refreshReuse
<1>12. ASSUME NEW w \in Workers, NEW t \in Tokens, logout(w, t)
      PROVE  StaysRevoked
  BY <1>12, JobTypes DEF logout
<1>13. ASSUME NEW w \in Workers, NEW t \in Tokens, NEW claims \in {{}, {t}},
             logoutByToken(w, t, claims)
      PROVE  StaysRevoked
  BY <1>13, JobTypes DEF logoutByToken
<1>14. ASSUME NEW w \in Workers, cachedFill(w)
      PROVE  StaysRevoked
  BY <1>14, JobTypes DEF cachedFill
<1>15. ASSUME NEW w \in Workers, NEW t \in Tokens, createSession(w, t)
      PROVE  StaysRevoked
  BY <1>15, JobTypes DEF createSession
<1>16. ASSUME NEW w \in Workers, createToken(w)
      PROVE  StaysRevoked
  BY <1>16, JobTypes DEF createToken
<1>17. ASSUME NEW w \in Workers, answer(w)
      PROVE  StaysRevoked
  BY <1>17, JobTypes DEF answer
<1>18. ASSUME NEW w \in Workers, NEW n \in Tokens, refreshUser(w, n)
      PROVE  StaysRevoked
  BY <1>18, JobTypes DEF refreshUser
<1>19. ASSUME NEW w \in Workers, refreshRotate(w)
      PROVE  StaysRevoked
  BY <1>19, JobTypes DEF refreshRotate
<1>20. ASSUME NEW w \in Workers, logoutSession(w)
      PROVE  StaysRevoked
  BY <1>20, JobTypes DEF logoutSession, Revoked
<1>21. ASSUME NEW w \in Workers, logoutTokens(w)
      PROVE  StaysRevoked
  BY <1>21, JobTypes DEF logoutTokens, Revoked, TokensOf
<1>22. ASSUME NEW w \in Workers, logoutRedis(w)
      PROVE  StaysRevoked
  BY <1>22, JobTypes DEF logoutRedis
<1>23. ASSUME NEW w \in Workers, logoutRedisFailed(w)
      PROVE  StaysRevoked
  BY <1>23, JobTypes DEF logoutRedisFailed
<1>24. ASSUME NEW w \in Workers, logoutAnswer(w)
      PROVE  StaysRevoked
  BY <1>24, JobTypes DEF logoutAnswer
<1>25. ASSUME NEW w \in Workers, passwordWrite(w)
      PROVE  StaysRevoked
  BY <1>25, JobTypes DEF passwordWrite
<1>26. ASSUME NEW w \in Workers, revokeAllRead(w)
      PROVE  StaysRevoked
  BY <1>26, JobTypes DEF revokeAllRead
<1>27. ASSUME NEW w \in Workers, revokeAllWrite(w)
      PROVE  StaysRevoked
  BY <1>27, JobTypes DEF revokeAllWrite, Revoked
<1>28. ASSUME NEW w \in Workers, invalidate(w)
      PROVE  StaysRevoked
  BY <1>28, JobTypes DEF invalidate
<1>29. ASSUME NEW w \in Workers, invalidateFailed(w)
      PROVE  StaysRevoked
  BY <1>29, JobTypes DEF invalidateFailed
<1>30. ASSUME NEW w \in Workers, Crash(w)
      PROVE  StaysRevoked
  BY <1>30, JobTypes DEF Crash
<1>31. CASE UNCHANGED vars
  BY <1>31 DEF vars
<1>32. ASSUME NEW w \in Workers, NEW t \in Tokens, changePassword(w, t)
      PROVE  StaysRevoked
  BY <1>32, JobTypes DEF changePassword
<1>33. ASSUME NEW w \in Workers, forceLogout(w)
      PROVE  StaysRevoked
  BY <1>33, JobTypes DEF forceLogout
<1>. QED
  BY <1>1, <1>2, <1>3, <1>4, <1>5, <1>6, <1>7, <1>8, <1>9, <1>10, <1>11, <1>12, <1>13,
     <1>14, <1>15, <1>16, <1>17, <1>18, <1>19, <1>20, <1>21, <1>22, <1>23, <1>24, <1>25,
     <1>26, <1>27, <1>28, <1>29, <1>30, <1>31, <1>32, <1>33 DEF Next, Receive, Handle

\* Whatever a handler read before a revocation, it brings nothing back.
THEOREM RevocationLasts == Spec => RevokedForGood
<1>1. Inv /\ [Next]_vars => [StaysRevoked]_vars
  BY RevokedStep
<1>2. Spec => [][StaysRevoked]_vars
  BY <1>1, Invariance, PTL DEF Spec
<1>. QED
  BY <1>2 DEF RevokedForGood, StaysRevoked

Remembers(s) ==
  \/ cache[s] = "session"
  \/ \E w \in Workers : job[w] = [pc |-> "fill", s |-> s, data |-> "session"]

StaysForgotten ==
  \A s \in Sessions : dead(s) /\ ~Remembers(s) => dead(s)' /\ ~Remembers(s)'

\* Only a handler that found the session alive writes it to the cache.
LEMMA ForgottenStep ==
  ASSUME Inv, [Next]_vars
  PROVE  StaysForgotten
<1>. USE SessionsAssumption
     DEF Inv, TypeOK, StaysForgotten, Remembers, dead, Row, Idle,
         dbVars, jwtVars, redisVars, historyVars, Begin, Await, Return
<1>1. ASSUME NEW s \in Sessions, SessionExpires(s)
      PROVE  StaysForgotten
  BY <1>1, RevokedStep, JobTypes DEF StaysRevoked, SessionExpires
<1>2. ASSUME NEW s \in Sessions, cacheExpires(s)
      PROVE  StaysForgotten
  BY <1>2, RevokedStep, JobTypes DEF StaysRevoked, cacheExpires
<1>3. ASSUME unblock
      PROVE  StaysForgotten
  BY <1>3, RevokedStep, JobTypes DEF StaysRevoked, unblock
<1>4. ASSUME NEW w \in Workers, login(w)
      PROVE  StaysForgotten
  BY <1>4, RevokedStep, JobTypes DEF StaysRevoked, login
<1>5. ASSUME NEW w \in Workers, logoutAll(w)
      PROVE  StaysForgotten
  BY <1>5, RevokedStep, JobTypes DEF StaysRevoked, logoutAll
<1>6. ASSUME NEW w \in Workers, passwordRead(w)
      PROVE  StaysForgotten
  BY <1>6, RevokedStep, JobTypes DEF StaysRevoked, passwordRead
<1>7. ASSUME NEW w \in Workers, block(w)
      PROVE  StaysForgotten
  BY <1>7, RevokedStep, JobTypes DEF StaysRevoked, block
<1>8. ASSUME NEW w \in Workers, NEW s \in Sessions, revokeSession(w, s)
      PROVE  StaysForgotten
  BY <1>8, RevokedStep, JobTypes DEF StaysRevoked, revokeSession, Revoked, TokensOf
<1>9. ASSUME NEW w \in Workers, NEW t \in Tokens, cachedRead(w, t)
      PROVE  StaysForgotten
  BY <1>9, RevokedStep, JobTypes DEF StaysRevoked, cachedRead, found, live
<1>10. ASSUME NEW w \in Workers, NEW t \in Tokens, refreshRead(w, t)
      PROVE  StaysForgotten
  BY <1>10, RevokedStep, JobTypes DEF StaysRevoked, refreshRead
<1>11. ASSUME NEW w \in Workers, NEW t \in Tokens, refreshReuse(w, t)
      PROVE  StaysForgotten
  BY <1>11, RevokedStep, JobTypes DEF StaysRevoked, refreshReuse
<1>12. ASSUME NEW w \in Workers, NEW t \in Tokens, logout(w, t)
      PROVE  StaysForgotten
  BY <1>12, RevokedStep, JobTypes DEF StaysRevoked, logout, LogoutJob
<1>13. ASSUME NEW w \in Workers, NEW t \in Tokens, NEW claims \in {{}, {t}},
             logoutByToken(w, t, claims)
      PROVE  StaysForgotten
  BY <1>13, RevokedStep, JobTypes DEF StaysRevoked, logoutByToken, LogoutJob
<1>14. ASSUME NEW w \in Workers, cachedFill(w)
      PROVE  StaysForgotten
  BY <1>14, RevokedStep, JobTypes, FillJob DEF StaysRevoked, cachedFill
<1>15. ASSUME NEW w \in Workers, NEW t \in Tokens, createSession(w, t)
      PROVE  StaysForgotten
  BY <1>15, RevokedStep, JobTypes DEF StaysRevoked, createSession
<1>16. ASSUME NEW w \in Workers, createToken(w)
      PROVE  StaysForgotten
  BY <1>16, RevokedStep, JobTypes DEF StaysRevoked, createToken
<1>17. ASSUME NEW w \in Workers, answer(w)
      PROVE  StaysForgotten
  BY <1>17, RevokedStep, JobTypes DEF StaysRevoked, answer
<1>18. ASSUME NEW w \in Workers, NEW n \in Tokens, refreshUser(w, n)
      PROVE  StaysForgotten
  BY <1>18, RevokedStep, JobTypes DEF StaysRevoked, refreshUser
<1>19. ASSUME NEW w \in Workers, refreshRotate(w)
      PROVE  StaysForgotten
  BY <1>19, RevokedStep, JobTypes DEF StaysRevoked, refreshRotate
<1>20. ASSUME NEW w \in Workers, logoutSession(w)
      PROVE  StaysForgotten
  BY <1>20, RevokedStep, JobTypes DEF StaysRevoked, logoutSession, Revoked, LogoutJob
<1>21. ASSUME NEW w \in Workers, logoutTokens(w)
      PROVE  StaysForgotten
  BY <1>21, RevokedStep, JobTypes DEF StaysRevoked, logoutTokens, Revoked, TokensOf, LogoutJob
<1>22. ASSUME NEW w \in Workers, logoutRedis(w)
      PROVE  StaysForgotten
  BY <1>22, RevokedStep, JobTypes DEF StaysRevoked, logoutRedis, LogoutJob
<1>23. ASSUME NEW w \in Workers, logoutRedisFailed(w)
      PROVE  StaysForgotten
  BY <1>23, RevokedStep, JobTypes DEF StaysRevoked, logoutRedisFailed, LogoutJob
<1>24. ASSUME NEW w \in Workers, logoutAnswer(w)
      PROVE  StaysForgotten
  BY <1>24, RevokedStep, JobTypes DEF StaysRevoked, logoutAnswer
<1>25. ASSUME NEW w \in Workers, passwordWrite(w)
      PROVE  StaysForgotten
  BY <1>25, RevokedStep, JobTypes DEF StaysRevoked, passwordWrite
<1>26. ASSUME NEW w \in Workers, revokeAllRead(w)
      PROVE  StaysForgotten
  BY <1>26, RevokedStep, JobTypes DEF StaysRevoked, revokeAllRead
<1>27. ASSUME NEW w \in Workers, revokeAllWrite(w)
      PROVE  StaysForgotten
  BY <1>27, RevokedStep, JobTypes DEF StaysRevoked, revokeAllWrite, Revoked
<1>28. ASSUME NEW w \in Workers, invalidate(w)
      PROVE  StaysForgotten
  BY <1>28, RevokedStep, JobTypes DEF StaysRevoked, invalidate
<1>29. ASSUME NEW w \in Workers, invalidateFailed(w)
      PROVE  StaysForgotten
  BY <1>29, RevokedStep, JobTypes DEF StaysRevoked, invalidateFailed
<1>30. ASSUME NEW w \in Workers, Crash(w)
      PROVE  StaysForgotten
  BY <1>30, RevokedStep, JobTypes DEF StaysRevoked, Crash
<1>31. CASE UNCHANGED vars
  BY <1>31 DEF vars
<1>32. ASSUME NEW w \in Workers, NEW t \in Tokens, changePassword(w, t)
      PROVE  StaysForgotten
  BY <1>32, RevokedStep, JobTypes DEF StaysRevoked, changePassword
<1>33. ASSUME NEW w \in Workers, forceLogout(w)
      PROVE  StaysForgotten
  BY <1>33, RevokedStep, JobTypes DEF StaysRevoked, forceLogout
<1>. QED
  BY <1>1, <1>2, <1>3, <1>4, <1>5, <1>6, <1>7, <1>8, <1>9, <1>10, <1>11, <1>12, <1>13,
     <1>14, <1>15, <1>16, <1>17, <1>18, <1>19, <1>20, <1>21, <1>22, <1>23, <1>24, <1>25,
     <1>26, <1>27, <1>28, <1>29, <1>30, <1>31, <1>32, <1>33 DEF Next, Receive, Handle

\* Once the cache has forgotten a dead session, and no handler is about to write what it read
\* before, it is forgotten for good: what makes the 60 seconds of the entry the last ones.
THEOREM ForgettingLasts == Spec => ForgottenForGood
<1>1. Inv /\ [Next]_vars => [StaysForgotten]_vars
  BY ForgottenStep
<1>2. Spec => [][StaysForgotten]_vars
  BY <1>1, Invariance, PTL DEF Spec
<1>. QED
  BY <1>2 DEF ForgottenForGood, StaysForgotten, Remembers
=============================================================================

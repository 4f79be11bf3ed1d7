------------------------------ MODULE Sessions ------------------------------
(***************************************************************************)
(* The sessions of one user: the session half of auth.service.ts, the auth *)
(* middleware with its read-through cache, and the administrator's actions *)
(* that end sessions.  As in Payments, what a handler does between two     *)
(* awaits is a step, a transaction is a step, and what a handler has read  *)
(* stays in its job record.  A refused request is a stuttering step.       *)
(*                                                                         *)
(* How a login is proven (codes, links, Google) is outside this module;    *)
(* every one of these paths ends in createSessionAndTokens.                *)
(***************************************************************************)
EXTENDS Naturals, FiniteSets

CONSTANTS
  Sessions,      \* session ids
  Tokens,        \* pairs of an access and a refresh token that are signed together
  SessionOf,     \* the sid claim of a pair
  Workers,       \* requests that may be in flight together
  RedisMayFail,  \* whether Redis commands may fail, which every caller swallows
  MaxChanges     \* bound: how often the user changes the password

ASSUME SessionsAssumption ==
  /\ SessionOf \in [Tokens -> Sessions]
  /\ RedisMayFail \in BOOLEAN
  /\ MaxChanges \in Nat

VARIABLES
  session,       \* Session row: none, revokedAt null, revokedAt set
  expired,       \* the sessions whose expiresAt has passed, their refresh tokens' too
  refreshToken,  \* RefreshToken row: none, revokedAt null, revokedAt set
  signedAt,      \* iat of a pair, as the number of password changes before it
  signed,        \* the pairs that were ever signed
  held,          \* the pairs a client was answered with
  password,      \* number of password changes: User.password and passwordChangedAt
  userStatus,    \* User.status
  cache,         \* Redis sess:{sid}
  denied,        \* Redis jwt:deny:{jti}
  signedOut,     \* history: access tokens whose POST /auth/logout was answered
  job            \* the handler in flight in each worker

dbVars == <<session, expired, refreshToken, password, userStatus>>
jwtVars == <<signedAt, signed, held>>
redisVars == <<cache, denied>>
historyVars == <<signedOut>>
vars == <<session, expired, refreshToken, signedAt, signed, held, password, userStatus,
          cache, denied, signedOut, job>>

-----------------------------------------------------------------------------
(* The values.                                                             *)

Row == {"none", "live", "revoked"}

Idle == [pc |-> "idle"]

\* The locals of a handler, by the await it is stopped at.
Job ==
  {Idle}
    \cup [pc: {"session"}]
    \cup [pc: {"token", "answer", "user"}, t: Tokens]
    \cup [pc: {"rotate"}, t: Tokens, n: Tokens]
    \cup [pc: {"fill"}, s: Sessions, data: {"session", "null"}]
    \cup [pc: {"logout"}, s: Sessions, deny: SUBSET Tokens,
          todo: SUBSET {"session", "tokens", "redis"}]
    \cup [pc: {"password", "sessions"}]
    \cup [pc: {"revokeAll", "invalidate"}, ids: SUBSET Sessions]

\* The one type invariant.
TypeOK ==
  /\ session \in [Sessions -> Row]
  /\ expired \subseteq Sessions
  /\ refreshToken \in [Tokens -> Row]
  /\ signedAt \in [Tokens -> Nat]
  /\ signed \subseteq Tokens
  /\ held \subseteq Tokens
  /\ password \in Nat
  /\ userStatus \in {"ACTIVE", "BLOCKED"}
  /\ cache \in [Sessions -> {"miss", "session", "null"}]
  /\ denied \subseteq Tokens
  /\ signedOut \subseteq Tokens
  /\ job \in [Workers -> Job]

Init ==
  /\ session = [s \in Sessions |-> "none"]
  /\ expired = {}
  /\ refreshToken = [t \in Tokens |-> "none"]
  /\ signedAt = [t \in Tokens |-> 0]
  /\ signed = {}
  /\ held = {}
  /\ password = 0
  /\ userStatus = "ACTIVE"
  /\ cache = [s \in Sessions |-> "miss"]
  /\ denied = {}
  /\ signedOut = {}
  /\ job = [w \in Workers |-> Idle]

Begin(w, locals) ==
  /\ job[w] = Idle
  /\ job' = [job EXCEPT ![w] = locals]

Await(w, locals) == job' = [job EXCEPT ![w] = locals]

Return(w) == job' = [job EXCEPT ![w] = Idle]

\* The process dies or an await throws: what is committed stays.
Crash(w) ==
  /\ job[w] # Idle
  /\ Return(w)
  /\ UNCHANGED <<dbVars, jwtVars, redisVars, historyVars>>

\* WHERE revokedAt IS NULL AND expiresAt > now.
live(s) == session[s] = "live" /\ s \notin expired

SessionExpires(s) ==
  /\ live(s)
  /\ expired' = expired \cup {s}
  /\ UNCHANGED <<session, refreshToken, password, userStatus, jwtVars, redisVars, historyVars, job>>

-----------------------------------------------------------------------------
(* lib/cache.ts and middlewares/auth.ts                                    *)

\* The five checks, for an access token a client holds, when nothing fails.  iat is
\* compared with passwordChangedAt; a changed role, which also ends in revokeAllSessions, is
\* left out.
accepts(t) ==
  LET s == SessionOf[t] IN
  /\ t \in held
  /\ t \notin denied
  /\ cache[s] = "session" \/ (cache[s] = "miss" /\ live(s))
  /\ userStatus = "ACTIVE"
  /\ signedAt[t] >= password

\* Mutant: the row is looked up by its id only.
found_ById(s) == IF session[s] = "none" THEN "null" ELSE "session"

\* Mutant: the user is looked at in the same, cached, lookup.
found_WithUser(s) == IF live(s) /\ userStatus = "ACTIVE" THEN "session" ELSE "null"

\* What the database answers for a session id; JSON.stringify(null) is cached as well.
found(s) == IF live(s) THEN "session" ELSE "null"

\* cached: nothing in Redis, or Redis failed, so the database is asked.
cachedRead(w, t) ==
  LET s == SessionOf[t] IN
  /\ t \in held
  /\ t \notin denied \/ RedisMayFail
  /\ cache[s] = "miss" \/ RedisMayFail
  /\ Begin(w, [pc |-> "fill", s |-> s, data |-> found(s)])
  /\ UNCHANGED <<dbVars, jwtVars, redisVars, historyVars>>

\* redis.set is not awaited: it lands at any later time, or never (Crash).
cachedFill(w) ==
  /\ job[w].pc = "fill"
  /\ cache' = [cache EXCEPT ![job[w].s] = job[w].data]
  /\ Return(w)
  /\ UNCHANGED <<dbVars, jwtVars, denied, historyVars>>

\* Mutant: the entry is set without a time to live.
cacheExpires_Never(s) ==
  /\ FALSE
  /\ UNCHANGED vars

\* The time to live that set gave the entry has passed.
cacheExpires(s) ==
  /\ cache[s] # "miss"
  /\ cache' = [cache EXCEPT ![s] = "miss"]
  /\ UNCHANGED <<dbVars, jwtVars, denied, historyVars, job>>

-----------------------------------------------------------------------------
(* login and createSessionAndTokens                                        *)

\* The password is compared and the user is not blocked.
login(w) ==
  /\ userStatus = "ACTIVE"
  /\ Begin(w, [pc |-> "session"])
  /\ UNCHANGED <<dbVars, jwtVars, redisVars, historyVars>>

\* The session row, and the pair that is signed after it.
createSession(w, t) ==
  LET s == SessionOf[t] IN
  /\ job[w].pc = "session"
  /\ session[s] = "none"
  /\ t \notin signed
  /\ session' = [session EXCEPT ![s] = "live"]
  /\ signed' = signed \cup {t}
  /\ signedAt' = [signedAt EXCEPT ![t] = password]
  /\ Await(w, [pc |-> "token", t |-> t])
  /\ UNCHANGED <<expired, refreshToken, password, userStatus, held, redisVars, signedOut>>

createToken(w) ==
  /\ job[w].pc = "token"
  /\ refreshToken' = [refreshToken EXCEPT ![job[w].t] = "live"]
  /\ Await(w, [pc |-> "answer", t |-> job[w].t])
  /\ UNCHANGED <<session, expired, password, userStatus, jwtVars, redisVars, historyVars>>

\* The client gets the pair.
answer(w) ==
  /\ job[w].pc = "answer"
  /\ held' = held \cup {job[w].t}
  /\ Return(w)
  /\ UNCHANGED <<dbVars, signedAt, signed, redisVars, historyVars>>

-----------------------------------------------------------------------------
(* refresh                                                                 *)

refreshRead(w, t) ==
  /\ t \in held
  /\ refreshToken[t] = "live"
  /\ live(SessionOf[t])
  /\ Begin(w, [pc |-> "user", t |-> t])
  /\ UNCHANGED <<dbVars, jwtVars, redisVars, historyVars>>

\* A revoked token presented again: every session of the user goes.
refreshReuse(w, t) ==
  /\ t \in held
  /\ refreshToken[t] = "revoked"
  /\ Begin(w, [pc |-> "sessions"])
  /\ UNCHANGED <<dbVars, jwtVars, redisVars, historyVars>>

\* The user is read and the successor signed.
refreshUser(w, n) ==
  /\ job[w].pc = "user"
  /\ userStatus = "ACTIVE"
  /\ SessionOf[n] = SessionOf[job[w].t]
  /\ n \notin signed
  /\ signed' = signed \cup {n}
  /\ signedAt' = [signedAt EXCEPT ![n] = password]
  /\ Await(w, [pc |-> "rotate", t |-> job[w].t, n |-> n])
  /\ UNCHANGED <<dbVars, held, redisVars, historyVars>>

\* Mutant: touching the session clears revokedAt.
refreshRotate_Revive(w) ==
  LET s == SessionOf[job[w].n] IN
  /\ job[w].pc = "rotate"
  /\ refreshToken' = [refreshToken EXCEPT ![job[w].n] = "live", ![job[w].t] = "revoked"]
  /\ session' = [session EXCEPT ![s] = "live"]
  /\ Await(w, [pc |-> "answer", t |-> job[w].n])
  /\ UNCHANGED <<expired, password, userStatus, jwtVars, redisVars, historyVars>>

\* The transaction: both rows by id, without looking at them again.
refreshRotate(w) ==
  /\ job[w].pc = "rotate"
  /\ refreshToken' = [refreshToken EXCEPT ![job[w].n] = "live", ![job[w].t] = "revoked"]
  /\ Await(w, [pc |-> "answer", t |-> job[w].n])
  /\ UNCHANGED <<session, expired, password, userStatus, jwtVars, redisVars, historyVars>>

-----------------------------------------------------------------------------
(* logout, logoutByToken: the two updates and the Redis transaction run    *)
(* side by side.                                                           *)

Revoked(rows, which) == [x \in DOMAIN rows |-> IF x \in which /\ rows[x] = "live"
                                               THEN "revoked" ELSE rows[x]]

TokensOf(s) == {t \in Tokens : SessionOf[t] = s}

LogoutJob(s, deny, todo) == [pc |-> "logout", s |-> s, deny |-> deny, todo |-> todo]

logout(w, t) ==
  /\ accepts(t)
  /\ Begin(w, LogoutJob(SessionOf[t], {t}, {"session", "tokens", "redis"}))
  /\ UNCHANGED <<dbVars, jwtVars, redisVars, historyVars>>

\* The beacon of a closing page, with the access token or without it.
logoutByToken(w, t, claims) ==
  /\ t \in held
  /\ Begin(w, LogoutJob(SessionOf[t], claims, {"session", "tokens", "redis"}))
  /\ UNCHANGED <<dbVars, jwtVars, redisVars, historyVars>>

logoutSession(w) ==
  LET j == job[w] IN
  /\ j.pc = "logout" /\ "session" \in j.todo
  /\ session' = Revoked(session, {j.s})
  /\ Await(w, LogoutJob(j.s, j.deny, j.todo \ {"session"}))
  /\ UNCHANGED <<expired, refreshToken, password, userStatus, jwtVars, redisVars, historyVars>>

logoutTokens(w) ==
  LET j == job[w] IN
  /\ j.pc = "logout" /\ "tokens" \in j.todo
  /\ refreshToken' = Revoked(refreshToken, TokensOf(j.s))
  /\ Await(w, LogoutJob(j.s, j.deny, j.todo \ {"tokens"}))
  /\ UNCHANGED <<session, expired, password, userStatus, jwtVars, redisVars, historyVars>>

\* Mutant: only the cached session goes.
logoutRedis_CacheOnly(w) ==
  LET j == job[w] IN
  /\ j.pc = "logout" /\ "redis" \in j.todo
  /\ cache' = [cache EXCEPT ![j.s] = "miss"]
  /\ Await(w, LogoutJob(j.s, j.deny, j.todo \ {"redis"}))
  /\ UNCHANGED <<dbVars, jwtVars, denied, historyVars>>

logoutRedis(w) ==
  LET j == job[w] IN
  /\ j.pc = "logout" /\ "redis" \in j.todo
  /\ denied' = denied \cup j.deny
  /\ cache' = [cache EXCEPT ![j.s] = "miss"]
  /\ Await(w, LogoutJob(j.s, j.deny, j.todo \ {"redis"}))
  /\ UNCHANGED <<dbVars, jwtVars, historyVars>>

\* exec fails and is caught.
logoutRedisFailed(w) ==
  LET j == job[w] IN
  /\ RedisMayFail
  /\ j.pc = "logout" /\ "redis" \in j.todo
  /\ Await(w, LogoutJob(j.s, j.deny, j.todo \ {"redis"}))
  /\ UNCHANGED <<dbVars, jwtVars, redisVars, historyVars>>

logoutAnswer(w) ==
  /\ job[w].pc = "logout" /\ job[w].todo = {}
  /\ signedOut' = signedOut \cup job[w].deny
  /\ Return(w)
  /\ UNCHANGED <<dbVars, jwtVars, redisVars>>

-----------------------------------------------------------------------------
(* revokeSession, revokeAllSessions and their callers                      *)

revokeSession(w, s) ==
  /\ session[s] # "none"
  /\ session' = Revoked(session, {s})
  /\ refreshToken' = Revoked(refreshToken, TokensOf(s))
  /\ Begin(w, [pc |-> "invalidate", ids |-> {s}])
  /\ UNCHANGED <<expired, password, userStatus, jwtVars, redisVars, historyVars>>

logoutAll(w) ==
  /\ Begin(w, [pc |-> "sessions"])
  /\ UNCHANGED <<dbVars, jwtVars, redisVars, historyVars>>

\* By an administrator who may manage the user, whatever the user's own tokens are.
forceLogout(w) ==
  /\ Begin(w, [pc |-> "sessions"])
  /\ UNCHANGED <<dbVars, jwtVars, redisVars, historyVars>>

\* resetPassword, with a mailed link.
passwordRead(w) ==
  /\ password < MaxChanges
  /\ Begin(w, [pc |-> "password"])
  /\ UNCHANGED <<dbVars, jwtVars, redisVars, historyVars>>

\* From a session that is accepted, with the old password.
changePassword(w, t) ==
  /\ accepts(t)
  /\ password < MaxChanges
  /\ Begin(w, [pc |-> "password"])
  /\ UNCHANGED <<dbVars, jwtVars, redisVars, historyVars>>

\* The transaction of resetPassword and of changePassword.
passwordWrite(w) ==
  /\ job[w].pc = "password"
  /\ password' = password + 1
  /\ Await(w, [pc |-> "sessions"])
  /\ UNCHANGED <<session, expired, refreshToken, userStatus, jwtVars, redisVars, historyVars>>

\* The administrator's updateStatus.
block(w) ==
  /\ userStatus' = "BLOCKED"
  /\ Begin(w, [pc |-> "sessions"])
  /\ UNCHANGED <<session, expired, refreshToken, password, jwtVars, redisVars, historyVars>>

unblock ==
  /\ userStatus = "BLOCKED"
  /\ userStatus' = "ACTIVE"
  /\ UNCHANGED <<session, expired, refreshToken, password, jwtVars, redisVars, historyVars, job>>

revokeAllRead(w) ==
  /\ job[w].pc = "sessions"
  /\ Await(w, [pc |-> "revokeAll", ids |-> {s \in Sessions : session[s] = "live"}])
  /\ UNCHANGED <<dbVars, jwtVars, redisVars, historyVars>>

\* The transaction revokes what is live now, the cache entries are those of what was read.
revokeAllWrite(w) ==
  /\ job[w].pc = "revokeAll"
  /\ session' = Revoked(session, Sessions)
  /\ refreshToken' = Revoked(refreshToken, Tokens)
  /\ Await(w, [pc |-> "invalidate", ids |-> job[w].ids])
  /\ UNCHANGED <<expired, password, userStatus, jwtVars, redisVars, historyVars>>

invalidate(w) ==
  /\ job[w].pc = "invalidate"
  /\ cache' = [s \in Sessions |-> IF s \in job[w].ids THEN "miss" ELSE cache[s]]
  /\ Return(w)
  /\ UNCHANGED <<dbVars, jwtVars, denied, historyVars>>

\* del fails and is caught.
invalidateFailed(w) ==
  /\ RedisMayFail
  /\ job[w].pc = "invalidate"
  /\ Return(w)
  /\ UNCHANGED <<dbVars, jwtVars, redisVars, historyVars>>

-----------------------------------------------------------------------------
Handle(w) ==
  \/ cachedFill(w)
  \/ \E t \in Tokens : createSession(w, t)
  \/ createToken(w)
  \/ answer(w)
  \/ \E n \in Tokens : refreshUser(w, n)
  \/ refreshRotate(w)
  \/ logoutSession(w)
  \/ logoutTokens(w)
  \/ logoutRedis(w)
  \/ logoutRedisFailed(w)
  \/ logoutAnswer(w)
  \/ passwordWrite(w)
  \/ revokeAllRead(w)
  \/ revokeAllWrite(w)
  \/ invalidate(w)
  \/ invalidateFailed(w)

Receive(w) ==
  \/ login(w)
  \/ logoutAll(w)
  \/ forceLogout(w)
  \/ passwordRead(w)
  \/ block(w)
  \/ \E s \in Sessions : revokeSession(w, s)
  \/ \E t \in Tokens :
       \/ cachedRead(w, t)
       \/ refreshRead(w, t)
       \/ refreshReuse(w, t)
       \/ logout(w, t)
       \/ changePassword(w, t)
       \/ \E claims \in {{}, {t}} : logoutByToken(w, t, claims)

Next ==
  \/ \E s \in Sessions : SessionExpires(s) \/ cacheExpires(s)
  \/ unblock
  \/ \E w \in Workers : Receive(w) \/ Handle(w) \/ Crash(w)

Spec == Init /\ [][Next]_vars

\* Redis drops an entry some time after its time to live, which a later set renews; and a
\* handler that is not cut short goes on.
Fairness ==
  /\ \A s \in Sessions : WF_vars(cacheExpires(s))
  /\ \A w \in Workers : WF_vars(Handle(w))

LiveSpec == Spec /\ Fairness

-----------------------------------------------------------------------------
(* Properties                                                              *)

dead(s) == session[s] = "revoked" \/ s \in expired

\* Whatever a handler read before a revocation, it brings nothing back: a revoked session
\* and a revoked refresh token stay revoked (refresh writes both rows by id).
RevokedForGood ==
  [][/\ \A s \in Sessions : session[s] = "revoked" => session'[s] = "revoked"
     /\ \A t \in Tokens : refreshToken[t] = "revoked" => refreshToken'[t] = "revoked"]_vars

\* A cached null refuses only requests of a session that is over for good, although it is
\* read and written at different times (cached, auth).
NullIsDead == \A s \in Sessions : cache[s] = "null" => dead(s)

\* The cache forgets a dead session for good: once its entry is gone and no handler that
\* read it before is about to write, no later request brings the entry back.
ForgottenForGood ==
  [][\A s \in Sessions :
       LET Remembered == \/ cache[s] = "session"
                         \/ \E w \in Workers :
                              job[w] = [pc |-> "fill", s |-> s, data |-> "session"]
       IN dead(s) /\ ~Remembered => dead(s)' /\ ~Remembered']_vars

\* The access token of a logout that was answered is refused from then on, in the session
\* it belongs to and beside every other handler, as long as Redis works.
SignedOutIsRefused == RedisMayFail \/ \A t \in signedOut : ~accepts(t)

\* A revocation takes effect: some time after it the session is not accepted from the
\* cache any more and never will be, even if every Redis deletion failed.
RevocationHolds == \A s \in Sessions : dead(s) ~> [](cache[s] # "session")
=============================================================================

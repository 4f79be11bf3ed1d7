----------------------------- MODULE Challenges -----------------------------
(***************************************************************************)
(* The password step and the second factor of a sign-in                    *)
(* (modules/auth/auth.service.ts): the failure counters, the challenge     *)
(* record login:otp:{id}, the emailed code and the emailed link            *)
(* login:magic:{hash}, resends, and the challenges that toggle2fa and the  *)
(* Google sign-in issue in the same keyspace.  One user; the sessions that *)
(* a challenge opens are counted here and live in Sessions.                *)
(*                                                                         *)
(* A mail stands for the code and the link token drawn for it.  Redis      *)
(* commands are atomic, and every command is a step of its own: the record *)
(* is read, changed in memory and written back later.                      *)
(***************************************************************************)
EXTENDS Mailing

CONSTANTS
  Challenges, NoChallenge,  \* challenge ids, and no id
  MaxAttempts,              \* LIMITS.loginOtpAttempts
  MaxResends,               \* LIMITS.loginOtpResends
  MaxFails,                 \* LIMITS.loginFailBeforeLock and loginFailPerIp
  MaxBlind                  \* bound: logins that go on because a counter cannot be read

Counters == {"email", "ip"}

ASSUME ChallengesAssumption ==
  /\ NoChallenge \notin Challenges
  /\ MaxAttempts \in Nat \ {0}
  /\ MaxResends \in Nat
  /\ MaxFails \in [Counters -> Nat \ {0}]
  /\ MaxBlind \in Nat

VARIABLES
  challenge,  \* login:otp:{id}, NoRecord when there is no key
  lasting,    \* ids whose key has no time to live
  link,       \* login:magic:{hash}: the id it points at
  cooldown,   \* ids with a resend cooldown
  fails,      \* login:fail:{email} and login:ip:{ip}
  drawn,      \* mails whose code and token were drawn
  sent,       \* mails that were sent
  issued,     \* challenge ids that were drawn
  job,        \* what each handler is waiting for
  byCode,     \* history: sessions each challenge's codes opened
  byLink,     \* history: sessions each link opened
  late,       \* history: writes of a challenge that found its key gone
  blind       \* history: logins that went on past a limit because they could not read the counter

redisVars == <<challenge, lasting, link, cooldown>>
mailVars == <<drawn, sent, issued>>
historyVars == <<byCode, byLink, late, blind>>
vars == <<redisVars, fails, mailVars, job, historyVars>>

LoginChallenge ==
  [code : Mails \cup {NoMail}, magic : Mails \cup {NoMail}, attempts : Nat, resends : Nat]

NoRecord == [code |-> NoMail, magic |-> NoMail, attempts |-> 0, resends |-> 0]

\* A record that will be written although its key may be gone by then.
Writers == {"store", "keep", "cooldown", "unlink", "relink", "restore"}

\* The ways to the end of a challenge: a right code, too many wrong ones, the link.
Endings == {"code", "limit", "link"}

Steps == Writers \cup {"idle", "address", "compare", "ipFail", "issue", "mismatch", "cool", "toggle",
                       "magicChallenge", "magicDel", "endLink", "endKey"}

Job == [pc : Steps, c : Challenges \cup {NoChallenge}, m : Mails \cup {NoMail},
        ch : LoginChallenge, how : Endings]

At(pc, c, m, ch, how) == [pc |-> pc, c |-> c, m |-> m, ch |-> ch, how |-> how]

Idle == At("idle", NoChallenge, NoMail, NoRecord, "code")

\* All that endChallenge uses of a copy, and all that a resend does.
linkOf(ch) == [code |-> NoMail, magic |-> ch.magic, attempts |-> 0, resends |-> 0]
mailsOf(ch) == [code |-> NoMail, magic |-> ch.magic, attempts |-> 0, resends |-> ch.resends]

\* The type of every variable.
TypeOK ==
  /\ challenge \in [Challenges -> LoginChallenge]
  /\ lasting \subseteq Challenges
  /\ link \in [Mails -> Challenges \cup {NoChallenge}]
  /\ cooldown \subseteq Challenges
  /\ fails \in [Counters -> Nat]
  /\ drawn \subseteq Mails
  /\ sent \subseteq Mails
  /\ issued \subseteq Challenges
  /\ job \in [Workers -> Job]
  /\ byCode \in [Challenges -> Nat]
  /\ byLink \in [Mails -> Nat]
  /\ late \in [Challenges -> Nat]
  /\ blind \in 0 .. MaxBlind

Init ==
  /\ challenge = [c \in Challenges |-> NoRecord]
  /\ lasting = {}
  /\ link = [m \in Mails |-> NoChallenge]
  /\ cooldown = {}
  /\ fails = [k \in Counters |-> 0]
  /\ drawn = {}
  /\ sent = {}
  /\ issued = {}
  /\ job = [w \in Workers |-> Idle]
  /\ byCode = [c \in Challenges |-> 0]
  /\ byLink = [m \in Mails |-> 0]
  /\ late = [c \in Challenges |-> 0]
  /\ blind = 0

Begin(w, locals) ==
  /\ job[w] = Idle
  /\ job' = [job EXCEPT ![w] = locals]

Await(w, locals) == job' = [job EXCEPT ![w] = locals]

Return(w) == job' = [job EXCEPT ![w] = Idle]

\* The process dies or an await throws; requireRedis makes a 503 of a Redis command that failed.
Crash(w) ==
  /\ job[w] # Idle
  /\ Return(w)
  /\ UNCHANGED <<redisVars, fails, mailVars, historyVars>>

present(c) == challenge[c].code # NoMail

challengeExpires(c) ==
  /\ present(c)
  /\ c \notin lasting
  /\ challenge' = [challenge EXCEPT ![c] = NoRecord]
  /\ UNCHANGED <<lasting, link, cooldown, fails, mailVars, job, historyVars>>

linkExpires(m) ==
  /\ link[m] # NoChallenge
  /\ link' = [link EXCEPT ![m] = NoChallenge]
  /\ UNCHANGED <<challenge, lasting, cooldown, fails, mailVars, job, historyVars>>

cooldownExpires(c) ==
  /\ c \in cooldown
  /\ cooldown' = cooldown \ {c}
  /\ UNCHANGED <<challenge, lasting, link, fails, mailVars, job, historyVars>>

failsExpire(k) ==
  /\ fails[k] # 0
  /\ fails' = [fails EXCEPT ![k] = 0]
  /\ UNCHANGED <<redisVars, mailVars, job, historyVars>>

-----------------------------------------------------------------------------
(* login                                                                   *)

\* The counter is below its limit, or cannot be read and counts as nought.
passes(k) ==
  \/ fails[k] < MaxFails[k] /\ blind' = blind
  \/ RedisMayFail /\ fails[k] >= MaxFails[k] /\ blind < MaxBlind /\ blind' = blind + 1

\* Mutant: the counter of the network is not looked at.
loginRead_EmailOnly(w) ==
  /\ Begin(w, At("address", NoChallenge, NoMail, NoRecord, "code"))
  /\ UNCHANGED <<redisVars, fails, mailVars, historyVars>>

\* The counter of the network is read first.
loginRead(w) ==
  /\ passes("ip")
  /\ Begin(w, At("address", NoChallenge, NoMail, NoRecord, "code"))
  /\ UNCHANGED <<redisVars, fails, mailVars, byCode, byLink, late>>

\* The counter of the address, and ACCOUNT_LOCKED.
loginReadEmail(w) ==
  /\ job[w].pc = "address"
  /\ \/ /\ passes("email")
        /\ Await(w, At("compare", NoChallenge, NoMail, NoRecord, "code"))
     \/ /\ fails["email"] >= MaxFails["email"]
        /\ Return(w)
        /\ blind' = blind
  /\ UNCHANGED <<redisVars, fails, mailVars, byCode, byLink, late>>

\* A wrong password, or an unknown address: INCR, whose failure is caught.
loginWrong(w) ==
  /\ job[w].pc = "compare"
  /\ \/ fails' = [fails EXCEPT !["email"] = @ + 1]
     \/ RedisMayFail /\ fails' = fails
  /\ Await(w, At("ipFail", NoChallenge, NoMail, NoRecord, "code"))
  /\ UNCHANGED <<redisVars, mailVars, historyVars>>

loginWrongIp(w) ==
  /\ job[w].pc = "ipFail"
  /\ \/ fails' = [fails EXCEPT !["ip"] = @ + 1]
     \/ RedisMayFail /\ fails' = fails
  /\ Return(w)
  /\ UNCHANGED <<redisVars, mailVars, historyVars>>

\* The right password of a user who is not blocked.  Without a second factor, or on a
\* trusted device, the session is opened and this handler is done.
loginRight(w, twoFactor) ==
  /\ job[w].pc = "compare"
  /\ \/ fails' = [fails EXCEPT !["email"] = 0]
     \/ RedisMayFail /\ fails' = fails
  /\ IF twoFactor THEN Await(w, At("issue", NoChallenge, NoMail, NoRecord, "code"))
                  ELSE Return(w)
  /\ UNCHANGED <<redisVars, mailVars, historyVars>>

\* The challenge id and the mail are drawn, and issueMagicLink sets the link.
loginLink(w, c, m) ==
  /\ job[w].pc = "issue"
  /\ c \notin issued /\ m \notin drawn
  /\ issued' = issued \cup {c}
  /\ drawn' = drawn \cup {m}
  /\ link' = [link EXCEPT ![m] = c]
  /\ Await(w, At("store", c, m, [code |-> m, magic |-> m, attempts |-> 0, resends |-> 0], "code"))
  /\ UNCHANGED <<challenge, lasting, cooldown, fails, sent, historyVars>>

\* The first step of toggle2fa: a challenge without a link.
issueCode(w, c, m) ==
  /\ c \notin issued /\ m \notin drawn
  /\ issued' = issued \cup {c}
  /\ drawn' = drawn \cup {m}
  /\ Begin(w, At("store", c, m,
                 [code |-> m, magic |-> NoMail, attempts |-> 0, resends |-> 0], "code"))
  /\ UNCHANGED <<redisVars, fails, sent, historyVars>>

\* handleGoogleProfile, for a user with a second factor: no password and no trusted device
\* stands before it, and the challenge has no link either.
googleChallenge(w, c, m) ==
  /\ c \notin issued /\ m \notin drawn
  /\ issued' = issued \cup {c}
  /\ drawn' = drawn \cup {m}
  /\ Begin(w, At("store", c, m,
                 [code |-> m, magic |-> NoMail, attempts |-> 0, resends |-> 0], "code"))
  /\ UNCHANGED <<redisVars, fails, sent, historyVars>>

\* Mutant: the link is set once more, beside the challenge.
storeChallenge_Relinks(w) ==
  LET j == job[w] IN
  /\ j.pc = "store"
  /\ challenge' = [challenge EXCEPT ![j.c] = j.ch]
  /\ lasting' = lasting \ {j.c}
  /\ link' = [link EXCEPT ![j.m] = j.c]
  /\ sent' = sent \cup {j.m}
  /\ Return(w)
  /\ UNCHANGED <<cooldown, fails, drawn, issued, historyVars>>

\* The challenge is set with its time to live and the mail goes out.
storeChallenge(w) ==
  LET j == job[w] IN
  /\ j.pc = "store"
  /\ challenge' = [challenge EXCEPT ![j.c] = j.ch]
  /\ lasting' = lasting \ {j.c}
  /\ sent' = sent \cup {j.m}
  /\ Return(w)
  /\ UNCHANGED <<link, cooldown, fails, drawn, issued, historyVars>>

-----------------------------------------------------------------------------
(* verifyLoginOtp                                                          *)

\* Another browser presents the challenge.
verifyMismatch(w, c) ==
  /\ present(c)
  /\ Begin(w, At("mismatch", c, NoMail, NoRecord, "code"))
  /\ UNCHANGED <<redisVars, fails, mailVars, historyVars>>

\* Only the record goes; a link that points at it stays.
verifyMismatchDel(w) ==
  /\ job[w].pc = "mismatch"
  /\ challenge' = [challenge EXCEPT ![job[w].c] = NoRecord]
  /\ lasting' = lasting \ {job[w].c}
  /\ Return(w)
  /\ UNCHANGED <<link, cooldown, fails, mailVars, historyVars>>

\* A wrong code, which may be that of an earlier mail.
verifyWrong(w, c) ==
  LET ch == challenge[c]
      tried == [code |-> ch.code, magic |-> ch.magic,
                attempts |-> ch.attempts + 1, resends |-> ch.resends]
  IN
  /\ present(c)
  /\ IF tried.attempts >= MaxAttempts
     THEN Begin(w, At("endLink", c, NoMail, linkOf(ch), "limit"))
     ELSE Begin(w, At("keep", c, NoMail, tried, "limit"))
  /\ UNCHANGED <<redisVars, fails, mailVars, historyVars>>

\* SET ... KEEPTTL: a key that is gone comes back, and for good.
verifyKeep(w) ==
  LET j == job[w] IN
  /\ j.pc = "keep"
  /\ challenge' = [challenge EXCEPT ![j.c] = j.ch]
  /\ lasting' = IF present(j.c) THEN lasting ELSE lasting \cup {j.c}
  /\ late' = [late EXCEPT ![j.c] = @ + IF present(j.c) THEN 0 ELSE 1]
  /\ Return(w)
  /\ UNCHANGED <<link, cooldown, fails, mailVars, byCode, byLink, blind>>

verifyRight(w, c) ==
  /\ present(c)
  /\ challenge[c].code \in sent
  /\ Begin(w, At("endLink", c, NoMail, linkOf(challenge[c]), "code"))
  /\ UNCHANGED <<redisVars, fails, mailVars, historyVars>>

-----------------------------------------------------------------------------
(* completeMagicLogin                                                      *)

magicRead(w, m) ==
  /\ m \in sent
  /\ link[m] # NoChallenge
  /\ Begin(w, At("magicChallenge", link[m], m, NoRecord, "link"))
  /\ UNCHANGED <<redisVars, fails, mailVars, historyVars>>

magicChallenge(w) ==
  LET j == job[w] IN
  /\ j.pc = "magicChallenge"
  /\ IF present(j.c) THEN Await(w, At("magicDel", j.c, j.m, linkOf(challenge[j.c]), "link"))
                     ELSE Return(w)
  /\ UNCHANGED <<redisVars, fails, mailVars, historyVars>>

\* Mutant: the number of keys that DEL removed is not looked at.
magicDel_Unchecked(w) ==
  LET j == job[w] IN
  /\ j.pc = "magicDel"
  /\ link' = [link EXCEPT ![j.m] = NoChallenge]
  /\ Await(w, At("endLink", j.c, j.m, j.ch, "link"))
  /\ UNCHANGED <<challenge, lasting, cooldown, fails, mailVars, historyVars>>

\* Whoever removes the link goes on.
magicDel(w) ==
  LET j == job[w] IN
  /\ j.pc = "magicDel"
  /\ link' = [link EXCEPT ![j.m] = NoChallenge]
  /\ IF link[j.m] # NoChallenge THEN Await(w, At("endLink", j.c, j.m, j.ch, "link"))
                                ELSE Return(w)
  /\ UNCHANGED <<challenge, lasting, cooldown, fails, mailVars, historyVars>>

-----------------------------------------------------------------------------
(* endChallenge, and what its callers do with the answer                   *)

\* The link of the copy that was read goes; a failure is caught.
endLink(w) ==
  LET j == job[w] IN
  /\ j.pc = "endLink"
  /\ \/ link' = [m \in Mails |-> IF m = j.ch.magic THEN NoChallenge ELSE link[m]]
     \/ RedisMayFail /\ link' = link
  /\ Await(w, At("endKey", j.c, j.m, NoRecord, j.how))
  /\ UNCHANGED <<challenge, lasting, cooldown, fails, mailVars, historyVars>>

\* Mutant: a right code opens a session although another request has used it.
endKey_Unchecked(w) ==
  LET j == job[w] IN
  /\ j.pc = "endKey"
  /\ challenge' = [challenge EXCEPT ![j.c] = NoRecord]
  /\ lasting' = lasting \ {j.c}
  /\ byCode' = IF j.how = "code" THEN [byCode EXCEPT ![j.c] = @ + 1] ELSE byCode
  /\ byLink' = IF j.how = "link" THEN [byLink EXCEPT ![j.m] = @ + 1] ELSE byLink
  /\ Return(w)
  /\ UNCHANGED <<link, cooldown, fails, mailVars, late, blind>>

\* The record goes.  A right code counts only when this request removed it; the link does
\* not ask.
endKey(w) ==
  LET j == job[w] IN
  /\ j.pc = "endKey"
  /\ challenge' = [challenge EXCEPT ![j.c] = NoRecord]
  /\ lasting' = lasting \ {j.c}
  /\ byCode' = IF j.how = "code" /\ present(j.c) THEN [byCode EXCEPT ![j.c] = @ + 1] ELSE byCode
  /\ byLink' = IF j.how = "link" THEN [byLink EXCEPT ![j.m] = @ + 1] ELSE byLink
  /\ Return(w)
  /\ UNCHANGED <<link, cooldown, fails, mailVars, late, blind>>

-----------------------------------------------------------------------------
(* resendLoginOtp                                                          *)

\* Mutant: a challenge that is gone is not refused.
resendRead_Unchecked(w, c) ==
  /\ challenge[c].resends < MaxResends
  /\ Begin(w, At("cooldown", c, NoMail, mailsOf(challenge[c]), "code"))
  /\ UNCHANGED <<redisVars, fails, mailVars, historyVars>>

resendRead(w, c) ==
  /\ present(c)
  /\ challenge[c].resends < MaxResends
  /\ Begin(w, At("cooldown", c, NoMail, mailsOf(challenge[c]), "code"))
  /\ UNCHANGED <<redisVars, fails, mailVars, historyVars>>

resendCooldown(w) ==
  LET j == job[w] IN
  /\ j.pc = "cooldown"
  /\ IF j.c \in cooldown THEN Return(w) ELSE Await(w, At("unlink", j.c, NoMail, j.ch, "code"))
  /\ UNCHANGED <<redisVars, fails, mailVars, historyVars>>

\* issueMagicLink takes the link of the copy down; a failure is caught.
resendUnlink(w) ==
  LET j == job[w] IN
  /\ j.pc = "unlink"
  /\ \/ link' = [m \in Mails |-> IF m = j.ch.magic THEN NoChallenge ELSE link[m]]
     \/ RedisMayFail /\ link' = link
  /\ Await(w, At("relink", j.c, NoMail, [NoRecord EXCEPT !.resends = j.ch.resends], "code"))
  /\ UNCHANGED <<challenge, lasting, cooldown, fails, mailVars, historyVars>>

resendLink(w, m) ==
  LET j == job[w] IN
  /\ j.pc = "relink"
  /\ m \notin drawn
  /\ drawn' = drawn \cup {m}
  /\ link' = [link EXCEPT ![m] = j.c]
  /\ Await(w, At("restore", j.c, m, [code |-> m, magic |-> m, attempts |-> 0,
                                     resends |-> j.ch.resends + 1], "code"))
  /\ UNCHANGED <<challenge, lasting, cooldown, fails, sent, issued, historyVars>>

\* SET ... EX, whether or not the key is still there.
resendStore(w) ==
  LET j == job[w] IN
  /\ j.pc = "restore"
  /\ challenge' = [challenge EXCEPT ![j.c] = j.ch]
  /\ lasting' = lasting \ {j.c}
  /\ late' = [late EXCEPT ![j.c] = @ + IF present(j.c) THEN 0 ELSE 1]
  /\ Await(w, At("cool", j.c, j.m, NoRecord, "code"))
  /\ UNCHANGED <<link, cooldown, fails, mailVars, byCode, byLink, blind>>

\* The cooldown starts and the mail goes out.
resendMail(w) ==
  /\ job[w].pc = "cool"
  /\ cooldown' = cooldown \cup {job[w].c}
  /\ sent' = sent \cup {job[w].m}
  /\ Return(w)
  /\ UNCHANGED <<challenge, lasting, link, fails, drawn, issued, historyVars>>

-----------------------------------------------------------------------------
(* toggle2fa's second step: the code of any challenge of this user.  A     *)
(* wrong one is not counted.  The switch itself is in Administration.      *)

toggleRead(w, c) ==
  /\ present(c)
  /\ challenge[c].code \in sent
  /\ Begin(w, At("toggle", c, NoMail, NoRecord, "code"))
  /\ UNCHANGED <<redisVars, fails, mailVars, historyVars>>

toggleDel(w) ==
  /\ job[w].pc = "toggle"
  /\ challenge' = [challenge EXCEPT ![job[w].c] = NoRecord]
  /\ lasting' = lasting \ {job[w].c}
  /\ Return(w)
  /\ UNCHANGED <<link, cooldown, fails, mailVars, historyVars>>

-----------------------------------------------------------------------------
Receive(w) ==
  \/ loginRead(w)
  \/ \E c \in Challenges :
       \/ verifyMismatch(w, c)
       \/ verifyWrong(w, c)
       \/ verifyRight(w, c)
       \/ resendRead(w, c)
       \/ toggleRead(w, c)
       \/ \E m \in Mails : issueCode(w, c, m) \/ googleChallenge(w, c, m)
  \/ \E m \in Mails : magicRead(w, m)

Handle(w) ==
  \/ loginReadEmail(w)
  \/ loginWrong(w)
  \/ loginWrongIp(w)
  \/ \E twoFactor \in BOOLEAN : loginRight(w, twoFactor)
  \/ \E c \in Challenges, m \in Mails : loginLink(w, c, m)
  \/ storeChallenge(w)
  \/ verifyMismatchDel(w)
  \/ verifyKeep(w)
  \/ magicChallenge(w)
  \/ magicDel(w)
  \/ endLink(w)
  \/ endKey(w)
  \/ resendCooldown(w)
  \/ resendUnlink(w)
  \/ \E m \in Mails : resendLink(w, m)
  \/ resendStore(w)
  \/ resendMail(w)
  \/ toggleDel(w)

Next ==
  \/ \E c \in Challenges : challengeExpires(c) \/ cooldownExpires(c)
  \/ \E m \in Mails : linkExpires(m)
  \/ \E k \in Counters : failsExpire(k)
  \/ \E w \in Workers : Receive(w) \/ Handle(w) \/ Crash(w)

Spec == Init /\ [][Next]_vars

-----------------------------------------------------------------------------
(* Properties                                                              *)

\* completeMagicLogin: a link opens at most one session, however many clicks, codes,
\* resends and expiries interleave with it.
LinkOnce == \A m \in Mails : byLink[m] <= 1

\* verifyLoginOtp: beyond the first, every session that a challenge's codes open is paid for
\* by a write that landed after the record was gone (a wrong code's KEEPTTL, a resend).
CodeOnce == \A c \in Challenges : byCode[c] <= 1 + late[c]

\* login and verifyLoginOtp: the attempts that a challenge records stay below their limit
\* although concurrent handlers write back old copies of it, and the failure counters, which
\* are read before the password is compared, are overrun only by handlers in flight together
\* and by those that could not read them.
LimitsHold ==
  /\ \A c \in Challenges : challenge[c].attempts < MaxAttempts
  /\ \A k \in Counters : fails[k] < MaxFails[k] + Cardinality(Workers) + blind

holds(w, c) == job[w].pc \in Writers /\ job[w].c = c

\* A challenge that is over stays over, unless a handler that read it, or is about to issue
\* it, has still to write it.
EndedForGood ==
  [][\A c \in issued :
       ~present(c) /\ (\A w \in Workers : ~holds(w, c))
         => ~present(c)' /\ (\A w \in Workers : ~holds(w, c)')]_vars

\* A click that removed the link of m and has not opened its session yet.
Using(w, m) == job[w].m = m /\ job[w].how = "link" /\ job[w].pc \in {"endLink", "endKey"}

linkState(m) ==
  IF m \notin drawn THEN "blank"
  ELSE IF link[m] # NoChallenge THEN "open"
  ELSE IF byLink[m] > 0 THEN "used"
  ELSE IF \E w \in Workers : Using(w, m) THEN "taken" ELSE "void"

Promise == INSTANCE OneTimeLinks WITH
  Links <- Mails,
  state <- [m \in Mails |-> linkState(m)],
  opened <- byLink

\* completeMagicLogin beside codes, resends, expiries, failing deletions and crashes: the keys
\* of Redis and the handlers implement the abstract life of a link.
ImplementsOneTimeLinks == Promise!Spec
=============================================================================

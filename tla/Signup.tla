------------------------------- MODULE Signup -------------------------------
(***************************************************************************)
(* How an address becomes an account (modules/auth/auth.service.ts): the   *)
(* pending signup reg:pending:{email} in Redis with its code, its attempts *)
(* and its send budget, the Google sign-in that enters the same flow, the  *)
(* accounts administrators create, and the rows that are soft-deleted,     *)
(* restored and anonymised (admin.service.ts, jobs/purge.ts).              *)
(*                                                                         *)
(* A mail stands for the code drawn for it.  The pending record is read,   *)
(* changed in memory and written back; every Redis command and every       *)
(* transaction is a step.                                                  *)
(***************************************************************************)
EXTENDS Mailing

CONSTANTS
  Emails, NoEmail,  \* addresses, and the address of an anonymised row
  Users,            \* ids of rows
  MaxOtpAttempts,   \* LIMITS.signupOtpAttempts
  MaxSends          \* LIMITS.otpSendsPerHour

ASSUME SignupAssumption ==
  /\ NoEmail \notin Emails
  /\ MaxOtpAttempts \in Nat \ {0}
  /\ MaxSends \in Nat \ {0}

VARIABLES
  row,          \* state of each row
  email,        \* address of each row
  googleId,     \* the Google account whose id each row holds, named by its address
  pending,      \* reg:pending:{email}, NoPending when there is no key
  otpCooldown,  \* addresses with otp:cooldown
  sends,        \* otp:sends:{email}
  codes,        \* mails whose code was drawn
  mailed,       \* mails that were sent
  guesses,      \* history: wrong codes compared one at a time with each mail's, less lost writes
  revived,      \* history: rows restored while a run of the purge job had them on its list
  task          \* what each handler is waiting for

dbVars == <<row, email, googleId>>
pendingVars == <<pending, otpCooldown, sends>>
codeVars == <<codes, mailed>>
signupHistory == <<guesses, revived>>
signupVars == <<dbVars, pendingVars, codeVars, signupHistory, task>>

RowState == {"none", "live", "deleted"}
Provider == {"LOCAL", "GOOGLE"}

PendingSignup == [code : Mails \cup {NoMail}, provider : Provider, attempts : Nat]

NoPending == [code |-> NoMail, provider |-> "LOCAL", attempts |-> 0]

\* A handler at one of these steps has still to write the pending record.
PendingWriters == {"cooldown", "incr", "set", "keep"}

TaskSteps == PendingWriters \cup {"idle", "exists", "mail", "drop", "create", "clean", "insert",
                                  "google", "link", "anonymise"}

Task == [pc : TaskSteps, e : Emails \cup {NoEmail}, p : PendingSignup, ids : SUBSET Users]

Doing(pc, e, p, ids) == [pc |-> pc, e |-> e, p |-> p, ids |-> ids]

Free == Doing("idle", NoEmail, NoPending, {})

\* The type of every variable.
SignupTypeOK ==
  /\ row \in [Users -> RowState]
  /\ email \in [Users -> Emails \cup {NoEmail}]
  /\ googleId \in [Users -> Emails \cup {NoEmail}]
  /\ pending \in [Emails -> PendingSignup]
  /\ otpCooldown \subseteq Emails
  /\ sends \in [Emails -> Nat]
  /\ codes \subseteq Mails
  /\ mailed \subseteq Mails
  /\ guesses \in [Mails -> Nat]
  /\ revived \subseteq Users
  /\ task \in [Workers -> Task]

SignupInit ==
  /\ row = [u \in Users |-> "none"]
  /\ email = [u \in Users |-> NoEmail]
  /\ googleId = [u \in Users |-> NoEmail]
  /\ pending = [e \in Emails |-> NoPending]
  /\ otpCooldown = {}
  /\ sends = [e \in Emails |-> 0]
  /\ codes = {}
  /\ mailed = {}
  /\ guesses = [m \in Mails |-> 0]
  /\ revived = {}
  /\ task = [w \in Workers |-> Free]

Start(w, locals) ==
  /\ task[w] = Free
  /\ task' = [task EXCEPT ![w] = locals]

Wait(w, locals) == task' = [task EXCEPT ![w] = locals]

Finish(w) == task' = [task EXCEPT ![w] = Free]

\* The process dies or an await throws; requireRedis makes a 503 of a Redis command that failed.
SignupCrash(w) ==
  /\ task[w] # Free
  /\ guesses' = IF task[w].pc = "keep" /\ guesses[task[w].p.code] # 0
                THEN [guesses EXCEPT ![task[w].p.code] = @ - 1] ELSE guesses
  /\ Finish(w)
  /\ UNCHANGED <<dbVars, pendingVars, codeVars, revived>>

isPending(e) == pending[e].code # NoMail

pendingExpires(e) ==
  /\ isPending(e)
  /\ pending' = [pending EXCEPT ![e] = NoPending]
  /\ UNCHANGED <<dbVars, otpCooldown, sends, codeVars, task, signupHistory>>

otpCooldownExpires(e) ==
  /\ e \in otpCooldown
  /\ otpCooldown' = otpCooldown \ {e}
  /\ UNCHANGED <<dbVars, pending, sends, codeVars, task, signupHistory>>

sendsExpire(e) ==
  /\ sends[e] # 0
  /\ sends' = [sends EXCEPT ![e] = 0]
  /\ UNCHANGED <<dbVars, pending, otpCooldown, codeVars, task, signupHistory>>

\* The rows findFirst({ where: { email } }) finds.
liveRows(e) == {u \in Users : row[u] = "live" /\ email[u] = e}

\* Mutant: there is no partial unique index.
user_email_active_uq_Dropped(e) == FALSE

\* The partial unique index on email refuses another live row.
user_email_active_uq(e) == liveRows(e) # {}

\* The unique index on googleId, which a deleted row keeps until it is anonymised.
googleId_key(e) == \E u \in Users : googleId[u] = e

refused(e, provider) == user_email_active_uq(e) \/ (provider = "GOOGLE" /\ googleId_key(e))

-----------------------------------------------------------------------------
(* startSignup and resendOtp                                               *)

startSignup(w, e) ==
  /\ Start(w, Doing("exists", e, NoPending, {}))
  /\ UNCHANGED <<dbVars, pendingVars, codeVars, signupHistory>>

\* EMAIL_EXISTS when a live row has the address.
startExists(w) ==
  LET j == task[w] IN
  /\ j.pc = "exists"
  /\ IF liveRows(j.e) = {} THEN Wait(w, Doing("cooldown", j.e, j.p, {})) ELSE Finish(w)
  /\ UNCHANGED <<dbVars, pendingVars, codeVars, signupHistory>>

\* A pending record gets a fresh code; an unknown address is not told.
resendOtp(w, e) ==
  /\ isPending(e)
  /\ Start(w, Doing("cooldown", e, pending[e], {}))
  /\ UNCHANGED <<dbVars, pendingVars, codeVars, signupHistory>>

\* OTP_COOLDOWN.
checkCooldown(w) ==
  LET j == task[w] IN
  /\ j.pc = "cooldown"
  /\ IF j.e \in otpCooldown THEN Finish(w) ELSE Wait(w, Doing("incr", j.e, j.p, {}))
  /\ UNCHANGED <<dbVars, pendingVars, codeVars, signupHistory>>

\* INCR, and RATE_LIMITED beyond the limit.  The counter is capped where it stops mattering.
countSend(w) ==
  LET j == task[w] IN
  /\ j.pc = "incr"
  /\ sends' = [sends EXCEPT ![j.e] = IF @ >= MaxSends THEN @ ELSE @ + 1]
  /\ IF sends[j.e] >= MaxSends THEN Finish(w) ELSE Wait(w, Doing("set", j.e, j.p, {}))
  /\ UNCHANGED <<dbVars, pending, otpCooldown, codeVars, signupHistory>>

\* A new code, no attempts, and the data of this request or of the copy that was read.
setPending(w, m) ==
  LET j == task[w]
      p == [code |-> m, provider |-> j.p.provider, attempts |-> 0]
  IN
  /\ j.pc = "set"
  /\ m \notin codes
  /\ codes' = codes \cup {m}
  /\ pending' = [pending EXCEPT ![j.e] = p]
  /\ Wait(w, Doing("mail", j.e, p, {}))
  /\ UNCHANGED <<dbVars, otpCooldown, sends, mailed, signupHistory>>

\* The cooldown, and the mail after it.
sendMail(w) ==
  LET j == task[w] IN
  /\ j.pc = "mail"
  /\ otpCooldown' = otpCooldown \cup {j.e}
  /\ mailed' = mailed \cup {j.p.code}
  /\ Finish(w)
  /\ UNCHANGED <<dbVars, pending, sends, codes, signupHistory>>

-----------------------------------------------------------------------------
(* verifyOtp                                                               *)

\* The record has used up its attempts.
verifyOtpTooMany(w, e) ==
  /\ isPending(e)
  /\ pending[e].attempts >= MaxOtpAttempts
  /\ Start(w, Doing("drop", e, pending[e], {}))
  /\ UNCHANGED <<dbVars, pendingVars, codeVars, signupHistory>>

verifyOtpDrop(w) ==
  /\ task[w].pc = "drop"
  /\ pending' = [pending EXCEPT ![task[w].e] = NoPending]
  /\ Finish(w)
  /\ UNCHANGED <<dbVars, otpCooldown, sends, codeVars, signupHistory>>

\* Who is about to write a wrong attempt at this code.
guessing(m) == {w \in Workers : task[w].pc = "keep" /\ task[w].p.code = m}

\* Mutant: the attempt is not counted.
verifyOtpWrong_NotCounted(w, e) ==
  LET p == pending[e] IN
  /\ isPending(e)
  /\ p.attempts < MaxOtpAttempts
  /\ Start(w, Doing("keep", e, p, {}))
  /\ guesses' = [guesses EXCEPT ![p.code] = IF guessing(p.code) = {} THEN @ + 1 ELSE @]
  /\ UNCHANGED <<dbVars, pendingVars, codeVars, revived>>

verifyOtpWrong(w, e) ==
  LET p == pending[e] IN
  /\ isPending(e)
  /\ p.attempts < MaxOtpAttempts
  /\ Start(w, Doing("keep", e, [code |-> p.code, provider |-> p.provider,
                             attempts |-> p.attempts + 1], {}))
  /\ guesses' = [guesses EXCEPT ![p.code] = IF guessing(p.code) = {} THEN @ + 1 ELSE @]
  /\ UNCHANGED <<dbVars, pendingVars, codeVars, revived>>

\* SET ... KEEPTTL, whether or not the key is still there.
verifyOtpKeep(w) ==
  LET j == task[w] IN
  /\ j.pc = "keep"
  /\ pending' = [pending EXCEPT ![j.e] = j.p]
  /\ Finish(w)
  /\ UNCHANGED <<dbVars, otpCooldown, sends, codeVars, signupHistory>>

verifyOtpRight(w, e) ==
  /\ isPending(e)
  /\ pending[e].attempts < MaxOtpAttempts
  /\ pending[e].code \in mailed
  /\ Start(w, Doing("create", e, pending[e], {}))
  /\ UNCHANGED <<dbVars, pendingVars, codeVars, signupHistory>>

\* The transaction creates the user.
verifyOtpCreate(w, u) ==
  LET j == task[w] IN
  /\ j.pc = "create"
  /\ row[u] = "none"
  /\ ~refused(j.e, j.p.provider)
  /\ row' = [row EXCEPT ![u] = "live"]
  /\ email' = [email EXCEPT ![u] = j.e]
  /\ googleId' = IF j.p.provider = "GOOGLE" THEN [googleId EXCEPT ![u] = j.e] ELSE googleId
  /\ Wait(w, Doing("clean", j.e, j.p, {}))
  /\ UNCHANGED <<pendingVars, codeVars, signupHistory>>

\* A unique index refuses it; the pending record stays.
verifyOtpConflict(w) ==
  LET j == task[w] IN
  /\ j.pc = "create"
  /\ refused(j.e, j.p.provider)
  /\ Finish(w)
  /\ UNCHANGED <<dbVars, pendingVars, codeVars, signupHistory>>

\* Mutant: the record is kept for a minute, with a write instead of DEL.
verifyOtpClean_Keeps(w) ==
  LET j == task[w] IN
  /\ j.pc = "clean"
  /\ pending' = [pending EXCEPT ![j.e] = j.p]
  /\ Finish(w)
  /\ UNCHANGED <<dbVars, otpCooldown, sends, codeVars, signupHistory>>

\* DEL of the three keys, then the session.
verifyOtpClean(w) ==
  LET e == task[w].e IN
  /\ task[w].pc = "clean"
  /\ pending' = [pending EXCEPT ![e] = NoPending]
  /\ otpCooldown' = otpCooldown \ {e}
  /\ sends' = [sends EXCEPT ![e] = 0]
  /\ Finish(w)
  /\ UNCHANGED <<dbVars, codeVars, signupHistory>>

\* DEL fails and is caught.
verifyOtpCleanFailed(w) ==
  /\ RedisMayFail
  /\ task[w].pc = "clean"
  /\ Finish(w)
  /\ UNCHANGED <<dbVars, pendingVars, codeVars, signupHistory>>

-----------------------------------------------------------------------------
(* handleGoogleProfile                                                     *)

\* A verified profile, from the browser callback or from googleToken.
googleProfile(w, e) ==
  /\ Start(w, Doing("google", e, NoPending, {}))
  /\ UNCHANGED <<dbVars, pendingVars, codeVars, signupHistory>>

\* The rows findFirst finds by the Google id or by the address.
googleRows(e) == {u \in Users : row[u] = "live" /\ (googleId[u] = e \/ email[u] = e)}

\* Nobody has either: the same signup flow.
googleSignup(w) ==
  LET j == task[w] IN
  /\ j.pc = "google"
  /\ googleRows(j.e) = {}
  /\ Wait(w, Doing("exists", j.e, [code |-> NoMail, provider |-> "GOOGLE", attempts |-> 0], {}))
  /\ UNCHANGED <<dbVars, pendingVars, codeVars, signupHistory>>

\* A row that is linked already: sign in (Challenges, Sessions).
googleKnown(w) ==
  /\ task[w].pc = "google"
  /\ \E u \in googleRows(task[w].e) : googleId[u] # NoEmail
  /\ Finish(w)
  /\ UNCHANGED <<dbVars, pendingVars, codeVars, signupHistory>>

\* First time through Google: the row is to be linked.
googleFound(w, u) ==
  LET j == task[w] IN
  /\ j.pc = "google"
  /\ u \in googleRows(j.e)
  /\ googleId[u] = NoEmail
  /\ Wait(w, Doing("link", j.e, NoPending, {u}))
  /\ UNCHANGED <<dbVars, pendingVars, codeVars, signupHistory>>

\* By id, unless a row has the Google id already, and sign in.
googleLink(w) ==
  LET j == task[w] IN
  /\ j.pc = "link"
  /\ googleId' = IF googleId_key(j.e) THEN googleId
                 ELSE [u \in Users |-> IF u \in j.ids THEN j.e ELSE googleId[u]]
  /\ Finish(w)
  /\ UNCHANGED <<row, email, pendingVars, codeVars, signupHistory>>

-----------------------------------------------------------------------------
(* Rows that others create, delete, restore and anonymise                  *)

\* createOfficer and createAdmin look for the address first and insert later.
createStaff(w, e) ==
  /\ liveRows(e) = {}
  /\ Start(w, Doing("insert", e, NoPending, {}))
  /\ UNCHANGED <<dbVars, pendingVars, codeVars, signupHistory>>

createStaffInsert(w, u) ==
  LET j == task[w] IN
  /\ j.pc = "insert"
  /\ row[u] = "none"
  /\ ~user_email_active_uq(j.e)
  /\ row' = [row EXCEPT ![u] = "live"]
  /\ email' = [email EXCEPT ![u] = j.e]
  /\ Finish(w)
  /\ UNCHANGED <<googleId, pendingVars, codeVars, signupHistory>>

createStaffConflict(w) ==
  /\ task[w].pc = "insert"
  /\ user_email_active_uq(task[w].e)
  /\ Finish(w)
  /\ UNCHANGED <<dbVars, pendingVars, codeVars, signupHistory>>

\* deleteMe and removeAdmin.
deleteUser(u) ==
  /\ row[u] = "live"
  /\ row' = [row EXCEPT ![u] = "deleted"]
  /\ UNCHANGED <<email, googleId, pendingVars, codeVars, task, signupHistory>>

onPurgeList(u) == \E w \in Workers : task[w].pc = "anonymise" /\ u \in task[w].ids

\* restore: the index refuses a row whose address somebody else has now.
restore(u) ==
  /\ row[u] = "deleted"
  /\ email[u] = NoEmail \/ ~user_email_active_uq(email[u])
  /\ row' = [row EXCEPT ![u] = "live"]
  /\ revived' = IF onPurgeList(u) THEN revived \cup {u} ELSE revived
  /\ UNCHANGED <<email, googleId, pendingVars, codeVars, task, guesses>>

\* runPurge: the rows that still have their address and were deleted so long ago that no
\* sign-in that found them alive is still under way.
anonymiseRead(w) ==
  LET ids == {u \in Users : /\ row[u] = "deleted" /\ email[u] # NoEmail
                            /\ \A v \in Workers : task[v].pc = "link" => u \notin task[v].ids}
  IN
  /\ ids # {}
  /\ Start(w, Doing("anonymise", NoEmail, NoPending, ids))
  /\ UNCHANGED <<dbVars, pendingVars, codeVars, signupHistory>>

\* Mutant: the Google id stays on the row.
anonymiseWrite_KeepsGoogle(w, u) ==
  LET j == task[w] IN
  /\ j.pc = "anonymise"
  /\ u \in j.ids
  /\ email' = [email EXCEPT ![u] = NoEmail]
  /\ IF j.ids = {u} THEN Finish(w) ELSE Wait(w, Doing("anonymise", NoEmail, NoPending, j.ids \ {u}))
  /\ UNCHANGED <<row, googleId, pendingVars, codeVars, signupHistory>>

\* One row after another, by id.
anonymiseWrite(w, u) ==
  LET j == task[w] IN
  /\ j.pc = "anonymise"
  /\ u \in j.ids
  /\ email' = [email EXCEPT ![u] = NoEmail]
  /\ googleId' = [googleId EXCEPT ![u] = NoEmail]
  /\ IF j.ids = {u} THEN Finish(w) ELSE Wait(w, Doing("anonymise", NoEmail, NoPending, j.ids \ {u}))
  /\ UNCHANGED <<row, pendingVars, codeVars, signupHistory>>

-----------------------------------------------------------------------------
SignupReceive(w) ==
  \/ anonymiseRead(w)
  \/ \E e \in Emails :
       \/ startSignup(w, e)
       \/ resendOtp(w, e)
       \/ verifyOtpTooMany(w, e)
       \/ verifyOtpWrong(w, e)
       \/ verifyOtpRight(w, e)
       \/ googleProfile(w, e)
       \/ createStaff(w, e)

SignupHandle(w) ==
  \/ startExists(w)
  \/ checkCooldown(w)
  \/ countSend(w)
  \/ \E m \in Mails : setPending(w, m)
  \/ sendMail(w)
  \/ verifyOtpDrop(w)
  \/ verifyOtpKeep(w)
  \/ verifyOtpConflict(w)
  \/ verifyOtpClean(w)
  \/ verifyOtpCleanFailed(w)
  \/ googleSignup(w)
  \/ googleKnown(w)
  \/ googleLink(w)
  \/ createStaffConflict(w)
  \/ \E u \in Users :
       \/ verifyOtpCreate(w, u)
       \/ googleFound(w, u)
       \/ createStaffInsert(w, u)
       \/ anonymiseWrite(w, u)

SignupNext ==
  \/ \E e \in Emails : pendingExpires(e) \/ otpCooldownExpires(e) \/ sendsExpire(e)
  \/ \E u \in Users : deleteUser(u) \/ restore(u)
  \/ \E w \in Workers : SignupReceive(w) \/ SignupHandle(w) \/ SignupCrash(w)

SignupSpec == SignupInit /\ [][SignupNext]_signupVars

-----------------------------------------------------------------------------
(* Properties                                                              *)

\* An address has at most one live account, whichever of verifyOtp, createOfficer,
\* createAdmin and restore race for it.
OneAccountPerEmail ==
  \A e \in Emails : \A u, v \in liveRows(e) : u = v

\* verifyOtp: a code outlives MaxOtpAttempts wrong guesses at most, although the record is read,
\* counted up in memory and written back over resends, expiries and new signups, and although a
\* write that is under way brings a record back: guesses compared while another one was being
\* written, and those whose write was lost, are all that may come on top.
GuessesCounted == \A m \in Mails : guesses[m] <= MaxOtpAttempts

\* handleGoogleProfile and runPurge: a Google id is on the row of its own address, so that a
\* Google sign-in finds one account and nothing is left on, or comes back to, a row that was
\* anonymised; except for a row that was restored while a run of the job had it on its list.
GoogleIdMatches == \A u \in Users \ revived : googleId[u] \in {NoEmail, email[u]}

\* A signup that ended in an account stays over: while the account lives, no request brings
\* the pending record back, except one that was under way when it went.
SignupOver ==
  [][\A e \in Emails :
       LET Over == /\ ~isPending(e)
                   /\ \A w \in Workers : task[w].e = e => task[w].pc \notin PendingWriters
       IN liveRows(e) # {} /\ Over => Over' \/ liveRows(e)' = {}]_signupVars
=============================================================================

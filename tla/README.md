# CityCare backend: a TLA+ verification project

CityCare is an Express and Prisma backend for a city: citizens file complaints, officers work
on them, and citizens pay for municipal services through SSLCommerz. The state is in one
PostgreSQL database, with Redis for sessions, challenges, caches and rate limits. Requests and
two scheduled jobs run concurrently, on several processes or on a serverless host.

The hard part is the same everywhere: a handler reads rows, decides, awaits (the gateway, an
upload, another query) and writes. Other handlers run in between, processes stop in between,
Redis commands fail and are swallowed, and the payment gateway calls back late, twice or never.
The project models what is between two awaits as one step and keeps what a handler has read in
a record of its locals (`job[w]` for each request or job run `w` in flight).

Paths below are those of the repository, with its sources under `src/`.

## 1. Inventory

| Component | Where | State | Operations | Talks to |
| --- | --- | --- | --- | --- |
| Payments | `modules/payment` | Payment, PaymentEvent, Refund rows | initiate, success/fail/cancel/ipn, confirm, markTerminal, requestRefund, approveRefund, summary | gateway, service requests, mailer |
| Service requests | `modules/serviceRequest` | ServiceRequest and document rows, reference counter | create, updateStatus, addDocument | payments, tracking ids |
| Complaint lifecycle | `modules/complaint` | Complaint, history, assignment, attachment, upvote, feedback rows | create, softDelete, restore, changeStatus, cancel, reopen, assign, addAttachment, upvote, feedback | uploads, administration, SLA job, idempotency keys |
| SLA job | `jobs/slaChecker.ts` | Escalation rows, flags | escalate, auto-close | complaints; started by cron and over HTTP |
| Purge job | `jobs/purge.ts` | all expiring rows | purge, anonymise | users, keys |
| Sessions | `modules/auth`, `middlewares/auth.ts` | Session and RefreshToken rows; session cache and denied tokens in Redis | sign in, refresh, log out, revoke, change or reset the password | cache, administration |
| Login challenges | `modules/auth` | challenges, links, cooldowns and failure counters in Redis | login, verifyLoginOtp, completeMagicLogin, resendLoginOtp, toggle2fa | mailer, sessions |
| Sign-up | `modules/auth`, Google sign-in | pending sign-ups in Redis, User rows | startSignup, resendOtp, verifyOtp, handleGoogleProfile | mailer, administration |
| Administration | `modules/admin`, `modules/user` | roles, states and deletion of users | createOfficer, createAdmin, updateRole, updateStatus, removeAdmin, restore, deleteMe | sessions |
| RBAC | `modules/rbac`, `lib/permissions.ts`, `config/permissions.ts` | permissions, access roles, two join tables, a cache | create, update, delete, assign, getUserPermissions | cache, seed |
| Master data and settings | `modules/{category,department,ward,zone,serviceType}`, `lib/cache.ts`, `lib/settings.ts` | rows, six cached answers in Redis, a Map of settings in each process | create, update, delete, restore, list | cache, seed |
| Idempotency keys | `middlewares/idempotency.ts` | IdempotencyKey rows | look up, claim, store, forget | complaint creation |
| Tracking ids | `utils/trackingId.ts` | two counters | next | complaint and service request creation |
| Rate limiter, contact, notifications, mail, receipts, uploads, plumbing | the rest | none that a guard elsewhere reads | I/O, single rows | none |

What makes the parts correct:

* payments: money is believed only when the gateway confirms it, once per payment and once per
  request; an outcome is final; refunds follow a request and an approval;
* complaints: one state machine, resolution proven, one officer at a time, limits kept, votes
  and escalations counted once, overdue complaints reach the top and resolved ones close;
* intake: numbers without a gap or a double, no double submissions, a replayed answer belongs
  to its request;
* sessions and challenges: what is rotated, revoked, used or over stays so; limits hold although
  counters are read before they are written;
* accounts: an address has one live account, a super admin is always left, and the standing of
  an admin is a super admin's decision;
* caches: what is out of date has a known reason and does not last.

`PROJECT.json` lists the hazards behind these, each at its line.

## 2. Modules

| Module | Models | Instance | Proofs |
| --- | --- | --- | --- |
| `Payments` | `payment.service.ts`, `payment.controller.ts`, `serviceRequest.service.ts` | `MCPayments` | `PaymentsProofs` |
| `Settlement` | the abstract promise of `Payments` | | |
| `PaymentLedger` | `totalFor` and the net of `summary`, over the rows of `Payments` | | |
| `Cases` | what `Complaints` and `Triage` share: complaint ids and handlers | | |
| `Complaints` | statuses, assignment, attachments and feedback of `complaint.service.ts`, `autoCloseResolved` | `MCComplaints` | `ComplaintsProofs` |
| `Triage` | `upvote`, `runSlaCheck` | `MCTriage` | `ComplaintsProofs` |
| `Intake` | `idempotency.ts`, `trackingId.ts`, `create` of complaints and of service requests | `MCIntake` | `IntakeProofs` |
| `Sessions` | the session half of `auth.service.ts`, `middlewares/auth.ts`, the session entries of the cache | `MCSessions` | `SessionsProofs` |
| `Mailing` | what `Challenges` and `Signup` share: mails, handlers, a Redis that may fail | | |
| `Challenges` | password step, second factor, mailed links and resends of `auth.service.ts` | `MCChallenges` | `SignInProofs` |
| `OneTimeLinks` | the abstract promise of a mailed link, which `Challenges` implements | | |
| `Signup` | `startSignup`, `resendOtp`, `verifyOtp`, Google sign-in, and who else takes or frees an address | `MCSignup` | `SignInProofs` |
| `Administration` | roles, suspension and removal of users; the seed's users | `MCAdministration` | `AdministrationProofs` |
| `Rbac` | `rbac.service.ts`, `lib/permissions.ts`, the seed's catalogue | `MCRbac` | `RbacProofs` |
| `Catalog` | the five master-data services, `lib/settings.ts`, restore, the seed's master data, `lib/cache.ts` | `MCCatalog` | `CatalogProofs` |

The modules share tables along these lines: `Payments` and `Settlement`, and `Challenges` and
`OneTimeLinks`, are composed by a refinement; `Complaints`, `Triage` and `Intake` each own other
columns of a complaint; `Sessions` takes the sign-ins that `Challenges` counts and the
revocations that `Administration` asks for; `Signup` and `Administration` both hold User rows, one their
addresses and the other their roles.

### Conventions

* `job[w]` is `Idle` or a record with `pc`, the await the handler is stopped at, and the locals
  it will use after it. `Begin` starts a handler, `Await` goes on to the next await, `Return`
  ends it.
* `Triage` and `Signup` are proved about beside `Complaints` and `Challenges` and have names of
  their own for the same things: `TriageInit`, `TriageNext`; `SignupNext`, and `task[w]`, `Free`,
  `Start`, `Wait`, `Finish` and `SignupCrash` in `Signup`.
* `Crash(w)` ends a handler at any await: a stopped process, a failed query, `requireRedis`
  refusing to go on. What it committed stays. Nothing retries it but a new request or job run.
* A request that is refused before it changed anything is a stuttering step.
* A transaction is one step where its row locks and the unique indexes serialise it against
  the others. Where READ COMMITTED lets another transaction in between two of its statements
  (the count of super admins, `deleteMany` before `createMany`, the tracking id's counter), it
  is several.
* A Redis command is a step of its own. Where its error is caught, failing is an action.
* Consecutive reads of one handler are one step where what the first one found cannot change
  afterwards, or is read again later.
* A history variable records why a promise may be off and nothing in a guard reads it. The
  property names it as an exception, so that the run and the proof show that there is no other:
  `overlapped` (two counts of super admins, or a department deleted while it gets a category),
  `crossed` (rows promoted while a plain admin's change of them was in flight), `twoKeys` (two
  requests of one key in flight together), `twoFilings` (places of which two filings were checked
  before either committed), `broughtBack` (complaints that are open again beside another one),
  `guesses` (wrong codes compared one at a time), `late` (writes of a challenge that was gone),
  `blind` (logins that went on past a limit because they could not read the counter), `revived`
  (rows restored while a run of the purge job had them on its list), `excused` (cache entries out
  of date for one of the stated reasons).

### Payments

`srStatus`, `payStatus`, `events`, `refund` and `audits` are rows. `gateway` is what SSLCommerz
holds for a transaction (external): no page, a page, captured for the stored amount, or
captured for another. `paidBack` counts executed refunds, `receipts` mails dispatched.

| Code | Actions |
| --- | --- |
| `serviceRequest.create`, `updateStatus` | `create`, `updateStatusRead`, `updateStatusWrite` |
| `initiate` | `initiateRead`, `initiateCreate`, `initiateGateway`, `initiateFailed` or `initiateAudit` |
| the controller's `success` and `ipn`, `fail`, `cancel` | `success`, `fail`, `cancel` (each records the event) |
| `confirm` | `confirmAlready`, or `confirmRead`, `confirmValid` or `confirmInvalid`, then `confirmWon`, `confirmLost` or `confirmRefused`, and `confirmMail` |
| `markTerminal` | `markTerminal` |
| `requestRefund`, `approveRefund` | `requestRefundRead`, `requestRefundCreate`; `approveRefundRead`, `approveRefundDone`, `approveRefundUnheard` or `approveRefundRefused`, `approveRefundCommit` |

Callbacks are public posts, so they arrive in any order and number, for any transaction that
exists, and with the `val_id` of any transaction.

`Settlement` is the abstract specification: an attempt is open, held, dropped or returned; one
attempt per request is held at a time; a request stops being due in the step that settles an
attempt for it. `ImplementsSettlement` in `Payments` maps the rows to it.

### Complaints

The complaint row (`status`, `deleted`, `officerId`, `reopenCount`, `resolvedAt`), the active
assignments, the attachments by kind and the rating. `resolvedAt` is null, recent or old;
`WeekPasses` makes it old. The reopening window and the auto-close delay are both seven days by
default and are taken to be equal. A complaint has one owner, one admin acts, officers belong
to its department. `cancel` is `changeStatus` to CANCELLED.

| Code | Actions |
| --- | --- |
| `create`, `softDelete`; `restore` of `admin.service.ts` | `create`, `softDelete`; `restore` |
| `changeStatus`, `applyStatusChange`, `cancel` | `changeStatusRead`, or `resolveRead` and `resolveProof`; `applyStatusChange` or `applyConflict` |
| `reopen` | `reopenRead`, `reopenChange`, then as above |
| `assign` | `assignRead`, `assignWrite` |
| `addAttachment` | `addAttachmentRead`, `addAttachmentWrite` |
| `feedback` | `feedbackRead`, `feedbackCreate`, then `applyStatusChange` |
| `autoCloseResolved` | `autoCloseRead`, then `applyStatusChange` |
| an ApiError after the first await | `refused` |

### Triage

Votes and escalations. `level` is what `levelFor` gives at the moment and rises with time
(`levelRises`); `closes` and `reopens` stand for the status changes of `Complaints`. `upvote`
is `upvoteRead`, then `upvoteWrite` or `upvoteFails` (the unique row). A run of the job reads a
batch with its levels and flags (`runSlaRead`) and then takes one complaint at a time:
`escalate`, `escalateSkips`, `escalateThrows`; `runSlaFails` ends it early. `Runs` are the cron
and the HTTP trigger, which nothing keeps apart.

### Intake

One user and one Idempotency-Key. `key` is its row: a `claim` of an expired row replaces the
hash and leaves the old answer in place, as the upsert does. `store` and `forget` run after the
answer, with nobody waiting for them. A complaint is checked (`create`, `createFails`), numbered
(`nextTrackingId`, which holds the counter's row lock to the end of the transaction) and
committed (`createCommit`) or rolled back (`createThrows`); `createCommit` may still answer with
an error, because the search for neighbours after the commit can throw. `createRequest` and
`requestCommit` draw from the other sequence. `plainComplaint` is a request without a key.
`keyExpires`, `purgeKey` and `ages` are time and the purge job. A complaint counts as a duplicate
while it is open and of the last day: `closes` stands for the status changes and the deletion that
end this, `comesBack` for a reopening (REOPENED is one of `OPEN_STATUSES`) and for `restore`, which
look at no other complaint of the place.

### Sessions

One user. `session` and `refreshToken` are rows (none, live, revoked), `expired` the sessions
past their `expiresAt`. `password` numbers the password changes and stands for the hash and
`passwordChangedAt`; `signedAt` is the `iat` of a pair on the same scale. A pair is an access
and a refresh token signed together: `signed`, and `held` once a client was answered with it.
`cache` and `denied` are Redis. `knew` and `signedOut` are history.

| Code | Actions |
| --- | --- |
| `auth` with `cached` | `accepts`, `cachedRead`, `cachedFill`; `cacheExpires` is the time to live |
| every way in, `createSessionAndTokens` | `login`, `createSession`, `createToken`, `answer` |
| `refresh` | `refreshRead`, `refreshUser`, `refreshRotate`, `answer`; or `refreshReuse` |
| `logout`, `logoutByToken` | `logout` or `logoutByToken`, then `logoutSession`, `logoutTokens` and `logoutRedis` or `logoutRedisFailed` in any order, `logoutAnswer` |
| `revokeSession`, `logoutAll`, `forceLogout` | actions of the same names |
| `resetPassword`, `changePassword` | `passwordRead` or `changePassword`, then `passwordWrite` |
| `updateStatus` | `block`, `unblock` |
| `revokeAllSessions`, `invalidate` | `revokeAllRead`, `revokeAllWrite`, `invalidate` or `invalidateFailed` |

`cached` writes the entry without awaiting it, so the fill is a job of its own that may land
late or never. With `RedisMayFail` any Redis command may fail, as every caller here catches.

### Challenges

One user. `challenge` is `login:otp:{id}`, `link` is `login:magic:{hash}`, a mail stands for the
code and the link token drawn for it. The record is read, changed in memory and written back
with KEEPTTL, which writes a key that is gone as one without a time to live (`lasting`).

| Code | Actions |
| --- | --- |
| `login` | `loginRead` (the counter of the network), `loginReadEmail` (of the address), `loginWrong`, `loginWrongIp` or `loginRight`, `loginLink`, `storeChallenge` |
| Google sign-in, `toggle2fa` | `googleChallenge`; `issueCode`, `toggleRead`, `toggleDel` |
| `verifyLoginOtp` | `verifyMismatch`, `verifyMismatchDel`, or `verifyWrong`, `verifyKeep`, or `verifyRight`, then the end |
| `completeMagicLogin` | `magicRead`, `magicChallenge`, `magicDel`, then the end |
| `endChallenge` | `endLink`, `endKey` (its answer, whether this DEL removed the key, decides for a code) |
| `resendLoginOtp` | `resendRead`, `resendCooldown`, `resendUnlink`, `resendLink`, `resendStore`, `resendMail` |
| time to live | `challengeExpires`, `linkExpires`, `cooldownExpires`, `failsExpire` |

A handler's locals keep only what it will still use of the record (`linkOf`, `mailsOf`).

`OneTimeLinks` is the abstract specification of a mailed link: blank, then open, taken by one
click, and used; from every state but used it may become void, and then stays so. `linkState`
maps a mail to it: blank until it is drawn, open while its key stands, taken while one handler
has removed the key and has not opened its session yet, used or void after that.

### Signup

`pending` is `reg:pending:{email}` with its code and attempts, `sends` and `otpCooldown` its
budget. `row`, `email` and `googleId` are the User table, with its partial unique index on live
addresses and its unique Google ids. An address has one Google account, so `googleId` names the
account by its address; `NoEmail` is no id there, and the address of an anonymised row in
`email`. `anonymiseRead` takes rows that were deleted thirty days ago, so no Google sign-in
that found such a row alive is still under way; a row may be restored after it.

| Code | Actions |
| --- | --- |
| `startSignup`, `resendOtp` | `startSignup`, `startExists` or `resendOtp`; `checkCooldown`, `countSend`, `setPending`, `sendMail` |
| `verifyOtp` | `verifyOtpTooMany`, `verifyOtpDrop`; `verifyOtpWrong`, `verifyOtpKeep`; `verifyOtpRight`, `verifyOtpCreate` or `verifyOtpConflict`, `verifyOtpClean` or `verifyOtpCleanFailed` |
| `handleGoogleProfile` | `googleProfile`, then `googleSignup`, or `googleKnown`, or `googleFound`, `googleLink` |
| `createOfficer`, `createAdmin` | `createStaff`, `createStaffInsert` or `createStaffConflict` |
| deletion, `restore`, the purge job | `deleteUser`, `restore`, `anonymiseRead`, `anonymiseWrite` |

### Administration

Role, status and deletion of every row; the super admin flag is set by the seed only and is a
constant. A handler's locals say whose request it is: a super admin's, a plain admin's, or the
user's own. `updateRole`, `updateStatus` and `removeAdmin` read their target
(`...Read`), count the super admins that remain inside their transaction
(`assertNotLastSuperAdmin`, `lastSuperAdmin`) and update (`...Write`, `...Block`): the count and
the update are two statements. `deleteMe` shares the write. `upsertUser` is a second run of the
seed beside the handlers.

### Rbac

Two join tables and the permission cache. `updateRole` and `assignUserRoles` replace rows in
two steps, `...Delete` with the rows that `deleteMany` saw and `...Save`. `deleteRole` checks
before it deletes (`deleteRoleRead`, `deleteRoleDrop`). Every save ends in a sweep:
`invalidateAllKeys` reads the keys, `invalidateDel` deletes them, `invalidateFails` is a Redis
error. A request reads a user's permissions in up to two queries (`assignedRead`,
`fallbackRead`) and stores the answer later (`fill`). `adminUpdateRole` changes an account type
without a sweep, and `seed` restores the catalogue.

### Catalog

Departments and categories are rows; wards, zones, service types and settings are what writes
them and what caches them. `behind` holds the keys whose answer is older than the last write to
the table it lists. Each service has its actions (`departmentCreate`, `categoryDeleteRead`,
`wardWrite`, ...), each cached list an action that reads it, `fill` stores it, `invalidate` drops
it and `invalidateFails` fails to. The settings are cached in a Map of each process, so every
process is a key of its own: `updateSetting` leaves all of them behind and clears one. A run of the
seed goes through the tables an upsert at a time (`seedZones`, `seedWards`, `seedDepartment`,
`seedCategoryUpdate` or `seedCategoryCreate`, `seedServiceTypes`) and ends in
`invalidateMasterData`; `seedFails` ends it before that.

## 3. Runs

Two handlers are in flight in every run (two voters' requests beside two job runs in
`triage`): each race in the hazards is a read and a write of one handler with steps of another
in between. One object is enough wherever no operation touches two of a kind.

| Run | Bounds, and what they are for | Checks |
| --- | --- | --- |
| `payments` | 1 request, 2 payments (two attempts at one fee, and a `val_id` of the wrong one), 2 paybacks, an admin and a super admin | `OneSuccessPerRequest`, `ConfirmedOnce`, `SuccessIsFunded`, `ServiceNeedsPayment`, `RefundFollowsRequest`, `NeverUndone`, `ImplementsSettlement` |
| `complaints` | 1 complaint, 2 officers (a reassignment), 1 attachment allowed, reopening limit 1 with 2 reopenings | `ResolvedIsProven`, `OfficerMatchesAssignment`, `AttachmentsBounded`, `SingleDoor`, `AutoClosed` |
| `triage` | 1 complaint, 3 voters around a threshold of 2 (below, at and above it), cron and HTTP runs, 1 failure | `VotesAgree`, `EscalatedOnce`, `TopLevelReached` |
| `intake` | 2 bodies at 2 places (the same problem again, and another), 2 filings of each sequence, 1 key | `Numbered`, `ReplayMatches`, `NoDoubleSubmit`, `AnswerKept` |
| `sessions` | 1 session, 2 pairs (a token and its successor), 1 password change, Redis works | `NullIsDead`, `SignedOutIsRefused`, `RevokedForGood`, `ForgottenForGood` |
| `sessions_live` | 1 session, 1 pair, Redis may fail | `RevocationHolds` |
| `challenges` | 1 challenge, 2 mails (the first and a resend), 2 attempts, 1 resend, Redis may fail, 1 blind login; a challenge that is over comes back once at most (`FewLate`) | `LinkOnce`, `CodeOnce`, `LimitsHold`, `EndedForGood`, `ImplementsOneTimeLinks` |
| `signup` | 1 address, 2 rows that want it, 2 mails, 1 attempt, 1 send, Redis may fail; what follows a restoration under the purge job is explored without wrong codes and second mails (`Apart`) | `OneAccountPerEmail`, `GuessesCounted`, `GoogleIdMatches`, `SignupOver` |
| `administration` | 2 super admins (who can remove each other), 2 more rows of any role (a plain admin and a target) | `WayBackIn`, `SuperAdminDecides` |
| `rbac` | 1 user, 2 permissions (one of the catalogue), 2 system roles and 1 other | `Referential`, `StaleExplained`, `SettlesFresh` |
| `catalog` | 2 departments, 1 category (to move it), 2 processes, 2 answers cached at once | `OwnListFresh`, `NoOrphans` |
| `payments_net` | 1 request, 1 payment, 1 handler; a violation is expected | `NetIsWhatTheCityHolds` |

Deadlock is checked except in `sessions`, `sessions_live`, `challenges` and `signup`, where every
token pair, mail or row may be used up; and in `administration`, where after two overlapping
removals nobody may be left to act. Symmetry is used over interchangeable ids in the runs without a liveness property.

`payments_net` shows a disagreement between the code and its comment: `summary` subtracts the
refunded payments from the collected ones, among which they no longer are, where
`payment.service.ts:626` calls net "the only figure that answers what the city is actually
holding".

### What the properties leave open

Several properties state the strongest thing the code keeps, with the exception spelled out.
The exceptions are behaviours of the code, each at a place where the repository says more:

* `CodeOnce`: a wrong code or a resend that was read before the challenge ended writes it back
  (`late`), without a time to live, and the code works once more.
* `LinkOnce` counts the sessions of one link. A link and a code of the same challenge may each
  open one, because `completeMagicLogin` does not look at what `endChallenge` answers;
  `auth.service.ts:500` says that "whichever one is used first ends the challenge and kills the
  other".
* `LimitsHold`: the failure counters are read before the password is compared, so the limit is
  overrun by as many requests as are in flight.
* `WayBackIn`: `admin.service.ts:67` says "The system must never end up without a way back in".
  Two transactions that each counted the other's super admin leave none.
* `GoogleIdMatches`: the purge job reads a deleted row, an administrator restores it, a Google
  sign-in finds it alive, the job anonymises it by id, and the sign-in links it by id: the Google
  id of a person is on a row of which `purge.ts:56` says that "nothing personal is left on it".
  `revived` holds such rows.
* `SuperAdminDecides`: `updateRole` and `updateStatus` check the target they read and update by
  id, so a plain admin's change takes ADMIN from, or suspends, somebody who was promoted in
  between (`crossed`); `admin.service.ts:174` says "Granting or revoking ADMIN is a super admin
  decision either way".
* `NoOrphans`: a category is put into a department that is being deleted; `restore` and a run of
  the seed put one into a department that is deleted, without looking (`prisma/seed.ts:175`).
* `NoDoubleSubmit`: two filings about one place are both checked before either is committed
  (`twoFilings` holds the place); or a complaint is reopened or restored beside another one of its
  place (`broughtBack`), which no check stands against.
* `ReplayMatches`, `AnswerKept`: two requests of one key in flight together (`twoKeys`) both get
  through the look-up, and then the answer of one is stored under the hash of the other, or
  deleted by its failure.
* `GuessesCounted`: the attempts of a pending sign-up are read, counted up in memory and written
  back. Two wrong codes in flight together count as one, and one whose SET is lost is not
  counted, so more codes than `signupOtpAttempts` can be tried; `docs/auth-flow.md:24` has
  "attempts >= 5 → DEL + 429", and every wrong code is answered with "N attempts left". The
  property says that nothing else (a resend, a new sign-up, an expiry, a record that comes back)
  gives a code more guesses.
* `EndedForGood`, `SignupOver`: a handler that had the record in hand before the challenge or the
  sign-up was over may still write it.
* `StaleExplained`, `OwnListFresh`: a fill that was read before a change and lands after the
  sweep stays until its time to live ends, and so does what a failed sweep leaves.
* `OwnListFresh`: a changed setting reaches the process that served the PATCH; every other one
  keeps the old value for up to a minute (`settings.ts:19`). `settings.ts:38` says "so the change
  takes effect at once".

### Fairness

* `complaints`: a handler that can go on does (`WF` of `Handle`): Node runs every settled
  promise's continuation. The job reads the complaint again every hour for as long as it waits
  (`SF` of `autoCloseRead`, strong because a worker must be free). Not every one of the hourly
  attempts at the update is cut short (`SF` of `applyStatusChange`): `autoCloseResolved` catches
  each complaint's error, and the next run tries again. The batch limit of 200 is left out of
  this run; each run closes what it read, so the rest come later.
* `triage`: the cron fires every hour and a run goes on unless it dies (`WF` of `runSlaRead` and
  of `runStep` for each run). The number of failures is bounded, as no more can be said of a
  transaction that fails for ever. `BATCH` is as large as the number of complaints: with a
  smaller batch `TopLevelReached` does not hold, because complaints that are at the top level
  stay in an unordered batch of 200 (`slaChecker.ts:33`).
* `rbac` and `sessions_live`: Redis drops an entry whose time to live has passed (`WF` of
  `cacheExpires`), and a handler that is under way goes on or is cut short: a fill or a sweep
  lands or is lost, and does not stay in the air for ever. `SettlesFresh` has the premise that the
  tables rest from some time on, and then needs both: the entry goes, and it must not come back
  from a handler that read the tables before.

## 4. Proofs

TLAPS proves, for any constants that satisfy the ASSUMEs, every safety property that the
passing runs check: the invariants, the action properties and both refinements. Each proof has
one step per action and rests on an inductive invariant that says what a handler in flight may
rely on; without it hardly a row invariant is inductive, because a write uses what was read
earlier.

* `PaymentsProofs`: an initiating handler is the only one that knows its payment, which the
  gateway cannot have captured; a handler about to commit was told by the gateway; the handler
  that sends the receipt is the only one that won; a refund's handler has a confirmed payment
  and a refund row behind it; a status update has a confirmed payment behind it. `Refinement`
  rests on the same invariant: every action but the winning confirmation, the drops and the
  refund commit is a stutter of `Settlement`.
* `ComplaintsProofs`: a proof for what is resolved and an officer for what has begun outlive the
  read that found them, so the invariant asks of every status in a handler's locals what it asks
  of the row (`Backs`), and assign's write of an old status keeps it. `AttachmentsLimited` counts
  every upload in flight as a row: the count leaves room for all handlers, and an insert turns
  its place into a row.
  For `Triage`: the counter is the cardinality of the voters, so a vote adds one because its
  row is new; what a run has read stays true, since levels only rise and flags only go up, and
  the unique row of an escalation decides.
* `IntakeProofs`: the number that a transaction drew is the next one, and it holds the lock of
  its sequence, so there is one such transaction; the one request of the key in flight finds the
  row as it left it or finds none, or `twoKeys` is set. A place that is being filed has no open
  complaint but one in `broughtBack`, and one filing only, or it is in `twoFilings`.
* `SessionsProofs`: the pair a handler is about to store is known to no other handler and not
  stored yet; whatever a client holds has its rows; a null on its way to the cache was read of a
  session that is over; a logout past its Redis transaction has denied its token.
* `SignInProofs`, for `Challenges`: a link stands, is in one click's hands or has been used, and
  never two of these (`LinkInv`); that a link opens one session follows, and it makes every step
  a move or a stutter of `OneTimeLinks`. A challenge id that was not drawn is nowhere
  (`FreshInv`), and until its first write nobody has a copy of the challenge that could be
  written or used (`StoreInv`), so only `late` writes bring a record back; a record that stands
  is one session its codes may still open (`CodeInv`), which is why `CodeOnce` alone is not
  inductive. Every handler between its read of a failure counter and its last INCR takes a place
  (`FailInv`): a read below the limit leaves room for all the others, and an INCR gives its
  place up. The copies in the locals have attempts left (`JobInv`).
* `SignInProofs`, for `Signup`: a copy of the pending record has attempts within the limit
  (`TaskInv`). A code belongs to one address (`OwnerInv`), and a record or a copy that is about to
  be written has counted every guess at its code, except the one being written (`GuessInv`): the
  limit on the recorded attempts is then one on the guesses. The unique index keeps
  `OneAccountPerEmail` at every insert and restoration.
  `BelongInv` is what a Google sign-in and the purge job rely on: the row that will be linked
  still has the address it was found by, the row that will be anonymised is still deleted and
  nobody is about to link it, or it is in `revived`. `OverForGood` looks at one step: once the
  account lives, only a handler that had passed the check on the address can write the record.
* `AdministrationProofs`: as long as no two counts overlapped, one handler at most has counted
  and the super admins that it counted remain; the target of a plain admin's request that is in
  flight is no admin, or it is in `crossed`.
* `RbacProofs`: what a handler is about to delete or insert belongs to its own role or user; the
  catalogue cannot be deleted, so the seed's grants have something to point at; every entry of
  the cache fits the tables, or its user is excused, or a sweep is coming.
* `CatalogProofs`: an answer that is behind has a handler that will drop it or is excused, and a
  run of the seed has every list on its list to the end; a handler that gives a department a category finds it live, and one that deletes a department
  finds it empty, or the department is in `overlapped`.

The assumptions are those on the constants (nonempty or disjoint sets, positive limits,
functions of the right type); TLC evaluates them in the runs.

Model-checked only: the liveness properties (`AutoClosed`, `TopLevelReached`, `SettlesFresh`,
`RevocationHolds`), because liveness under fairness and ENABLED are out of the prover's reach.

## 5. Disagreements met while modelling

Besides `payments_net`, the code has behaviours that a comment or a document of the repository
excludes. The models have them, except for the one about the second factor, which was met while
reading and is in no model.

| The code | The repository says |
| --- | --- |
| `updateStatus` writes PROCESSING by id after the refund cancelled the request (`serviceRequest.service.ts:166`) | "Processing only starts once the money is in" (`serviceRequest.service.ts:139`) |
| `assign` writes back an old status, without history (`complaint.service.ts:692`) | "Every status change filters on the status it expects to find", "never a lost update" (`docs/architecture.md:70`, `:79`) |
| `PATCH /status` reopens without the limit (`complaint.service.ts:476`) | "at most twice" (`docs/openapi.yaml:1045`) |
| the rating is stored, the closing in a second transaction is not | "Rating a resolved complaint is what closes it." (`complaint.service.ts:906`) |
| two refreshes rotate one token (`auth.service.ts:727`) | whoever holds a copied refresh token "gets one use" (`docs/auth-flow.md:125`) |
| the password is changed and the handler stops before it revokes the sessions (`auth.service.ts:991`) | "sets `passwordChangedAt`, revokes every session" (`docs/auth-flow.md:161`) |
| two saves of one role leave the union of both (READ COMMITTED) | "The payload is the whole set, so the old rows go and the new ones land." (`rbac.service.ts:218`) |
| a write drops the key of its own list; only `restore` and the seed call `invalidateMasterData` | "Every public master-data list, dropped in one call after any write." (`lib/cache.ts:49`) |
| several uploads pass the count before any of them is stored (`complaint.service.ts:783`) | "A complaint can hold at most ${MAX_ATTACHMENTS} attachments" (`complaint.service.ts:785`) |
| a citizen who switched the second factor off is made OFFICER or ADMIN, or is so while a switch is in flight: `updateRole` leaves `twoFactorEnabled` alone (`admin.service.ts:164`) | "only the seed can hand out an OTP-free staff account" (`auth.service.ts:474`), "Officers and admins must keep two-factor authentication on" (`auth.service.ts:882`), "a privileged account cannot downgrade itself to a single factor. The one exception is the seed script" (`docs/auth-flow.md:97`) |
| a changed setting is seen by one process (`settings.ts:19`) | "so the change takes effect at once" (`settings.ts:38`) |
| wrong sign-up codes in flight together count as one (`auth.service.ts:328`) | "attempts >= 5 → DEL + 429" (`docs/auth-flow.md:24`) |
| a second seed gives back grants and flags that were taken away | "running it twice changes nothing" (`prisma/seed.ts:12`) |

Two smaller ones concern code outside the models: `addComment` writes its notification outside
the transaction that `notification.service.ts:7` asks for ("Always called with the same `tx`"),
and the complaints that the seed puts into an empty database have an `upvoteCount` without Upvote
rows, an officer without an assignment and a status without a proof (`prisma/seed.ts:299`), so
`VotesAgree`, `OfficerMatchesAssignment` and `ResolvedIsProven` are about complaints that were
filed through the API.

## 6. Not modelled, and why

* The rate limiter counts in Redis with a fallback in memory, in a store that
  `express-rate-limit` drives; no other state depends on its windows.
* Contact messages, notifications and profiles are single rows that no guard elsewhere reads.
  `Triage` counts the notifications of an escalation.
* Mail bodies, receipts, uploads, exports, lists, reports, validation, routing and logging
  change no state of their own. The awaits on uploads and mails are kept, and receipts and codes
  are counted where a property needs them.
* `update` of a complaint rewrites its texts, and `addComment` adds a row; nothing reads either.
* `addDocument` of a service request adds a row after an upload; no guard reads it.
* The second factor's switch on the User row (`twoFactorEnabled`): `Challenges` has the codes and
  links that it asks for and the challenge of `toggle2fa`, and no module the flag itself. What
  can go wrong with it is said in section 5.
* The complaints, users' names and passwords of the seed's first run, which are initial states.
* The key of a mailed password reset: it is deleted after the transaction, so one link may be
  used by two requests in flight. Both set a password and revoke every session.
* Trusted devices are a choice of `login` in `Challenges`.
* Old security events and mail logs, which the purge job deletes and nothing reads.
* The gateway's internals are outside the repository. A second approval of a refund whose first
  answer was lost asks the gateway again; the code does not limit this and no property does.

What is left to do: an abstract session that `Sessions` refines.

------------------------------ MODULE Payments ------------------------------
(***************************************************************************)
(* Paying for a municipal service: payment.service.ts and                  *)
(* serviceRequest.service.ts, run by concurrent HTTP handlers (Workers)    *)
(* over one PostgreSQL database and the SSLCommerz gateway.                *)
(*                                                                         *)
(* A handler is a sequence of awaits.  What happens between two awaits is  *)
(* one step here, a prisma.$transaction is one step (its row locks and the *)
(* partial unique index serialise the ones that conflict), and the values  *)
(* a handler read before an await live in its job record until it ends.    *)
(* A handler that only refuses (404, 409, 503) changes nothing and is a    *)
(* stuttering step.                                                        *)
(***************************************************************************)
EXTENDS Naturals, FiniteSets

CONSTANTS
  Requests,        \* ServiceRequest ids
  Payments,        \* Payment ids, which stand for their transactionId as well
  RequestOf,       \* the service request a payment row will belong to
  Admins,          \* users with the ADMIN role
  SuperAdmins,     \* the ones superAdminOnly lets through
  Nobody,          \* a null user id
  Workers,         \* HTTP requests that may be in flight at the same time
  MaxPaybacks      \* bound: how often the gateway pays one transaction back

ASSUME PaymentsAssumption ==
  /\ RequestOf \in [Payments -> Requests]
  /\ SuperAdmins \subseteq Admins
  /\ Nobody \notin Admins
  /\ MaxPaybacks \in Nat

VARIABLES
  srStatus,    \* ServiceRequest.status, "NONE" before the row exists
  payStatus,   \* Payment.status, "NONE" before the row exists
  events,      \* the PaymentEvent rows of a transaction: raw, processed
  refund,      \* the Refund row of a payment
  audits,      \* PAYMENT_SUCCESS audit rows of a payment, each with its notification
  receipts,    \* receipt mails handed to the mailer for a payment
  gateway,     \* what SSLCommerz holds for a transaction
  paidBack,    \* refunds SSLCommerz has executed for a transaction
  job          \* the handler in flight in each worker

dbVars == <<srStatus, payStatus, events, refund, audits>>
outsideVars == <<receipts, gateway, paidBack>>
vars == <<srStatus, payStatus, events, refund, audits, receipts, gateway, paidBack, job>>

-----------------------------------------------------------------------------
(* The values.                                                             *)

ServiceRequestStatus ==
  {"PENDING_PAYMENT", "PAID", "PROCESSING", "COMPLETED", "REJECTED", "CANCELLED"}

PaymentStatus == {"PENDING", "SUCCESS", "FAILED", "CANCELLED", "REFUNDED"}

Confirmed == {"SUCCESS", "REFUNDED"}

\* "exact" and "other" are captured transactions; the amount and currency the
\* gateway reports for the second are not the ones the payment row stores.
GatewayState == {"none", "open", "exact", "other"}

Refund == [status: {"NONE", "REQUESTED", "PROCESSED"},
           requestedById: Admins \cup {Nobody},
           approvedById: Admins \cup {Nobody}]

NoRefund == [status |-> "NONE", requestedById |-> Nobody, approvedById |-> Nobody]

Idle == [pc |-> "idle"]

\* The locals of a handler, by the await it is stopped at.
Job ==
  {Idle}
    \cup [pc: {"create"}, s: Requests]
    \cup [pc: {"write"}, s: Requests, to: ServiceRequestStatus]
    \cup [pc: {"init", "auditInit", "failInit", "commit", "mail"}, p: Payments]
    \cup [pc: {"confirm", "validate"}, p: Payments, v: Payments]
    \cup [pc: {"terminal"}, p: Payments, to: {"FAILED", "CANCELLED"}]
    \cup [pc: {"refundRow", "payBack", "refunded"}, p: Payments, by: Admins]

\* The one type invariant: every row and every handler's locals are well formed.
TypeOK ==
  /\ srStatus \in [Requests -> ServiceRequestStatus \cup {"NONE"}]
  /\ payStatus \in [Payments -> PaymentStatus \cup {"NONE"}]
  /\ events \in [Payments -> SUBSET {"raw", "processed"}]
  /\ refund \in [Payments -> Refund]
  /\ audits \in [Payments -> Nat]
  /\ receipts \in [Payments -> Nat]
  /\ gateway \in [Payments -> GatewayState]
  /\ paidBack \in [Payments -> Nat]
  /\ job \in [Workers -> Job]

Init ==
  /\ srStatus = [s \in Requests |-> "NONE"]
  /\ payStatus = [p \in Payments |-> "NONE"]
  /\ events = [p \in Payments |-> {}]
  /\ refund = [p \in Payments |-> NoRefund]
  /\ audits = [p \in Payments |-> 0]
  /\ receipts = [p \in Payments |-> 0]
  /\ gateway = [p \in Payments |-> "none"]
  /\ paidBack = [p \in Payments |-> 0]
  /\ job = [w \in Workers |-> Idle]

Begin(w, locals) ==
  /\ job[w] = Idle
  /\ job' = [job EXCEPT ![w] = locals]

Await(w, locals) == job' = [job EXCEPT ![w] = locals]

Return(w) == job' = [job EXCEPT ![w] = Idle]

\* A process dies, or the database or the network throws, while a handler is
\* suspended: what it had committed stays, the rest of it never happens.
Crash(w) ==
  /\ job[w] # Idle
  /\ Return(w)
  /\ UNCHANGED <<dbVars, outsideVars>>

-----------------------------------------------------------------------------
(* serviceRequest.service.ts                                               *)

create(s) ==
  /\ srStatus[s] = "NONE"
  /\ srStatus' = [srStatus EXCEPT ![s] = "PENDING_PAYMENT"]
  /\ UNCHANGED <<payStatus, events, refund, audits, outsideVars, job>>

\* Mutant: an unpaid request may be taken up.
allowed_Unpaid(status) ==
  CASE status \in {"PENDING_PAYMENT", "PAID"} -> {"PROCESSING", "REJECTED"}
    [] status = "PROCESSING" -> {"COMPLETED", "REJECTED"}
    [] OTHER -> {}

allowed(status) ==
  CASE status = "PAID" -> {"PROCESSING", "REJECTED"}
    [] status = "PROCESSING" -> {"COMPLETED", "REJECTED"}
    [] OTHER -> {}

updateStatusRead(w, s, to) ==
  /\ to \in allowed(srStatus[s])
  /\ Begin(w, [pc |-> "write", s |-> s, to |-> to])
  /\ UNCHANGED <<dbVars, outsideVars>>

\* The write names the row and not the status that was read.
updateStatusWrite(w) ==
  /\ job[w].pc = "write"
  /\ srStatus' = [srStatus EXCEPT ![job[w].s] = job[w].to]
  /\ Return(w)
  /\ UNCHANGED <<payStatus, events, refund, audits, outsideVars>>

-----------------------------------------------------------------------------
(* payment.service.ts: initiate                                            *)

initiateRead(w, s) ==
  /\ srStatus[s] = "PENDING_PAYMENT"
  /\ Begin(w, [pc |-> "create", s |-> s])
  /\ UNCHANGED <<dbVars, outsideVars>>

\* The transaction id is drawn here, so the row is a new one.
initiateCreate(w, p) ==
  /\ job[w].pc = "create"
  /\ RequestOf[p] = job[w].s
  /\ payStatus[p] = "NONE"
  /\ payStatus' = [payStatus EXCEPT ![p] = "PENDING"]
  /\ Await(w, [pc |-> "init", p |-> p])
  /\ UNCHANGED <<srStatus, events, refund, audits, outsideVars>>

\* gateway().init answers with a page URL, or fails and is caught.
initiateGateway(w) ==
  /\ job[w].pc = "init"
  /\ \E pc \in {"auditInit", "failInit"} : Await(w, [pc |-> pc, p |-> job[w].p])
  /\ UNCHANGED <<dbVars, outsideVars>>

initiateFailed(w) ==
  /\ job[w].pc = "failInit"
  /\ payStatus' = [payStatus EXCEPT ![job[w].p] = "FAILED"]
  /\ Return(w)
  /\ UNCHANGED <<srStatus, events, refund, audits, outsideVars>>

\* The PAYMENT_INITIATED audit row, then the page URL goes to the citizen.
initiateAudit(w) ==
  /\ job[w].pc = "auditInit"
  /\ gateway' = [gateway EXCEPT ![job[w].p] = "open"]
  /\ Return(w)
  /\ UNCHANGED <<dbVars, receipts, paidBack>>

-----------------------------------------------------------------------------
(* The gateway's page (external): the citizen pays, or never does.         *)

Capture(p) ==
  /\ gateway[p] = "open"
  /\ \E g \in {"exact", "other"} : gateway' = [gateway EXCEPT ![p] = g]
  /\ UNCHANGED <<dbVars, receipts, paidBack, job>>

\* Mutant: the transaction id of the answer is not compared.
validates_AnyTran(p, v) == gateway[v] = "exact"

\* validate({val_id}) for the val_id of transaction v, asked about transaction p.
validates(p, v) == v = p /\ gateway[v] = "exact"

-----------------------------------------------------------------------------
(* The callbacks: public posts, so any of them comes at any time, any      *)
(* number of times and in any order, and val_id need not belong to tran_id.*)

recordEvent(p) ==
  /\ payStatus[p] # "NONE"
  /\ events' = [events EXCEPT ![p] = @ \cup {"raw"}]
  /\ UNCHANGED <<srStatus, payStatus, refund, audits, outsideVars>>

success(w, p, v) == recordEvent(p) /\ Begin(w, [pc |-> "confirm", p |-> p, v |-> v])

fail(w, p) == recordEvent(p) /\ Begin(w, [pc |-> "terminal", p |-> p, to |-> "FAILED"])

cancel(w, p) == recordEvent(p) /\ Begin(w, [pc |-> "terminal", p |-> p, to |-> "CANCELLED"])

\* Mutant: the update is not filtered on PENDING.
markTerminal_AnyStatus(w) ==
  /\ job[w].pc = "terminal"
  /\ payStatus' = [payStatus EXCEPT ![job[w].p] = job[w].to]
  /\ Return(w)
  /\ UNCHANGED <<srStatus, events, refund, audits, outsideVars>>

markTerminal(w) ==
  /\ job[w].pc = "terminal"
  /\ payStatus' =
       [payStatus EXCEPT ![job[w].p] = IF @ = "PENDING" THEN job[w].to ELSE @]
  /\ Return(w)
  /\ UNCHANGED <<srStatus, events, refund, audits, outsideVars>>

\* The early return of a payment that is SUCCESS already.
confirmAlready(w) ==
  /\ job[w].pc = "confirm"
  /\ payStatus[job[w].p] = "SUCCESS"
  /\ Return(w)
  /\ UNCHANGED <<dbVars, outsideVars>>

confirmRead(w) ==
  /\ job[w].pc = "confirm"
  /\ payStatus[job[w].p] # "SUCCESS"
  /\ Await(w, [pc |-> "validate", p |-> job[w].p, v |-> job[w].v])
  /\ UNCHANGED <<dbVars, outsideVars>>

confirmValid(w) ==
  /\ job[w].pc = "validate"
  /\ validates(job[w].p, job[w].v)
  /\ Await(w, [pc |-> "commit", p |-> job[w].p])
  /\ UNCHANGED <<dbVars, outsideVars>>

\* The answer is an error or does not match: 400.
confirmInvalid(w) ==
  /\ job[w].pc = "validate"
  /\ Return(w)
  /\ UNCHANGED <<dbVars, outsideVars>>

\* Mutant: the index was never created.
oneSuccessTaken_NoIndex(p) == FALSE

\* payment_one_success_uq: another payment of the request is already SUCCESS.
oneSuccessTaken(p) ==
  \E q \in Payments \ {p} : RequestOf[q] = RequestOf[p] /\ payStatus[q] = "SUCCESS"

\* Mutant: the update is not filtered on PENDING, so a second confirmation wins too.
confirmWon_NoFilter(w) ==
  LET p == job[w].p IN
  /\ job[w].pc = "commit"
  /\ payStatus[p] \in {"PENDING", "SUCCESS"}
  /\ ~oneSuccessTaken(p)
  /\ payStatus' = [payStatus EXCEPT ![p] = "SUCCESS"]
  /\ srStatus' = [srStatus EXCEPT ![RequestOf[p]] = "PAID"]
  /\ audits' = [audits EXCEPT ![p] = @ + 1]
  /\ events' = [events EXCEPT ![p] = {"processed"}]
  /\ Await(w, [pc |-> "mail", p |-> p])
  /\ UNCHANGED <<refund, outsideVars>>

\* Mutant: the service request is left for somebody else to update.
confirmWon_RequestLeft(w) ==
  LET p == job[w].p IN
  /\ job[w].pc = "commit"
  /\ payStatus[p] = "PENDING"
  /\ ~oneSuccessTaken(p)
  /\ payStatus' = [payStatus EXCEPT ![p] = "SUCCESS"]
  /\ audits' = [audits EXCEPT ![p] = @ + 1]
  /\ events' = [events EXCEPT ![p] = {"processed"}]
  /\ Await(w, [pc |-> "mail", p |-> p])
  /\ UNCHANGED <<srStatus, refund, outsideVars>>

\* The transaction: updateMany WHERE status = PENDING changed the row.
confirmWon(w) ==
  LET p == job[w].p IN
  /\ job[w].pc = "commit"
  /\ payStatus[p] = "PENDING"
  /\ ~oneSuccessTaken(p)
  /\ payStatus' = [payStatus EXCEPT ![p] = "SUCCESS"]
  /\ srStatus' = [srStatus EXCEPT ![RequestOf[p]] = "PAID"]
  /\ audits' = [audits EXCEPT ![p] = @ + 1]
  /\ events' = [events EXCEPT ![p] = {"processed"}]
  /\ Await(w, [pc |-> "mail", p |-> p])
  /\ UNCHANGED <<refund, outsideVars>>

\* The row is PENDING but the unique index refuses it: the transaction throws.
confirmRefused(w) ==
  /\ job[w].pc = "commit"
  /\ payStatus[job[w].p] = "PENDING"
  /\ oneSuccessTaken(job[w].p)
  /\ Return(w)
  /\ UNCHANGED <<dbVars, outsideVars>>

\* count === 0: the handler takes it that another request confirmed the payment.
confirmLost(w) ==
  /\ job[w].pc = "commit"
  /\ payStatus[job[w].p] # "PENDING"
  /\ Return(w)
  /\ UNCHANGED <<dbVars, outsideVars>>

\* dispatchEmail after the commit, then the redirect or the JSON answer.
confirmMail(w) ==
  /\ job[w].pc = "mail"
  /\ receipts' = [receipts EXCEPT ![job[w].p] = @ + 1]
  /\ Return(w)
  /\ UNCHANGED <<dbVars, gateway, paidBack>>

-----------------------------------------------------------------------------
(* payment.service.ts: refunds                                             *)

requestRefundRead(w, p, a) ==
  /\ payStatus[p] = "SUCCESS"
  /\ refund[p].status = "NONE"
  /\ Begin(w, [pc |-> "refundRow", p |-> p, by |-> a])
  /\ UNCHANGED <<dbVars, outsideVars>>

\* Refund.paymentId is unique: a second row is refused.
requestRefundCreate(w) ==
  LET p == job[w].p IN
  /\ job[w].pc = "refundRow"
  /\ refund' =
       [refund EXCEPT ![p] =
          IF @.status = "NONE"
          THEN [status |-> "REQUESTED", requestedById |-> job[w].by, approvedById |-> Nobody]
          ELSE @]
  /\ Return(w)
  /\ UNCHANGED <<srStatus, payStatus, events, audits, outsideVars>>

\* The stored gateway response is taken to hold a bank_tran_id; without one the
\* handler refuses with 409 and changes nothing.
approveRefundRead(w, p, a) ==
  /\ a \in SuperAdmins
  /\ refund[p].status = "REQUESTED"
  /\ Begin(w, [pc |-> "payBack", p |-> p, by |-> a])
  /\ UNCHANGED <<dbVars, outsideVars>>

\* initiateRefund: the gateway pays back and says DONE.
approveRefundDone(w) ==
  LET p == job[w].p IN
  /\ job[w].pc = "payBack"
  /\ paidBack[p] < MaxPaybacks
  /\ paidBack' = [paidBack EXCEPT ![p] = @ + 1]
  /\ Await(w, [pc |-> "refunded", p |-> p, by |-> job[w].by])
  /\ UNCHANGED <<dbVars, receipts, gateway>>

\* It pays back and the answer is lost: 502.
approveRefundUnheard(w) ==
  LET p == job[w].p IN
  /\ job[w].pc = "payBack"
  /\ paidBack[p] < MaxPaybacks
  /\ paidBack' = [paidBack EXCEPT ![p] = @ + 1]
  /\ Return(w)
  /\ UNCHANGED <<dbVars, receipts, gateway>>

\* Mutant: an answer other than DONE is not looked at.
approveRefundRefused_Unchecked(w) ==
  /\ job[w].pc = "payBack"
  /\ Await(w, [pc |-> "refunded", p |-> job[w].p, by |-> job[w].by])
  /\ UNCHANGED <<dbVars, outsideVars>>

\* It does not pay back: 502.
approveRefundRefused(w) ==
  /\ job[w].pc = "payBack"
  /\ Return(w)
  /\ UNCHANGED <<dbVars, outsideVars>>

approveRefundCommit(w) ==
  LET p == job[w].p IN
  /\ job[w].pc = "refunded"
  /\ refund' = [refund EXCEPT ![p] = [status |-> "PROCESSED",
                                      requestedById |-> @.requestedById,
                                      approvedById |-> job[w].by]]
  /\ payStatus' = [payStatus EXCEPT ![p] = "REFUNDED"]
  /\ srStatus' = [srStatus EXCEPT ![RequestOf[p]] = "CANCELLED"]
  /\ Return(w)
  /\ UNCHANGED <<events, audits, outsideVars>>

-----------------------------------------------------------------------------
ServiceRequestNext ==
  \/ \E s \in Requests : create(s)
  \/ \E w \in Workers, s \in Requests, to \in ServiceRequestStatus : updateStatusRead(w, s, to)
  \/ \E w \in Workers : updateStatusWrite(w)

InitiateNext ==
  \/ \E w \in Workers, s \in Requests : initiateRead(w, s)
  \/ \E w \in Workers, p \in Payments : initiateCreate(w, p)
  \/ \E w \in Workers : initiateGateway(w) \/ initiateFailed(w) \/ initiateAudit(w)

CallbackNext ==
  \/ \E p \in Payments : Capture(p)
  \/ \E w \in Workers, p \in Payments, v \in Payments : success(w, p, v)
  \/ \E w \in Workers, p \in Payments : fail(w, p) \/ cancel(w, p)
  \/ \E w \in Workers : \/ markTerminal(w)
                        \/ confirmAlready(w) \/ confirmRead(w)
                        \/ confirmValid(w) \/ confirmInvalid(w)
                        \/ confirmWon(w) \/ confirmRefused(w) \/ confirmLost(w)
                        \/ confirmMail(w)

RefundNext ==
  \/ \E w \in Workers, p \in Payments, a \in Admins :
       requestRefundRead(w, p, a) \/ approveRefundRead(w, p, a)
  \/ \E w \in Workers : \/ requestRefundCreate(w)
                        \/ approveRefundDone(w) \/ approveRefundUnheard(w)
                        \/ approveRefundRefused(w) \/ approveRefundCommit(w)

Next ==
  \/ ServiceRequestNext
  \/ InitiateNext
  \/ CallbackNext
  \/ RefundNext
  \/ \E w \in Workers : Crash(w)

Spec == Init /\ [][Next]_vars

-----------------------------------------------------------------------------
(* What must hold.                                                         *)

\* However many attempts, callbacks and handlers there are, a service request
\* never has two SUCCESS payments (confirm and payment_one_success_uq).
OneSuccessPerRequest ==
  \A p, q \in Payments :
    payStatus[p] = "SUCCESS" /\ payStatus[q] = "SUCCESS" /\ RequestOf[p] = RequestOf[q]
      => p = q

\* The redirect and the IPN race, repeat and crash, and still a payment that was
\* confirmed has exactly one PAYMENT_SUCCESS audit row and at most one receipt
\* mail, and any other payment has neither.
ConfirmedOnce ==
  \A p \in Payments :
    /\ audits[p] = IF payStatus[p] \in Confirmed THEN 1 ELSE 0
    /\ receipts[p] <= audits[p]

\* A payment is believed only when the gateway captured that very transaction for
\* the stored amount, and its raw callback was recorded before (confirm trusts
\* nothing in the callback body).
SuccessIsFunded ==
  \A p \in Payments :
    payStatus[p] \in Confirmed => gateway[p] = "exact" /\ events[p] # {}

\* A service request leaves PENDING_PAYMENT only for money: one of its payments
\* was confirmed, whatever updateStatus and the refunds did to it afterwards.
ServiceNeedsPayment ==
  \A s \in Requests :
    srStatus[s] \notin {"NONE", "PENDING_PAYMENT"} =>
      \E p \in Payments : RequestOf[p] = s /\ payStatus[p] \in Confirmed

\* Money goes back only for a confirmed payment with a refund somebody asked for;
\* the payment is REFUNDED exactly when the refund is PROCESSED, which takes a
\* gateway that really paid back and a super admin.
RefundFollowsRequest ==
  \A p \in Payments :
    /\ paidBack[p] > 0 => payStatus[p] \in Confirmed /\ refund[p].requestedById \in Admins
    /\ payStatus[p] = "REFUNDED" <=> refund[p].status = "PROCESSED"
    /\ refund[p].status = "PROCESSED" => paidBack[p] > 0 /\ refund[p].approvedById \in SuperAdmins

\* What a late callback, a stale handler or a retry may do to a payment row: a
\* confirmed payment is never demoted, a dead one never revived, a refunded one
\* never collected again (markTerminal, confirm, approveRefund, initiate).
NeverUndone ==
  [][\A p \in Payments :
       /\ payStatus[p] = "SUCCESS" => payStatus'[p] \in Confirmed
       /\ payStatus[p] = "REFUNDED" => payStatus'[p] = "REFUNDED"
       /\ payStatus[p] \in {"FAILED", "CANCELLED"} => payStatus'[p] \in {"FAILED", "CANCELLED"}]_vars

AttemptOf(status) ==
  CASE status = "SUCCESS" -> "held"
    [] status = "REFUNDED" -> "returned"
    [] status \in {"FAILED", "CANCELLED"} -> "dropped"
    [] OTHER -> "open"

Promise == INSTANCE Settlement WITH
  attempt <- [p \in Payments |-> AttemptOf(payStatus[p])],
  due <- {s \in Requests : srStatus[s] \in {"NONE", "PENDING_PAYMENT"}}

\* The handlers, interleaved and interrupted in any way, implement the abstract
\* settlement of attempts.
ImplementsSettlement == Promise!Spec
=============================================================================

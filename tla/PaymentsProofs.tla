--------------------------- MODULE PaymentsProofs ---------------------------
(***************************************************************************)
(* Proofs about Payments, for any number of requests, attempts, admins and *)
(* handlers in flight.                                                     *)
(***************************************************************************)
EXTENDS Payments, TLAPS

Initiating == {"init", "auditInit", "failInit"}

\* A payment whose page URL the citizen has not got yet cannot be captured, and
\* the handler that is initiating it is the only one that does.
InitiatingJobs ==
  \A w \in Workers : job[w].pc \in Initiating =>
    /\ payStatus[job[w].p] \in {"PENDING", "FAILED", "CANCELLED"}
    /\ gateway[job[w].p] = "none"
    /\ \A x \in Workers : job[x].pc \in Initiating /\ job[x].p = job[w].p => x = w

\* What a callback handler knows, from what it has already done.
CallbackJobs ==
  \A w \in Workers :
    /\ job[w].pc \in {"confirm", "validate", "commit"} => events[job[w].p] # {}
    /\ job[w].pc \in {"confirm", "validate", "commit",
                            "terminal"} => payStatus[job[w].p] # "NONE"
    /\ job[w].pc = "commit" => gateway[job[w].p] = "exact"

\* The winner of confirm's transaction is the only handler that sends the receipt.
MailJobs ==
  \A w \in Workers : job[w].pc = "mail" =>
    /\ payStatus[job[w].p] \in Confirmed
    /\ receipts[job[w].p] = 0
    /\ \A x \in Workers : job[x].pc = "mail" /\ job[x].p = job[w].p => x = w

\* What a handler of a refund, or of a status update, knows although it is stale.
RefundJobs ==
  \A w \in Workers :
    /\ job[w].pc = "refundRow" => payStatus[job[w].p] \in Confirmed
    /\ job[w].pc \in {"payBack", "refunded"} =>
         refund[job[w].p].status # "NONE" /\ job[w].by \in SuperAdmins
    /\ job[w].pc = "refunded" => paidBack[job[w].p] > 0

PaidFor(s) == \E p \in Payments : RequestOf[p] = s /\ payStatus[p] \in Confirmed

StatusJobs ==
  \A w \in Workers : job[w].pc = "write" =>
    job[w].to \notin {"NONE", "PENDING_PAYMENT"} /\ PaidFor(job[w].s)

UnpaidHasNoPage ==
  \A p \in Payments : payStatus[p] = "NONE" => gateway[p] = "none"

PaidIsNotDue ==
  \A p \in Payments : payStatus[p] \in Confirmed =>
    srStatus[RequestOf[p]] \notin {"NONE", "PENDING_PAYMENT"}

RefundRows ==
  \A p \in Payments :
    /\ refund[p].status # "NONE" =>
         payStatus[p] \in Confirmed /\ refund[p].requestedById \in Admins
    /\ paidBack[p] > 0 => refund[p].status # "NONE"

JobInv == InitiatingJobs /\ CallbackJobs /\ MailJobs /\ RefundJobs /\ StatusJobs

RowInv ==
  /\ UnpaidHasNoPage
  /\ PaidIsNotDue
  /\ RefundRows
  /\ OneSuccessPerRequest
  /\ ConfirmedOnce
  /\ SuccessIsFunded
  /\ ServiceNeedsPayment
  /\ RefundFollowsRequest

\* The inductive invariant.
Inv == TypeOK /\ JobInv /\ RowInv

-----------------------------------------------------------------------------
(* Types.                                                                  *)

\* The locals a handler has at each await, and that they are what they should be.
LEMMA JobTypes ==
  ASSUME NEW w \in Workers, job \in [Workers -> Job]
  PROVE  /\ job[w].pc \in {"create", "write"} => job[w].s \in Requests
         /\ job[w].pc = "write" => job[w].to \in ServiceRequestStatus
         /\ job[w].pc \in {"init", "auditInit", "failInit", "commit", "mail", "confirm",
                            "validate", "terminal", "refundRow", "payBack", "refunded"}
              => job[w].p \in Payments
         /\ job[w].pc \in {"confirm", "validate"} => job[w].v \in Payments
         /\ job[w].pc = "terminal" => job[w].to \in {"FAILED", "CANCELLED"}
         /\ job[w].pc \in {"refundRow", "payBack", "refunded"} => job[w].by \in Admins
<1>1. job[w] \in Job
  OBVIOUS
<1>2. CASE job[w] = Idle
  BY <1>2 DEF Idle
<1>3. CASE job[w] \in [pc: {"create"}, s: Requests]
  BY <1>3
<1>4. CASE job[w] \in [pc: {"write"}, s: Requests, to: ServiceRequestStatus]
  BY <1>4
<1>5. CASE job[w] \in [pc: {"init", "auditInit", "failInit", "commit", "mail"}, p: Payments]
  BY <1>5
<1>6. CASE job[w] \in [pc: {"confirm", "validate"}, p: Payments, v: Payments]
  BY <1>6
<1>7. CASE job[w] \in [pc: {"terminal"}, p: Payments, to: {"FAILED", "CANCELLED"}]
  BY <1>7
<1>8. CASE job[w] \in [pc: {"refundRow", "payBack", "refunded"}, p: Payments, by: Admins]
  BY <1>8
<1>. QED
  BY <1>1, <1>2, <1>3, <1>4, <1>5, <1>6, <1>7, <1>8 DEF Job
\* Every step of every handler keeps the rows and the locals well formed.
LEMMA TypeStep ==
  ASSUME TypeOK, [Next]_vars
  PROVE  TypeOK'
<1>. USE PaymentsAssumption DEF TypeOK, dbVars, outsideVars, Begin, Await, Return
<1>1. ASSUME NEW s \in Requests, create(s)
      PROVE  TypeOK'
  BY <1>1 DEF create, Job, Idle, ServiceRequestStatus, PaymentStatus, GatewayState
<1>2. ASSUME NEW w \in Workers, NEW s \in Requests, NEW to \in ServiceRequestStatus,
             updateStatusRead(w, s, to)
      PROVE  TypeOK'
  BY <1>2, JobTypes DEF updateStatusRead, Job, Idle, ServiceRequestStatus, PaymentStatus,
     GatewayState
<1>3. ASSUME NEW w \in Workers, updateStatusWrite(w)
      PROVE  TypeOK'
  BY <1>3, JobTypes DEF updateStatusWrite, Job, Idle, ServiceRequestStatus, PaymentStatus,
     GatewayState
<1>4. ASSUME NEW w \in Workers, NEW s \in Requests, initiateRead(w, s)
      PROVE  TypeOK'
  BY <1>4, JobTypes DEF initiateRead, Job, Idle, ServiceRequestStatus, PaymentStatus,
     GatewayState
<1>5. ASSUME NEW w \in Workers, NEW p \in Payments, initiateCreate(w, p)
      PROVE  TypeOK'
  BY <1>5, JobTypes DEF initiateCreate, Job, Idle, ServiceRequestStatus, PaymentStatus,
     GatewayState
<1>6. ASSUME NEW w \in Workers, initiateGateway(w)
      PROVE  TypeOK'
  BY <1>6, JobTypes DEF initiateGateway, Job, Idle, ServiceRequestStatus, PaymentStatus,
     GatewayState
<1>7. ASSUME NEW w \in Workers, initiateFailed(w)
      PROVE  TypeOK'
  BY <1>7, JobTypes DEF initiateFailed, Job, Idle, ServiceRequestStatus, PaymentStatus,
     GatewayState
<1>8. ASSUME NEW w \in Workers, initiateAudit(w)
      PROVE  TypeOK'
  BY <1>8, JobTypes DEF initiateAudit, Job, Idle, ServiceRequestStatus, PaymentStatus,
     GatewayState
<1>9. ASSUME NEW p \in Payments, Capture(p)
      PROVE  TypeOK'
  BY <1>9 DEF Capture, Job, Idle, ServiceRequestStatus, PaymentStatus, GatewayState
<1>10. ASSUME NEW w \in Workers, NEW p \in Payments, NEW v \in Payments, success(w, p, v)
      PROVE  TypeOK'
  BY <1>10, JobTypes DEF success, recordEvent, Job, Idle, ServiceRequestStatus, PaymentStatus,
     GatewayState
<1>11. ASSUME NEW w \in Workers, NEW p \in Payments, fail(w, p)
      PROVE  TypeOK'
  BY <1>11, JobTypes DEF fail, recordEvent, Job, Idle, ServiceRequestStatus, PaymentStatus,
     GatewayState
<1>12. ASSUME NEW w \in Workers, NEW p \in Payments, cancel(w, p)
      PROVE  TypeOK'
  BY <1>12, JobTypes DEF cancel, recordEvent, Job, Idle, ServiceRequestStatus, PaymentStatus,
     GatewayState
<1>13. ASSUME NEW w \in Workers, markTerminal(w)
      PROVE  TypeOK'
  BY <1>13, JobTypes DEF markTerminal, Job, Idle, ServiceRequestStatus, PaymentStatus,
     GatewayState
<1>14. ASSUME NEW w \in Workers, confirmAlready(w)
      PROVE  TypeOK'
  BY <1>14, JobTypes DEF confirmAlready, Job, Idle, ServiceRequestStatus,
     PaymentStatus, GatewayState
<1>15. ASSUME NEW w \in Workers, confirmRead(w)
      PROVE  TypeOK'
  BY <1>15, JobTypes DEF confirmRead, Job, Idle, ServiceRequestStatus, PaymentStatus,
     GatewayState
<1>16. ASSUME NEW w \in Workers, confirmValid(w)
      PROVE  TypeOK'
  BY <1>16, JobTypes DEF confirmValid, Job, Idle, ServiceRequestStatus, PaymentStatus,
     GatewayState
<1>17. ASSUME NEW w \in Workers, confirmInvalid(w)
      PROVE  TypeOK'
  BY <1>17, JobTypes DEF confirmInvalid, Job, Idle, ServiceRequestStatus, PaymentStatus,
     GatewayState
<1>18. ASSUME NEW w \in Workers, confirmWon(w)
      PROVE  TypeOK'
  BY <1>18, JobTypes DEF confirmWon, Job, Idle, ServiceRequestStatus, PaymentStatus,
     GatewayState
<1>19. ASSUME NEW w \in Workers, confirmRefused(w)
      PROVE  TypeOK'
  BY <1>19, JobTypes DEF confirmRefused, Job, Idle, ServiceRequestStatus, PaymentStatus,
     GatewayState
<1>20. ASSUME NEW w \in Workers, confirmLost(w)
      PROVE  TypeOK'
  BY <1>20, JobTypes DEF confirmLost, Job, Idle, ServiceRequestStatus,
     PaymentStatus, GatewayState
<1>21. ASSUME NEW w \in Workers, confirmMail(w)
      PROVE  TypeOK'
  BY <1>21, JobTypes DEF confirmMail, Job, Idle, ServiceRequestStatus, PaymentStatus,
     GatewayState
<1>22. ASSUME NEW w \in Workers, NEW p \in Payments, NEW a \in Admins, requestRefundRead(w, p,
              a)
      PROVE  TypeOK'
  BY <1>22, JobTypes DEF requestRefundRead, Job, Idle, ServiceRequestStatus, PaymentStatus,
     GatewayState
<1>23. ASSUME NEW w \in Workers, requestRefundCreate(w)
      PROVE  TypeOK'
  BY <1>23, JobTypes DEF requestRefundCreate, NoRefund, Refund, Job, Idle,
     ServiceRequestStatus, PaymentStatus, GatewayState
<1>24. ASSUME NEW w \in Workers, NEW p \in Payments, NEW a \in Admins, approveRefundRead(w, p,
              a)
      PROVE  TypeOK'
  BY <1>24, JobTypes DEF approveRefundRead, Job, Idle, ServiceRequestStatus, PaymentStatus,
     GatewayState
<1>25. ASSUME NEW w \in Workers, approveRefundDone(w)
      PROVE  TypeOK'
  BY <1>25, JobTypes DEF approveRefundDone, Job, Idle, ServiceRequestStatus, PaymentStatus,
     GatewayState
<1>26. ASSUME NEW w \in Workers, approveRefundUnheard(w)
      PROVE  TypeOK'
  BY <1>26, JobTypes DEF approveRefundUnheard, Job, Idle, ServiceRequestStatus, PaymentStatus,
     GatewayState
<1>27. ASSUME NEW w \in Workers, approveRefundRefused(w)
      PROVE  TypeOK'
  BY <1>27, JobTypes DEF approveRefundRefused, Job, Idle, ServiceRequestStatus, PaymentStatus,
     GatewayState
<1>28. ASSUME NEW w \in Workers, approveRefundCommit(w)
      PROVE  TypeOK'
  BY <1>28, JobTypes DEF approveRefundCommit, Refund, Job, Idle, ServiceRequestStatus,
     PaymentStatus, GatewayState
<1>29. ASSUME NEW w \in Workers, Crash(w)
      PROVE  TypeOK'
  BY <1>29, JobTypes DEF Crash, Job, Idle, ServiceRequestStatus, PaymentStatus, GatewayState
<1>30. CASE UNCHANGED vars
  BY <1>30 DEF vars
<1>. QED
  BY <1>1, <1>2, <1>3, <1>4, <1>5, <1>6, <1>7, <1>8, <1>9, <1>10, <1>11, <1>12, <1>13, <1>14,
     <1>15, <1>16, <1>17, <1>18, <1>19, <1>20, <1>21, <1>22, <1>23, <1>24, <1>25, <1>26,
     <1>27, <1>28, <1>29, <1>30
  DEF Next, ServiceRequestNext, InitiateNext, CallbackNext, RefundNext
-----------------------------------------------------------------------------
(* The invariant.                                                          *)

\* Every step of every handler keeps the inductive invariant.  Only two actions need
\* an argument of their own: initiateCreate, where the row is new and so no other
\* handler can be initiating it, and confirmWon, where the filter on PENDING makes
\* the winner the only one and the unique index keeps other payments out.
LEMMA InvStep ==
  ASSUME Inv, [Next]_vars
  PROVE  Inv'
<1>. USE PaymentsAssumption
     DEF Inv, JobInv, RowInv, TypeOK, dbVars, outsideVars, Begin, Await, Return, Idle,
         Initiating, Confirmed, PaidFor, InitiatingJobs, CallbackJobs, MailJobs, RefundJobs,
         StatusJobs, UnpaidHasNoPage, PaidIsNotDue, RefundRows, OneSuccessPerRequest,
         ConfirmedOnce,
         SuccessIsFunded, ServiceNeedsPayment, RefundFollowsRequest
<1>0. TypeOK'
  BY TypeStep
<1>1. ASSUME NEW s \in Requests, create(s)
      PROVE  Inv'
  <2>1. JobInv'
    BY <1>0, <1>1 DEF create
  <2>2. RowInv'
    BY <1>0, <1>1 DEF create
  <2>. QED
    BY <1>0, <2>1, <2>2
<1>2. ASSUME NEW w \in Workers, NEW s \in Requests, NEW to \in ServiceRequestStatus,
             updateStatusRead(w, s, to)
      PROVE  Inv'
  <2>1. JobInv'
    BY <1>0, <1>2, JobTypes DEF updateStatusRead, allowed
  <2>2. RowInv'
    BY <1>0, <1>2, JobTypes DEF updateStatusRead, allowed
  <2>. QED
    BY <1>0, <2>1, <2>2
<1>3. ASSUME NEW w \in Workers, updateStatusWrite(w)
      PROVE  Inv'
  <2>1. JobInv'
    BY <1>0, <1>3, JobTypes DEF updateStatusWrite
  <2>2. RowInv'
    BY <1>0, <1>3, JobTypes DEF updateStatusWrite
  <2>. QED
    BY <1>0, <2>1, <2>2
<1>4. ASSUME NEW w \in Workers, NEW s \in Requests, initiateRead(w, s)
      PROVE  Inv'
  <2>1. JobInv'
    BY <1>0, <1>4, JobTypes DEF initiateRead
  <2>2. RowInv'
    BY <1>0, <1>4, JobTypes DEF initiateRead
  <2>. QED
    BY <1>0, <2>1, <2>2
<1>5. ASSUME NEW w \in Workers, NEW p \in Payments, initiateCreate(w, p)
      PROVE  Inv'
  <2>0. \A x \in Workers : job[x].pc \in Initiating => job[x].p # p
    BY <1>5, JobTypes DEF initiateCreate
  <2>1. InitiatingJobs'
    BY <1>0, <1>5, <2>0, JobTypes DEF initiateCreate
  <2>2. CallbackJobs'
    BY <1>0, <1>5, <2>0, JobTypes DEF initiateCreate
  <2>3. MailJobs'
    BY <1>0, <1>5, <2>0, JobTypes DEF initiateCreate
  <2>4. RefundJobs'
    BY <1>0, <1>5, <2>0, JobTypes DEF initiateCreate
  <2>5. StatusJobs'
    BY <1>0, <1>5, <2>0, JobTypes DEF initiateCreate
  <2>6. RowInv'
    BY <1>0, <1>5, <2>0, JobTypes DEF initiateCreate
  <2>. QED
    BY <1>0, <2>1, <2>2, <2>3, <2>4, <2>5, <2>6
<1>6. ASSUME NEW w \in Workers, initiateGateway(w)
      PROVE  Inv'
  <2>1. JobInv'
    BY <1>0, <1>6, JobTypes DEF initiateGateway
  <2>2. RowInv'
    BY <1>0, <1>6, JobTypes DEF initiateGateway
  <2>. QED
    BY <1>0, <2>1, <2>2
<1>7. ASSUME NEW w \in Workers, initiateFailed(w)
      PROVE  Inv'
  <2>1. JobInv'
    BY <1>0, <1>7, JobTypes DEF initiateFailed
  <2>2. RowInv'
    BY <1>0, <1>7, JobTypes DEF initiateFailed
  <2>. QED
    BY <1>0, <2>1, <2>2
<1>8. ASSUME NEW w \in Workers, initiateAudit(w)
      PROVE  Inv'
  <2>1. JobInv'
    BY <1>0, <1>8, JobTypes DEF initiateAudit
  <2>2. payStatus[job[w].p] \in {"PENDING", "FAILED", "CANCELLED"} /\ job[w].p \in Payments
    BY <1>8, JobTypes DEF initiateAudit
  <2>3. UnpaidHasNoPage' /\ SuccessIsFunded'
    BY <1>0, <1>8, <2>2 DEF initiateAudit
  <2>4. RowInv'
    BY <1>0, <1>8, <2>3 DEF initiateAudit
  <2>. QED
    BY <1>0, <2>1, <2>4
<1>9. ASSUME NEW p \in Payments, Capture(p)
      PROVE  Inv'
  <2>1. JobInv'
    BY <1>0, <1>9 DEF Capture
  <2>2. RowInv'
    BY <1>0, <1>9 DEF Capture
  <2>. QED
    BY <1>0, <2>1, <2>2
<1>10. ASSUME NEW w \in Workers, NEW p \in Payments, NEW v \in Payments, success(w, p, v)
      PROVE  Inv'
  <2>1. JobInv'
    BY <1>0, <1>10, JobTypes DEF success, recordEvent
  <2>2. RowInv'
    BY <1>0, <1>10, JobTypes DEF success, recordEvent
  <2>. QED
    BY <1>0, <2>1, <2>2
<1>11. ASSUME NEW w \in Workers, NEW p \in Payments, fail(w, p)
      PROVE  Inv'
  <2>1. JobInv'
    BY <1>0, <1>11, JobTypes DEF fail, recordEvent
  <2>2. RowInv'
    BY <1>0, <1>11, JobTypes DEF fail, recordEvent
  <2>. QED
    BY <1>0, <2>1, <2>2
<1>12. ASSUME NEW w \in Workers, NEW p \in Payments, cancel(w, p)
      PROVE  Inv'
  <2>1. JobInv'
    BY <1>0, <1>12, JobTypes DEF cancel, recordEvent
  <2>2. RowInv'
    BY <1>0, <1>12, JobTypes DEF cancel, recordEvent
  <2>. QED
    BY <1>0, <2>1, <2>2
<1>13. ASSUME NEW w \in Workers, markTerminal(w)
      PROVE  Inv'
  <2>1. JobInv'
    BY <1>0, <1>13, JobTypes DEF markTerminal
  <2>2. RowInv'
    BY <1>0, <1>13, JobTypes DEF markTerminal
  <2>. QED
    BY <1>0, <2>1, <2>2
<1>14. ASSUME NEW w \in Workers, confirmAlready(w)
      PROVE  Inv'
  <2>1. JobInv'
    BY <1>0, <1>14, JobTypes DEF confirmAlready
  <2>2. RowInv'
    BY <1>0, <1>14, JobTypes DEF confirmAlready
  <2>. QED
    BY <1>0, <2>1, <2>2
<1>15. ASSUME NEW w \in Workers, confirmRead(w)
      PROVE  Inv'
  <2>1. JobInv'
    BY <1>0, <1>15, JobTypes DEF confirmRead
  <2>2. RowInv'
    BY <1>0, <1>15, JobTypes DEF confirmRead
  <2>. QED
    BY <1>0, <2>1, <2>2
<1>16. ASSUME NEW w \in Workers, confirmValid(w)
      PROVE  Inv'
  <2>1. JobInv'
    BY <1>0, <1>16, JobTypes DEF confirmValid, validates
  <2>2. RowInv'
    BY <1>0, <1>16, JobTypes DEF confirmValid, validates
  <2>. QED
    BY <1>0, <2>1, <2>2
<1>17. ASSUME NEW w \in Workers, confirmInvalid(w)
      PROVE  Inv'
  <2>1. JobInv'
    BY <1>0, <1>17, JobTypes DEF confirmInvalid
  <2>2. RowInv'
    BY <1>0, <1>17, JobTypes DEF confirmInvalid
  <2>. QED
    BY <1>0, <2>1, <2>2
<1>18. ASSUME NEW w \in Workers, confirmWon(w)
      PROVE  Inv'
  <2>0. /\ job[w].pc = "commit" /\ job[w].p \in Payments
        /\ payStatus[job[w].p] = "PENDING"
        /\ gateway[job[w].p] = "exact"
        /\ receipts[job[w].p] = 0
        /\ refund[job[w].p].status = "NONE" /\ paidBack[job[w].p] = 0
    BY <1>18, JobTypes DEF confirmWon
  <2>a. \A q \in Payments : q = job[w].p \/ events[q] # {} => events'[q] # {}
    <3>1. events' = [events EXCEPT ![job[w].p] = {"processed"}]
      BY <1>18 DEF confirmWon
    <3>2. {"processed"} # {}
      OBVIOUS
    <3>3. events \in [Payments -> SUBSET {"raw", "processed"}]
      OBVIOUS
    <3>. HIDE DEF Inv
    <3>. QED
      BY <3>1, <3>2, <3>3, Zenon
  <2>1. InitiatingJobs'
    BY <1>0, <1>18, <2>0, JobTypes DEF confirmWon, oneSuccessTaken
  <2>2. CallbackJobs'
    <3>1. \A x \in Workers : job'[x].pc \in {"confirm", "validate",
                "commit"} => events'[job'[x].p] # {}
      <4>1. SUFFICES ASSUME NEW x \in Workers, job'[x].pc \in {"confirm", "validate", "commit"}
                     PROVE  events'[job'[x].p] # {}
        OBVIOUS
      <4>2. x # w /\ job'[x] = job[x]
        BY <1>18, <4>1 DEF confirmWon
      <4>3. job[x].p \in Payments /\ events[job[x].p] # {}
        BY <4>1, <4>2, JobTypes
      <4>. HIDE DEF Inv
      <4>. QED
        BY <2>a, <4>2, <4>3, Zenon
    <3>2. \A x \in Workers :
            /\ job'[x].pc \in {"confirm", "validate", "commit",
                                "terminal"} => payStatus'[job'[x].p] # "NONE"
            /\ job'[x].pc = "commit" => gateway'[job'[x].p] = "exact"
      BY <1>18, <2>0, JobTypes DEF confirmWon
    <3>. QED
      BY <3>1, <3>2
  <2>3. MailJobs'
    BY <1>0, <1>18, <2>0, JobTypes DEF confirmWon, oneSuccessTaken
  <2>4. RefundJobs'
    BY <1>0, <1>18, <2>0, JobTypes DEF confirmWon, oneSuccessTaken
  <2>5. StatusJobs'
    BY <1>0, <1>18, <2>0, JobTypes DEF confirmWon, oneSuccessTaken
  <2>6. UnpaidHasNoPage' /\ PaidIsNotDue'
    BY <1>0, <1>18, <2>0, JobTypes DEF confirmWon, oneSuccessTaken
  <2>7. RefundRows'
    BY <1>0, <1>18, <2>0, JobTypes DEF confirmWon, oneSuccessTaken
  <2>8. OneSuccessPerRequest'
    BY <1>0, <1>18, <2>0, JobTypes DEF confirmWon, oneSuccessTaken
  <2>9. ConfirmedOnce'
    BY <1>0, <1>18, <2>0, JobTypes DEF confirmWon, oneSuccessTaken
  <2>10. SuccessIsFunded'
    <3>1. gateway' = gateway /\ \A q \in Payments \ {job[w].p} : payStatus'[q] = payStatus[q]
      BY <1>18, <2>0 DEF confirmWon
    <3>. QED
      BY <2>0, <2>a, <3>1
  <2>11. ServiceNeedsPayment'
    BY <1>0, <1>18, <2>0, JobTypes DEF confirmWon, oneSuccessTaken
  <2>12. RefundFollowsRequest'
    BY <1>0, <1>18, <2>0, JobTypes DEF confirmWon, oneSuccessTaken
  <2>. QED
    BY <1>0, <2>1, <2>2, <2>3, <2>4, <2>5, <2>6, <2>7, <2>8, <2>9, <2>10, <2>11, <2>12
<1>19. ASSUME NEW w \in Workers, confirmRefused(w)
      PROVE  Inv'
  <2>1. JobInv'
    BY <1>0, <1>19, JobTypes DEF confirmRefused, oneSuccessTaken
  <2>2. RowInv'
    BY <1>0, <1>19, JobTypes DEF confirmRefused, oneSuccessTaken
  <2>. QED
    BY <1>0, <2>1, <2>2
<1>20. ASSUME NEW w \in Workers, confirmLost(w)
      PROVE  Inv'
  <2>1. JobInv'
    BY <1>0, <1>20, JobTypes DEF confirmLost
  <2>2. RowInv'
    BY <1>0, <1>20, JobTypes DEF confirmLost
  <2>. QED
    BY <1>0, <2>1, <2>2
<1>21. ASSUME NEW w \in Workers, confirmMail(w)
      PROVE  Inv'
  <2>1. JobInv'
    BY <1>0, <1>21, JobTypes DEF confirmMail
  <2>2. RowInv'
    BY <1>0, <1>21, JobTypes DEF confirmMail
  <2>. QED
    BY <1>0, <2>1, <2>2
<1>22. ASSUME NEW w \in Workers, NEW p \in Payments, NEW a \in Admins, requestRefundRead(w, p,
              a)
      PROVE  Inv'
  <2>1. JobInv'
    BY <1>0, <1>22, JobTypes DEF requestRefundRead, Refund
  <2>2. RowInv'
    BY <1>0, <1>22, JobTypes DEF requestRefundRead, Refund
  <2>. QED
    BY <1>0, <2>1, <2>2
<1>23. ASSUME NEW w \in Workers, requestRefundCreate(w)
      PROVE  Inv'
  <2>1. JobInv'
    BY <1>0, <1>23, JobTypes DEF requestRefundCreate, Refund
  <2>2. RowInv'
    BY <1>0, <1>23, JobTypes DEF requestRefundCreate, Refund
  <2>. QED
    BY <1>0, <2>1, <2>2
<1>24. ASSUME NEW w \in Workers, NEW p \in Payments, NEW a \in Admins, approveRefundRead(w, p,
              a)
      PROVE  Inv'
  <2>1. JobInv'
    BY <1>0, <1>24, JobTypes DEF approveRefundRead, Refund
  <2>2. RowInv'
    BY <1>0, <1>24, JobTypes DEF approveRefundRead, Refund
  <2>. QED
    BY <1>0, <2>1, <2>2
<1>25. ASSUME NEW w \in Workers, approveRefundDone(w)
      PROVE  Inv'
  <2>1. JobInv'
    BY <1>0, <1>25, JobTypes DEF approveRefundDone
  <2>2. RowInv'
    BY <1>0, <1>25, JobTypes DEF approveRefundDone
  <2>. QED
    BY <1>0, <2>1, <2>2
<1>26. ASSUME NEW w \in Workers, approveRefundUnheard(w)
      PROVE  Inv'
  <2>1. JobInv'
    BY <1>0, <1>26, JobTypes DEF approveRefundUnheard
  <2>2. RowInv'
    BY <1>0, <1>26, JobTypes DEF approveRefundUnheard
  <2>. QED
    BY <1>0, <2>1, <2>2
<1>27. ASSUME NEW w \in Workers, approveRefundRefused(w)
      PROVE  Inv'
  <2>1. JobInv'
    BY <1>0, <1>27, JobTypes DEF approveRefundRefused
  <2>2. RowInv'
    BY <1>0, <1>27, JobTypes DEF approveRefundRefused
  <2>. QED
    BY <1>0, <2>1, <2>2
<1>28. ASSUME NEW w \in Workers, approveRefundCommit(w)
      PROVE  Inv'
  <2>1. JobInv'
    BY <1>0, <1>28, JobTypes DEF approveRefundCommit, Refund
  <2>2. RowInv'
    BY <1>0, <1>28, JobTypes DEF approveRefundCommit, Refund
  <2>. QED
    BY <1>0, <2>1, <2>2
<1>29. ASSUME NEW w \in Workers, Crash(w)
      PROVE  Inv'
  <2>1. JobInv'
    BY <1>0, <1>29, JobTypes DEF Crash
  <2>2. RowInv'
    BY <1>0, <1>29, JobTypes DEF Crash
  <2>. QED
    BY <1>0, <2>1, <2>2
<1>30. CASE UNCHANGED vars
  BY <1>30 DEF vars
<1>. QED
  BY <1>1, <1>2, <1>3, <1>4, <1>5, <1>6, <1>7, <1>8, <1>9, <1>10, <1>11, <1>12, <1>13, <1>14,
     <1>15, <1>16, <1>17, <1>18, <1>19, <1>20, <1>21, <1>22, <1>23, <1>24, <1>25, <1>26,
     <1>27, <1>28, <1>29, <1>30
  DEF Next, ServiceRequestNext, InitiateNext, CallbackNext, RefundNext
-----------------------------------------------------------------------------
(* Theorems.                                                               *)

\* No row exists and no handler runs at first.
LEMMA InvInit == Init => Inv
BY PaymentsAssumption
   DEF Init, Inv, JobInv, RowInv, TypeOK, Job, Idle, Refund, NoRefund, Initiating, Confirmed,
       PaidFor, InitiatingJobs, CallbackJobs, MailJobs, RefundJobs, StatusJobs, UnpaidHasNoPage,
       PaidIsNotDue, RefundRows, OneSuccessPerRequest, ConfirmedOnce, SuccessIsFunded,
       ServiceNeedsPayment,
       RefundFollowsRequest, ServiceRequestStatus, PaymentStatus, GatewayState

\* The inductive invariant holds in every reachable state, for any constants.
THEOREM Invariance == Spec => []Inv
<1>1. Inv /\ [Next]_vars => Inv'
  BY InvStep
<1>. QED
  BY <1>1, InvInit, PTL DEF Spec

\* Every row and every handler's locals stay well formed.
THEOREM TypeCorrect == Spec => []TypeOK
<1>1. Inv => TypeOK
  BY DEF Inv
<1>. QED
  BY <1>1, Invariance, PTL

\* A service request never has two SUCCESS payments.
THEOREM OneSuccess == Spec => []OneSuccessPerRequest
<1>1. Inv => OneSuccessPerRequest
  BY DEF Inv, RowInv
<1>. QED
  BY <1>1, Invariance, PTL

\* A payment is confirmed once: one audit row, at most one receipt mail.
THEOREM ConfirmOnce == Spec => []ConfirmedOnce
<1>1. Inv => ConfirmedOnce
  BY DEF Inv, RowInv
<1>. QED
  BY <1>1, Invariance, PTL

\* A SUCCESS payment is one the gateway captured for the stored amount.
THEOREM Funded == Spec => []SuccessIsFunded
<1>1. Inv => SuccessIsFunded
  BY DEF Inv, RowInv
<1>. QED
  BY <1>1, Invariance, PTL

\* A service request leaves PENDING_PAYMENT only when one of its payments was confirmed.
THEOREM PaidService == Spec => []ServiceNeedsPayment
<1>1. Inv => ServiceNeedsPayment
  BY DEF Inv, RowInv
<1>. QED
  BY <1>1, Invariance, PTL

\* Money goes back, and a payment becomes REFUNDED, only along an approved request.
THEOREM RefundsFollow == Spec => []RefundFollowsRequest
<1>1. Inv => RefundFollowsRequest
  BY DEF Inv, RowInv
<1>. QED
  BY <1>1, Invariance, PTL

KeepsOutcome(p) ==
  /\ payStatus[p] = "SUCCESS" => payStatus'[p] \in Confirmed
  /\ payStatus[p] = "REFUNDED" => payStatus'[p] = "REFUNDED"
  /\ payStatus[p] \in {"FAILED", "CANCELLED"} => payStatus'[p] \in {"FAILED", "CANCELLED"}

\* No step demotes a confirmed payment, revives a dead one or collects a refunded one
\* again.  initiate's unfiltered write is harmless because the page of the payment was
\* never handed out, approveRefund's because a refund row needs a confirmed payment.
LEMMA OutcomeStep ==
  ASSUME Inv, [Next]_vars
  PROVE  \A q \in Payments : KeepsOutcome(q)
<1>. USE PaymentsAssumption
     DEF KeepsOutcome, Inv, JobInv, RowInv, TypeOK, dbVars, outsideVars, Confirmed, Initiating,
         InitiatingJobs, RefundJobs, RefundRows
<1>1. ASSUME NEW s \in Requests, create(s)
      PROVE  \A q \in Payments : KeepsOutcome(q)
  BY <1>1 DEF create
<1>2. ASSUME NEW w \in Workers, NEW s \in Requests, NEW to \in ServiceRequestStatus,
             updateStatusRead(w, s, to)
      PROVE  \A q \in Payments : KeepsOutcome(q)
  BY <1>2, JobTypes DEF updateStatusRead
<1>3. ASSUME NEW w \in Workers, updateStatusWrite(w)
      PROVE  \A q \in Payments : KeepsOutcome(q)
  BY <1>3, JobTypes DEF updateStatusWrite
<1>4. ASSUME NEW w \in Workers, NEW s \in Requests, initiateRead(w, s)
      PROVE  \A q \in Payments : KeepsOutcome(q)
  BY <1>4, JobTypes DEF initiateRead
<1>5. ASSUME NEW w \in Workers, NEW p \in Payments, initiateCreate(w, p)
      PROVE  \A q \in Payments : KeepsOutcome(q)
  BY <1>5, JobTypes DEF initiateCreate
<1>6. ASSUME NEW w \in Workers, initiateGateway(w)
      PROVE  \A q \in Payments : KeepsOutcome(q)
  BY <1>6, JobTypes DEF initiateGateway
<1>7. ASSUME NEW w \in Workers, initiateFailed(w)
      PROVE  \A q \in Payments : KeepsOutcome(q)
  BY <1>7, JobTypes DEF initiateFailed
<1>8. ASSUME NEW w \in Workers, initiateAudit(w)
      PROVE  \A q \in Payments : KeepsOutcome(q)
  BY <1>8, JobTypes DEF initiateAudit
<1>9. ASSUME NEW p \in Payments, Capture(p)
      PROVE  \A q \in Payments : KeepsOutcome(q)
  BY <1>9 DEF Capture
<1>10. ASSUME NEW w \in Workers, NEW p \in Payments, NEW v \in Payments, success(w, p, v)
      PROVE  \A q \in Payments : KeepsOutcome(q)
  BY <1>10, JobTypes DEF success, recordEvent
<1>11. ASSUME NEW w \in Workers, NEW p \in Payments, fail(w, p)
      PROVE  \A q \in Payments : KeepsOutcome(q)
  BY <1>11, JobTypes DEF fail, recordEvent
<1>12. ASSUME NEW w \in Workers, NEW p \in Payments, cancel(w, p)
      PROVE  \A q \in Payments : KeepsOutcome(q)
  BY <1>12, JobTypes DEF cancel, recordEvent
<1>13. ASSUME NEW w \in Workers, markTerminal(w)
      PROVE  \A q \in Payments : KeepsOutcome(q)
  BY <1>13, JobTypes DEF markTerminal
<1>14. ASSUME NEW w \in Workers, confirmAlready(w)
      PROVE  \A q \in Payments : KeepsOutcome(q)
  BY <1>14, JobTypes DEF confirmAlready
<1>15. ASSUME NEW w \in Workers, confirmRead(w)
      PROVE  \A q \in Payments : KeepsOutcome(q)
  BY <1>15, JobTypes DEF confirmRead
<1>16. ASSUME NEW w \in Workers, confirmValid(w)
      PROVE  \A q \in Payments : KeepsOutcome(q)
  BY <1>16, JobTypes DEF confirmValid
<1>17. ASSUME NEW w \in Workers, confirmInvalid(w)
      PROVE  \A q \in Payments : KeepsOutcome(q)
  BY <1>17, JobTypes DEF confirmInvalid
<1>18. ASSUME NEW w \in Workers, confirmWon(w)
      PROVE  \A q \in Payments : KeepsOutcome(q)
  BY <1>18, JobTypes DEF confirmWon
<1>19. ASSUME NEW w \in Workers, confirmRefused(w)
      PROVE  \A q \in Payments : KeepsOutcome(q)
  BY <1>19, JobTypes DEF confirmRefused
<1>20. ASSUME NEW w \in Workers, confirmLost(w)
      PROVE  \A q \in Payments : KeepsOutcome(q)
  BY <1>20, JobTypes DEF confirmLost
<1>21. ASSUME NEW w \in Workers, confirmMail(w)
      PROVE  \A q \in Payments : KeepsOutcome(q)
  BY <1>21, JobTypes DEF confirmMail
<1>22. ASSUME NEW w \in Workers, NEW p \in Payments, NEW a \in Admins, requestRefundRead(w, p,
              a)
      PROVE  \A q \in Payments : KeepsOutcome(q)
  BY <1>22, JobTypes DEF requestRefundRead
<1>23. ASSUME NEW w \in Workers, requestRefundCreate(w)
      PROVE  \A q \in Payments : KeepsOutcome(q)
  BY <1>23, JobTypes DEF requestRefundCreate
<1>24. ASSUME NEW w \in Workers, NEW p \in Payments, NEW a \in Admins, approveRefundRead(w, p,
              a)
      PROVE  \A q \in Payments : KeepsOutcome(q)
  BY <1>24, JobTypes DEF approveRefundRead
<1>25. ASSUME NEW w \in Workers, approveRefundDone(w)
      PROVE  \A q \in Payments : KeepsOutcome(q)
  BY <1>25, JobTypes DEF approveRefundDone
<1>26. ASSUME NEW w \in Workers, approveRefundUnheard(w)
      PROVE  \A q \in Payments : KeepsOutcome(q)
  BY <1>26, JobTypes DEF approveRefundUnheard
<1>27. ASSUME NEW w \in Workers, approveRefundRefused(w)
      PROVE  \A q \in Payments : KeepsOutcome(q)
  BY <1>27, JobTypes DEF approveRefundRefused
<1>28. ASSUME NEW w \in Workers, approveRefundCommit(w)
      PROVE  \A q \in Payments : KeepsOutcome(q)
  BY <1>28, JobTypes DEF approveRefundCommit
<1>29. ASSUME NEW w \in Workers, Crash(w)
      PROVE  \A q \in Payments : KeepsOutcome(q)
  BY <1>29, JobTypes DEF Crash
<1>30. CASE UNCHANGED vars
  BY <1>30 DEF vars
<1>. QED
  BY <1>1, <1>2, <1>3, <1>4, <1>5, <1>6, <1>7, <1>8, <1>9, <1>10, <1>11, <1>12, <1>13, <1>14,
     <1>15, <1>16, <1>17, <1>18, <1>19, <1>20, <1>21, <1>22, <1>23, <1>24, <1>25, <1>26,
     <1>27, <1>28, <1>29, <1>30
  DEF Next, ServiceRequestNext, InitiateNext, CallbackNext, RefundNext

\* A payment's outcome is never undone.
THEOREM OutcomesLast == Spec => NeverUndone
<1>1. Inv /\ [Next]_vars => [\A p \in Payments : KeepsOutcome(p)]_vars
  BY OutcomeStep
<1>. QED
  BY <1>1, Invariance, PTL DEF Spec, NeverUndone, KeepsOutcome
-----------------------------------------------------------------------------
(* Refinement.                                                             *)

attempt == [p \in Payments |-> AttemptOf(payStatus[p])]
due == {s \in Requests : srStatus[s] \in {"NONE", "PENDING_PAYMENT"}}

\* A step that changes neither the outcome of a payment nor whether a request is due.
Stutters == attempt' = attempt /\ due' = due

\* What each step of a handler is in the abstract settlement.
LEMMA SettlementStep ==
  ASSUME Inv, [Next]_vars
  PROVE  [Promise!Next]_(Promise!vars)
<1>. USE PaymentsAssumption
     DEF Inv, JobInv, RowInv, TypeOK, dbVars, outsideVars, Confirmed, Initiating
<1>0. Stutters => [Promise!Next]_(Promise!vars)
  BY DEF Stutters, attempt, due, Promise!vars
<1>00. UNCHANGED <<srStatus, payStatus>> => Stutters
  BY DEF Stutters, attempt, due
<1>1. ASSUME NEW s \in Requests, create(s)
      PROVE  [Promise!Next]_(Promise!vars)
  <2>1. due' = due
    BY <1>1 DEF create, due
  <2>. QED
    BY <1>1, <1>0, <2>1 DEF create, Stutters, attempt
<1>2. ASSUME NEW w \in Workers, NEW s \in Requests, NEW to \in ServiceRequestStatus,
             updateStatusRead(w, s, to)
      PROVE  [Promise!Next]_(Promise!vars)
  BY <1>2, <1>0, <1>00 DEF updateStatusRead
<1>3. ASSUME NEW w \in Workers, updateStatusWrite(w)
      PROVE  [Promise!Next]_(Promise!vars)
  <2>1. due' = due
    BY <1>3, JobTypes DEF updateStatusWrite, due, StatusJobs, PaidIsNotDue, PaidFor
  <2>. QED
    BY <1>3, <1>0, <2>1 DEF updateStatusWrite, Stutters, attempt
<1>4. ASSUME NEW w \in Workers, NEW s \in Requests, initiateRead(w, s)
      PROVE  [Promise!Next]_(Promise!vars)
  BY <1>4, <1>0, <1>00 DEF initiateRead
<1>5. ASSUME NEW w \in Workers, NEW p \in Payments, initiateCreate(w, p)
      PROVE  [Promise!Next]_(Promise!vars)
  <2>1. attempt' = attempt
    BY <1>5 DEF initiateCreate, attempt, AttemptOf
  <2>. QED
    BY <1>5, <1>0, <2>1 DEF initiateCreate, Stutters, due
<1>6. ASSUME NEW w \in Workers, initiateGateway(w)
      PROVE  [Promise!Next]_(Promise!vars)
  BY <1>6, <1>0, <1>00 DEF initiateGateway
<1>7. ASSUME NEW w \in Workers, initiateFailed(w)
      PROVE  [Promise!Next]_(Promise!vars)
  <2>1. job[w].p \in Payments /\ payStatus[job[w].p] \in {"PENDING", "FAILED", "CANCELLED"}
    BY <1>7, JobTypes DEF initiateFailed, InitiatingJobs
  <2>2. due' = due
    BY <1>7 DEF initiateFailed, due
  <2>3. CASE payStatus[job[w].p] = "PENDING"
    <3>1. Promise!Drop(job[w].p)
      BY <1>7, <2>1, <2>2, <2>3 DEF initiateFailed, Promise!Drop, AttemptOf, due
    <3>. QED
      BY <2>1, <3>1 DEF Promise!Next
  <2>4. CASE payStatus[job[w].p] # "PENDING"
    <3>1. attempt' = attempt
      BY <1>7, <2>1, <2>4 DEF initiateFailed, attempt, AttemptOf
    <3>. QED
      BY <1>0, <2>2, <3>1 DEF Stutters
  <2>. QED
    BY <2>3, <2>4
<1>8. ASSUME NEW w \in Workers, initiateAudit(w)
      PROVE  [Promise!Next]_(Promise!vars)
  BY <1>8, <1>0, <1>00 DEF initiateAudit
<1>9. ASSUME NEW p \in Payments, Capture(p)
      PROVE  [Promise!Next]_(Promise!vars)
  BY <1>9, <1>0, <1>00 DEF Capture
<1>10. ASSUME NEW w \in Workers, NEW p \in Payments, NEW v \in Payments, success(w, p, v)
      PROVE  [Promise!Next]_(Promise!vars)
  BY <1>10, <1>0, <1>00 DEF success, recordEvent
<1>11. ASSUME NEW w \in Workers, NEW p \in Payments, fail(w, p)
      PROVE  [Promise!Next]_(Promise!vars)
  BY <1>11, <1>0, <1>00 DEF fail, recordEvent
<1>12. ASSUME NEW w \in Workers, NEW p \in Payments, cancel(w, p)
      PROVE  [Promise!Next]_(Promise!vars)
  BY <1>12, <1>0, <1>00 DEF cancel, recordEvent
<1>13. ASSUME NEW w \in Workers, markTerminal(w)
      PROVE  [Promise!Next]_(Promise!vars)
  <2>1. job[w].p \in Payments /\ job[w].to \in {"FAILED", "CANCELLED"}
    BY <1>13, JobTypes DEF markTerminal
  <2>2. due' = due
    BY <1>13 DEF markTerminal, due
  <2>3. CASE payStatus[job[w].p] = "PENDING"
    <3>1. Promise!Drop(job[w].p)
      BY <1>13, <2>1, <2>2, <2>3 DEF markTerminal, Promise!Drop, AttemptOf, due
    <3>. QED
      BY <2>1, <3>1 DEF Promise!Next
  <2>4. CASE payStatus[job[w].p] # "PENDING"
    <3>1. attempt' = attempt
      BY <1>13, <2>1, <2>4 DEF markTerminal, attempt, AttemptOf
    <3>. QED
      BY <1>0, <2>2, <3>1 DEF Stutters
  <2>. QED
    BY <2>3, <2>4
<1>14. ASSUME NEW w \in Workers, confirmAlready(w)
      PROVE  [Promise!Next]_(Promise!vars)
  BY <1>14, <1>0, <1>00 DEF confirmAlready
<1>15. ASSUME NEW w \in Workers, confirmRead(w)
      PROVE  [Promise!Next]_(Promise!vars)
  BY <1>15, <1>0, <1>00 DEF confirmRead
<1>16. ASSUME NEW w \in Workers, confirmValid(w)
      PROVE  [Promise!Next]_(Promise!vars)
  BY <1>16, <1>0, <1>00 DEF confirmValid
<1>17. ASSUME NEW w \in Workers, confirmInvalid(w)
      PROVE  [Promise!Next]_(Promise!vars)
  BY <1>17, <1>0, <1>00 DEF confirmInvalid
<1>18. ASSUME NEW w \in Workers, confirmWon(w)
      PROVE  [Promise!Next]_(Promise!vars)
  <2>1. PICK p \in Payments : p = job[w].p
    BY <1>18, JobTypes DEF confirmWon
  <2>2. attempt[p] = "open" /\ attempt' = [attempt EXCEPT ![p] = "held"]
    BY <1>18, <2>1 DEF confirmWon, attempt, AttemptOf
  <2>3. due' = due \ {RequestOf[p]}
    BY <1>18, <2>1 DEF confirmWon, due
  <2>4. \A q \in Payments \ {p} : RequestOf[q] = RequestOf[p] => attempt[q] # "held"
    BY <1>18, <2>1 DEF confirmWon, oneSuccessTaken, attempt, AttemptOf
  <2>5. Promise!Settle(p)
    BY <2>2, <2>3, <2>4, Zenon DEF Promise!Settle, attempt, due
  <2>. QED
    BY <2>5, Zenon DEF Promise!Next
<1>19. ASSUME NEW w \in Workers, confirmRefused(w)
      PROVE  [Promise!Next]_(Promise!vars)
  BY <1>19, <1>0, <1>00 DEF confirmRefused
<1>20. ASSUME NEW w \in Workers, confirmLost(w)
      PROVE  [Promise!Next]_(Promise!vars)
  BY <1>20, <1>0, <1>00 DEF confirmLost
<1>21. ASSUME NEW w \in Workers, confirmMail(w)
      PROVE  [Promise!Next]_(Promise!vars)
  BY <1>21, <1>0, <1>00 DEF confirmMail
<1>22. ASSUME NEW w \in Workers, NEW p \in Payments, NEW a \in Admins, requestRefundRead(w, p,
              a)
      PROVE  [Promise!Next]_(Promise!vars)
  BY <1>22, <1>0, <1>00 DEF requestRefundRead
<1>23. ASSUME NEW w \in Workers, requestRefundCreate(w)
      PROVE  [Promise!Next]_(Promise!vars)
  BY <1>23, <1>0, <1>00 DEF requestRefundCreate
<1>24. ASSUME NEW w \in Workers, NEW p \in Payments, NEW a \in Admins, approveRefundRead(w, p,
              a)
      PROVE  [Promise!Next]_(Promise!vars)
  BY <1>24, <1>0, <1>00 DEF approveRefundRead
<1>25. ASSUME NEW w \in Workers, approveRefundDone(w)
      PROVE  [Promise!Next]_(Promise!vars)
  BY <1>25, <1>0, <1>00 DEF approveRefundDone
<1>26. ASSUME NEW w \in Workers, approveRefundUnheard(w)
      PROVE  [Promise!Next]_(Promise!vars)
  BY <1>26, <1>0, <1>00 DEF approveRefundUnheard
<1>27. ASSUME NEW w \in Workers, approveRefundRefused(w)
      PROVE  [Promise!Next]_(Promise!vars)
  BY <1>27, <1>0, <1>00 DEF approveRefundRefused
<1>28. ASSUME NEW w \in Workers, approveRefundCommit(w)
      PROVE  [Promise!Next]_(Promise!vars)
  <2>1. job[w].p \in Payments /\ payStatus[job[w].p] \in Confirmed
    BY <1>28, JobTypes DEF approveRefundCommit, RefundJobs, RefundRows
  <2>2. due' = due
    BY <1>28, <2>1 DEF approveRefundCommit, due, PaidIsNotDue
  <2>3. CASE payStatus[job[w].p] = "SUCCESS"
    <3>1. Promise!GiveBack(job[w].p)
      BY <1>28, <2>1, <2>2, <2>3 DEF approveRefundCommit, Promise!GiveBack, AttemptOf, due
    <3>. QED
      BY <2>1, <3>1 DEF Promise!Next
  <2>4. CASE payStatus[job[w].p] = "REFUNDED"
    <3>1. attempt' = attempt
      BY <1>28, <2>1, <2>4 DEF approveRefundCommit, attempt, AttemptOf
    <3>. QED
      BY <1>0, <2>2, <3>1 DEF Stutters
  <2>. QED
    BY <2>1, <2>3, <2>4
<1>29. ASSUME NEW w \in Workers, Crash(w)
      PROVE  [Promise!Next]_(Promise!vars)
  BY <1>29, <1>0, <1>00 DEF Crash
<1>30. CASE UNCHANGED vars
  BY <1>30, <1>0, <1>00 DEF vars
<1>. QED
  BY <1>1, <1>2, <1>3, <1>4, <1>5, <1>6, <1>7, <1>8, <1>9, <1>10, <1>11, <1>12, <1>13, <1>14,
     <1>15, <1>16, <1>17, <1>18, <1>19, <1>20, <1>21, <1>22, <1>23, <1>24, <1>25, <1>26,
     <1>27, <1>28, <1>29, <1>30
  DEF Next, ServiceRequestNext, InitiateNext, CallbackNext, RefundNext

\* The handlers implement the abstract settlement of attempts.
THEOREM Refinement == Spec => ImplementsSettlement
<1>1. Init => Promise!Init
  BY DEF Init, Promise!Init, AttemptOf
<1>2. Inv /\ [Next]_vars => [Promise!Next]_(Promise!vars)
  BY SettlementStep
<1>. QED
  BY <1>1, <1>2, Invariance, PTL DEF Spec, ImplementsSettlement, Promise!Spec
=============================================================================

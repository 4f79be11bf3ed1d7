---------------------------- MODULE PaymentLedger ----------------------------
(***************************************************************************)
(* The staff ledger's totals (payment.service.ts, totalFor and summary)    *)
(* over the rows that Payments keeps.  The filter is the whole table.      *)
(***************************************************************************)
EXTENDS Payments, FiniteSetsExt

CONSTANT Amount   \* Payment.amount: serviceType.fee, copied into the row by initiate

ASSUME AmountAssumption == Amount \in [Payments -> Nat \ {0}]

totalFor(status) ==
  MapThenSumSet(LAMBDA p : Amount[p], {p \in Payments : payStatus[p] = status})

net == totalFor("SUCCESS") - totalFor("REFUNDED")

\* What came in and did not go out again, summed from the payments that were
\* confirmed and from the refunds that were executed for them.
Holding ==
  MapThenSumSet(LAMBDA p : Amount[p], {p \in Payments : payStatus[p] \in Confirmed})
    - MapThenSumSet(LAMBDA p : Amount[p], {p \in Payments : refund[p].status = "PROCESSED"})

\* "net: collected minus refunded, the only figure that answers what the city is
\* actually holding" (payment.service.ts).
NetIsWhatTheCityHolds == net = Holding
=============================================================================

----------------------------- MODULE MCPayments -----------------------------
(* One request with two attempts to pay it, so that a payment races another. *)
EXTENDS PaymentLedger, TLC

CONSTANT s1

MCRequestOf == [p \in Payments |-> s1]

\* Two attempts at the same request carry the same fee.
MCAmount == [p \in Payments |-> 5]

\* Payments of one request, and workers, are interchangeable.
Sym == Permutations(Workers) \cup Permutations(Payments)
=============================================================================

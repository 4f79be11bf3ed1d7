----------------------------- MODULE Settlement -----------------------------
(***************************************************************************)
(* What the payment subsystem promises, without handlers, callbacks or a   *)
(* gateway: an attempt to pay is settled, dropped or, once settled, given  *)
(* back; one attempt per request is held at a time; and a request stops    *)
(* being due in the very step that settles an attempt for it, for good.    *)
(***************************************************************************)
CONSTANTS Requests, Payments, RequestOf

VARIABLES
  attempt,   \* "open", "held", "dropped" or "returned", per payment
  due        \* the requests that still wait for money

vars == <<attempt, due>>

Init ==
  /\ attempt = [p \in Payments |-> "open"]
  /\ due = Requests

Settle(p) ==
  /\ attempt[p] = "open"
  /\ \A q \in Payments \ {p} : RequestOf[q] = RequestOf[p] => attempt[q] # "held"
  /\ attempt' = [attempt EXCEPT ![p] = "held"]
  /\ due' = due \ {RequestOf[p]}

Drop(p) ==
  /\ attempt[p] = "open"
  /\ attempt' = [attempt EXCEPT ![p] = "dropped"]
  /\ UNCHANGED due

GiveBack(p) ==
  /\ attempt[p] = "held"
  /\ attempt' = [attempt EXCEPT ![p] = "returned"]
  /\ UNCHANGED due

Next == \E p \in Payments : Settle(p) \/ Drop(p) \/ GiveBack(p)

Spec == Init /\ [][Next]_vars
=============================================================================

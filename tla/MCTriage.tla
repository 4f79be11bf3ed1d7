------------------------------ MODULE MCTriage ------------------------------
(* One complaint, two voters who may cross, and a threshold that the second vote passes; the *)
(* cron and the HTTP trigger run side by side.  Complaints meet only in a batch, which the   *)
(* proofs treat for any number of them.                                                      *)
EXTENDS Triage
=============================================================================

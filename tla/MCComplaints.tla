---------------------------- MODULE MCComplaints ----------------------------
(* One complaint, two officers it can be handed between, and two handlers or job runs. *)
EXTENDS Complaints
=============================================================================

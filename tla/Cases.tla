------------------------------- MODULE Cases -------------------------------
(* What the modules about complaints (Complaints, Triage) share. *)
EXTENDS Naturals, FiniteSets

CONSTANTS
  Complaints,  \* complaint ids
  Workers      \* requests and job runs that may be in flight together
=============================================================================

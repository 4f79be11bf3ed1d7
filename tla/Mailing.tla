------------------------------ MODULE Mailing ------------------------------
(***************************************************************************)
(* What the flows with an emailed code share (Challenges, Signup): the     *)
(* mails, each of which stands for the code drawn for it, the handlers in  *)
(* flight, and a Redis whose commands may fail.                            *)
(***************************************************************************)
EXTENDS Naturals, FiniteSets

CONSTANTS
  Mails, NoMail,  \* emails, and no email
  Workers,        \* handlers and job runs in flight
  RedisMayFail    \* whether a Redis command whose error is caught may fail

ASSUME MailingAssumption ==
  /\ NoMail \notin Mails
  /\ IsFiniteSet(Workers)
  /\ RedisMayFail \in BOOLEAN
=============================================================================

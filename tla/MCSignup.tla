------------------------------ MODULE MCSignup ------------------------------
(* One address and two rows, so that an account is deleted and the address is taken again. *)
EXTENDS Signup, TLC

Sym == Permutations(Workers) \cup Permutations(Mails) \cup Permutations(Users)

\* Bound: wrong codes and second mails are followed up to a restoration under the purge job.
Apart == revived = {} \/ (codes # Mails /\ \A m \in Mails : guesses[m] = 0)
=============================================================================

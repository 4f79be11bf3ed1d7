---------------------------- MODULE MCChallenges ----------------------------
(* One challenge and two mails, so that a resend supersedes the first; small limits, so that *)
(* a challenge, an address and a network reach theirs.                                       *)
EXTENDS Challenges, TLC

MCMaxFails == [k \in Counters |-> 1]

\* Bound: a challenge comes back once at most.
FewLate == \A c \in Challenges : late[c] <= 1

Sym == Permutations(Workers) \cup Permutations(Mails)
=============================================================================

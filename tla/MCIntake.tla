------------------------------ MODULE MCIntake ------------------------------
(* Two bodies about two places: the same one twice is about the same problem. *)
EXTENDS Intake, TLC

CONSTANTS b1, s1, s2

MCSpot == [b \in Bodies |-> IF b = b1 THEN s1 ELSE s2]

Sym == Permutations(Workers)
=============================================================================

----------------------------- MODULE MCSessions -----------------------------
(* One session, whose pairs are interchangeable, and so are the workers. *)
EXTENDS Sessions, TLC

CONSTANT s1

MCSessionOf == [t \in Tokens |-> s1]

Sym == Permutations(Workers) \cup Permutations(Tokens)
=============================================================================

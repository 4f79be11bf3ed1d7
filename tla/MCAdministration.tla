-------------------------- MODULE MCAdministration --------------------------
(* Two super admins, who can remove each other, and two accounts of the API's, so that a plain *)
(* admin can act on somebody who becomes one.                                                  *)
EXTENDS Administration, TLC

CONSTANTS a1, a2

MCSuperAdmins == {a1, a2}

MCSeedRole == [u \in MCSuperAdmins |-> "ADMIN"]

Sym == Permutations(Workers) \cup Permutations(MCSuperAdmins)
       \cup Permutations(Users \ MCSuperAdmins)
=============================================================================

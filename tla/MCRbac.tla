------------------------------- MODULE MCRbac -------------------------------
(* Two account types with their system roles and one role of the console's; one permission *)
(* of the catalogue, which ADMIN has by default, and one of the console's.                 *)
EXTENDS Rbac

CONSTANTS rAdmin, rOfficer, p1

MCMirrors == [t \in {"OFFICER", "ADMIN"} |-> IF t = "ADMIN" THEN rAdmin ELSE rOfficer]

MCDefaults == {<<rAdmin, p1>>}
=============================================================================

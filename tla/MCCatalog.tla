------------------------------ MODULE MCCatalog -----------------------------
(* Two departments, between which one category can be moved, two processes and two cached  *)
(* answers at a time.                                                                     *)
EXTENDS Catalog, TLC

Sym == Permutations(Workers) \cup Permutations(Departments) \cup Permutations(Processes)
=============================================================================

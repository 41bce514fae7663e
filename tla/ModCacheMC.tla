------------------------------ MODULE ModCacheMC ------------------------------
(* ModCache for TLC: projects and versions are interchangeable. *)
EXTENDS ModCache, TLC

Symmetry == Permutations(Projects) \cup Permutations(Versions)
===============================================================================

---------------------------- MODULE MC_BuildSystem ----------------------------
(* Packages are built, copied and installed in any order. *)
EXTENDS BuildSystem, TLC

Symmetry == Permutations(Packages)
=============================================================================

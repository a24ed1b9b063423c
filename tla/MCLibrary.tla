----------------------------- MODULE MCLibrary -----------------------------
(* Library for TLC: the profiles are interchangeable. *)
EXTENDS Library, TLC

Symmetry == Permutations(Profiles)
=============================================================================

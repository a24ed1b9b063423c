------------------------------ MODULE MCMemory ------------------------------
(* Memory for TLC *)
EXTENDS Memory, TLC

MemorySymmetry == Permutations(Namespaces) \cup Permutations(Keys) \cup Permutations(Values)
=============================================================================

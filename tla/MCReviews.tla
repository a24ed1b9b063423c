----------------------------- MODULE MCReviews ------------------------------
(* Reviews for TLC *)
EXTENDS Reviews, TLC

Symmetry == Permutations(Previews) \cup Permutations(Attempts) \cup Permutations(Commands)
=============================================================================

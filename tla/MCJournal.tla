----------------------------- MODULE MCJournal ------------------------------
(* Journal for TLC *)
EXTENDS Journal, TLC

AttemptSymmetry == Permutations(Attempts)
=============================================================================

----------------------------- MODULE MCRuntime -----------------------------
(* Runtime for TLC: the cfg files name the callers and the queue's places. *)
EXTENDS Runtime
=============================================================================

----------------------------- MODULE MCModelWorker -----------------------------
(* Small instances of ModelWorker for TLC. *)
EXTENDS ModelWorker, TLC

Symmetric == Permutations(Requests)
================================================================================

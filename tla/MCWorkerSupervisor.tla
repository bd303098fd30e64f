-------------------------- MODULE MCWorkerSupervisor --------------------------
(* Small instances of WorkerSupervisor for TLC. *)
EXTENDS WorkerSupervisor, TLC

Symmetric == Permutations(Callers) \cup Permutations(Calls)
                \cup Permutations(Handles) \cup Permutations(Processes)
===============================================================================

----------------------------- MODULE MCResidency -----------------------------
(* Small instances of Residency for TLC. *)
EXTENDS Residency, TLC

Forever == {-1}       \* a negative number has no literal in a .cfg
EveryKeep == {-1, 0, 1}

Symmetric == Permutations(Requests) \cup Permutations(Engines)
                \cup Permutations(Variants) \cup Permutations(Calls)
==============================================================================

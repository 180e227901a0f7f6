---------------------------- MODULE MCCompaction ----------------------------
(* Processes, scopes and the free names are interchangeable. *)
EXTENDS Compaction, TLC

Symmetry == Permutations(Process) \cup Permutations(Scope) \cup Permutations(Name \ {Journal})
==============================================================================

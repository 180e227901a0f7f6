---------------------------- MODULE MCGeneration ----------------------------
EXTENDS Generation, TLC

(* Requests and routes are interchangeable. *)
Symmetry == Permutations(Request) \cup Permutations(Route)
=============================================================================

------------------------------ MODULE MCGateway ------------------------------
(* Three requests, two of them at a time, compete for two attempts per     *)
(* endpoint and two storage workers; the process dies once.                *)
EXTENDS Gateway, TLC

Symmetry == Permutations(Request) \cup Permutations(Handler)
=============================================================================

-------------------------- MODULE MCDurableRequests --------------------------
(* Two callers, two endpoints, three identities, and a file that has room   *)
(* for three attempts only if the first ones were completed.               *)
EXTENDS DurableRequests, TLC

Symmetry == Permutations(Caller) \cup Permutations(Endpoint)
=============================================================================

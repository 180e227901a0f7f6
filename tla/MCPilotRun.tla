------------------------------ MODULE MCPilotRun ------------------------------
(* Two invocations, for one plan or for two plans with the same ports. *)
EXTENDS PilotRun, TLC

MCPlans == Permutations(Plan)
==============================================================================

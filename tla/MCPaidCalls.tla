----------------------------- MODULE MCPaidCalls -----------------------------
(* What limits the paid calls of a router, over its life and over time: a  *)
(* behaviour is about one of them.  Two processes that take turns owning a *)
(* budget of three calls, with two workers each; two dispatches per window *)
(* of two ticks, three callers, and time for several windows and restarts. *)
EXTENDS DurableBudget, RateLimiter, TLC

VARIABLE subject

MCInit == subject \in {"budget", "rate"} /\ Init /\ RateInit

MCNext ==
  \/ subject = "budget" /\ Next /\ UNCHANGED <<subject, rateVars>>
  \/ subject = "rate" /\ RateNext /\ UNCHANGED <<subject, vars>>

MCSpec == MCInit /\ [][MCNext]_<<subject, vars, rateVars>>

Symmetry == Permutations(Process) \cup Permutations(Worker) \cup Permutations(Caller)
==============================================================================

---------------------------- MODULE MCReviewFleet ----------------------------
(* Two tasks, two workers, one attempt of another run, and limits that a   *)
(* run can meet: the ledger can be exhausted or frozen, and the event log  *)
(* can be too small for the last responses.                                *)
EXTENDS ReviewFleet

MCTask == 1..2
MCOther == {11}
MCAttempt == MCTask \cup MCOther
MCAmount == {1, 2}
==============================================================================

--------------------------- MODULE MCRequestLedger ---------------------------
(* The ledger with two charges, three records and a TTL of one tick: small *)
(* enough to exhaust, large enough for expired uncertainty to fill the     *)
(* tracking limit while charges are free.  The mutants are the ledger with *)
(* a bug a change could plausibly bring in.                                *)
EXTENDS RequestLedger
=============================================================================

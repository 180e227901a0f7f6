-------------------------------- MODULE Places --------------------------------
(***************************************************************************)
(* What a sequence or function holds at some of its places, in order: the  *)
(* result of a list comprehension with a condition, as probe_images.py     *)
(* picks images and review.py copies what no approved span covers.         *)
(***************************************************************************)
EXTENDS Naturals, FiniteSets

Nth(places, n) == CHOOSE p \in places : Cardinality({q \in places : q <= p}) = n
Picked(s, places) == [n \in 1..Cardinality(places) |-> s[Nth(places, n)]]
==============================================================================

---------------------------- MODULE MCDelivery ----------------------------
(* Small instances of Delivery for TLC.  The instances and the request      *)
(* slots are interchangeable; so are the jobs.                              *)
EXTENDS Delivery, TLC
Symmetry == Permutations(Nodes) \cup Permutations(Calls) \cup Permutations(Jobs)
===========================================================================

---------------------------- MODULE MCAggregate ----------------------------
(* Instances of Aggregate for TLC: requests and payloads differ in nothing   *)
(* but their name.                                                           *)
EXTENDS Aggregate, TLC

Symmetry == Permutations(Requests) \cup Permutations(Payloads)
=============================================================================

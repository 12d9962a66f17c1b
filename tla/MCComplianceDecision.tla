------------------------ MODULE MCComplianceDecision ------------------------
(* Instances of ComplianceDecision for TLC. Users are named by their roles;  *)
(* requests differ in nothing but their name, nor do payloads.               *)
EXTENDS ComplianceDecision, TLC

MCUsers == {"viewer", "operator", "reviewer", "admin"}
MCAdmin == {"admin"}
MCRole == [u \in Users |-> u]
Symmetry == Permutations(Requests) \cup Permutations(Payloads)
RequestSymmetry == Permutations(Requests)
=============================================================================

---------------------------- MODULE MCWorkbench ----------------------------
(* An instance of Workbench for TLC; no symmetry, for liveness.              *)
EXTENDS Workbench

MCStarts ==
  {[kind |-> "ComplianceDecision", role |-> "operator", status |-> "review"],
   [kind |-> "ComplianceDecision", role |-> "reviewer", status |-> "review"],
   [kind |-> "CaptureUnit", role |-> "viewer", status |-> "standby"]}
=============================================================================

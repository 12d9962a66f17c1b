---------------------------- MODULE MCReadModels ---------------------------
(* An instance of ReadModels for TLC.                                        *)
EXTENDS ReadModels
MCIds == 1 .. 3
MCEvents ==
  {[actor |-> "ann", action |-> "update", entity |-> "unit"],
   [actor |-> "ann", action |-> "transition", entity |-> "unit"],
   [actor |-> "bob", action |-> "transition", entity |-> "decision"]}
=============================================================================

------------------------------- MODULE Policy -------------------------------
(* The fixed tables every backend component consults: the role ladder of the *)
(* access middleware and the status graphs of the four aggregates. The       *)
(* tables are data of the program, so they are definitions, not CONSTANTS.   *)
EXTENDS Naturals

\* Ranks of the four roles; a minimum-role check compares ranks.
roleRank == [viewer |-> 1, operator |-> 2, reviewer |-> 3, admin |-> 4]

Roles == DOMAIN roleRank

HasMinimumRole(role, minimum) == roleRank[role] >= roleRank[minimum]

-----------------------------------------------------------------------------
(* Status graphs: the successors of every status, per aggregate.             *)

CaptureUnitTransitions ==
  [standby |-> {"running", "limited"},
   running |-> {"limited", "stopped", "standby"},
   limited |-> {"stopped", "running"},
   stopped |-> {"limited"}]

PermitRuleTransitions ==
  [draft      |-> {"active", "superseded"},
   active     |-> {"superseded", "retired", "draft"},
   superseded |-> {"retired", "active"},
   retired    |-> {"superseded"}]

EmissionSampleTransitions ==
  [collected |-> {"testing", "verified"},
   testing   |-> {"verified", "invalid", "collected"},
   verified  |-> {"invalid", "testing"},
   invalid   |-> {"verified"}]

ComplianceDecisionTransitions ==
  [draft     |-> {"review"},
   review    |-> {"accepted", "escalated", "draft"},
   accepted  |-> {"escalated", "review"},
   escalated |-> {"accepted"}]

CanTransition(graph, from, to) == from \in DOMAIN graph /\ to \in graph[from]

=============================================================================

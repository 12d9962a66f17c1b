--------------------------- MODULE DecisionLedger ---------------------------
(* What the decision service promises its clients, with no requests,         *)
(* versions or tables in sight: every decision is a log of entries that only *)
(* grows, one entry per change, each made by a user whose role allows it and *)
(* each a legal continuation of the entry before it.                         *)
EXTENDS Policy, Sequences

CONSTANTS Codes, Users, Role, Payloads, Seeder

VARIABLES
  log,      \* the entries of every decision, oldest first
  removed   \* the decisions taken out of sight

vars == <<log, removed>>

Entry(s, p, by) == [state |-> s, payload |-> p, actor |-> by]
Last(c) == log[c][Len(log[c])]
Open(c) == log[c] # <<>> /\ c \notin removed
MayWrite(u) == HasMinimumRole(Role[u], "operator")
MayDecide(u) == HasMinimumRole(Role[u], "reviewer")

Init ==
  /\ log \in [Codes -> {<<>>} \cup
       {<<Entry(s, p, Seeder)>> : s \in {"draft", "review", "accepted"}, p \in Payloads}]
  /\ removed = {}

Add(c, entry) ==
  log' = [log EXCEPT ![c] = Append(@, entry)] /\ UNCHANGED removed

\* A code is opened once, ever: a removed decision keeps its code.
Start(c, u, p) == log[c] = <<>> /\ MayWrite(u) /\ Add(c, Entry("draft", p, u))

Edit(c, u, p) ==
  Open(c) /\ Last(c).state = "draft" /\ MayWrite(u) /\ Add(c, Entry("draft", p, u))

\* A move keeps the payload: what was reviewed is what is accepted.
Move(c, u, s) ==
  /\ Open(c)
  /\ CanTransition(ComplianceDecisionTransitions, Last(c).state, s)
  /\ IF s \in {"accepted", "escalated"} THEN MayDecide(u) ELSE MayWrite(u)
  /\ Add(c, Entry(s, Last(c).payload, u))

\* The code lets an administrator's delete through whatever the status has
\* become by then, so the promise about removal is no stronger.
Remove(c) ==
  /\ Open(c)
  /\ \E u \in Users : Role[u] = "admin"
  /\ removed' = removed \cup {c}
  /\ UNCHANGED log

Next == \E c \in Codes :
  \/ \E u \in Users, p \in Payloads : Start(c, u, p) \/ Edit(c, u, p)
  \/ \E u \in Users, s \in DOMAIN ComplianceDecisionTransitions : Move(c, u, s)
  \/ Remove(c)

Spec == Init /\ [][Next]_vars
=============================================================================

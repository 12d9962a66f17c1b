----------------------------- MODULE Aggregate -----------------------------
(* Capture units, permit rules and emission samples: three aggregates with   *)
(* one service each, alike but for their status graph, over the same generic *)
(* Store. Nothing but the version comparison in the UPDATE protects a row:   *)
(* there is no revision table behind it and no transaction around it.        *)
(*                                                                           *)
(* As in ComplianceDecision a row is identified by its code, a request is    *)
(* used once and each database statement is one atomic step.                 *)
EXTENDS Policy, FiniteSets

CONSTANTS
  Codes,      \* codes of the rows
  Requests,   \* HTTP calls, at most one handler run each
  Payloads,   \* valid business fields
  Blank,      \* business fields the service refuses
  Lookahead   \* how far past the stored version a client's expectedVersion may be

ASSUME PayloadAssumption == Blank \notin Payloads
ASSUME AheadAssumption == Lookahead \in Nat

VARIABLES
  kind,       \* which of the three aggregates this is; it never changes
  rows,       \* its table
  audits,     \* audit_logs: the requests that have an entry, with its content
  pc, input, snapshot,
  reply,
  writes      \* history, for the properties only: who stored which version

table == <<kind, rows, audits, writes>>
vars == <<kind, rows, audits, pc, input, snapshot, reply, writes>>

-----------------------------------------------------------------------------
Graph == [CaptureUnit    |-> CaptureUnitTransitions,
          PermitRule     |-> PermitRuleTransitions,
          EmissionSample |-> EmissionSampleTransitions]

Kinds == DOMAIN Graph
Statuses == DOMAIN Graph[kind]

InitialStatus ==
  [CaptureUnit |-> "standby", PermitRule |-> "draft", EmissionSample |-> "collected"][kind]

SeedStatuses ==
  [CaptureUnit    |-> {"standby", "running", "limited"},
   PermitRule     |-> {"draft", "active", "superseded"},
   EmissionSample |-> {"collected", "testing", "verified"}]

Row(v, s, p) == [version |-> v, status |-> s, payload |-> p, deleted |-> FALSE]
NoRow == Row(0, "none", Blank)

\* Slip: a query that is not scoped to rows whose deleted_at is null.
LiveUnscoped(c) == rows[c].version > 0

\* What a query by id finds.
Live(c) == rows[c].version > 0 /\ ~rows[c].deleted

\* The calls that pass the role middleware; roles play no further part here.
CallsTo(op, c) ==
  [op : {op}, code : {c},
   expected : IF op \in {"update", "transition"} THEN 1 .. (rows[c].version + Lookahead) ELSE {0},
   target : IF op = "transition" THEN Statuses ELSE {"none"},
   payload : IF op \in {"create", "update"} THEN Payloads \cup {Blank} ELSE {Blank}]

NoInput == [op |-> "none"]
NoReply == [outcome |-> "none", op |-> "none", version |-> 0]

InFlight(r) == pc[r] \notin {"idle", "done"}
Goto(r, step) == pc' = [pc EXCEPT ![r] = step]

Answer(r, outcome, version) ==
  /\ Goto(r, "done")
  /\ input' = [input EXCEPT ![r] = NoInput]
  /\ snapshot' = [snapshot EXCEPT ![r] = NoRow]
  /\ reply' = [reply EXCEPT ![r] = [outcome |-> outcome, op |-> input[r].op, version |-> version]]

Refuse(r, outcome) == Answer(r, outcome, 0) /\ UNCHANGED table

Init ==
  /\ kind \in Kinds
  /\ rows \in [Codes -> {NoRow} \cup {Row(1, s, p) : s \in SeedStatuses[kind], p \in Payloads}]
  /\ audits = {}
  /\ pc = [r \in Requests |-> "idle"]
  /\ input = [r \in Requests |-> NoInput]
  /\ snapshot = [r \in Requests |-> NoRow]
  /\ reply = [r \in Requests |-> NoReply]
  /\ writes = {}

-----------------------------------------------------------------------------
Arrive(r, call) ==
  /\ pc[r] = "idle"
  /\ Goto(r, IF call.op = "create" THEN "write" ELSE "read")
  /\ input' = [input EXCEPT ![r] = call]
  /\ UNCHANGED <<table, snapshot, reply>>

ReadMissing(r) == pc[r] = "read" /\ ~Live(input[r].code) /\ Refuse(r, "not_found")

\* Slip: the graph consulted for its statuses only.
BreaksRuleAnyTarget(call, row) ==
  \/ call.op = "update" /\ call.payload = Blank
  \/ call.op = "transition" /\ call.target \notin Statuses

\* Slip: the fields of an edit not validated.
BreaksRuleUnvalidated(call, row) ==
  call.op = "transition" /\ ~CanTransition(Graph[kind], row.status, call.target)

\* What the service refuses on the row it has read; any status can be edited or deleted.
BreaksRule(call, row) ==
  \/ call.op = "update" /\ call.payload = Blank
  \/ call.op = "transition" /\ ~CanTransition(Graph[kind], row.status, call.target)

ReadRefused(r) ==
  /\ pc[r] = "read" /\ Live(input[r].code)
  /\ BreaksRule(input[r], rows[input[r].code])
  /\ Refuse(r, "business_rule")

Read(r) ==
  /\ pc[r] = "read" /\ Live(input[r].code)
  /\ ~BreaksRule(input[r], rows[input[r].code])
  /\ snapshot' = [snapshot EXCEPT ![r] = rows[input[r].code]]
  /\ Goto(r, "write")
  /\ UNCHANGED <<table, input, reply>>

\* A statement has changed row c; its answer may get lost.
Written(r) ==
  \/ Goto(r, "audit") /\ UNCHANGED <<input, snapshot, reply>>
  \/ Answer(r, "internal_error", 0)

Store(r, c, row) ==
  /\ rows' = [rows EXCEPT ![c] = row]
  /\ writes' = writes \cup {[request |-> r, code |-> c, version |-> row.version]}
  /\ UNCHANGED <<kind, audits>>

CreateRefused(r) ==
  /\ pc[r] = "write" /\ input[r].op = "create"
  /\ input[r].payload = Blank
  /\ Refuse(r, "business_rule")

Create(r) ==
  /\ pc[r] = "write" /\ input[r].op = "create" /\ input[r].payload # Blank
  /\ rows[input[r].code].version = 0
  /\ Store(r, input[r].code, Row(1, InitialStatus, input[r].payload))
  /\ Written(r)

\* The unique index on code covers deleted rows too.
CreateTaken(r) ==
  /\ pc[r] = "write" /\ input[r].op = "create" /\ input[r].payload # Blank
  /\ rows[input[r].code].version > 0
  /\ Refuse(r, "internal_error")

\* Slip: the version compared with the row read earlier, not by the statement.
VersionMatchesSnapshot(r) ==
  Live(input[r].code) /\ snapshot[r].version = input[r].expected

\* WHERE id = ? AND version = ?, on rows that are not deleted.
VersionMatches(r) ==
  Live(input[r].code) /\ rows[input[r].code].version = input[r].expected

\* Every column but id, code, created_at and deleted_at is written, from the old copy.
Update(r) ==
  /\ pc[r] = "write" /\ input[r].op \in {"update", "transition"}
  /\ VersionMatches(r)
  /\ Store(r, input[r].code,
           IF input[r].op = "update"
           THEN Row(input[r].expected + 1, snapshot[r].status, input[r].payload)
           ELSE Row(input[r].expected + 1, input[r].target, snapshot[r].payload))
  /\ Written(r)

VersionConflict(r) ==
  /\ pc[r] = "write" /\ input[r].op \in {"update", "transition"}
  /\ ~VersionMatches(r)
  /\ Refuse(r, "version_conflict")

Delete(r) ==
  /\ pc[r] = "write" /\ input[r].op = "delete" /\ Live(input[r].code)
  /\ rows' = [rows EXCEPT ![input[r].code].deleted = TRUE]
  /\ UNCHANGED <<kind, audits, writes>>
  /\ Written(r)

DeleteMissing(r) ==
  /\ pc[r] = "write" /\ input[r].op = "delete" /\ ~Live(input[r].code)
  /\ Refuse(r, "not_found")

-----------------------------------------------------------------------------
\* The state an update and a transition say they found is the copy's.
AuditEntry(r) ==
  [request |-> r, action |-> input[r].op, code |-> input[r].code,
   before |-> IF input[r].op = "create" THEN "" ELSE snapshot[r].status]

\* A create answers with what it has built, a delete with nothing, or with an error
\* if the answer of the insert is lost; the others reload.
AfterAudit(r) ==
  CASE input[r].op = "create" -> Answer(r, "ok", 1)
    [] input[r].op = "delete" ->
         \E outcome \in {"ok", "internal_error"} : Answer(r, outcome, 0)
    [] OTHER -> Goto(r, "reload") /\ UNCHANGED <<input, snapshot, reply>>

Audit(r) ==
  /\ pc[r] = "audit"
  /\ audits' = audits \cup {AuditEntry(r)}
  /\ AfterAudit(r)
  /\ UNCHANGED <<kind, rows, writes>>

\* Slip: the failure of the insert ignored for every operation.
AuditSkippedByAll(r) == pc[r] = "audit" /\ AfterAudit(r) /\ UNCHANGED table

\* A create and an update go on when the insert fails.
AuditSkipped(r) ==
  /\ pc[r] = "audit" /\ input[r].op \in {"create", "update"}
  /\ AfterAudit(r)
  /\ UNCHANGED table

ReloadMissing(r) == pc[r] = "reload" /\ ~Live(input[r].code) /\ Refuse(r, "not_found")

\* Slip: the answer is the row read before the write.
ReloadNothing(r) ==
  /\ pc[r] = "reload" /\ Live(input[r].code)
  /\ Answer(r, "ok", snapshot[r].version)
  /\ UNCHANGED table

Reload(r) ==
  /\ pc[r] = "reload" /\ Live(input[r].code)
  /\ Answer(r, "ok", rows[input[r].code].version)
  /\ UNCHANGED table

Fail(r) ==
  /\ \/ pc[r] \in {"read", "write", "reload"}
     \/ pc[r] = "audit" /\ input[r].op \in {"transition", "delete"}
  /\ Refuse(r, "internal_error")

Crash ==
  /\ \E r \in Requests : InFlight(r)
  /\ pc' = [r \in Requests |-> IF InFlight(r) THEN "done" ELSE pc[r]]
  /\ input' = [r \in Requests |-> NoInput]
  /\ snapshot' = [r \in Requests |-> NoRow]
  /\ reply' = [r \in Requests |-> IF InFlight(r) THEN [NoReply EXCEPT !.outcome = "no_response"]
                                                 ELSE reply[r]]
  /\ UNCHANGED table

Handle(r) ==
  \/ ReadMissing(r) \/ ReadRefused(r) \/ Read(r)
  \/ CreateRefused(r) \/ Create(r) \/ CreateTaken(r)
  \/ Update(r) \/ VersionConflict(r)
  \/ Delete(r) \/ DeleteMissing(r)
  \/ Audit(r) \/ AuditSkipped(r)
  \/ ReloadMissing(r) \/ Reload(r)

Finished == (\A r \in Requests : pc[r] = "done") /\ UNCHANGED vars

Next ==
  \/ \E r \in Requests :
       \/ \E op \in {"create", "update", "transition", "delete"}, c \in Codes :
            \E call \in CallsTo(op, c) : Arrive(r, call)
       \/ Handle(r)
       \/ Fail(r)
  \/ Crash
  \/ Finished

Spec == Init /\ [][Next]_vars

-----------------------------------------------------------------------------
(* Properties.                                                               *)

\* Types, and a status is always one of the aggregate's own.
TypeOK ==
  /\ kind \in Kinds
  /\ \A c \in Codes : rows[c] = NoRow \/ rows[c] \in
       [version : Nat \ {0}, status : Statuses, payload : Payloads, deleted : BOOLEAN]
  /\ pc \in [Requests -> {"idle", "read", "write", "audit", "reload", "done"}]

\* Optimistic locking: of two calls that name the same version of a row only one is
\* written, so no version of a row is ever stored twice and none is left out.
OneWriterPerVersion ==
  \A c \in Codes : LET stored == {w \in writes : w.code = c} IN
    /\ \A x, y \in stored : x.version = y.version => x = y
    /\ rows[c].version \in {Cardinality(stored), Cardinality(stored) + 1}

\* What a stored row may turn into: other fields with the same status, or another
\* status along the graph with the same fields. The check is made on a row read
\* before the write; if clients name versions they have seen, it still holds then.
LegalChange ==
  [][\A c \in Codes : rows[c].version > 0 /\ rows'[c].version # rows[c].version =>
       /\ rows'[c].version = rows[c].version + 1
       /\ \/ rows'[c].status = rows[c].status
          \/ CanTransition(Graph[kind], rows[c].status, rows'[c].status)
               /\ rows'[c].payload = rows[c].payload]_vars

\* An answer of success shows at least what the call itself has stored.
ReplyShowsOwnWrite ==
  \A w \in writes : reply[w.request].outcome = "ok" => reply[w.request].version >= w.version

\* A transition or a delete that was answered with success is in the audit log.
AckedChangeAudited ==
  \A r \in Requests : reply[r].outcome = "ok" /\ reply[r].op \in {"transition", "delete"} =>
    \E entry \in audits : entry.request = r /\ entry.action = reply[r].op

\* No later step changes a deleted row or brings it back, one of a call that had
\* read it before included.
DeletedFrozen == [][\A c \in Codes : rows[c].deleted => rows'[c] = rows[c]]_vars

=============================================================================

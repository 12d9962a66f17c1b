------------------------- MODULE ComplianceDecision -------------------------
(* The compliance-decision service: concurrent HTTP calls that create, edit, *)
(* move, delete and read decisions. Every call runs its handler in a         *)
(* goroutine of its own; each database statement or transaction of a handler *)
(* is one atomic step, and the steps of different calls interleave. A call   *)
(* may fail at every step, and the server may crash between any two.         *)
(*                                                                           *)
(* Abstractions. A decision is identified by its code: ids are never reused  *)
(* and the unique index on code also covers soft-deleted rows. The business  *)
(* fields of a request are one payload, Blank when name, facility or owner   *)
(* is empty. A request is used once, so it stands for its own request id.    *)
(*                                                                           *)
(* A definition marked "Slip" is a mistake this code could have made. No     *)
(* definition uses it: put in the place of the one it precedes, it breaks a  *)
(* property, which shows that the property depends on that code.             *)
EXTENDS Policy, FiniteSets

CONSTANTS
  Codes,      \* codes (hence rows) of compliance decisions
  Requests,   \* HTTP calls, at most one handler run each
  Users,      \* authenticated principals
  Role,       \* role claim of every principal
  Payloads,   \* valid business fields, evidence included
  Blank,      \* business fields the service refuses
  Lookahead   \* how far past the stored version a client's expectedVersion may be

ASSUME RoleAssumption == Role \in [Users -> Roles]
ASSUME BlankAssumption == Blank \notin Payloads
ASSUME LookaheadAssumption == Lookahead \in Nat

VARIABLES
  rows,       \* table compliance_decisions
  revisions,  \* table decision_revisions
  audits,     \* table audit_logs, entries about decisions
  pc,         \* next step of every handler
  input,      \* what every handler was called with
  snapshot,   \* the row every handler read before writing
  reply       \* what the client of every call was answered

database == <<rows, revisions, audits>>
vars == <<rows, revisions, audits, pc, input, snapshot, reply>>

-----------------------------------------------------------------------------
(* Data.                                                                     *)

Statuses == DOMAIN ComplianceDecisionTransitions
InitialStatus == "draft"
FinalStatuses == {"accepted", "escalated"}
ReviewerRoles == {"reviewer", "admin"}
SeedStatuses == {"draft", "review", "accepted"}

System == "system"            \* actor and request id of seeded revisions
ASSUME SystemAssumption == System \notin Requests

Operations == {"create", "update", "transition", "delete", "get"}

Rows == [version : Nat, status : Statuses, payload : Payloads \cup {Blank},
         deleted : BOOLEAN]
NoRow == [version |-> 0, status |-> InitialStatus, payload |-> Blank, deleted |-> FALSE]

Revisions == [code : Codes, version : Nat, state : Statuses, payload : Payloads,
              actor : Users \cup {System}, request : Requests \cup {System}]

Audits == [request : Requests, actor : Users, action : Operations, code : Codes,
           before : Statuses \cup {""}, after : Statuses \cup {"deleted"}]

\* Slip: a query that is not scoped to rows whose deleted_at is null.
LiveUnscoped(c) == rows[c].version > 0

\* A created row that no delete has hidden: what a query by id finds.
Live(c) == rows[c].version > 0 /\ ~rows[c].deleted

RevisionsOf(c) == {rev \in revisions : rev.code = c}

-----------------------------------------------------------------------------
(* Requests. Fields an operation does not carry hold a fixed value.          *)

\* The versions a client may name: any it may have seen, and up to Lookahead more.
KnownVersions(c) == 1 .. (rows[c].version + Lookahead)

CallsTo(op, c) ==
  [op : {op}, user : Users, code : {c},
   expected : IF op \in {"update", "transition"} THEN KnownVersions(c) ELSE {0},
   target : IF op = "transition" THEN Statuses ELSE {InitialStatus},
   payload : IF op \in {"create", "update"} THEN Payloads \cup {Blank} ELSE {Blank}]

AnyCall == [op : Operations, user : Users, code : Codes, expected : Nat,
            target : Statuses, payload : Payloads \cup {Blank}]

\* Slip: the write routes registered with the lowest role.
PermittedToAll(user, op) == op = "delete" => Role[user] = "admin"

Permitted(user, op) ==
  CASE op = "get" -> TRUE
    [] op = "delete" -> Role[user] = "admin"
    [] OTHER -> HasMinimumRole(Role[user], "operator")

Pcs == {"idle", "read", "write", "audit", "reload", "revisions", "done"}

Outcomes == {"none", "ok", "forbidden", "business_rule", "not_found",
             "version_conflict", "internal_error", "no_response"}

InFlight(r) == pc[r] \notin {"idle", "done"}

FirstStep(op) == CASE op = "get" -> "reload"
                   [] op = "create" -> "write"
                   [] OTHER -> "read"

Goto(r, step) == pc' = [pc EXCEPT ![r] = step]

Replies == [outcome : Outcomes, op : Operations \cup {"none"}, code : Codes \cup {"none"},
            version : Nat, history : SUBSET Nat]

NoInput == [op |-> "none", code |-> "none"]
NoReply == [outcome |-> "none", op |-> "none", code |-> "none", version |-> 0, history |-> {}]

\* The handler of r returns: its locals are gone, the client gets an outcome
\* and, from a successful read, a version and the versions of its history.
Answer(r, call, outcome, version, history) ==
  /\ Goto(r, "done")
  /\ input' = [input EXCEPT ![r] = NoInput]
  /\ snapshot' = [snapshot EXCEPT ![r] = NoRow]
  /\ reply' = [reply EXCEPT ![r] =
                 [outcome |-> outcome, op |-> call.op, code |-> call.code,
                  version |-> version, history |-> history]]

Refuse(r, outcome) == Answer(r, input[r], outcome, 0, {})

-----------------------------------------------------------------------------
(* Initial states: a decision is absent or seeded at version 1 in one of     *)
(* three statuses.                                                           *)

Seeded(s, p) == [version |-> 1, status |-> s, payload |-> p, deleted |-> FALSE]

SeedRevision(c) == [code |-> c, version |-> 1, state |-> rows[c].status,
                    payload |-> rows[c].payload, actor |-> System, request |-> System]

Init ==
  /\ rows \in [Codes -> {NoRow} \cup {Seeded(s, p) : s \in SeedStatuses, p \in Payloads}]
  /\ revisions = {SeedRevision(c) : c \in {d \in Codes : rows[d].version = 1}}
  /\ audits = {}
  /\ pc = [r \in Requests |-> "idle"]
  /\ input = [r \in Requests |-> NoInput]
  /\ snapshot = [r \in Requests |-> NoRow]
  /\ reply = [r \in Requests |-> NoReply]

-----------------------------------------------------------------------------
(* Arrival of a call: role middleware, then field validation of a create.    *)

Acceptable(call) == ~(call.op = "create" /\ call.payload = Blank)

Arrive(r, call) ==
  /\ pc[r] = "idle"
  /\ Permitted(call.user, call.op)
  /\ Acceptable(call)
  /\ Goto(r, FirstStep(call.op))
  /\ input' = [input EXCEPT ![r] = call]
  /\ UNCHANGED <<database, snapshot, reply>>

Forbid(r, call) ==
  /\ pc[r] = "idle"
  /\ ~Permitted(call.user, call.op)
  /\ Answer(r, call, "forbidden", 0, {})
  /\ UNCHANGED database

RefuseCreate(r, call) ==
  /\ pc[r] = "idle"
  /\ Permitted(call.user, call.op)
  /\ ~Acceptable(call)
  /\ Answer(r, call, "business_rule", 0, {})
  /\ UNCHANGED database

-----------------------------------------------------------------------------
(* Read the row, then decide on it whether the call may go on.               *)

\* Slip: an edit refused only once the decision is final.
BreaksRuleEditsInReview(call, row) ==
  CASE call.op = "update"     -> row.status \in FinalStatuses \/ call.payload = Blank
    [] call.op = "delete"     -> row.status # InitialStatus
    [] call.op = "transition" ->
         \/ ~CanTransition(ComplianceDecisionTransitions, row.status, call.target)
         \/ call.target \in FinalStatuses /\ Role[call.user] \notin ReviewerRoles
    [] OTHER -> FALSE

\* Slip: neither the fields of an edit nor the role of a deciding user is looked at.
BreaksRuleStatusOnly(call, row) ==
  CASE call.op \in {"update", "delete"} -> row.status # InitialStatus
    [] call.op = "transition" ->
         ~CanTransition(ComplianceDecisionTransitions, row.status, call.target)
    [] OTHER -> FALSE

\* What the service refuses on the row it has read.
BreaksRule(call, row) ==
  CASE call.op = "update"     -> row.status # InitialStatus \/ call.payload = Blank
    [] call.op = "delete"     -> row.status # InitialStatus
    [] call.op = "transition" ->
         \/ ~CanTransition(ComplianceDecisionTransitions, row.status, call.target)
         \/ call.target \in FinalStatuses /\ Role[call.user] \notin ReviewerRoles
    [] OTHER -> FALSE

ReadMissing(r) ==
  /\ pc[r] = "read"
  /\ ~Live(input[r].code)
  /\ Refuse(r, "not_found")
  /\ UNCHANGED database

ReadRefused(r) ==
  /\ pc[r] = "read"
  /\ Live(input[r].code)
  /\ BreaksRule(input[r], rows[input[r].code])
  /\ Refuse(r, "business_rule")
  /\ UNCHANGED database

Read(r) ==
  /\ pc[r] = "read"
  /\ Live(input[r].code)
  /\ ~BreaksRule(input[r], rows[input[r].code])
  /\ snapshot' = [snapshot EXCEPT ![r] = rows[input[r].code]]
  /\ Goto(r, "write")
  /\ UNCHANGED <<database, input, reply>>

-----------------------------------------------------------------------------
(* The write. Its transaction may commit and the answer of the database get  *)
(* lost, so that the handler reports an error for a change that was made.    *)

Committed(r) ==
  \/ Goto(r, "audit") /\ UNCHANGED <<input, snapshot, reply>>
  \/ Refuse(r, "internal_error")

\* Slip: version among the columns the update omits.
StoreWithoutVersion(r, c, row) ==
  /\ \A rev \in RevisionsOf(c) : rev.version # row.version
  /\ rows' = [rows EXCEPT ![c] = [row EXCEPT !.version = IF @ = 1 THEN @ ELSE rows[c].version]]
  /\ revisions' = revisions \cup
       {[code |-> c, version |-> row.version, state |-> row.status, payload |-> row.payload,
         actor |-> input[r].user, request |-> r]}
  /\ UNCHANGED audits

\* Row c and its revision in one transaction; the index on (decision, version)
\* rejects a second revision of a version.
Store(r, c, row) ==
  /\ \A rev \in RevisionsOf(c) : rev.version # row.version
  /\ rows' = [rows EXCEPT ![c] = row]
  /\ revisions' = revisions \cup
       {[code |-> c, version |-> row.version, state |-> row.status, payload |-> row.payload,
         actor |-> input[r].user, request |-> r]}
  /\ UNCHANGED audits

Create(r) ==
  /\ pc[r] = "write" /\ input[r].op = "create"
  /\ rows[input[r].code].version = 0
  /\ Store(r, input[r].code, Seeded(InitialStatus, input[r].payload))
  /\ Committed(r)

\* The unique index on code also covers rows that were deleted.
CreateTaken(r) ==
  /\ pc[r] = "write" /\ input[r].op = "create"
  /\ rows[input[r].code].version > 0
  /\ Refuse(r, "internal_error")
  /\ UNCHANGED database

\* Slip: an update by id alone.
VersionUnchecked(r) == Live(input[r].code)

\* WHERE id = ? AND version = ?, on rows that are not deleted.
VersionMatches(r) ==
  Live(input[r].code) /\ rows[input[r].code].version = input[r].expected

\* The new row is built from the row read earlier, not from the stored one.
NewRow(r) ==
  IF input[r].op = "update"
  THEN [snapshot[r] EXCEPT !.payload = input[r].payload, !.version = input[r].expected + 1]
  ELSE [snapshot[r] EXCEPT !.status = input[r].target, !.version = input[r].expected + 1]

UpdateWithRevision(r) ==
  /\ pc[r] = "write" /\ input[r].op \in {"update", "transition"}
  /\ VersionMatches(r)
  /\ Store(r, input[r].code, NewRow(r))
  /\ Committed(r)

\* Slip: the revision inserted outside the transaction, before the row is compared.
ConflictNotRolledBack(r) ==
  /\ pc[r] = "write" /\ input[r].op \in {"update", "transition"}
  /\ ~VersionMatches(r)
  /\ revisions' = revisions \cup
       {[code |-> input[r].code, version |-> NewRow(r).version, state |-> NewRow(r).status,
         payload |-> NewRow(r).payload, actor |-> input[r].user, request |-> r]}
  /\ Refuse(r, "version_conflict")
  /\ UNCHANGED <<rows, audits>>

\* Slip: a conflict tried again on a fresh row, with the version that lost.
ConflictRetried(r) ==
  /\ pc[r] = "write" /\ input[r].op \in {"update", "transition"}
  /\ ~VersionMatches(r)
  /\ Goto(r, "read")
  /\ UNCHANGED <<database, input, snapshot, reply>>

VersionConflict(r) ==
  /\ pc[r] = "write" /\ input[r].op \in {"update", "transition"}
  /\ ~VersionMatches(r)
  /\ Refuse(r, "version_conflict")
  /\ UNCHANGED database

\* Soft delete by id alone: neither version nor status is compared again.
Delete(r) ==
  /\ pc[r] = "write" /\ input[r].op = "delete"
  /\ Live(input[r].code)
  /\ rows' = [rows EXCEPT ![input[r].code] = [@ EXCEPT !.deleted = TRUE]]
  /\ UNCHANGED <<revisions, audits>>
  /\ Committed(r)

DeleteMissing(r) ==
  /\ pc[r] = "write" /\ input[r].op = "delete"
  /\ ~Live(input[r].code)
  /\ Refuse(r, "not_found")
  /\ UNCHANGED database

-----------------------------------------------------------------------------
(* The audit entry, a separate insert. A create and an update go on when it  *)
(* fails, a transition and a delete report the failure. An insert whose      *)
(* answer is lost counts as failed: a delete then reports an error, a move   *)
(* does so by failing at its next statement.                                 *)

\* Slip: the state before the change read after it.
AuditEntryReread(r) ==
  LET call == input[r] IN
  [request |-> r, actor |-> call.user, action |-> call.op, code |-> call.code,
   before |-> IF call.op = "create" THEN "" ELSE rows[call.code].status,
   after |-> CASE call.op = "delete"     -> "deleted"
               [] call.op = "transition" -> call.target
               [] OTHER                  -> InitialStatus]

AuditEntry(r) ==
  LET call == input[r] IN
  [request |-> r, actor |-> call.user, action |-> call.op, code |-> call.code,
   before |-> IF call.op = "create" THEN "" ELSE snapshot[r].status,
   after |-> CASE call.op = "delete"     -> "deleted"
               [] call.op = "transition" -> call.target
               [] OTHER                  -> InitialStatus]

Audit(r) ==
  /\ pc[r] = "audit"
  /\ audits' = audits \cup {AuditEntry(r)}
  /\ IF input[r].op = "delete"
     THEN \E outcome \in {"ok", "internal_error"} : Answer(r, input[r], outcome, 0, {})
     ELSE Goto(r, "reload") /\ UNCHANGED <<input, snapshot, reply>>
  /\ UNCHANGED <<rows, revisions>>

\* Slip: the failure of the insert ignored for every operation.
AuditSkippedByAll(r) ==
  /\ pc[r] = "audit"
  /\ Goto(r, "reload")
  /\ UNCHANGED <<database, input, snapshot, reply>>

AuditSkipped(r) ==
  /\ pc[r] = "audit"
  /\ input[r].op \in {"create", "update"}
  /\ Goto(r, "reload")
  /\ UNCHANGED <<database, input, snapshot, reply>>

-----------------------------------------------------------------------------
(* The answer: the row, then its revisions, in two queries.                  *)

LoadMissing(r) ==
  /\ pc[r] = "reload"
  /\ ~Live(input[r].code)
  /\ Refuse(r, "not_found")
  /\ UNCHANGED database

\* Slip: the answer built from the row the handler had read before its write.
LoadNothing(r) ==
  /\ pc[r] = "reload"
  /\ Live(input[r].code)
  /\ Goto(r, "revisions")
  /\ UNCHANGED <<database, input, snapshot, reply>>

LoadRow(r) ==
  /\ pc[r] = "reload"
  /\ Live(input[r].code)
  /\ snapshot' = [snapshot EXCEPT ![r] = rows[input[r].code]]
  /\ Goto(r, "revisions")
  /\ UNCHANGED <<database, input, reply>>

LoadRevisions(r) ==
  /\ pc[r] = "revisions"
  /\ Answer(r, input[r], "ok", snapshot[r].version,
            {rev.version : rev \in RevisionsOf(input[r].code)})
  /\ UNCHANGED database

-----------------------------------------------------------------------------
(* Faults.                                                                   *)

\* A statement fails, or the client has gone and its context is cancelled.
Fail(r) ==
  /\ \/ pc[r] \in {"read", "write", "reload", "revisions"}
     \/ pc[r] = "audit" /\ input[r].op \in {"transition", "delete"}
  /\ Refuse(r, "internal_error")
  /\ UNCHANGED database

\* The server stops; what was committed stays, the calls in flight are lost.
Crash ==
  /\ \E r \in Requests : InFlight(r)
  /\ pc' = [r \in Requests |-> IF InFlight(r) THEN "done" ELSE pc[r]]
  /\ input' = [r \in Requests |-> NoInput]
  /\ snapshot' = [r \in Requests |-> NoRow]
  /\ reply' = [r \in Requests |->
                 IF InFlight(r)
                 THEN [NoReply EXCEPT !.outcome = "no_response",
                                      !.op = input[r].op, !.code = input[r].code]
                 ELSE reply[r]]
  /\ UNCHANGED database

-----------------------------------------------------------------------------
(* Specification.                                                            *)

Handle(r) ==
  \/ ReadMissing(r) \/ ReadRefused(r) \/ Read(r)
  \/ Create(r) \/ CreateTaken(r)
  \/ UpdateWithRevision(r) \/ VersionConflict(r)
  \/ Delete(r) \/ DeleteMissing(r)
  \/ Audit(r) \/ AuditSkipped(r)
  \/ LoadMissing(r) \/ LoadRow(r) \/ LoadRevisions(r)

\* A run ends when every request has been used.
Finished == (\A r \in Requests : pc[r] = "done") /\ UNCHANGED vars

Next ==
  \/ \E r \in Requests :
       \/ \E op \in Operations, c \in Codes : \E call \in CallsTo(op, c) :
            Arrive(r, call) \/ Forbid(r, call) \/ RefuseCreate(r, call)
       \/ Handle(r)
       \/ Fail(r)
  \/ Crash
  \/ Finished

Spec == Init /\ [][Next]_vars

\* The Go scheduler runs every goroutine and every statement returns; that
\* calls arrive, statements fail or the server crashes is not promised.
FairSpec == Spec /\ \A r \in Requests : WF_vars(Handle(r))

-----------------------------------------------------------------------------
(* Properties.                                                               *)

\* Types: tables, handler locals and answers have the shape the code gives them;
\* in particular no revision ever holds business fields the service refuses.
TypeOK ==
  /\ rows \in [Codes -> Rows]
  /\ revisions \subseteq Revisions
  /\ audits \subseteq Audits
  /\ pc \in [Requests -> Pcs]
  /\ input \in [Requests -> AnyCall \cup {NoInput}]
  /\ snapshot \in [Requests -> Rows]
  /\ reply \in [Requests -> Replies]

\* CreateWithRevision and UpdateWithRevision: whatever version a client names and
\* wherever a call fails, the revisions of a decision number its versions 1, 2,
\* ... once each, without a gap, and the last one is what the row now says.
HistoryMatchesRow ==
  /\ \A c \in Codes : {rev.version : rev \in RevisionsOf(c)} = 1 .. rows[c].version
  /\ \A x, y \in revisions : x.code = y.code /\ x.version = y.version => x = y
  /\ \A rev \in revisions : rev.version = rows[rev.code].version =>
       rev.state = rows[rev.code].status /\ rev.payload = rows[rev.code].payload

\* The role a final status needs is checked on the target before the write: no
\* interleaving lets an operator's revision accept or escalate a decision.
FinalStateByReviewer ==
  \A rev \in revisions : rev.state \in FinalStatuses =>
    rev.actor = System \/ Role[rev.actor] \in ReviewerRoles

\* Get reads the row and its revisions in two queries. A successful answer still
\* shows at least what the call itself wrote, and a history that covers the
\* version it shows without a gap, though it may run ahead of it.
ReplyConsistent ==
  \A r \in Requests : reply[r].outcome = "ok" /\ reply[r].op # "delete" =>
    /\ \A rev \in revisions : rev.request = r => reply[r].version >= rev.version
    /\ reply[r].version \in reply[r].history
    /\ reply[r].history = 1 .. Cardinality(reply[r].history)

\* A call answered as refused (403, 409, 422) has changed nothing: neither a
\* revision nor an audit entry carries its request id.
RefusedLeavesNoTrace ==
  \A r \in Requests : reply[r].outcome \in {"forbidden", "business_rule", "version_conflict"} =>
    /\ \A rev \in revisions : rev.request # r
    /\ \A entry \in audits : entry.request # r

\* Transition and Delete report the failure of the audit insert, so one that was
\* answered with success is in the audit log.
AckedChangeAudited ==
  \A r \in Requests : reply[r].outcome = "ok" /\ reply[r].op \in {"transition", "delete"} =>
    \E entry \in audits : entry.request = r /\ entry.action = reply[r].op

\* The audit log tells no lies: an entry about a create, an update or a move
\* names a change that was made, from the state the decision really had.
AuditTellsTheTruth ==
  \A entry \in audits : entry.action # "delete" =>
    \E rev \in RevisionsOf(entry.code) :
      /\ rev.request = entry.request /\ rev.actor = entry.actor /\ rev.state = entry.after
      /\ IF entry.before = "" THEN rev.version = 1
         ELSE \E prior \in RevisionsOf(entry.code) :
                prior.version = rev.version - 1 /\ prior.state = entry.before

\* Between the read and the write of a call the row may change, and the write is
\* built from the old copy. Provided clients name versions they have seen, the
\* version comparison catches it: a call whose expectedVersion is still the
\* stored version holds a copy that is still the stored row.
SnapshotFresh ==
  \A r \in Requests : pc[r] = "write" /\ input[r].op \in {"update", "transition"} =>
    /\ input[r].expected <= snapshot[r].version
    /\ VersionMatches(r) => snapshot[r] = rows[input[r].code]

\* What one version may turn into: edited while a draft, or moved along the graph.
LegalStep(old, new) ==
  \/ old.state = InitialStatus /\ new.state = InitialStatus
  \/ CanTransition(ComplianceDecisionTransitions, old.state, new.state) /\ new.payload = old.payload

\* Every step of a decision's history is legal: no draft reaches accepted or
\* escalated without review, and evidence changes in drafts only. The check is
\* made on a row read before the write, so it needs the version a client names
\* to be one it has seen.
LegalHistory ==
  \A old, new \in revisions :
    old.code = new.code /\ new.version = old.version + 1 => LegalStep(old, new)

\* A soft-deleted decision is out of reach: no later step, of a call that read it
\* before included, brings it back, changes it or adds to its history.
DeletedFrozen ==
  [][\A c \in Codes : rows[c].deleted =>
       rows'[c] = rows[c] /\ \A rev \in revisions' \ revisions : rev.code # c]_vars

\* What the code says of deletion ("fields are locked after review begins"): a
\* decision can be deleted only while it is a draft.
DeletedOnlyAsDraft == \A c \in Codes : rows[c].deleted => rows[c].status = InitialStatus

\* Every call that reaches a handler is answered: no handler waits for another.
EveryCallAnswered == \A r \in Requests : InFlight(r) ~> pc[r] = "done"

\* A committed move is audited, or its client is told of an error.
CommittedMoveAudited ==
  \A r \in Requests :
    (pc[r] = "audit" /\ input[r].op = "transition") ~>
      \/ \E entry \in audits : entry.request = r
      \/ reply[r].outcome \in {"internal_error", "no_response"}

\* What the README says of changes of status: each is written to the audit log.
\* So is then one that its call has seen committed, whatever happens next.
EveryMoveAudited ==
  \A r \in Requests :
    (pc[r] = "audit" /\ input[r].op = "transition") ~>
      \E entry \in audits : entry.request = r

-----------------------------------------------------------------------------
(* The ledger the service keeps: the log of a decision is its revisions in   *)
(* version order, without who asked when.                                    *)

RevisionAt(c, v) == CHOOSE rev \in RevisionsOf(c) : rev.version = v

LedgerLog ==
  [c \in Codes |-> [v \in 1 .. rows[c].version |->
     [state |-> RevisionAt(c, v).state, payload |-> RevisionAt(c, v).payload,
      actor |-> RevisionAt(c, v).actor]]]

Ledger == INSTANCE DecisionLedger WITH
  log <- LedgerLog, removed <- {c \in Codes : rows[c].deleted}, Seeder <- System

\* The service implements the ledger: every commit is one legal entry by a user
\* whose role allows it, and no other step shows.
ImplementsLedger == Ledger!Spec
=============================================================================

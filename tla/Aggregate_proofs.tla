-------------------------- MODULE Aggregate_proofs --------------------------
(* Theorems about Aggregate, for every set of codes, requests and payloads,  *)
(* for each of the three aggregates.                                         *)
EXTENDS Aggregate, FiniteSetTheorems, TLAPS

-----------------------------------------------------------------------------
(* What a handler in flight relies on: its call has been through the binding *)
(* and, before the write, its fields have been validated and a stored row    *)
(* has been copied.                                                          *)

Operations == {"create", "update", "transition", "delete"}

StoredRows ==
  [version : Nat \ {0}, status : Statuses, payload : Payloads, deleted : BOOLEAN]

AnyRow == StoredRows \cup {NoRow}

AnyCall ==
  [op : Operations, code : Codes, expected : Nat,
   target : Statuses \cup {"none"}, payload : Payloads \cup {Blank}]

Outcomes == {"none", "ok", "not_found", "business_rule", "version_conflict",
             "internal_error", "no_response"}

Replies == [outcome : Outcomes, op : Operations \cup {"none"}, version : Nat]

Pcs == {"idle", "read", "write", "audit", "reload", "done"}

Types ==
  /\ kind \in Kinds
  /\ rows \in [Codes -> AnyRow]
  /\ pc \in [Requests -> Pcs]
  /\ input \in [Requests -> AnyCall \cup {NoInput}]
  /\ snapshot \in [Requests -> AnyRow]
  /\ reply \in [Requests -> Replies]

HandlerOK ==
  /\ \A r \in Requests : InFlight(r) => input[r] \in AnyCall
  /\ \A r \in Requests : InFlight(r) /\ input[r].op = "transition" => input[r].target \in Statuses
  /\ \A r \in Requests : pc[r] = "read" => input[r].op # "create"
  /\ \A r \in Requests : pc[r] = "write" /\ input[r].op = "update" => input[r].payload \in Payloads
  /\ \A r \in Requests : pc[r] = "write" /\ input[r].op \in {"update", "transition"} =>
       snapshot[r] \in StoredRows

TInv == Types /\ HandlerOK

LEMMA Tables ==
  ASSUME kind \in Kinds
  PROVE  /\ InitialStatus \in Statuses
         /\ SeedStatuses[kind] \subseteq Statuses
  <1>1. kind \in {"CaptureUnit", "PermitRule", "EmissionSample"}
    BY DEF Kinds, Graph
  <1>2. /\ DOMAIN CaptureUnitTransitions = {"standby", "running", "limited", "stopped"}
        /\ DOMAIN PermitRuleTransitions = {"draft", "active", "superseded", "retired"}
        /\ DOMAIN EmissionSampleTransitions = {"collected", "testing", "verified", "invalid"}
    BY DEF CaptureUnitTransitions, PermitRuleTransitions, EmissionSampleTransitions
  <1>3. CASE kind = "CaptureUnit"
    BY <1>2, <1>3 DEF InitialStatus, SeedStatuses, Statuses, Graph
  <1>4. CASE kind = "PermitRule"
    BY <1>2, <1>4 DEF InitialStatus, SeedStatuses, Statuses, Graph
  <1>5. CASE kind = "EmissionSample"
    BY <1>2, <1>5 DEF InitialStatus, SeedStatuses, Statuses, Graph
  <1> QED
    BY <1>1, <1>3, <1>4, <1>5

\* Every set above depends on nothing but the kind, which no step changes.
LEMMA SameSets ==
  ASSUME UNCHANGED kind
  PROVE  /\ Statuses' = Statuses /\ StoredRows' = StoredRows /\ AnyRow' = AnyRow
         /\ AnyCall' = AnyCall
  <1>1. Statuses' = Statuses
    BY DEF Statuses
  <1> QED
    BY <1>1 DEF StoredRows, AnyRow, AnyCall

LEMMA CallTypes ==
  ASSUME Types, NEW op \in Operations, NEW c \in Codes, NEW call \in CallsTo(op, c)
  PROVE  /\ call \in AnyCall /\ call.op = op /\ call.code = c
         /\ op = "transition" => call.target \in Statuses
  <1>1. rows[c].version \in Nat
    BY DEF Types, AnyRow, StoredRows, NoRow, Row
  <1>2. 1 .. (rows[c].version + Lookahead) \subseteq Nat
    BY <1>1, AheadAssumption
  <1> QED
    BY <1>2 DEF CallsTo, AnyCall

-----------------------------------------------------------------------------
(* The effect of a step on one handler.                                      *)

\* Only the handler of r moves, to step.
Moves(r, step) ==
  /\ pc' = [pc EXCEPT ![r] = step]
  /\ \A q \in Requests \ {r} : pc'[q] = pc[q]
  /\ \A q \in Requests \ {r} : input'[q] = input[q]
  /\ \A q \in Requests \ {r} : snapshot'[q] = snapshot[q]
  /\ \A q \in Requests \ {r} : reply'[q] = reply[q]

LEMMA AnswerMoves ==
  ASSUME TInv, NEW r \in Requests, InFlight(r), NEW outcome \in Outcomes, NEW version \in Nat,
         Answer(r, outcome, version)
  PROVE  /\ Moves(r, "done") /\ pc'[r] = "done"
         /\ reply'[r] = [outcome |-> outcome, op |-> input[r].op, version |-> version]
         /\ input' \in [Requests -> AnyCall \cup {NoInput}]
         /\ snapshot' \in [Requests -> AnyRow]
         /\ reply' \in [Requests -> Replies]
         /\ pc' \in [Requests -> Pcs]
  <1>1. input[r] \in AnyCall
    BY DEF TInv, HandlerOK
  <1>2. [outcome |-> outcome, op |-> input[r].op, version |-> version] \in Replies
    BY <1>1 DEF AnyCall, Replies
  <1> QED
    BY <1>2 DEF Answer, Goto, Moves, TInv, Types, Pcs, AnyRow

\* A handler that has answered has nothing left to rely on.
LEMMA AnsweredTypes ==
  ASSUME TInv, NEW r \in Requests, InFlight(r), NEW outcome \in Outcomes, NEW version \in Nat,
         Answer(r, outcome, version), UNCHANGED kind, rows' \in [Codes -> AnyRow]
  PROVE  TInv'
  <1>1. Types'
    BY AnswerMoves, SameSets DEF TInv, Types
  <1>2. \A q \in Requests \ {r} : pc'[q] = pc[q] /\ input'[q] = input[q] /\ snapshot'[q] = snapshot[q]
    <2>1. Moves(r, "done")
      BY AnswerMoves
    <2> QED
      BY <2>1 DEF Moves
  <1>3. pc'[r] = "done"
    BY AnswerMoves
  <1>4. HandlerOK'
    BY <1>2, <1>3, SameSets DEF TInv, HandlerOK, InFlight
  <1> QED
    BY <1>1, <1>4 DEF TInv

\* Nor has one that goes on past the write.
LEMMA OnwardTypes ==
  ASSUME TInv, NEW r \in Requests, InFlight(r), NEW step \in {"audit", "reload"},
         Goto(r, step), UNCHANGED <<kind, input, snapshot, reply>>, rows' \in [Codes -> AnyRow]
  PROVE  TInv'
  <1>1. pc' = [pc EXCEPT ![r] = step] /\ step \in Pcs
    BY DEF Goto, Pcs
  <1>2. Types'
    BY <1>1, SameSets DEF TInv, Types
  <1>3. HandlerOK'
    BY <1>1, SameSets DEF TInv, Types, HandlerOK, InFlight
  <1> QED
    BY <1>2, <1>3 DEF TInv

LEMMA WrittenTypes ==
  ASSUME TInv, NEW r \in Requests, InFlight(r), Written(r),
         UNCHANGED kind, rows' \in [Codes -> AnyRow]
  PROVE  TInv'
  <1>1. CASE Goto(r, "audit") /\ UNCHANGED <<input, snapshot, reply>>
    BY <1>1, OnwardTypes
  <1>2. CASE Answer(r, "internal_error", 0)
    BY <1>2, AnsweredTypes DEF Outcomes
  <1> QED
    BY <1>1, <1>2 DEF Written

-----------------------------------------------------------------------------
(* The steps that end a handler with an error and touch no table.            *)

Refusal(r) ==
  \/ ReadMissing(r) \/ ReadRefused(r) \/ CreateRefused(r) \/ CreateTaken(r)
  \/ VersionConflict(r) \/ DeleteMissing(r) \/ ReloadMissing(r) \/ Fail(r)

LEMMA RefusalStep ==
  ASSUME NEW r \in Requests, Refusal(r)
  PROVE  /\ InFlight(r) /\ UNCHANGED table
         /\ \E outcome \in Outcomes \ {"ok"} : Answer(r, outcome, 0)
  BY DEF Refusal, ReadMissing, ReadRefused, CreateRefused, CreateTaken, VersionConflict,
         DeleteMissing, ReloadMissing, Fail, Refuse, InFlight, Outcomes

LEMMA RefusalTypes ==
  ASSUME TInv, NEW r \in Requests, Refusal(r)
  PROVE  TInv'
  <1>1. InFlight(r) /\ UNCHANGED <<kind, rows>> /\ \E outcome \in Outcomes : Answer(r, outcome, 0)
    BY RefusalStep DEF table
  <1> QED
    BY <1>1, AnsweredTypes DEF TInv, Types

LEMMA ArrivalTypes ==
  ASSUME TInv, NEW r \in Requests, NEW op \in Operations, NEW c \in Codes,
         NEW call \in CallsTo(op, c), Arrive(r, call)
  PROVE  TInv'
  <1>1. /\ call \in AnyCall /\ call.op = op
        /\ op = "transition" => call.target \in Statuses
    BY CallTypes DEF TInv
  <1> DEFINE step == IF call.op = "create" THEN "write" ELSE "read"
  <1>2. pc' = [pc EXCEPT ![r] = step] /\ input' = [input EXCEPT ![r] = call]
    BY DEF Arrive, Goto
  <1>3. UNCHANGED <<kind, rows, snapshot, reply>>
    BY DEF Arrive, table
  <1>4. Types'
    BY <1>1, <1>2, <1>3, SameSets DEF TInv, Types, Pcs
  <1>5. HandlerOK'
    BY <1>1, <1>2, <1>3, SameSets DEF TInv, Types, HandlerOK, InFlight
  <1> QED
    BY <1>4, <1>5 DEF TInv

LEMMA ReadTypes ==
  ASSUME TInv, NEW r \in Requests, Read(r)
  PROVE  TInv'
  <1>1. input[r] \in AnyCall /\ input[r].code \in Codes
    BY DEF Read, TInv, HandlerOK, InFlight, AnyCall
  <1>2. rows[input[r].code] \in StoredRows
    <2>1. NoRow.version = 0
      BY DEF NoRow, Row
    <2> QED
      BY <1>1, <2>1 DEF Read, Live, TInv, Types, AnyRow
  <1>3. input[r].op = "update" => input[r].payload \in Payloads
    BY <1>1 DEF Read, BreaksRule, AnyCall
  <1>4. /\ pc' = [pc EXCEPT ![r] = "write"]
        /\ snapshot' = [snapshot EXCEPT ![r] = rows[input[r].code]]
        /\ UNCHANGED <<kind, rows, input, reply>>
    BY DEF Read, Goto, table
  <1>5. Types'
    BY <1>2, <1>4, SameSets DEF TInv, Types, Pcs, AnyRow
  <1>6. HandlerOK'
    BY <1>2, <1>3, <1>4, SameSets DEF Read, TInv, Types, HandlerOK, InFlight
  <1> QED
    BY <1>5, <1>6 DEF TInv

-----------------------------------------------------------------------------
(* The steps that write.                                                     *)

LEMMA CreateTypes ==
  ASSUME TInv, NEW r \in Requests, Create(r)
  PROVE  TInv'
  <1>1. InFlight(r) /\ input[r] \in AnyCall
    BY DEF Create, TInv, HandlerOK, InFlight
  <1>2. Row(1, InitialStatus, input[r].payload) \in StoredRows
    BY <1>1, Tables DEF Create, TInv, Types, AnyCall, StoredRows, Row
  <1>3. rows' \in [Codes -> AnyRow] /\ UNCHANGED kind
    BY <1>2 DEF Create, Store, TInv, Types, AnyRow
  <1> QED
    BY <1>1, <1>3, WrittenTypes DEF Create

\* The row an update or a transition stores.
NewRow(r) ==
  IF input[r].op = "update"
  THEN Row(input[r].expected + 1, snapshot[r].status, input[r].payload)
  ELSE Row(input[r].expected + 1, input[r].target, snapshot[r].payload)

LEMMA NewRowTypes ==
  ASSUME TInv, NEW r \in Requests, Update(r)
  PROVE  NewRow(r) \in StoredRows /\ NewRow(r).version = input[r].expected + 1
  <1>1. /\ input[r] \in AnyCall /\ snapshot[r] \in StoredRows
        /\ input[r].op = "update" => input[r].payload \in Payloads
        /\ input[r].op # "update" => input[r].target \in Statuses
    BY DEF Update, TInv, HandlerOK, InFlight
  <1>2. input[r].expected + 1 \in Nat \ {0}
    BY <1>1 DEF AnyCall
  <1> QED
    BY <1>1, <1>2 DEF NewRow, Row, StoredRows

LEMMA UpdateTypes ==
  ASSUME TInv, NEW r \in Requests, Update(r)
  PROVE  TInv'
  <1>1. InFlight(r) /\ Store(r, input[r].code, NewRow(r)) /\ Written(r)
    BY DEF Update, InFlight, NewRow
  <1>2. rows' \in [Codes -> AnyRow] /\ UNCHANGED kind
    BY <1>1, NewRowTypes DEF Store, TInv, Types, AnyRow
  <1> QED
    BY <1>1, <1>2, WrittenTypes

LEMMA DeleteTypes ==
  ASSUME TInv, NEW r \in Requests, Delete(r)
  PROVE  TInv'
  <1>1. InFlight(r) /\ input[r].code \in Codes /\ Live(input[r].code) /\ Written(r)
    BY DEF Delete, TInv, HandlerOK, InFlight, AnyCall
  <1>2. rows[input[r].code] \in StoredRows
    <2>1. NoRow.version = 0
      BY DEF NoRow, Row
    <2> QED
      BY <1>1, <2>1 DEF Live, TInv, Types, AnyRow
  <1>3. [rows[input[r].code] EXCEPT !.deleted = TRUE] \in StoredRows
    BY <1>2 DEF StoredRows
  <1>4. rows' \in [Codes -> AnyRow] /\ UNCHANGED kind
    BY <1>3 DEF Delete, TInv, Types, AnyRow
  <1> QED
    BY <1>1, <1>4, WrittenTypes

LEMMA AfterAuditTypes ==
  ASSUME TInv, NEW r \in Requests, pc[r] = "audit", AfterAudit(r), UNCHANGED <<kind, rows>>
  PROVE  TInv'
  <1>1. InFlight(r) /\ rows' \in [Codes -> AnyRow]
    BY DEF InFlight, TInv, Types
  <1>2. CASE input[r].op = "create"
    BY <1>1, <1>2, AnsweredTypes DEF AfterAudit, Outcomes
  <1>3. CASE input[r].op = "delete"
    <2>1. \E outcome \in {"ok", "internal_error"} : Answer(r, outcome, 0)
      BY <1>3 DEF AfterAudit
    <2> QED
      BY <1>1, <2>1, AnsweredTypes DEF Outcomes
  <1>4. CASE input[r].op \notin {"create", "delete"}
    BY <1>1, <1>4, OnwardTypes DEF AfterAudit
  <1> QED
    BY <1>2, <1>3, <1>4

LEMMA ReloadTypes ==
  ASSUME TInv, NEW r \in Requests, Reload(r)
  PROVE  TInv'
  <1>1. InFlight(r) /\ input[r].code \in Codes /\ UNCHANGED <<kind, rows>>
    BY DEF Reload, InFlight, TInv, HandlerOK, AnyCall, table
  <1>2. rows[input[r].code].version \in Nat
    BY <1>1 DEF TInv, Types, AnyRow, StoredRows, NoRow, Row
  <1> QED
    BY <1>1, <1>2, AnsweredTypes DEF Reload, Outcomes, TInv, Types

LEMMA CrashTypes ==
  ASSUME TInv, Crash
  PROVE  TInv'
  <1>1. UNCHANGED <<kind, rows>> /\ \A r \in Requests : pc'[r] \in {"idle", "done"}
    BY DEF Crash, InFlight, table, TInv, Types, Pcs
  <1>2. pc' \in [Requests -> Pcs]
    BY <1>1 DEF Crash, Pcs
  <1>3. input' \in [Requests -> AnyCall \cup {NoInput}] /\ snapshot' \in [Requests -> AnyRow]
    BY DEF Crash, AnyRow
  <1>4. reply' \in [Requests -> Replies]
    <2>1. [NoReply EXCEPT !.outcome = "no_response"] \in Replies
      BY DEF NoReply, Replies, Outcomes
    <2> QED
      BY <2>1 DEF Crash, TInv, Types
  <1>5. Types'
    BY <1>1, <1>2, <1>3, <1>4, SameSets DEF TInv, Types
  <1>6. HandlerOK'
    BY <1>1 DEF HandlerOK, InFlight
  <1> QED
    BY <1>5, <1>6 DEF TInv

-----------------------------------------------------------------------------
(* All steps.                                                                *)

\* The steps sorted by what they do to the tables.
LEMMA Steps ==
  ASSUME [Next]_vars
  PROVE  \/ UNCHANGED vars
         \/ \E r \in Requests, op \in Operations, c \in Codes :
              \E call \in CallsTo(op, c) : Arrive(r, call)
         \/ \E r \in Requests : Refusal(r)
         \/ \E r \in Requests : Read(r)
         \/ \E r \in Requests : Create(r)
         \/ \E r \in Requests : Update(r)
         \/ \E r \in Requests : Delete(r)
         \/ \E r \in Requests : Audit(r)
         \/ \E r \in Requests : AuditSkipped(r)
         \/ \E r \in Requests : Reload(r)
         \/ Crash
  BY DEF Next, Handle, Refusal, Finished, Operations

LEMMA NextTypes ==
  ASSUME TInv, [Next]_vars
  PROVE  TInv'
  <1>1. CASE UNCHANGED vars
    <2>1. UNCHANGED <<kind, rows, pc, input, snapshot, reply>>
      BY <1>1 DEF vars
    <2> QED
      BY <2>1, SameSets DEF TInv, Types, HandlerOK, InFlight
  <1>2. ASSUME NEW r \in Requests, Audit(r) \/ AuditSkipped(r)
        PROVE  TInv'
    BY <1>2, AfterAuditTypes DEF Audit, AuditSkipped, table
  <1> QED
    BY <1>1, <1>2, Steps, ArrivalTypes, RefusalTypes, ReadTypes, CreateTypes, UpdateTypes,
       DeleteTypes, ReloadTypes, CrashTypes

LEMMA InitTypes == Init => TInv
  <1> SUFFICES ASSUME Init PROVE TInv
    OBVIOUS
  <1>1. \A s \in SeedStatuses[kind], p \in Payloads : Row(1, s, p) \in StoredRows
    BY Tables DEF Init, Row, StoredRows
  <1>2. rows \in [Codes -> AnyRow]
    BY <1>1 DEF Init, AnyRow
  <1>3. reply \in [Requests -> Replies]
    BY DEF Init, NoReply, Replies, Outcomes
  <1>4. Types
    BY <1>2, <1>3 DEF Init, Types, AnyRow, Pcs
  <1>5. HandlerOK
    BY DEF Init, HandlerOK, InFlight
  <1> QED
    BY <1>4, <1>5 DEF TInv

\* The kind of the aggregate, the statuses of its rows and the steps of its handlers
\* stay what they are for any number of calls.
THEOREM TypeCorrect == Spec => []TypeOK
  <1>1. Spec => []TInv
    BY InitTypes, NextTypes, PTL DEF Spec
  <1>2. TInv => TypeOK
    BY DEF TInv, Types, TypeOK, AnyRow, StoredRows, Pcs
  <1> QED
    BY <1>1, <1>2, PTL

-----------------------------------------------------------------------------
(* What a step does to a row. Two kinds of step store a version, the one     *)
(* after the stored one; a delete hides a live row; the others leave the     *)
(* table alone.                                                              *)

\* r stores the next version of the row its call is about.
Stores(r) ==
  /\ pc[r] = "write" /\ input[r] \in AnyCall /\ input[r].op # "delete"
  /\ rows'[input[r].code] \in StoredRows
  /\ rows'[input[r].code].version = rows[input[r].code].version + 1
  /\ \A c \in Codes \ {input[r].code} : rows'[c] = rows[c]
  /\ writes' = writes \cup {[request |-> r, code |-> input[r].code,
                             version |-> rows[input[r].code].version + 1]}
  /\ UNCHANGED <<kind, audits>>
  /\ Written(r)

LEMMA Versions ==
  ASSUME TInv, NEW c \in Codes
  PROVE  rows[c].version \in Nat /\ (rows[c].version > 0 => rows[c] \in StoredRows)
  BY DEF TInv, Types, AnyRow, StoredRows, NoRow, Row

LEMMA CreateStores ==
  ASSUME TInv, NEW r \in Requests, Create(r)
  PROVE  Stores(r) /\ rows[input[r].code].version = 0
  <1>1. pc[r] = "write" /\ input[r] \in AnyCall /\ input[r].code \in Codes
    BY DEF Create, TInv, HandlerOK, InFlight, AnyCall
  <1> DEFINE row == Row(1, InitialStatus, input[r].payload)
  <1>2. row \in StoredRows /\ row.version = 1
    BY <1>1, Tables DEF Create, TInv, Types, AnyCall, StoredRows, Row
  <1>3. Store(r, input[r].code, row) /\ Written(r) /\ rows[input[r].code].version = 0
    BY DEF Create
  <1> QED
    BY <1>1, <1>2, <1>3 DEF Store, Stores, Create, TInv, Types

LEMMA UpdateStores ==
  ASSUME TInv, NEW r \in Requests, Update(r)
  PROVE  /\ Stores(r) /\ Live(input[r].code)
         /\ rows[input[r].code].version = input[r].expected
         /\ rows'[input[r].code] = NewRow(r)
  <1>1. pc[r] = "write" /\ input[r] \in AnyCall /\ input[r].code \in Codes
    BY DEF Update, TInv, HandlerOK, InFlight, AnyCall
  <1>2. Live(input[r].code) /\ rows[input[r].code].version = input[r].expected
    BY DEF Update, VersionMatches
  <1>3. Store(r, input[r].code, NewRow(r)) /\ Written(r)
    BY DEF Update, NewRow
  <1>4. NewRow(r) \in StoredRows /\ NewRow(r).version = input[r].expected + 1
    BY NewRowTypes
  <1> QED
    BY <1>1, <1>2, <1>3, <1>4 DEF Store, Stores, Update, TInv, Types

LEMMA DeleteHides ==
  ASSUME TInv, NEW r \in Requests, Delete(r)
  PROVE  /\ UNCHANGED <<kind, audits, writes>> /\ pc[r] = "write" /\ Written(r)
         /\ \A c \in Codes : \/ rows'[c] = rows[c]
                             \/ Live(c) /\ rows'[c] = [rows[c] EXCEPT !.deleted = TRUE]
  BY DEF Delete, TInv, Types

LEMMA DeleteKeeps ==
  ASSUME TInv, NEW r \in Requests, Delete(r), NEW c \in Codes
  PROVE  /\ rows'[c].version = rows[c].version /\ rows'[c].status = rows[c].status
         /\ rows'[c].payload = rows[c].payload
  <1>1. CASE rows'[c] = rows[c]
    BY <1>1
  <1>2. CASE Live(c) /\ rows'[c] = [rows[c] EXCEPT !.deleted = TRUE]
    <2>1. rows[c] \in StoredRows
      BY <1>2, Versions DEF Live
    <2> QED
      BY <1>2, <2>1 DEF StoredRows
  <1> QED
    BY <1>1, <1>2, DeleteHides

LEMMA TableSteps ==
  ASSUME TInv, [Next]_vars
  PROVE  \/ UNCHANGED <<kind, rows, writes>>
         \/ \E r \in Requests : Create(r) \/ Update(r) \/ Delete(r)
  <1>1. ASSUME NEW r \in Requests, NEW call \in UNION {CallsTo(op, c) : op \in Operations, c \in Codes},
               Arrive(r, call)
        PROVE  UNCHANGED <<kind, rows, writes>>
    BY <1>1 DEF Arrive, table
  <1>2. ASSUME NEW r \in Requests,
               Refusal(r) \/ Read(r) \/ Audit(r) \/ AuditSkipped(r) \/ Reload(r)
        PROVE  UNCHANGED <<kind, rows, writes>>
    BY <1>2, RefusalStep DEF Read, Audit, AuditSkipped, Reload, table
  <1>3. Crash => UNCHANGED <<kind, rows, writes>>
    BY DEF Crash, table
  <1>4. UNCHANGED vars => UNCHANGED <<kind, rows, writes>>
    BY DEF vars
  <1> QED
    BY <1>1, <1>2, <1>3, <1>4, Steps

\* Fields of a row other than its deletion change only when a version is stored.
LEMMA RowSteps ==
  ASSUME TInv, [Next]_vars, NEW c \in Codes
  PROVE  \/ /\ rows'[c].version = rows[c].version /\ rows'[c].status = rows[c].status
            /\ rows'[c].payload = rows[c].payload
         \/ \E r \in Requests : (Create(r) \/ Update(r)) /\ input[r].code = c
  <1>1. CASE UNCHANGED <<kind, rows, writes>>
    BY <1>1
  <1>2. ASSUME NEW r \in Requests, Create(r) \/ Update(r), input[r].code # c
        PROVE  rows'[c] = rows[c]
    BY <1>2, CreateStores, UpdateStores DEF Stores
  <1>3. ASSUME NEW r \in Requests, Delete(r)
        PROVE  /\ rows'[c].version = rows[c].version /\ rows'[c].status = rows[c].status
               /\ rows'[c].payload = rows[c].payload
    BY <1>3, DeleteKeeps
  <1> QED
    BY <1>1, <1>2, <1>3, TableSteps

LEMMA VersionsGrow ==
  ASSUME TInv, [Next]_vars, NEW c \in Codes
  PROVE  rows'[c].version \in Nat /\ rows'[c].version >= rows[c].version
  <1>1. rows[c].version \in Nat
    BY Versions
  <1>2. ASSUME NEW r \in Requests, Create(r) \/ Update(r), input[r].code = c
        PROVE  rows'[c].version = rows[c].version + 1
    BY <1>2, CreateStores, UpdateStores DEF Stores
  <1> QED
    BY <1>1, <1>2, RowSteps

-----------------------------------------------------------------------------
(* Optimistic locking. What has been stored of a row are versions up to the  *)
(* one in the table, no two of them the same, so that counting them gives    *)
(* that version, or the one before if the row was seeded.                    *)

StoredOf(c) == {w \in writes : w.code = c}

WritesOK ==
  /\ \A w \in writes : w.request \in Requests /\ w.code \in Codes /\ w.version \in Nat
  /\ \A w \in writes : w.version <= rows[w.code].version
  /\ \A x, y \in writes : x.code = y.code /\ x.version = y.version => x = y
  /\ \A c \in Codes : /\ IsFiniteSet(StoredOf(c))
                      /\ rows[c].version \in {Cardinality(StoredOf(c)), Cardinality(StoredOf(c)) + 1}

LEMMA InitWrites == Init => WritesOK
  <1> SUFFICES ASSUME Init PROVE WritesOK
    OBVIOUS
  <1>1. writes = {} /\ \A c \in Codes : StoredOf(c) = {} /\ rows[c].version \in {0, 1}
    BY DEF Init, StoredOf, NoRow, Row
  <1>2. \A c \in Codes : IsFiniteSet(StoredOf(c)) /\ Cardinality(StoredOf(c)) = 0
    BY <1>1, FS_EmptySet
  <1> QED
    BY <1>1, <1>2 DEF WritesOK

LEMMA NextWrites ==
  ASSUME TInv, WritesOK, [Next]_vars
  PROVE  WritesOK'
  <1>1. CASE writes' = writes /\ \A c \in Codes : rows'[c].version = rows[c].version
    <2>1. \A c \in Codes : StoredOf(c)' = StoredOf(c)
      BY <1>1 DEF StoredOf
    <2> QED
      BY <1>1, <2>1 DEF WritesOK
  <1>2. ASSUME NEW r \in Requests, Create(r) \/ Update(r)
        PROVE  WritesOK'
    <2>0. Stores(r)
      BY <1>2, CreateStores, UpdateStores
    <2>a. PICK c \in Codes : c = input[r].code
      BY <2>0 DEF Stores, AnyCall
    <2>b. PICK w : w = [request |-> r, code |-> c, version |-> rows[c].version + 1]
      OBVIOUS
    <2>c. w.request = r /\ w.code = c /\ w.version = rows[c].version + 1
      BY <2>b
    <2>1. /\ writes' = writes \cup {w}
          /\ rows'[c].version = rows[c].version + 1
          /\ \A d \in Codes \ {c} : rows'[d] = rows[d]
      BY <2>0, <2>a, <2>b DEF Stores
    <2>2. rows[c].version \in Nat
      BY Versions
    <2>3. \A x \in writes : x.code = c => x.version < w.version
      BY <2>2, <2>c DEF WritesOK
    <2>4. w \notin StoredOf(c)
      BY <2>3, <2>2, <2>c DEF StoredOf
    <2>5. StoredOf(c)' = StoredOf(c) \cup {w}
      BY <2>1, <2>c DEF StoredOf
    <2>6. \A d \in Codes \ {c} : StoredOf(d)' = StoredOf(d)
      BY <2>1, <2>c DEF StoredOf
    <2>7. /\ IsFiniteSet(StoredOf(c)') /\ Cardinality(StoredOf(c)') = Cardinality(StoredOf(c)) + 1
          /\ Cardinality(StoredOf(c)) \in Nat
      BY <2>4, <2>5, FS_AddElement, FS_CardinalityType DEF WritesOK
    <2>8. \A d \in Codes : /\ IsFiniteSet(StoredOf(d)')
                           /\ rows'[d].version \in {Cardinality(StoredOf(d)'), Cardinality(StoredOf(d)') + 1}
      <3> TAKE d \in Codes
      <3>1. CASE d = c
        BY <3>1, <2>1, <2>2, <2>7 DEF WritesOK
      <3>2. CASE d # c
        BY <3>2, <2>1, <2>6 DEF WritesOK
      <3> QED
        BY <3>1, <3>2
    <2>9. \A x \in writes' : x.request \in Requests /\ x.code \in Codes /\ x.version \in Nat
                             /\ x.version <= rows'[x.code].version
      <3> TAKE x \in writes'
      <3>1. CASE x = w
        BY <3>1, <2>1, <2>2, <2>c
      <3>2. CASE x \in writes
        BY <3>2, <2>1, <2>2, Versions DEF WritesOK
      <3> QED
        BY <3>1, <3>2, <2>1
    <2>10. \A x, y \in writes' : x.code = y.code /\ x.version = y.version => x = y
      BY <2>1, <2>3, <2>2, <2>c DEF WritesOK
    <2> QED
      BY <2>8, <2>9, <2>10 DEF WritesOK
  <1>3. ASSUME NEW r \in Requests, Delete(r)
        PROVE  writes' = writes /\ \A c \in Codes : rows'[c].version = rows[c].version
    BY <1>3, DeleteHides, DeleteKeeps
  <1> QED
    BY <1>1, <1>2, <1>3, TableSteps

\* Of any number of calls that name one version of a row a single one is written: no
\* version of a row is stored twice, and none is left out.
THEOREM OneWriterCorrect == Spec => []OneWriterPerVersion
  <1>1. Init => TInv /\ WritesOK
    BY InitTypes, InitWrites
  <1>2. TInv /\ WritesOK /\ [Next]_vars => TInv' /\ WritesOK'
    BY NextTypes, NextWrites
  <1>3. WritesOK => OneWriterPerVersion
    BY DEF WritesOK, StoredOf, OneWriterPerVersion
  <1> QED
    BY <1>1, <1>2, <1>3, PTL DEF Spec

-----------------------------------------------------------------------------
(* Deletion.                                                                 *)

LEMMA DeletedStep ==
  ASSUME TInv, [Next]_vars, NEW c \in Codes, rows[c].deleted
  PROVE  rows'[c] = rows[c]
  <1>1. rows[c].version > 0 /\ ~Live(c)
    BY DEF Live, TInv, Types, AnyRow, StoredRows, NoRow, Row
  <1>2. ASSUME NEW r \in Requests, Create(r) PROVE rows'[c] = rows[c]
    BY <1>1, <1>2, CreateStores DEF Stores
  <1>3. ASSUME NEW r \in Requests, Update(r) PROVE rows'[c] = rows[c]
    BY <1>1, <1>3, UpdateStores DEF Stores
  <1>4. ASSUME NEW r \in Requests, Delete(r) PROVE rows'[c] = rows[c]
    BY <1>1, <1>4, DeleteHides
  <1> QED
    BY <1>2, <1>3, <1>4, TableSteps

\* A deleted row stays as it is, whatever the calls that had read it before go on to do.
THEOREM DeletedFrozenCorrect == Spec => DeletedFrozen
  <1>1. TInv /\ [Next]_vars => [\A c \in Codes : rows[c].deleted => rows'[c] = rows[c]]_vars
    BY DeletedStep
  <1> QED
    BY <1>1, InitTypes, NextTypes, PTL DEF Spec, DeletedFrozen

-----------------------------------------------------------------------------
(* Legal changes. If clients name versions they have seen, a call names a    *)
(* version that existed when it arrived, so the row it reads later is at     *)
(* least that version; the comparison in the write finds the two equal only  *)
(* if nothing was stored in between, and then the row is the one the status  *)
(* graph was consulted on.                                                   *)

Writer(r) == input[r].op \in {"update", "transition"}

FreshCopy(r) ==
  LET row == rows[input[r].code] IN
  /\ input[r].expected <= snapshot[r].version
  /\ snapshot[r].version <= row.version
  /\ snapshot[r].version = row.version =>
       snapshot[r].status = row.status /\ snapshot[r].payload = row.payload
  /\ input[r].op = "transition" => CanTransition(Graph[kind], snapshot[r].status, input[r].target)

Fresh ==
  \A r \in Requests : Writer(r) =>
    /\ pc[r] = "read" => input[r].expected <= rows[input[r].code].version
    /\ pc[r] = "write" => FreshCopy(r)

\* The only ways to "read" and to "write".
LEMMA HandlerSteps ==
  ASSUME TInv, [Next]_vars, NEW q \in Requests, pc'[q] \in {"read", "write"}
  PROVE  \/ pc'[q] = pc[q] /\ input'[q] = input[q] /\ snapshot'[q] = snapshot[q]
         \/ Read(q)
         \/ \E op \in Operations, c \in Codes : \E call \in CallsTo(op, c) : Arrive(q, call)
  <1> DEFINE Same == pc'[q] = pc[q] /\ input'[q] = input[q] /\ snapshot'[q] = snapshot[q]
  <1>1. ASSUME NEW r \in Requests, NEW outcome \in Outcomes, NEW version \in Nat,
               InFlight(r), Answer(r, outcome, version)
        PROVE  Same
    BY <1>1, AnswerMoves DEF Moves
  <1>2. ASSUME NEW r \in Requests, NEW step \in {"audit", "reload"},
               Goto(r, step), UNCHANGED <<input, snapshot>>
        PROVE  Same
    BY <1>2 DEF Goto, TInv, Types
  <1>3. ASSUME NEW r \in Requests, InFlight(r), Written(r)
        PROVE  Same
    BY <1>1, <1>2, <1>3 DEF Written, Outcomes
  <1>4. ASSUME NEW r \in Requests, InFlight(r), AfterAudit(r)
        PROVE  Same
    <2>1. CASE input[r].op = "create"
      BY <1>1, <1>4, <2>1 DEF AfterAudit, Outcomes
    <2>2. CASE input[r].op = "delete"
      <3>1. \E outcome \in {"ok", "internal_error"} : Answer(r, outcome, 0)
        BY <1>4, <2>2 DEF AfterAudit
      <3> QED
        BY <1>1, <1>4, <3>1 DEF Outcomes
    <2>3. CASE input[r].op \notin {"create", "delete"}
      BY <1>2, <1>4, <2>3 DEF AfterAudit
    <2> QED
      BY <2>1, <2>2, <2>3
  <1>5. ASSUME NEW r \in Requests, Refusal(r)
        PROVE  Same
    BY <1>1, <1>5, RefusalStep
  <1>6. ASSUME NEW r \in Requests, Create(r) \/ Update(r) \/ Delete(r)
        PROVE  Same
    BY <1>3, <1>6 DEF Create, Update, Delete, InFlight
  <1>7. ASSUME NEW r \in Requests, Audit(r) \/ AuditSkipped(r)
        PROVE  Same
    BY <1>4, <1>7 DEF Audit, AuditSkipped, InFlight
  <1>8. ASSUME NEW r \in Requests, Reload(r)
        PROVE  Same
    <2>1. InFlight(r) /\ input[r].code \in Codes
      BY <1>8 DEF Reload, InFlight, TInv, HandlerOK, AnyCall
    <2> QED
      BY <1>1, <1>8, <2>1, Versions DEF Reload, Outcomes
  <1>9. ~Crash
    BY DEF Crash, InFlight, TInv, Types, Pcs
  <1>10. ASSUME NEW r \in Requests \ {q}, Read(r)
         PROVE  Same
    BY <1>10 DEF Read, Goto, TInv, Types
  <1>11. ASSUME NEW r \in Requests \ {q}, NEW op \in Operations, NEW c \in Codes,
                NEW call \in CallsTo(op, c), Arrive(r, call)
         PROVE  Same
    BY <1>11 DEF Arrive, Goto, TInv, Types
  <1>12. UNCHANGED vars => Same
    BY DEF vars
  <1> HIDE DEF Same
  <1>13. \/ Same \/ Read(q)
         \/ \E op \in Operations, c \in Codes : \E call \in CallsTo(op, c) : Arrive(q, call)
    BY <1>5, <1>6, <1>7, <1>8, <1>9, <1>10, <1>11, <1>12, Steps
  <1> QED
    BY <1>13 DEF Same

LEMMA NextFresh ==
  ASSUME Lookahead = 0, TInv, Fresh, [Next]_vars
  PROVE  Fresh'
  <1> SUFFICES ASSUME NEW q \in Requests, Writer(q)', pc'[q] \in {"read", "write"}
               PROVE  /\ pc'[q] = "read" => input'[q].expected <= rows'[input'[q].code].version
                      /\ pc'[q] = "write" => FreshCopy(q)'
    BY DEF Fresh
  <1>1. kind' = kind
    BY TableSteps, CreateStores, UpdateStores, DeleteHides DEF Stores
  <1>2. CASE pc'[q] = pc[q] /\ input'[q] = input[q] /\ snapshot'[q] = snapshot[q]
    <2>1. input[q] \in AnyCall /\ input[q].code \in Codes /\ input[q].expected \in Nat /\ Writer(q)
      BY <1>2 DEF TInv, HandlerOK, InFlight, AnyCall, Writer
    <2> DEFINE c == input[q].code
    <2>2. rows[c].version \in Nat /\ rows'[c].version \in Nat /\ rows'[c].version >= rows[c].version
      BY <2>1, Versions, VersionsGrow
    <2>3. CASE pc[q] = "read"
      BY <1>2, <2>1, <2>2, <2>3 DEF Fresh
    <2>4. CASE pc[q] = "write"
      <3>1. FreshCopy(q) /\ snapshot[q].version \in Nat
        BY <2>1, <2>4 DEF Fresh, Writer, TInv, HandlerOK, StoredRows
      <3>2. \/ rows'[c].version = rows[c].version /\ rows'[c].status = rows[c].status
               /\ rows'[c].payload = rows[c].payload
            \/ rows'[c].version > rows[c].version
        <4>1. ASSUME NEW r \in Requests, Create(r) \/ Update(r), input[r].code = c
              PROVE  rows'[c].version = rows[c].version + 1
          BY <4>1, CreateStores, UpdateStores DEF Stores
        <4> QED
          BY <2>1, <2>2, <4>1, RowSteps
      <3> QED
        BY <1>1, <1>2, <2>1, <2>2, <2>4, <3>1, <3>2 DEF FreshCopy
    <2> QED
      BY <1>2, <2>3, <2>4
  <1>3. CASE Read(q)
    <2>1. /\ input[q] \in AnyCall /\ input[q].code \in Codes /\ Writer(q)
          /\ rows' = rows /\ input' = input /\ pc'[q] = "write"
          /\ snapshot'[q] = rows[input[q].code]
      BY <1>3 DEF Read, Goto, TInv, Types, HandlerOK, InFlight, AnyCall, Writer, table
    <2>2. rows[input[q].code].version \in Nat /\ input[q].expected <= rows[input[q].code].version
      BY <1>3, <2>1, Versions DEF Read, Fresh
    <2>3. input[q].op = "transition" =>
            CanTransition(Graph[kind], rows[input[q].code].status, input[q].target)
      BY <1>3 DEF Read, BreaksRule
    <2> QED
      BY <1>1, <2>1, <2>2, <2>3 DEF FreshCopy
  <1>4. ASSUME NEW op \in Operations, NEW c \in Codes, NEW call \in CallsTo(op, c), Arrive(q, call)
        PROVE  /\ pc'[q] = "read" /\ input'[q] = call /\ rows' = rows /\ call.code = c
               /\ call.expected <= rows[c].version
    <2>1. /\ input'[q] = call /\ rows' = rows /\ call.op = op /\ call.code = c
          /\ pc'[q] = IF call.op = "create" THEN "write" ELSE "read"
      BY <1>4, CallTypes DEF Arrive, Goto, TInv, Types, table
    <2>2. op \in {"update", "transition"}
      BY <2>1 DEF Writer
    <2>3. call.expected \in 1 .. (rows[c].version + 0)
      BY <2>2 DEF CallsTo
    <2>4. rows[c].version \in Nat
      BY Versions
    <2> QED
      BY <2>1, <2>2, <2>3, <2>4
  <1> QED
    BY <1>2, <1>3, <1>4, HandlerSteps

LEMMA LegalStep ==
  ASSUME TInv, Fresh, [Next]_vars, NEW c \in Codes, rows[c].version > 0,
         rows'[c].version # rows[c].version
  PROVE  /\ rows'[c].version = rows[c].version + 1
         /\ \/ rows'[c].status = rows[c].status
            \/ CanTransition(Graph[kind], rows[c].status, rows'[c].status)
                 /\ rows'[c].payload = rows[c].payload
  <1>1. PICK r \in Requests : (Create(r) \/ Update(r)) /\ input[r].code = c
    BY RowSteps
  <1>2. Update(r)
    BY <1>1, CreateStores, Versions
  <1>3. /\ rows'[c].version = rows[c].version + 1 /\ rows[c].version = input[r].expected
        /\ rows'[c] = NewRow(r)
    BY <1>1, <1>2, UpdateStores DEF Stores
  <1>4. FreshCopy(r) /\ Writer(r) /\ snapshot[r].version \in Nat /\ rows[c].version \in Nat
    BY <1>2, Versions DEF Update, Writer, Fresh, TInv, HandlerOK, StoredRows
  <1>5. snapshot[r].status = rows[c].status /\ snapshot[r].payload = rows[c].payload
    BY <1>1, <1>3, <1>4 DEF FreshCopy
  <1>6. CASE input[r].op = "update"
    <2>1. NewRow(r).status = snapshot[r].status
      BY <1>6 DEF NewRow, Row
    <2> QED
      BY <1>3, <1>5, <2>1
  <1>7. CASE input[r].op = "transition"
    <2>1. NewRow(r).status = input[r].target /\ NewRow(r).payload = snapshot[r].payload
      BY <1>7 DEF NewRow, Row
    <2>2. CanTransition(Graph[kind], rows[c].status, input[r].target)
      BY <1>4, <1>5, <1>7 DEF FreshCopy
    <2> QED
      BY <1>3, <1>5, <2>1, <2>2
  <1> QED
    BY <1>4, <1>6, <1>7 DEF Writer

\* If clients name versions they have seen, a stored row turns into its edited self or
\* takes a step of the status graph, however calls interleave, fail and crash.
THEOREM LegalChangeCorrect == Lookahead = 0 => (Spec => LegalChange)
  <1> SUFFICES ASSUME Lookahead = 0 PROVE Spec => LegalChange
    OBVIOUS
  <1>1. Init => TInv /\ Fresh
    <2>1. Init => Fresh
      BY DEF Init, Fresh
    <2> QED
      BY <2>1, InitTypes
  <1>2. TInv /\ Fresh /\ [Next]_vars => TInv' /\ Fresh'
    BY NextTypes, NextFresh
  <1>3. TInv /\ Fresh /\ [Next]_vars =>
          [\A c \in Codes : rows[c].version > 0 /\ rows'[c].version # rows[c].version =>
             /\ rows'[c].version = rows[c].version + 1
             /\ \/ rows'[c].status = rows[c].status
                \/ CanTransition(Graph[kind], rows[c].status, rows'[c].status)
                     /\ rows'[c].payload = rows[c].payload]_vars
    BY LegalStep
  <1> QED
    BY <1>1, <1>2, <1>3, PTL DEF Spec, LegalChange

-----------------------------------------------------------------------------
(* Answers. A handler that has stored something is past its write, for the   *)
(* row its call is about; one that reloads has an update or a transition     *)
(* behind it, and a transition is in the log by then. Versions only grow, so *)
(* a reload finds what was stored or something later.                        *)

Logged(q, action) == \E entry \in audits : entry.request = q /\ entry.action = action

Honest(q) ==
  /\ pc[q] = "reload" => input[q].op \in {"update", "transition"}
  /\ pc[q] = "reload" /\ input[q].op = "transition" => Logged(q, "transition")
  /\ pc[q] # "done" => reply[q].outcome # "ok"
  /\ reply[q].outcome = "ok" /\ reply[q].op \in {"transition", "delete"} => Logged(q, reply[q].op)

\* The handler of q, still under way, has stored w.
StoredBy(w, q) ==
  /\ w.request = q
  /\ w.code = input[q].code
  /\ input[q].op # "delete"
  /\ input[q].op = "create" => w.version = 1

Shown(w) ==
  /\ pc[w.request] \in {"audit", "reload", "done"}
  /\ pc[w.request] # "done" => StoredBy(w, w.request)
  /\ reply[w.request].outcome = "ok" => reply[w.request].version >= w.version

AnswersOK == (\A q \in Requests : Honest(q)) /\ \A w \in writes : Shown(w)

\* What only r can have disturbed is looked at for r.
LEMMA OthersStay ==
  ASSUME WritesOK, AnswersOK, NEW r \in Requests, audits \subseteq audits',
         \A q \in Requests \ {r} : pc'[q] = pc[q] /\ input'[q] = input[q] /\ reply'[q] = reply[q],
         \A w \in writes' : w \in writes \/ w.request = r,
         Honest(r)', \A w \in writes' : w.request = r => Shown(w)'
  PROVE  AnswersOK'
  <1>1. ASSUME NEW q \in Requests \ {r} PROVE Honest(q)'
    BY <1>1 DEF AnswersOK, Honest, Logged
  <1>2. ASSUME NEW w \in writes', w.request # r PROVE Shown(w)'
    BY <1>2 DEF AnswersOK, WritesOK, Shown, StoredBy
  <1> QED
    BY <1>1, <1>2 DEF AnswersOK

\* An answer of failure shows nothing and acknowledges nothing.
LEMMA FailureAnswers ==
  ASSUME TInv, WritesOK, AnswersOK, NEW r \in Requests, InFlight(r),
         NEW outcome \in Outcomes \ {"ok"}, Answer(r, outcome, 0), audits \subseteq audits',
         \A w \in writes' : w \in writes \/ w.request = r
  PROVE  AnswersOK'
  <1>1. /\ Moves(r, "done") /\ pc'[r] = "done"
        /\ reply'[r] = [outcome |-> outcome, op |-> input[r].op, version |-> 0]
    BY AnswerMoves
  <1>2. Honest(r)' /\ \A w \in writes' : w.request = r => Shown(w)'
    BY <1>1 DEF Honest, Shown
  <1> QED
    BY <1>1, <1>2, OthersStay DEF Moves

LEMMA ArrivalAnswers ==
  ASSUME TInv, WritesOK, AnswersOK, NEW r \in Requests, NEW op \in Operations, NEW c \in Codes,
         NEW call \in CallsTo(op, c), Arrive(r, call)
  PROVE  AnswersOK'
  <1>1. /\ pc[r] = "idle" /\ pc'[r] \in {"read", "write"} /\ UNCHANGED <<audits, writes, reply>>
        /\ \A q \in Requests \ {r} : pc'[q] = pc[q] /\ input'[q] = input[q]
    BY DEF Arrive, Goto, table, TInv, Types
  <1>2. Honest(r)' /\ \A w \in writes' : w.request # r
    BY <1>1 DEF AnswersOK, Honest, Shown
  <1> QED
    BY <1>1, <1>2, OthersStay

LEMMA ReadAnswers ==
  ASSUME TInv, WritesOK, AnswersOK, NEW r \in Requests, Read(r)
  PROVE  AnswersOK'
  <1>1. /\ pc[r] = "read" /\ pc'[r] = "write" /\ UNCHANGED <<audits, writes, reply, input>>
        /\ \A q \in Requests \ {r} : pc'[q] = pc[q]
    BY DEF Read, Goto, table, TInv, Types
  <1>2. Honest(r)' /\ \A w \in writes' : w.request # r
    BY <1>1 DEF AnswersOK, Honest, Shown
  <1> QED
    BY <1>1, <1>2, OthersStay

\* What a write stores is the row of its own call, and the first version if it creates.
LEMMA WrittenAnswers ==
  ASSUME TInv, WritesOK, AnswersOK, NEW r \in Requests, Create(r) \/ Update(r) \/ Delete(r)
  PROVE  AnswersOK'
  <1>1. /\ pc[r] = "write" /\ InFlight(r) /\ Written(r) /\ audits' = audits
        /\ \A w \in writes : w.request # r
    BY DEF Create, Update, Delete, Store, InFlight, AnswersOK, Shown, StoredBy
  <1>2. \A w \in writes' : w \in writes \/ StoredBy(w, r)
    <2>1. CASE Delete(r)
      BY <2>1 DEF Delete
    <2>2. CASE Create(r)
      BY <2>2, CreateStores DEF Create, Stores, StoredBy
    <2>3. CASE Update(r)
      BY <2>3 DEF Update, Store, StoredBy
    <2> QED
      BY <2>1, <2>2, <2>3
  <1>3. CASE Answer(r, "internal_error", 0)
    <2>1. \A w \in writes' : w \in writes \/ w.request = r
      BY <1>2 DEF StoredBy
    <2>2. "internal_error" \in Outcomes \ {"ok"}
      BY DEF Outcomes
    <2> QED
      BY <1>1, <1>3, <2>1, <2>2, FailureAnswers
  <1>4. CASE Goto(r, "audit") /\ UNCHANGED <<input, snapshot, reply>>
    <2>1. pc'[r] = "audit" /\ \A q \in Requests \ {r} : pc'[q] = pc[q]
      BY <1>4 DEF Goto, TInv, Types
    <2>2. reply[r].outcome # "ok"
      BY <1>1 DEF AnswersOK, Honest
    <2>3. Honest(r)'
      BY <1>4, <2>1, <2>2 DEF Honest
    <2>4. \A w \in writes' : w.request = r => Shown(w)'
      BY <1>1, <1>2, <1>4, <2>1, <2>2 DEF Shown, StoredBy
    <2>5. \A w \in writes' : w \in writes \/ w.request = r
      BY <1>2 DEF StoredBy
    <2> QED
      BY <1>1, <1>4, <2>1, <2>3, <2>4, <2>5, OthersStay
  <1> QED
    BY <1>1, <1>3, <1>4 DEF Written

\* A transition goes on past the log only when its entry is in it.
LEMMA AuditAnswers ==
  ASSUME TInv, WritesOK, AnswersOK, NEW r \in Requests, Audit(r) \/ AuditSkipped(r)
  PROVE  AnswersOK'
  <1>1. /\ pc[r] = "audit" /\ InFlight(r) /\ AfterAudit(r) /\ writes' = writes
        /\ audits \subseteq audits' /\ input[r] \in AnyCall /\ reply[r].outcome # "ok"
    BY DEF Audit, AuditSkipped, table, InFlight, TInv, HandlerOK, AnswersOK, Honest
  <1> DEFINE LoggedNow == \E entry \in audits' : entry.request = r /\ entry.action = input[r].op
  <1>2. input[r].op \in {"transition", "delete"} => LoggedNow
    <2>1. ASSUME Audit(r) PROVE LoggedNow
      <3>1. /\ AuditEntry(r) \in audits'
            /\ AuditEntry(r).request = r /\ AuditEntry(r).action = input[r].op
        BY <2>1 DEF Audit, AuditEntry
      <3> QED
        BY <3>1
    <2> QED
      BY <2>1 DEF AuditSkipped
  <1>3. CASE input[r].op = "create"
    <2>1. Answer(r, "ok", 1)
      BY <1>1, <1>3 DEF AfterAudit
    <2>2. /\ Moves(r, "done") /\ pc'[r] = "done"
          /\ reply'[r] = [outcome |-> "ok", op |-> input[r].op, version |-> 1]
      BY <1>1, <2>1, AnswerMoves DEF Outcomes
    <2>3. Honest(r)'
      BY <1>3, <2>2 DEF Honest
    <2>4. ASSUME NEW w \in writes', w.request = r PROVE Shown(w)'
      <3>1. Shown(w)
        BY <1>1, <2>4 DEF AnswersOK
      <3>2. w.version = 1
        BY <1>1, <1>3, <2>4, <3>1 DEF Shown, StoredBy
      <3> QED
        BY <2>2, <2>4, <3>2 DEF Shown, StoredBy
    <2> QED
      BY <1>1, <2>2, <2>3, <2>4, OthersStay DEF Moves
  <1>4. CASE input[r].op = "delete"
    <2>1. PICK outcome \in {"ok", "internal_error"} : Answer(r, outcome, 0)
      BY <1>1, <1>4 DEF AfterAudit
    <2>2. /\ Moves(r, "done") /\ pc'[r] = "done"
          /\ reply'[r] = [outcome |-> outcome, op |-> input[r].op, version |-> 0]
      BY <1>1, <2>1, AnswerMoves DEF Outcomes
    <2>3. \A w \in writes' : w.request # r
      <3> SUFFICES ASSUME NEW w \in writes, w.request = r PROVE FALSE
        BY <1>1
      <3>1. Shown(w)
        BY DEF AnswersOK
      <3> QED
        BY <1>1, <1>4, <3>1 DEF Shown, StoredBy
    <2>4. Honest(r)'
      BY <1>2, <1>4, <2>2 DEF Honest, Logged
    <2> QED
      BY <1>1, <2>2, <2>3, <2>4, OthersStay DEF Moves
  <1>5. CASE input[r].op \notin {"create", "delete"}
    <2>1. Goto(r, "reload") /\ UNCHANGED <<input, snapshot, reply>>
      BY <1>1, <1>5 DEF AfterAudit
    <2>2. pc'[r] = "reload" /\ \A q \in Requests \ {r} : pc'[q] = pc[q]
      BY <2>1 DEF Goto, TInv, Types
    <2>3. Honest(r)'
      BY <1>1, <1>2, <1>5, <2>1, <2>2 DEF Honest, AnyCall, Operations, Logged
    <2>4. \A w \in writes' : w.request = r => Shown(w)'
      BY <1>1, <2>1, <2>2 DEF AnswersOK, Shown, StoredBy
    <2> QED
      BY <1>1, <2>1, <2>2, <2>3, <2>4, OthersStay
  <1> QED
    BY <1>3, <1>4, <1>5

LEMMA ReloadAnswers ==
  ASSUME TInv, WritesOK, AnswersOK, NEW r \in Requests, Reload(r)
  PROVE  AnswersOK'
  <1>1. /\ pc[r] = "reload" /\ InFlight(r) /\ UNCHANGED <<writes, audits>>
        /\ input[r].code \in Codes
        /\ input[r].op \in {"update", "transition"}
    BY DEF Reload, InFlight, TInv, HandlerOK, AnyCall, table, AnswersOK, Honest
  <1> DEFINE version == rows[input[r].code].version
  <1>2. version \in Nat
    BY <1>1, Versions
  <1>3. /\ Moves(r, "done") /\ pc'[r] = "done"
        /\ reply'[r] = [outcome |-> "ok", op |-> input[r].op, version |-> version]
    BY <1>1, <1>2, AnswerMoves DEF Reload, Outcomes
  <1>4. Honest(r)'
    BY <1>1, <1>3 DEF AnswersOK, Honest, Logged
  <1>5. ASSUME NEW w \in writes', w.request = r PROVE Shown(w)'
    <2>1. w \in writes /\ Shown(w)
      BY <1>1, <1>5 DEF AnswersOK
    <2>2. w.code = input[r].code
      BY <1>1, <1>5, <2>1 DEF Shown, StoredBy
    <2>3. w.version \in Nat /\ w.version <= version
      BY <2>1, <2>2 DEF WritesOK
    <2> QED
      BY <1>2, <1>3, <1>5, <2>3 DEF Shown, StoredBy
  <1> HIDE DEF version
  <1> QED
    BY <1>1, <1>3, <1>4, <1>5, OthersStay DEF Moves

\* The connection of every call in flight breaks; nothing stored or logged is lost.
LEMMA CrashAnswers ==
  ASSUME TInv, WritesOK, AnswersOK, Crash
  PROVE  AnswersOK'
  <1>1. /\ UNCHANGED <<audits, writes>>
        /\ \A q \in Requests : IF InFlight(q) THEN pc'[q] = "done" /\ reply'[q].outcome # "ok"
                                              ELSE pc'[q] = pc[q] /\ reply'[q] = reply[q]
    BY DEF Crash, table, NoReply
  <1>2. ASSUME NEW q \in Requests PROVE Honest(q)'
    BY <1>1 DEF AnswersOK, Honest, Logged, InFlight
  <1>3. ASSUME NEW w \in writes' PROVE Shown(w)'
    BY <1>1 DEF AnswersOK, WritesOK, Shown, StoredBy, InFlight
  <1> QED
    BY <1>2, <1>3 DEF AnswersOK

LEMMA NextAnswers ==
  ASSUME TInv, WritesOK, AnswersOK, [Next]_vars
  PROVE  AnswersOK'
  <1>1. CASE UNCHANGED vars
    <2>1. UNCHANGED <<pc, input, reply, audits, writes>>
      BY <1>1 DEF vars
    <2> QED
      BY <2>1 DEF AnswersOK, Honest, Shown, StoredBy, Logged
  <1>2. ASSUME NEW r \in Requests, Refusal(r) PROVE AnswersOK'
    BY <1>2, RefusalStep, FailureAnswers DEF table
  <1> QED
    BY <1>1, <1>2, Steps, ArrivalAnswers, ReadAnswers, WrittenAnswers, AuditAnswers,
       ReloadAnswers, CrashAnswers

LEMMA AnswersHold == Spec => [](WritesOK /\ AnswersOK)
  <1>1. Init => TInv /\ WritesOK /\ AnswersOK
    <2>1. Init => AnswersOK
      BY DEF Init, AnswersOK, Honest, NoReply
    <2> QED
      BY <2>1, InitTypes, InitWrites
  <1>2. TInv /\ WritesOK /\ AnswersOK /\ [Next]_vars => TInv' /\ WritesOK' /\ AnswersOK'
    BY NextTypes, NextWrites, NextAnswers
  <1> QED
    BY <1>1, <1>2, PTL DEF Spec

\* Whoever is told that a call succeeded is shown what it stored, or something later.
THEOREM ReplyShowsOwnWriteCorrect == Spec => []ReplyShowsOwnWrite
  <1>1. AnswersOK => ReplyShowsOwnWrite
    BY DEF AnswersOK, Shown, ReplyShowsOwnWrite
  <1> QED
    BY <1>1, AnswersHold, PTL

\* An acknowledged transition or delete is in the audit log, whatever failed or crashed.
THEOREM AckedChangeAuditedCorrect == Spec => []AckedChangeAudited
  <1>1. AnswersOK => AckedChangeAudited
    BY DEF AnswersOK, Honest, Logged, AckedChangeAudited
  <1> QED
    BY <1>1, AnswersHold, PTL
=============================================================================

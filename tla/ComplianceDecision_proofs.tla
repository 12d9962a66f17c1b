---------------------- MODULE ComplianceDecision_proofs ----------------------
(* Theorems about ComplianceDecision, for every set of codes, requests and   *)
(* users, every payload and every Lookahead.                                 *)
EXTENDS ComplianceDecision, TLAPS

-----------------------------------------------------------------------------
(* What a handler in flight relies on. A create or an update has passed the  *)
(* validation of its fields, and what an update or a transition will write   *)
(* over was a created row.                                                   *)

HandlerOK ==
  /\ \A c \in Codes : rows[c].version > 0 => rows[c].payload \in Payloads
  /\ \A r \in Requests : InFlight(r) => input[r] \in AnyCall
  /\ \A r \in Requests : pc[r] = "read" => input[r].op # "create"
  /\ \A r \in Requests : pc[r] = "write" /\ input[r].op \in {"create", "update"} =>
       input[r].payload \in Payloads
  /\ \A r \in Requests : pc[r] = "write" /\ input[r].op \in {"update", "transition"} =>
       snapshot[r].payload \in Payloads

TInv == TypeOK /\ HandlerOK

LEMMA StatusNames == Statuses = {"draft", "review", "accepted", "escalated"}
  BY DEF Statuses, ComplianceDecisionTransitions

LEMMA NoRowType == NoRow \in Rows
  BY StatusNames DEF NoRow, Rows, InitialStatus

LEMMA CallTypes ==
  ASSUME TypeOK, NEW op \in Operations, NEW c \in Codes, NEW call \in CallsTo(op, c)
  PROVE  /\ call \in AnyCall
         /\ op \in {"create", "update"} /\ call.payload # Blank => call.payload \in Payloads
  <1>1. KnownVersions(c) \subseteq Nat
    BY LookaheadAssumption DEF KnownVersions, TypeOK, Rows
  <1> QED
    BY <1>1, StatusNames DEF CallsTo, AnyCall, InitialStatus, Operations

\* The handler of r is over and nothing else about handlers has changed.
Settled(r) ==
  /\ pc' \in [Requests -> Pcs]
  /\ input' \in [Requests -> AnyCall \cup {NoInput}]
  /\ snapshot' \in [Requests -> Rows]
  /\ reply' \in [Requests -> Replies]
  /\ pc'[r] = "done"
  /\ \A q \in Requests \ {r} :
       pc'[q] = pc[q] /\ input'[q] = input[q] /\ snapshot'[q] = snapshot[q]

LEMMA AnswerSettles ==
  ASSUME TypeOK, NEW r \in Requests, NEW call \in AnyCall, NEW outcome \in Outcomes,
         NEW version \in Nat, NEW history \in SUBSET Nat,
         Answer(r, call, outcome, version, history)
  PROVE  Settled(r)
  <1>1. [outcome |-> outcome, op |-> call.op, code |-> call.code,
         version |-> version, history |-> history] \in Replies
    BY DEF Replies, AnyCall
  <1>2. pc' = [pc EXCEPT ![r] = "done"]
    BY DEF Answer, Goto
  <1> QED
    BY <1>1, <1>2, NoRowType DEF Answer, TypeOK, Pcs, Settled

LEMMA RefuseSettles ==
  ASSUME TInv, NEW r \in Requests, InFlight(r), NEW outcome \in Outcomes, Refuse(r, outcome)
  PROVE  Settled(r)
  <1>1. input[r] \in AnyCall
    BY DEF TInv, HandlerOK
  <1> QED
    BY <1>1, AnswerSettles DEF Refuse, TInv

LEMMA SettledTypes ==
  ASSUME TInv, NEW r \in Requests, Settled(r), UNCHANGED database
  PROVE  TInv'
  <1>1. TypeOK'
    BY DEF Settled, TInv, TypeOK, database
  <1>2. HandlerOK'
    BY DEF Settled, TInv, HandlerOK, InFlight, database
  <1> QED
    BY <1>1, <1>2 DEF TInv

LEMMA InitTypes == Init => TInv
  <1> SUFFICES ASSUME Init PROVE TInv
    OBVIOUS
  <1>1. rows \in [Codes -> Rows] /\ \A c \in Codes : rows[c].version > 0 => rows[c].payload \in Payloads
    <2>1. ASSUME NEW s \in SeedStatuses, NEW p \in Payloads
          PROVE  Seeded(s, p) \in Rows /\ Seeded(s, p).payload = p
      BY StatusNames DEF Seeded, SeedStatuses, Rows
    <2>2. \A c \in Codes : rows[c] = NoRow \/ \E s \in SeedStatuses, p \in Payloads : rows[c] = Seeded(s, p)
      BY DEF Init
    <2>3. rows = [c \in Codes |-> rows[c]]
      BY DEF Init
    <2>4. NoRow.version = 0
      BY DEF NoRow
    <2> HIDE DEF Init
    <2> QED
      BY <2>1, <2>2, <2>3, <2>4, NoRowType
  <1>2. revisions \subseteq Revisions
    <2> SUFFICES ASSUME NEW c \in Codes, rows[c].version = 1 PROVE SeedRevision(c) \in Revisions
      BY DEF Init
    <2> QED
      BY <1>1 DEF SeedRevision, Revisions, Rows
  <1>3. audits \subseteq Audits /\ pc \in [Requests -> Pcs] /\ snapshot \in [Requests -> Rows]
    BY NoRowType DEF Init, Pcs
  <1>4. input \in [Requests -> AnyCall \cup {NoInput}] /\ reply \in [Requests -> Replies]
    BY DEF Init, Replies, NoReply, Outcomes
  <1>5. HandlerOK
    BY <1>1 DEF Init, HandlerOK, InFlight
  <1> QED
    BY <1>1, <1>2, <1>3, <1>4, <1>5 DEF TInv, TypeOK

-----------------------------------------------------------------------------
(* The steps that write, one lemma each.                                     *)

\* A row and its revision, written for the call of r.
LEMMA StoreTypes ==
  ASSUME TypeOK, NEW r \in Requests, input[r] \in AnyCall, NEW c \in Codes,
         NEW row \in Rows, row.payload \in Payloads, Store(r, c, row)
  PROVE  rows' \in [Codes -> Rows] /\ revisions' \subseteq Revisions /\ audits' \subseteq Audits
  <1>1. [code |-> c, version |-> row.version, state |-> row.status, payload |-> row.payload,
         actor |-> input[r].user, request |-> r] \in Revisions
    BY DEF Revisions, Rows, AnyCall
  <1> QED
    BY <1>1 DEF Store, TypeOK

LEMMA NewRowTypes ==
  ASSUME TInv, NEW r \in Requests, pc[r] = "write", input[r].op \in {"update", "transition"}
  PROVE  NewRow(r) \in Rows /\ NewRow(r).payload \in Payloads /\ NewRow(r).version = input[r].expected + 1
  <1>1. input[r] \in AnyCall /\ snapshot[r] \in Rows
    BY DEF TInv, TypeOK, HandlerOK, InFlight
  <1>2. snapshot[r].payload \in Payloads /\ (input[r].op = "update" => input[r].payload \in Payloads)
    BY DEF TInv, HandlerOK
  <1>3. /\ input[r].expected + 1 \in Nat
        /\ input[r].target \in Statuses
        /\ input[r].payload \in Payloads \cup {Blank}
    BY <1>1 DEF AnyCall
  <1>4. CASE input[r].op = "update"
    <2>1. NewRow(r) = [snapshot[r] EXCEPT !.payload = input[r].payload, !.version = input[r].expected + 1]
      BY <1>4 DEF NewRow
    <2> QED
      BY <1>1, <1>2, <1>3, <1>4, <2>1 DEF Rows
  <1>5. CASE input[r].op # "update"
    <2>1. NewRow(r) = [snapshot[r] EXCEPT !.status = input[r].target, !.version = input[r].expected + 1]
      BY <1>5 DEF NewRow
    <2> QED
      BY <1>1, <1>2, <1>3, <2>1 DEF Rows
  <1> QED
    BY <1>4, <1>5

\* After a commit the handler audits or has reported an error.
LEMMA CommittedTypes ==
  ASSUME TInv, NEW r \in Requests, pc[r] = "write", Committed(r)
  PROVE  /\ pc' \in [Requests -> Pcs]
         /\ input' \in [Requests -> AnyCall \cup {NoInput}]
         /\ snapshot' \in [Requests -> Rows]
         /\ reply' \in [Requests -> Replies]
         /\ pc'[r] \in {"audit", "done"}
         /\ pc'[r] = "audit" => input'[r] = input[r] /\ snapshot'[r] = snapshot[r]
         /\ \A q \in Requests \ {r} :
              pc'[q] = pc[q] /\ input'[q] = input[q] /\ snapshot'[q] = snapshot[q]
  <1>1. CASE Goto(r, "audit") /\ UNCHANGED <<input, snapshot, reply>>
    BY <1>1 DEF Goto, TInv, TypeOK, Pcs
  <1>2. CASE Refuse(r, "internal_error")
    <2>1. InFlight(r) /\ "internal_error" \in Outcomes
      BY DEF InFlight, Outcomes
    <2> QED
      BY <1>2, <2>1, RefuseSettles DEF Settled
  <1> QED
    BY <1>1, <1>2 DEF Committed

\* Handlers after a commit, given what it did to the rows.
LEMMA CommittedHandlers ==
  ASSUME TInv, NEW r \in Requests, pc[r] = "write", Committed(r),
         \A c \in Codes : rows'[c].version > 0 => rows'[c].payload \in Payloads
  PROVE  HandlerOK'
  <1>1. input[r] \in AnyCall
    BY DEF TInv, HandlerOK, InFlight
  <1> QED
    BY <1>1, CommittedTypes DEF HandlerOK, TInv, InFlight

-----------------------------------------------------------------------------
(* The steps of a handler that end it with an error and touch no table.      *)

Refusal(r) ==
  \/ ReadMissing(r) \/ ReadRefused(r) \/ CreateTaken(r) \/ VersionConflict(r)
  \/ DeleteMissing(r) \/ LoadMissing(r) \/ Fail(r)

LEMMA RefusalStep ==
  ASSUME NEW r \in Requests, Refusal(r)
  PROVE  /\ InFlight(r)
         /\ UNCHANGED database
         /\ \E outcome \in Outcomes \ {"ok"} : Refuse(r, outcome)
  BY DEF Refusal, ReadMissing, ReadRefused, CreateTaken, VersionConflict, DeleteMissing,
         LoadMissing, Fail, InFlight, Outcomes

LEMMA RefusalTypes ==
  ASSUME TInv, NEW r \in Requests, Refusal(r)
  PROVE  TInv'
  BY RefusalStep, RefuseSettles, SettledTypes

LEMMA ArrivalTypes ==
  ASSUME TInv, NEW r \in Requests, NEW op \in Operations, NEW c \in Codes,
         NEW call \in CallsTo(op, c),
         Arrive(r, call) \/ Forbid(r, call) \/ RefuseCreate(r, call)
  PROVE  TInv'
  <1>1. /\ call \in AnyCall
        /\ call.op \in {"create", "update"} /\ call.payload # Blank => call.payload \in Payloads
    <2>1. call.op = op
      BY DEF CallsTo
    <2> QED
      BY <2>1, CallTypes DEF TInv
  <1>2. CASE Arrive(r, call)
    <2>1. /\ FirstStep(call.op) \in {"reload", "write", "read"}
          /\ FirstStep(call.op) = "write" <=> call.op = "create"
      BY DEF FirstStep
    <2>2. pc' = [pc EXCEPT ![r] = FirstStep(call.op)] /\ input' = [input EXCEPT ![r] = call]
      BY <1>2 DEF Arrive, Goto
    <2>3. FirstStep(call.op) \in Pcs
      BY <2>1 DEF Pcs
    <2>4. TypeOK'
      BY <1>1, <1>2, <2>2, <2>3 DEF TInv, TypeOK, Arrive, database
    <2>5. call.op = "create" => call.payload \in Payloads
      BY <1>1, <1>2 DEF Arrive, Acceptable
    <2>6. HandlerOK'
      BY <1>1, <1>2, <2>1, <2>2, <2>5 DEF TInv, TypeOK, HandlerOK, InFlight, Arrive, database
    <2> QED
      BY <2>4, <2>6 DEF TInv
  <1>3. CASE Forbid(r, call) \/ RefuseCreate(r, call)
    <2>1. \E outcome \in Outcomes : Answer(r, call, outcome, 0, {}) /\ UNCHANGED database
      BY <1>3 DEF Forbid, RefuseCreate, Outcomes
    <2>2. Settled(r) /\ UNCHANGED database
      BY <1>1, <2>1, AnswerSettles DEF TInv
    <2> QED
      BY <2>2, SettledTypes
  <1> QED
    BY <1>2, <1>3

LEMMA CreateTypes ==
  ASSUME TInv, NEW r \in Requests, Create(r)
  PROVE  TInv'
  <1>1. /\ pc[r] = "write" /\ input[r].op = "create" /\ Committed(r)
        /\ Store(r, input[r].code, Seeded(InitialStatus, input[r].payload))
    BY DEF Create
  <1>2. input[r] \in AnyCall /\ input[r].code \in Codes /\ input[r].payload \in Payloads
    BY <1>1 DEF TInv, HandlerOK, InFlight, AnyCall
  <1>3. /\ Seeded(InitialStatus, input[r].payload) \in Rows
        /\ Seeded(InitialStatus, input[r].payload).payload \in Payloads
    BY <1>2, StatusNames DEF Seeded, Rows, InitialStatus
  <1>4. rows' \in [Codes -> Rows] /\ revisions' \subseteq Revisions /\ audits' \subseteq Audits
    BY <1>1, <1>2, <1>3, StoreTypes DEF TInv
  <1>5. \A c \in Codes : rows'[c].version > 0 => rows'[c].payload \in Payloads
    BY <1>1, <1>2, <1>3 DEF Store, TInv, TypeOK, HandlerOK
  <1> QED
    BY <1>1, <1>4, <1>5, CommittedTypes, CommittedHandlers DEF TInv, TypeOK

LEMMA UpdateTypes ==
  ASSUME TInv, NEW r \in Requests, UpdateWithRevision(r)
  PROVE  TInv'
  <1>1. /\ pc[r] = "write" /\ input[r].op \in {"update", "transition"}
        /\ Committed(r) /\ Store(r, input[r].code, NewRow(r))
    BY DEF UpdateWithRevision
  <1>2. input[r] \in AnyCall /\ input[r].code \in Codes
    BY <1>1 DEF TInv, HandlerOK, InFlight, AnyCall
  <1>3. NewRow(r) \in Rows /\ NewRow(r).payload \in Payloads
    BY <1>1, NewRowTypes
  <1>4. rows' \in [Codes -> Rows] /\ revisions' \subseteq Revisions /\ audits' \subseteq Audits
    BY <1>1, <1>2, <1>3, StoreTypes DEF TInv
  <1>5. \A c \in Codes : rows'[c].version > 0 => rows'[c].payload \in Payloads
    BY <1>1, <1>2, <1>3 DEF Store, TInv, TypeOK, HandlerOK
  <1> QED
    BY <1>1, <1>4, <1>5, CommittedTypes, CommittedHandlers DEF TInv, TypeOK

LEMMA DeleteTypes ==
  ASSUME TInv, NEW r \in Requests, Delete(r)
  PROVE  TInv'
  <1>1. pc[r] = "write" /\ Committed(r)
    BY DEF Delete
  <1>2. \A c \in Codes : rows'[c] \in Rows /\ rows'[c].version = rows[c].version
                         /\ rows'[c].payload = rows[c].payload
    <2>1. \A row \in Rows : LET hidden == [row EXCEPT !.deleted = TRUE] IN
            hidden \in Rows /\ hidden.version = row.version /\ hidden.payload = row.payload
      BY DEF Rows
    <2>2. \A c \in Codes : rows'[c] = IF c = input[r].code THEN [rows[c] EXCEPT !.deleted = TRUE] ELSE rows[c]
      BY DEF Delete, TInv, TypeOK
    <2>3. \A c \in Codes : rows[c] \in Rows
      BY DEF TInv, TypeOK
    <2> QED
      BY <2>1, <2>2, <2>3
  <1>3. rows' \in [Codes -> Rows]
    BY <1>2 DEF Delete, TInv, TypeOK
  <1>4. \A c \in Codes : rows'[c].version > 0 => rows'[c].payload \in Payloads
    BY <1>2 DEF TInv, HandlerOK
  <1> QED
    BY <1>1, <1>3, <1>4, CommittedTypes, CommittedHandlers DEF Delete, TInv, TypeOK

\* A handler that goes on to a step other than "write", with its call unchanged.
LEMMA GotoHandlers ==
  ASSUME TInv, NEW r \in Requests, InFlight(r), NEW step \in {"audit", "reload", "revisions"},
         Goto(r, step), UNCHANGED <<rows, input>>,
         \A q \in Requests \ {r} : snapshot'[q] = snapshot[q]
  PROVE  HandlerOK' /\ pc' \in [Requests -> Pcs]
  BY DEF Goto, TInv, TypeOK, HandlerOK, InFlight, Pcs

LEMMA AuditTypes ==
  ASSUME TInv, NEW r \in Requests, Audit(r)
  PROVE  TInv'
  <1>1. InFlight(r) /\ input[r] \in AnyCall /\ snapshot[r] \in Rows
    BY DEF Audit, InFlight, TInv, TypeOK, HandlerOK
  <1>2. AuditEntry(r) \in Audits
    <2>1. (IF input[r].op = "create" THEN "" ELSE snapshot[r].status) \in Statuses \cup {""}
      BY <1>1 DEF Rows
    <2>2. (CASE input[r].op = "delete"     -> "deleted"
             [] input[r].op = "transition" -> input[r].target
             [] OTHER                      -> InitialStatus) \in Statuses \cup {"deleted"}
      BY <1>1, StatusNames DEF AnyCall, InitialStatus
    <2> QED
      BY <1>1, <2>1, <2>2 DEF AuditEntry, Audits, AnyCall
  <1>3. audits' \subseteq Audits /\ UNCHANGED <<rows, revisions>>
    BY <1>2 DEF Audit, TInv, TypeOK
  <1>4. CASE input[r].op = "delete"
    <2>1. PICK outcome \in {"ok", "internal_error"} : Answer(r, input[r], outcome, 0, {})
      BY <1>4 DEF Audit
    <2>2. Settled(r)
      BY <1>1, <2>1, AnswerSettles DEF TInv, Outcomes
    <2>3. TypeOK'
      BY <1>3, <2>2 DEF Settled, TInv, TypeOK
    <2>4. HandlerOK'
      BY <1>3, <2>2 DEF Settled, TInv, HandlerOK, InFlight
    <2> QED
      BY <2>3, <2>4 DEF TInv
  <1>5. CASE input[r].op # "delete"
    <2>1. Goto(r, "reload") /\ UNCHANGED <<input, snapshot, reply>>
      BY <1>5 DEF Audit
    <2>2. HandlerOK' /\ pc' \in [Requests -> Pcs]
      BY <1>1, <1>3, <2>1, GotoHandlers
    <2> QED
      BY <1>3, <2>1, <2>2 DEF TInv, TypeOK
  <1> QED
    BY <1>4, <1>5

LEMMA ReadTypes ==
  ASSUME TInv, NEW r \in Requests, Read(r)
  PROVE  TInv'
  <1>1. InFlight(r) /\ input[r] \in AnyCall /\ input[r].code \in Codes
    BY DEF Read, InFlight, TInv, HandlerOK, AnyCall
  <1>2. pc' = [pc EXCEPT ![r] = "write"] /\ snapshot' = [snapshot EXCEPT ![r] = rows[input[r].code]]
    BY DEF Read, Goto
  <1>3. TypeOK'
    BY <1>1, <1>2 DEF Read, TInv, TypeOK, Pcs, database
  <1>4. rows[input[r].code].payload \in Payloads
    BY <1>1 DEF Read, Live, TInv, HandlerOK
  <1>5. input[r].op = "update" => input[r].payload \in Payloads
    BY <1>1 DEF Read, BreaksRule, AnyCall
  <1>6. input[r].op # "create"
    BY DEF Read, TInv, HandlerOK
  <1>7. HandlerOK'
    BY <1>1, <1>2, <1>4, <1>5, <1>6 DEF Read, TInv, TypeOK, HandlerOK, InFlight, database
  <1> QED
    BY <1>3, <1>7 DEF TInv

LEMMA LoadTypes ==
  ASSUME TInv, NEW r \in Requests, AuditSkipped(r) \/ LoadRow(r) \/ LoadRevisions(r)
  PROVE  TInv'
  <1>1. InFlight(r) /\ input[r] \in AnyCall /\ input[r].code \in Codes
    BY DEF AuditSkipped, LoadRow, LoadRevisions, InFlight, TInv, HandlerOK, AnyCall
  <1>2. CASE AuditSkipped(r)
    <2>1. HandlerOK' /\ pc' \in [Requests -> Pcs]
      BY <1>1, <1>2, GotoHandlers DEF AuditSkipped, database
    <2> QED
      BY <1>2, <2>1 DEF AuditSkipped, TInv, TypeOK, database
  <1>3. CASE LoadRow(r)
    <2>1. HandlerOK' /\ pc' \in [Requests -> Pcs]
      BY <1>1, <1>3, GotoHandlers DEF LoadRow, database, TInv, TypeOK
    <2>2. snapshot' \in [Requests -> Rows]
      BY <1>1, <1>3 DEF LoadRow, TInv, TypeOK
    <2> QED
      BY <1>3, <2>1, <2>2 DEF LoadRow, TInv, TypeOK, database
  <1>4. CASE LoadRevisions(r)
    <2>1. snapshot[r].version \in Nat
      BY DEF TInv, TypeOK, Rows
    <2>2. {rev.version : rev \in RevisionsOf(input[r].code)} \in SUBSET Nat
      BY DEF TInv, TypeOK, RevisionsOf, Revisions
    <2>3. Settled(r)
      BY <1>1, <1>4, <2>1, <2>2, AnswerSettles DEF LoadRevisions, TInv, Outcomes
    <2> QED
      BY <1>4, <2>3, SettledTypes DEF LoadRevisions
  <1> QED
    BY <1>2, <1>3, <1>4

LEMMA CrashTypes ==
  ASSUME TInv, Crash
  PROVE  TInv'
  <1>1. \A r \in Requests : InFlight(r) =>
          [NoReply EXCEPT !.outcome = "no_response", !.op = input[r].op, !.code = input[r].code]
            \in Replies
    <2> SUFFICES ASSUME NEW r \in Requests, InFlight(r)
                 PROVE  [NoReply EXCEPT !.outcome = "no_response", !.op = input[r].op,
                                        !.code = input[r].code] \in Replies
      OBVIOUS
    <2>1. input[r].op \in Operations /\ input[r].code \in Codes
      BY DEF TInv, HandlerOK, AnyCall
    <2> QED
      BY <2>1 DEF NoReply, Replies, Outcomes
  <1>2. TypeOK'
    BY <1>1, NoRowType DEF Crash, TInv, TypeOK, Pcs, database
  <1>3. HandlerOK'
    BY DEF Crash, TInv, TypeOK, HandlerOK, InFlight, database
  <1> QED
    BY <1>2, <1>3 DEF TInv

LEMMA NextTypes == TInv /\ [Next]_vars => TInv'
  <1> SUFFICES ASSUME TInv, [Next]_vars PROVE TInv'
    OBVIOUS
  <1>1. ASSUME NEW r \in Requests, Handle(r) \/ Fail(r)
        PROVE  TInv'
    BY <1>1, RefusalTypes, CreateTypes, UpdateTypes, DeleteTypes, AuditTypes, ReadTypes, LoadTypes
    DEF Handle, Refusal
  <1>2. CASE UNCHANGED vars
    BY <1>2 DEF vars, TInv, TypeOK, HandlerOK, InFlight
  <1> QED
    BY <1>1, <1>2, ArrivalTypes, CrashTypes DEF Next, Finished

\* Type correctness, with what every handler relies on: a handler never writes
\* business fields that the service refuses, whatever the interleaving.
THEOREM TypeCorrect == Spec => []TypeOK
  <1>1. Spec => []TInv
    BY InitTypes, NextTypes, PTL DEF Spec
  <1> QED
    BY <1>1, PTL DEF TInv

-----------------------------------------------------------------------------
(* The history of every decision. Only three kinds of step touch rows or     *)
(* revisions, and two of them store a row one version above the stored one.  *)

LEMMA WritingSteps ==
  ASSUME [Next]_vars
  PROVE  \/ UNCHANGED <<rows, revisions>>
         \/ \E r \in Requests : Create(r) \/ UpdateWithRevision(r) \/ Delete(r)
  <1>1. ASSUME NEW r \in Requests, Handle(r) \/ Fail(r)
        PROVE  UNCHANGED <<rows, revisions>> \/ Create(r) \/ UpdateWithRevision(r) \/ Delete(r)
    BY <1>1, RefusalStep
    DEF Handle, Refusal, Read, Audit, AuditSkipped, LoadRow, LoadRevisions, database
  <1> QED
    BY <1>1 DEF Next, Arrive, Forbid, RefuseCreate, Crash, Finished, vars, database

\* The revision a store adds.
StoredRevision(r, c, row) ==
  [code |-> c, version |-> row.version, state |-> row.status, payload |-> row.payload,
   actor |-> input[r].user, request |-> r]

LEMMA CreateStores ==
  ASSUME TInv, NEW r \in Requests, Create(r)
  PROVE  \E row \in Rows : /\ Store(r, input[r].code, row)
                           /\ row = Seeded(InitialStatus, input[r].payload)
                           /\ row.version = rows[input[r].code].version + 1
  <1>1. input[r] \in AnyCall
    BY DEF Create, TInv, HandlerOK, InFlight
  <1>2. /\ Seeded(InitialStatus, input[r].payload) \in Rows
        /\ Seeded(InitialStatus, input[r].payload).version = 1
    BY <1>1, StatusNames DEF Seeded, Rows, InitialStatus, AnyCall
  <1>3. rows[input[r].code].version = 0 /\ Store(r, input[r].code, Seeded(InitialStatus, input[r].payload))
    BY DEF Create
  <1> QED
    BY <1>2, <1>3

LEMMA UpdateStores ==
  ASSUME TInv, NEW r \in Requests, UpdateWithRevision(r)
  PROVE  \E row \in Rows : /\ Store(r, input[r].code, row)
                           /\ row = NewRow(r)
                           /\ row.version = rows[input[r].code].version + 1
  BY NewRowTypes DEF UpdateWithRevision, VersionMatches

LEMMA CallCode == TInv => \A r \in Requests : InFlight(r) => input[r].code \in Codes /\ input[r].user \in Users
  BY DEF TInv, HandlerOK, AnyCall

LEMMA StoreHistory ==
  ASSUME TypeOK, HistoryMatchesRow, NEW r \in Requests, NEW c \in Codes, NEW row \in Rows,
         row.version = rows[c].version + 1, Store(r, c, row)
  PROVE  HistoryMatchesRow'
  <1> DEFINE new == StoredRevision(r, c, row)
  <1>1. /\ revisions' = revisions \cup {new}
        /\ rows' \in [Codes -> Rows] /\ rows'[c] = row
        /\ \A d \in Codes \ {c} : rows'[d] = rows[d]
    BY DEF Store, StoredRevision, TypeOK
  <1>2. new.code = c /\ new.version = rows[c].version + 1 /\ new.state = row.status /\ new.payload = row.payload
    BY DEF StoredRevision
  <1>3. \A d \in Codes : rows[d].version \in Nat
    BY DEF TypeOK, Rows
  <1>4. \A rev \in revisions : rev.code \in Codes /\ rev.version \in 1 .. rows[rev.code].version
    BY DEF TypeOK, Revisions, HistoryMatchesRow, RevisionsOf
  <1> HIDE DEF new
  <1>5. ASSUME NEW d \in Codes
        PROVE  {rev.version : rev \in RevisionsOf(d)'} = 1 .. rows'[d].version
    <2>1. CASE d = c
      <3>1. RevisionsOf(d)' = RevisionsOf(c) \cup {new}
        BY <1>1, <1>2, <2>1 DEF RevisionsOf
      <3>2. {rev.version : rev \in RevisionsOf(d)'} = {rev.version : rev \in RevisionsOf(c)} \cup {new.version}
        BY <3>1
      <3>3. {rev.version : rev \in RevisionsOf(c)} = 1 .. rows[c].version
        BY DEF HistoryMatchesRow
      <3>4. (1 .. rows[c].version) \cup {rows[c].version + 1} = 1 .. (rows[c].version + 1)
        BY <1>3
      <3> QED
        BY <1>1, <1>2, <2>1, <3>2, <3>3, <3>4
    <2>2. CASE d # c
      <3>1. RevisionsOf(d)' = RevisionsOf(d)
        BY <1>1, <1>2, <2>2 DEF RevisionsOf
      <3> QED
        BY <1>1, <2>2, <3>1 DEF HistoryMatchesRow
    <2> QED
      BY <2>1, <2>2
  <1>6. ASSUME NEW x \in revisions', NEW y \in revisions', x.code = y.code, x.version = y.version
        PROVE  x = y
    <2>1. \A rev \in revisions : rev.code = c => rev.version # new.version
      BY <1>2, <1>3, <1>4
    <2> QED
      BY <1>1, <1>2, <1>6, <2>1 DEF HistoryMatchesRow
  <1>7. ASSUME NEW rev \in revisions', rev.version = rows'[rev.code].version
        PROVE  rev.state = rows'[rev.code].status /\ rev.payload = rows'[rev.code].payload
    <2>1. CASE rev = new
      BY <1>1, <1>2, <2>1
    <2>2. CASE rev \in revisions
      <3>1. rev.code # c
        BY <1>1, <1>3, <1>4, <1>7, <2>2
      <3> QED
        BY <1>1, <1>4, <1>7, <2>2, <3>1 DEF HistoryMatchesRow
    <2> QED
      BY <1>1, <2>1, <2>2
  <1> QED
    BY <1>5, <1>6, <1>7 DEF HistoryMatchesRow

LEMMA InitHistory == Init => HistoryMatchesRow
  <1> SUFFICES ASSUME Init PROVE HistoryMatchesRow
    OBVIOUS
  <1>1. \A c \in Codes : rows[c].version \in {0, 1}
    BY DEF Init, NoRow, Seeded
  <1>2. revisions = {SeedRevision(c) : c \in {d \in Codes : rows[d].version = 1}}
    BY DEF Init
  <1>3. \A c \in Codes : SeedRevision(c).code = c /\ SeedRevision(c).version = 1
          /\ SeedRevision(c).state = rows[c].status /\ SeedRevision(c).payload = rows[c].payload
    BY DEF SeedRevision
  <1>4. ASSUME NEW c \in Codes
        PROVE  {rev.version : rev \in RevisionsOf(c)} = 1 .. rows[c].version
    <2>1. CASE rows[c].version = 0
      <3>1. RevisionsOf(c) = {}
        BY <1>2, <1>3, <2>1 DEF RevisionsOf
      <3> QED
        BY <2>1, <3>1
    <2>2. CASE rows[c].version = 1
      <3>1. RevisionsOf(c) = {SeedRevision(c)}
        BY <1>2, <1>3, <2>2 DEF RevisionsOf
      <3> QED
        BY <1>3, <2>2, <3>1
    <2> QED
      BY <1>1, <2>1, <2>2
  <1> QED
    BY <1>2, <1>3, <1>4 DEF HistoryMatchesRow

LEMMA NextHistory == TInv /\ HistoryMatchesRow /\ [Next]_vars => HistoryMatchesRow'
  <1> SUFFICES ASSUME TInv, HistoryMatchesRow, [Next]_vars PROVE HistoryMatchesRow'
    OBVIOUS
  <1>1. CASE UNCHANGED <<rows, revisions>>
    BY <1>1 DEF HistoryMatchesRow, RevisionsOf
  <1>2. ASSUME NEW r \in Requests, Create(r) \/ UpdateWithRevision(r)
        PROVE  HistoryMatchesRow'
    <2>1. input[r].code \in Codes
      BY <1>2, CallCode DEF Create, UpdateWithRevision, InFlight
    <2> QED
      BY <1>2, <2>1, CreateStores, UpdateStores, StoreHistory DEF TInv
  <1>3. ASSUME NEW r \in Requests, Delete(r)
        PROVE  HistoryMatchesRow'
    <2>1. \A row \in Rows : LET hidden == [row EXCEPT !.deleted = TRUE] IN
            hidden.version = row.version /\ hidden.payload = row.payload /\ hidden.status = row.status
      BY DEF Rows
    <2>2. \A c \in Codes : rows'[c].version = rows[c].version /\ rows'[c].status = rows[c].status
                           /\ rows'[c].payload = rows[c].payload
      BY <1>3, <2>1 DEF Delete, TInv, TypeOK
    <2>3. revisions' = revisions /\ \A rev \in revisions : rev.code \in Codes
      BY <1>3 DEF Delete, TInv, TypeOK, Revisions
    <2> QED
      BY <2>2, <2>3 DEF HistoryMatchesRow, RevisionsOf
  <1> QED
    BY <1>1, <1>2, <1>3, WritingSteps

\* The revisions of a decision number its versions from 1 without a gap and the
\* last one is the row, for any number of concurrent calls, whatever version a
\* client names, and through every failure and crash.
THEOREM HistoryCorrect == Spec => []HistoryMatchesRow
  <1>1. Init => TInv /\ HistoryMatchesRow
    BY InitTypes, InitHistory
  <1>2. TInv /\ HistoryMatchesRow /\ [Next]_vars => TInv' /\ HistoryMatchesRow'
    BY NextTypes, NextHistory
  <1> QED
    BY <1>1, <1>2, PTL DEF Spec

-----------------------------------------------------------------------------
(* What a handler about to write has made sure of. A step brings a handler   *)
(* to "read" by its arrival and to "write" by its read, or by the arrival of *)
(* a create; otherwise it stays where it was or is past the write.           *)

LEMMA HandlerSteps ==
  ASSUME TInv, [Next]_vars, NEW q \in Requests
  PROVE  \/ pc'[q] \notin {"read", "write"}
         \/ pc'[q] = pc[q] /\ input'[q] = input[q] /\ snapshot'[q] = snapshot[q]
         \/ \E op \in Operations, c \in Codes : \E call \in CallsTo(op, c) : Arrive(q, call)
         \/ Read(q)
  <1>1. CASE UNCHANGED vars
    BY <1>1 DEF vars
  <1>2. CASE Crash
    BY <1>2 DEF Crash, InFlight, TInv, TypeOK
  <1>3. ASSUME NEW r \in Requests, Refusal(r)
        PROVE  \/ pc'[q] = "done"
               \/ pc'[q] = pc[q] /\ input'[q] = input[q] /\ snapshot'[q] = snapshot[q]
    BY <1>3, RefusalStep, RefuseSettles DEF Settled
  <1>4. ASSUME NEW r \in Requests, Create(r) \/ UpdateWithRevision(r) \/ Delete(r)
        PROVE  \/ pc'[q] \in {"audit", "done"}
               \/ pc'[q] = pc[q] /\ input'[q] = input[q] /\ snapshot'[q] = snapshot[q]
    BY <1>4, CommittedTypes DEF Create, UpdateWithRevision, Delete
  <1>5. ASSUME NEW r \in Requests, Audit(r) \/ AuditSkipped(r) \/ LoadRow(r) \/ LoadRevisions(r)
        PROVE  \/ pc'[q] \in {"reload", "revisions", "done"}
               \/ pc'[q] = pc[q] /\ input'[q] = input[q] /\ snapshot'[q] = snapshot[q]
    BY <1>5 DEF Audit, AuditSkipped, LoadRow, LoadRevisions, Answer, Goto, TInv, TypeOK
  <1>6. ASSUME NEW r \in Requests, Read(r)
        PROVE  \/ Read(q)
               \/ pc'[q] = pc[q] /\ input'[q] = input[q] /\ snapshot'[q] = snapshot[q]
    BY <1>6 DEF Read, Goto, TInv, TypeOK
  <1>7. ASSUME NEW r \in Requests, NEW op \in Operations, NEW c \in Codes, NEW call \in CallsTo(op, c),
               Arrive(r, call) \/ Forbid(r, call) \/ RefuseCreate(r, call)
        PROVE  \/ pc'[q] = "done"
               \/ pc'[q] = pc[q] /\ input'[q] = input[q] /\ snapshot'[q] = snapshot[q]
               \/ Arrive(q, call)
    BY <1>7 DEF Arrive, Forbid, RefuseCreate, Answer, Goto, TInv, TypeOK
  <1>8. ASSUME NEW r \in Requests, Handle(r) \/ Fail(r)
        PROVE  \/ pc'[q] \notin {"read", "write"}
               \/ pc'[q] = pc[q] /\ input'[q] = input[q] /\ snapshot'[q] = snapshot[q]
               \/ Read(q)
    BY <1>3, <1>4, <1>5, <1>6, <1>8 DEF Handle, Refusal
  <1> QED
    BY <1>1, <1>2, <1>7, <1>8 DEF Next, Finished

\* A handler that writes over a row keeps the rules on the row it has read.
DecidedOnSnapshot ==
  \A r \in Requests : pc[r] = "write" /\ input[r].op # "create" =>
    ~BreaksRule(input[r], snapshot[r])

LEMMA NextDecided == TInv /\ DecidedOnSnapshot /\ [Next]_vars => DecidedOnSnapshot'
  <1> SUFFICES ASSUME TInv, DecidedOnSnapshot, [Next]_vars, NEW q \in Requests,
                      pc'[q] = "write", input'[q].op # "create"
               PROVE  ~BreaksRule(input'[q], snapshot'[q])
    BY DEF DecidedOnSnapshot, BreaksRule
  <1>1. CASE pc'[q] = pc[q] /\ input'[q] = input[q] /\ snapshot'[q] = snapshot[q]
    BY <1>1 DEF DecidedOnSnapshot
  <1>2. ASSUME NEW op \in Operations, NEW c \in Codes, NEW call \in CallsTo(op, c), Arrive(q, call)
        PROVE  FALSE
    BY <1>2 DEF Arrive, Goto, FirstStep, TInv, TypeOK
  <1>3. CASE Read(q)
    BY <1>3 DEF Read, TInv, TypeOK
  <1> QED
    BY <1>1, <1>2, <1>3, HandlerSteps

LEMMA InitDecided == Init => DecidedOnSnapshot
  BY DEF Init, DecidedOnSnapshot

LEMMA NextFinal ==
  TInv /\ DecidedOnSnapshot /\ FinalStateByReviewer /\ [Next]_vars => FinalStateByReviewer'
  <1> SUFFICES ASSUME TInv, DecidedOnSnapshot, FinalStateByReviewer, [Next]_vars
               PROVE  FinalStateByReviewer'
    OBVIOUS
  <1>1. CASE revisions' = revisions
    BY <1>1 DEF FinalStateByReviewer
  <1>2. ASSUME NEW r \in Requests, NEW c \in Codes, NEW row, Store(r, c, row),
               row.status \in FinalStatuses => Role[input[r].user] \in ReviewerRoles
        PROVE  FinalStateByReviewer'
    BY <1>2 DEF Store, FinalStateByReviewer
  <1>3. ASSUME NEW r \in Requests, Create(r)
        PROVE  FinalStateByReviewer'
    <2>1. input[r].code \in Codes
      BY <1>3, CallCode DEF Create, InFlight
    <2>2. Seeded(InitialStatus, input[r].payload).status \notin FinalStatuses
      BY DEF Seeded, InitialStatus, FinalStatuses
    <2> QED
      BY <1>2, <1>3, <2>1, <2>2 DEF Create
  <1>4. ASSUME NEW r \in Requests, UpdateWithRevision(r)
        PROVE  FinalStateByReviewer'
    <2>1. input[r].code \in Codes /\ input[r].op \in {"update", "transition"} /\ snapshot[r] \in Rows
      BY <1>4, CallCode DEF UpdateWithRevision, InFlight, TInv, TypeOK
    <2>2. ~BreaksRule(input[r], snapshot[r])
      BY <1>4 DEF UpdateWithRevision, DecidedOnSnapshot
    <2>3. CASE input[r].op = "update"
      <3>1. NewRow(r).status = snapshot[r].status
        BY <2>1, <2>3 DEF NewRow, Rows
      <3>2. snapshot[r].status \notin FinalStatuses
        BY <2>2, <2>3 DEF BreaksRule, InitialStatus, FinalStatuses
      <3> QED
        BY <1>2, <1>4, <2>1, <3>1, <3>2 DEF UpdateWithRevision
    <2>4. CASE input[r].op = "transition"
      <3>1. NewRow(r).status = input[r].target
        BY <2>1, <2>4 DEF NewRow, Rows
      <3>2. input[r].target \in FinalStatuses => Role[input[r].user] \in ReviewerRoles
        BY <2>2, <2>4 DEF BreaksRule
      <3> QED
        BY <1>2, <1>4, <2>1, <3>1, <3>2 DEF UpdateWithRevision
    <2> QED
      BY <2>1, <2>3, <2>4
  <1> QED
    BY <1>1, <1>3, <1>4, WritingSteps DEF Delete

\* No interleaving lets a principal below reviewer accept or escalate: the role is
\* checked against the target, and the target is what gets written.
THEOREM FinalStateCorrect == Spec => []FinalStateByReviewer
  <1>1. Init => FinalStateByReviewer
    BY DEF Init, FinalStateByReviewer, SeedRevision
  <1>2. Init => TInv /\ DecidedOnSnapshot /\ FinalStateByReviewer
    BY <1>1, InitTypes, InitDecided
  <1>3. TInv /\ DecidedOnSnapshot /\ FinalStateByReviewer /\ [Next]_vars
          => TInv' /\ DecidedOnSnapshot' /\ FinalStateByReviewer'
    BY NextTypes, NextDecided, NextFinal
  <1> QED
    BY <1>2, <1>3, PTL DEF Spec

-----------------------------------------------------------------------------
(* Stale reads. With Lookahead = 0 a call names a version that existed when  *)
(* it arrived, so the row it reads later is at least that version, and the   *)
(* comparison in the write finds the two equal only if nothing was stored in *)
(* between.                                                                  *)

Overwrites(r) == input[r].op \in {"update", "transition"}

Fresh ==
  /\ \A r \in Requests : pc[r] = "read" /\ Overwrites(r) =>
       input[r].expected <= rows[input[r].code].version
  /\ \A r \in Requests : pc[r] = "write" /\ Overwrites(r) =>
       /\ input[r].expected <= snapshot[r].version
       /\ snapshot[r].version <= rows[input[r].code].version
       /\ snapshot[r].version = rows[input[r].code].version /\ ~rows[input[r].code].deleted
            => snapshot[r] = rows[input[r].code]

LEMMA FreshImplies == TInv /\ Fresh => SnapshotFresh
  <1> SUFFICES ASSUME TInv, Fresh, NEW r \in Requests, pc[r] = "write", Overwrites(r)
               PROVE  /\ input[r].expected <= snapshot[r].version
                      /\ VersionMatches(r) => snapshot[r] = rows[input[r].code]
    BY DEF SnapshotFresh, Overwrites
  <1>1. input[r].code \in Codes /\ input[r].expected \in Nat
    BY DEF TInv, HandlerOK, InFlight, AnyCall
  <1>2. rows[input[r].code].version \in Nat /\ snapshot[r].version \in Nat
    BY <1>1 DEF TInv, TypeOK, Rows
  <1> QED
    BY <1>1, <1>2 DEF Fresh, VersionMatches, Live

\* A row stays, or its version grows by one, or it is deleted.
LEMMA RowSteps ==
  ASSUME TInv, [Next]_vars, NEW c \in Codes
  PROVE  \/ rows'[c] = rows[c]
         \/ rows'[c].version = rows[c].version + 1
         \/ rows'[c].version = rows[c].version /\ rows'[c].deleted
  <1>1. ASSUME NEW r \in Requests, Create(r) \/ UpdateWithRevision(r)
        PROVE  rows'[c] = rows[c] \/ rows'[c].version = rows[c].version + 1
    <2>1. PICK row \in Rows : /\ Store(r, input[r].code, row)
                              /\ row.version = rows[input[r].code].version + 1
      BY <1>1, CreateStores, UpdateStores
    <2> QED
      BY <2>1 DEF Store, TInv, TypeOK
  <1>2. ASSUME NEW r \in Requests, Delete(r)
        PROVE  \/ rows'[c] = rows[c]
               \/ rows'[c].version = rows[c].version /\ rows'[c].deleted
    <2>1. \A row \in Rows : LET hidden == [row EXCEPT !.deleted = TRUE] IN
            hidden.version = row.version /\ hidden.deleted
      BY DEF Rows
    <2>2. rows'[c] = IF c = input[r].code THEN [rows[c] EXCEPT !.deleted = TRUE] ELSE rows[c]
      BY <1>2 DEF Delete, TInv, TypeOK
    <2>3. rows[c] \in Rows
      BY DEF TInv, TypeOK
    <2> QED
      BY <2>1, <2>2, <2>3
  <1> QED
    BY <1>1, <1>2, WritingSteps

LEMMA InitFresh == Init => Fresh
  BY DEF Init, Fresh

LEMMA NextFresh == Lookahead = 0 /\ TInv /\ Fresh /\ [Next]_vars => Fresh'
  <1> SUFFICES ASSUME Lookahead = 0, TInv, Fresh, [Next]_vars, NEW q \in Requests,
                      pc'[q] \in {"read", "write"}, input'[q].op \in {"update", "transition"}
               PROVE  /\ pc'[q] = "read" => input'[q].expected <= rows'[input'[q].code].version
                      /\ pc'[q] = "write" =>
                           /\ input'[q].expected <= snapshot'[q].version
                           /\ snapshot'[q].version <= rows'[input'[q].code].version
                           /\ snapshot'[q].version = rows'[input'[q].code].version
                                /\ ~rows'[input'[q].code].deleted
                                => snapshot'[q] = rows'[input'[q].code]
    BY DEF Fresh, Overwrites
  <1>1. CASE pc'[q] = pc[q] /\ input'[q] = input[q] /\ snapshot'[q] = snapshot[q]
    <2>1. input[q].code \in Codes /\ input[q].expected \in Nat
      BY <1>1 DEF TInv, HandlerOK, InFlight, AnyCall
    <2>2. rows[input[q].code].version \in Nat /\ snapshot[q].version \in Nat
      BY <2>1 DEF TInv, TypeOK, Rows
    <2>3. \/ rows'[input[q].code] = rows[input[q].code]
          \/ rows'[input[q].code].version = rows[input[q].code].version + 1
          \/ /\ rows'[input[q].code].version = rows[input[q].code].version
             /\ rows'[input[q].code].deleted
      BY <2>1, RowSteps
    <2> QED
      BY <1>1, <2>1, <2>2, <2>3 DEF Fresh, Overwrites
  <1>2. ASSUME NEW op \in Operations, NEW c \in Codes, NEW call \in CallsTo(op, c), Arrive(q, call)
        PROVE  /\ pc'[q] = "read"
               /\ input'[q].expected <= rows'[input'[q].code].version
    <2>1. input'[q] = call /\ pc'[q] = FirstStep(call.op) /\ rows' = rows
      BY <1>2 DEF Arrive, Goto, TInv, TypeOK, database
    <2>2. call.code = c /\ call.expected \in KnownVersions(c)
      BY <2>1 DEF CallsTo
    <2>3. rows[c].version \in Nat
      BY DEF TInv, TypeOK, Rows
    <2> QED
      BY <2>1, <2>2, <2>3 DEF KnownVersions, FirstStep
  <1>3. CASE Read(q)
    <2>1. /\ pc[q] = "read" /\ pc'[q] = "write" /\ input'[q] = input[q]
          /\ snapshot'[q] = rows[input[q].code] /\ rows' = rows
      BY <1>3 DEF Read, Goto, TInv, TypeOK, database
    <2>2. input[q].code \in Codes
      BY <2>1, CallCode DEF InFlight
    <2>3. rows[input[q].code].version \in Nat
      BY <2>2 DEF TInv, TypeOK, Rows
    <2> QED
      BY <2>1, <2>3 DEF Fresh, Overwrites
  <1> QED
    BY <1>1, <1>2, <1>3, HandlerSteps

\* A handler whose version still matches writes over the very row it has read.
THEOREM SnapshotFreshCorrect == Lookahead = 0 => (Spec => []SnapshotFresh)
  <1> SUFFICES ASSUME Lookahead = 0 PROVE Spec => []SnapshotFresh
    OBVIOUS
  <1>1. Init => TInv /\ Fresh
    BY InitTypes, InitFresh
  <1>2. TInv /\ Fresh /\ [Next]_vars => TInv' /\ Fresh'
    BY NextTypes, NextFresh
  <1>3. TInv /\ Fresh => SnapshotFresh
    BY FreshImplies
  <1> QED
    BY <1>1, <1>2, <1>3, PTL DEF Spec

-----------------------------------------------------------------------------
(* Legal histories. A stored revision continues the last one, which is the   *)
(* row, which is what the handler has read and decided on.                   *)

LInv == TInv /\ HistoryMatchesRow /\ DecidedOnSnapshot /\ Fresh /\ LegalHistory

\* Storing a legal continuation of the row keeps the history legal.
LEMMA StoreLegal ==
  ASSUME TypeOK, HistoryMatchesRow, LegalHistory,
         NEW r \in Requests, NEW c \in Codes, NEW row \in Rows,
         row.version = rows[c].version + 1, Store(r, c, row),
         rows[c].version = 0 \/ LegalStep([state |-> rows[c].status, payload |-> rows[c].payload],
                                          [state |-> row.status, payload |-> row.payload])
  PROVE  LegalHistory'
  <1> DEFINE new == StoredRevision(r, c, row)
  <1>1. revisions' = revisions \cup {new}
    BY DEF Store, StoredRevision
  <1>2. new.code = c /\ new.version = rows[c].version + 1 /\ new.state = row.status /\ new.payload = row.payload
    BY DEF StoredRevision
  <1>3. rows[c].version \in Nat
    BY DEF TypeOK, Rows
  <1>4. \A rev \in revisions : rev.code = c => rev.version \in 1 .. rows[c].version
    BY DEF HistoryMatchesRow, RevisionsOf
  <1> HIDE DEF new
  <1> SUFFICES ASSUME NEW x \in revisions', NEW y \in revisions',
                      x.code = y.code, y.version = x.version + 1
               PROVE  LegalStep(x, y)
    BY DEF LegalHistory, LegalStep
  <1>5. CASE x \in revisions /\ y \in revisions
    BY <1>5 DEF LegalHistory
  <1>6. CASE x = new
    BY <1>1, <1>2, <1>3, <1>4, <1>6
  <1>7. CASE x \in revisions /\ y = new
    <2>1. x.code = c /\ x.version = rows[c].version /\ rows[c].version > 0
      BY <1>2, <1>3, <1>4, <1>7
    <2>2. x.state = rows[c].status /\ x.payload = rows[c].payload
      BY <1>7, <2>1 DEF HistoryMatchesRow
    <2> QED
      BY <1>2, <1>3, <1>7, <2>1, <2>2 DEF LegalStep
  <1> QED
    BY <1>1, <1>5, <1>6, <1>7

\* What an update or a transition stores continues the row it stores it over.
LEMMA UpdateLegal ==
  ASSUME TInv, DecidedOnSnapshot, Fresh, NEW r \in Requests, UpdateWithRevision(r)
  PROVE  LegalStep([state |-> rows[input[r].code].status, payload |-> rows[input[r].code].payload],
                   [state |-> NewRow(r).status, payload |-> NewRow(r).payload])
  <1>1. /\ pc[r] = "write" /\ input[r].op \in {"update", "transition"} /\ VersionMatches(r)
        /\ snapshot[r] \in Rows
    BY DEF UpdateWithRevision, TInv, TypeOK
  <1>2. snapshot[r] = rows[input[r].code]
    BY <1>1, FreshImplies DEF SnapshotFresh
  <1>3. ~BreaksRule(input[r], snapshot[r])
    BY <1>1 DEF DecidedOnSnapshot
  <1>4. CASE input[r].op = "update"
    <2>1. NewRow(r).status = snapshot[r].status
      BY <1>1, <1>4 DEF NewRow, Rows
    <2>2. snapshot[r].status = InitialStatus
      BY <1>3, <1>4 DEF BreaksRule
    <2> QED
      BY <1>2, <2>1, <2>2 DEF LegalStep
  <1>5. CASE input[r].op = "transition"
    <2>1. NewRow(r).status = input[r].target /\ NewRow(r).payload = snapshot[r].payload
      BY <1>1, <1>5 DEF NewRow, Rows
    <2>2. CanTransition(ComplianceDecisionTransitions, snapshot[r].status, input[r].target)
      BY <1>3, <1>5 DEF BreaksRule
    <2> QED
      BY <1>2, <2>1, <2>2 DEF LegalStep
  <1> QED
    BY <1>1, <1>4, <1>5

LEMMA NextLegal == LInv /\ [Next]_vars => LegalHistory'
  <1> SUFFICES ASSUME LInv, [Next]_vars PROVE LegalHistory'
    OBVIOUS
  <1>1. CASE revisions' = revisions
    BY <1>1 DEF LInv, LegalHistory, LegalStep
  <1>2. ASSUME NEW r \in Requests, Create(r)
        PROVE  LegalHistory'
    <2>1. input[r].code \in Codes
      BY <1>2, CallCode DEF Create, InFlight, LInv
    <2>2. rows[input[r].code].version = 0
      BY <1>2 DEF Create
    <2> QED
      BY <1>2, <2>1, <2>2, CreateStores, StoreLegal DEF LInv, TInv
  <1>3. ASSUME NEW r \in Requests, UpdateWithRevision(r)
        PROVE  LegalHistory'
    <2>1. input[r].code \in Codes
      BY <1>3, CallCode DEF UpdateWithRevision, InFlight, LInv
    <2>2. PICK row \in Rows : /\ Store(r, input[r].code, row) /\ row = NewRow(r)
                              /\ row.version = rows[input[r].code].version + 1
      BY <1>3, UpdateStores DEF LInv
    <2> QED
      BY <1>3, <2>1, <2>2, UpdateLegal, StoreLegal DEF LInv, TInv
  <1> QED
    BY <1>1, <1>2, <1>3, WritingSteps DEF Delete

\* Provided clients name only versions they have seen, every history is legal: no
\* draft becomes accepted or escalated without review, and what is reviewed is
\* what is accepted, however calls interleave, fail or crash.
THEOREM LegalHistoryCorrect == Lookahead = 0 => (Spec => []LegalHistory)
  <1> SUFFICES ASSUME Lookahead = 0 PROVE Spec => []LegalHistory
    OBVIOUS
  <1>1. Init => LegalHistory
    BY DEF Init, LegalHistory, SeedRevision
  <1>2. Init => LInv
    BY <1>1, InitTypes, InitHistory, InitDecided, InitFresh DEF LInv
  <1>3. LInv /\ [Next]_vars => LInv'
    BY NextTypes, NextHistory, NextDecided, NextFresh, NextLegal DEF LInv
  <1> QED
    BY <1>2, <1>3, PTL DEF Spec, LInv

-----------------------------------------------------------------------------
(* Deletion.                                                                 *)

DeletedExisted == \A c \in Codes : rows[c].deleted => rows[c].version > 0

LEMMA NextExisted == TInv /\ DeletedExisted /\ [Next]_vars => DeletedExisted'
  <1> SUFFICES ASSUME TInv, DeletedExisted, [Next]_vars, NEW c \in Codes, rows'[c].deleted
               PROVE  rows'[c].version > 0
    BY DEF DeletedExisted
  <1>1. rows[c].version \in Nat
    BY DEF TInv, TypeOK, Rows
  <1>2. CASE rows' = rows
    BY <1>2 DEF DeletedExisted
  <1>3. ASSUME NEW r \in Requests, Create(r) \/ UpdateWithRevision(r)
        PROVE  rows'[c] = rows[c] \/ rows'[c].version = rows[c].version + 1
    <2>1. PICK row \in Rows : /\ Store(r, input[r].code, row)
                              /\ row.version = rows[input[r].code].version + 1
      BY <1>3, CreateStores, UpdateStores
    <2> QED
      BY <2>1 DEF Store, TInv, TypeOK
  <1>4. ASSUME NEW r \in Requests, Delete(r)
        PROVE  rows'[c].version = rows[c].version /\ (rows'[c] = rows[c] \/ rows[c].version > 0)
    <2>1. \A row \in Rows : [row EXCEPT !.deleted = TRUE].version = row.version
      BY DEF Rows
    <2>2. rows'[c] = IF c = input[r].code THEN [rows[c] EXCEPT !.deleted = TRUE] ELSE rows[c]
      BY <1>4 DEF Delete, TInv, TypeOK
    <2>3. rows[c] \in Rows /\ rows[input[r].code].version > 0
      BY <1>4 DEF Delete, Live, TInv, TypeOK
    <2> QED
      BY <2>1, <2>2, <2>3
  <1> QED
    BY <1>1, <1>2, <1>3, <1>4, WritingSteps DEF DeletedExisted

LEMMA DeletedStep ==
  ASSUME TInv, DeletedExisted, [Next]_vars, NEW c \in Codes, rows[c].deleted
  PROVE  rows'[c] = rows[c] /\ \A rev \in revisions' \ revisions : rev.code # c
  <1>1. ASSUME NEW r \in Requests, NEW row, NEW d \in Codes, d # c, Store(r, d, row)
        PROVE  rows'[c] = rows[c] /\ \A rev \in revisions' \ revisions : rev.code # c
    BY <1>1 DEF Store, TInv, TypeOK
  <1>2. ASSUME NEW r \in Requests, Create(r)
        PROVE  rows'[c] = rows[c] /\ \A rev \in revisions' \ revisions : rev.code # c
    <2>1. input[r].code \in Codes
      BY <1>2, CallCode DEF Create, InFlight
    <2>2. input[r].code # c
      BY <1>2 DEF Create, DeletedExisted
    <2> QED
      BY <1>1, <1>2, <2>1, <2>2 DEF Create
  <1>3. ASSUME NEW r \in Requests, UpdateWithRevision(r)
        PROVE  rows'[c] = rows[c] /\ \A rev \in revisions' \ revisions : rev.code # c
    <2>1. input[r].code \in Codes
      BY <1>3, CallCode DEF UpdateWithRevision, InFlight
    <2>2. input[r].code # c
      BY <1>3 DEF UpdateWithRevision, VersionMatches, Live
    <2> QED
      BY <1>1, <1>3, <2>1, <2>2 DEF UpdateWithRevision
  <1>4. ASSUME NEW r \in Requests, Delete(r)
        PROVE  rows'[c] = rows[c] /\ revisions' = revisions
    <2>1. input[r].code # c
      BY <1>4 DEF Delete, Live
    <2> QED
      BY <1>4, <2>1 DEF Delete, TInv, TypeOK
  <1> QED
    BY <1>2, <1>3, <1>4, WritingSteps

\* A deleted row is never found by id again and its code is never free again, so
\* no call, one that read the row before the delete included, changes it.
THEOREM DeletedFrozenCorrect == Spec => DeletedFrozen
  <1>1. Init => TInv /\ DeletedExisted
    <2>1. Init => DeletedExisted
      BY DEF Init, DeletedExisted, NoRow, Seeded
    <2> QED
      BY <2>1, InitTypes
  <1>2. TInv /\ DeletedExisted /\ [Next]_vars => TInv' /\ DeletedExisted'
    BY NextTypes, NextExisted
  <1>3. TInv /\ DeletedExisted /\ [Next]_vars =>
          [\A c \in Codes : rows[c].deleted =>
             rows'[c] = rows[c] /\ \A rev \in revisions' \ revisions : rev.code # c]_vars
    BY DeletedStep
  <1> QED
    BY <1>1, <1>2, <1>3, PTL DEF Spec, DeletedFrozen
=============================================================================

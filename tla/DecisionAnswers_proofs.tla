----------------------- MODULE DecisionAnswers_proofs -----------------------
(* Theorems about what the callers of ComplianceDecision are told and what   *)
(* the audit log says, for every set of codes, requests and users.           *)
EXTENDS ComplianceDecision_proofs, FiniteSetTheorems

-----------------------------------------------------------------------------
(* The traces of a call. A revision or an entry with its request id exists   *)
(* only once its handler is past the write or the insert, is about the row   *)
(* the call is about, and no answer of refusal can follow.                   *)

RefusedOutcomes == {"forbidden", "business_rule", "version_conflict"}

After(q) == IF input[q].op = "transition" THEN input[q].target ELSE InitialStatus

\* The revision rev is what the call of q, still under way, has stored.
StoredBy(rev, q) ==
  /\ rev.request = q /\ rev.code = input[q].code /\ rev.actor = input[q].user
  /\ input[q].op \in {"create", "update", "transition"}
  /\ rev.state = After(q)

RevisionOK(rev) ==
  rev.request \in Requests =>
    /\ pc[rev.request] \in {"audit", "reload", "revisions", "done"}
    /\ pc[rev.request] # "done" => StoredBy(rev, rev.request)
    /\ pc[rev.request] = "revisions" => rev.version <= snapshot[rev.request].version
    /\ reply[rev.request].outcome \notin RefusedOutcomes
    /\ reply[rev.request].outcome = "ok" => reply[rev.request].version >= rev.version

EntryOK(entry) ==
  /\ pc[entry.request] \in {"reload", "revisions", "done"}
  /\ reply[entry.request].outcome \notin RefusedOutcomes

Logged(q, action) == \E entry \in audits : entry.request = q /\ entry.action = action

\* What the answer of q shows, and what it is going to show.
AnswerOK(q) ==
  /\ pc[q] # "done" => reply[q].outcome = "none"
  /\ pc[q] \in {"reload", "revisions"} => input[q].op # "delete"
  /\ pc[q] \in {"reload", "revisions"} /\ input[q].op = "transition" => Logged(q, "transition")
  /\ pc[q] = "revisions" => snapshot[q].version \in 1 .. rows[input[q].code].version
  /\ reply[q].outcome = "ok" /\ reply[q].op \in {"transition", "delete"} => Logged(q, reply[q].op)
  /\ reply[q].outcome = "ok" /\ reply[q].op # "delete" =>
       /\ reply[q].version \in reply[q].history
       /\ reply[q].history = 1 .. Cardinality(reply[q].history)

TraceOK ==
  /\ \A rev \in revisions : RevisionOK(rev)
  /\ \A entry \in audits : EntryOK(entry)
  /\ \A q \in Requests : AnswerOK(q)

CInv == TInv /\ HistoryMatchesRow /\ DecidedOnSnapshot /\ TraceOK

\* Only the handler and the answer of r change.
Only(r) ==
  \A q \in Requests \ {r} : /\ pc'[q] = pc[q] /\ input'[q] = input[q]
                            /\ snapshot'[q] = snapshot[q] /\ reply'[q] = reply[q]

LEMMA AnswerOnly ==
  ASSUME TypeOK, NEW r \in Requests, NEW call, NEW outcome, NEW version, NEW history,
         Answer(r, call, outcome, version, history)
  PROVE  /\ Only(r) /\ pc'[r] = "done"
         /\ reply'[r] = [outcome |-> outcome, op |-> call.op, code |-> call.code,
                         version |-> version, history |-> history]
  BY DEF Answer, Goto, Only, TypeOK

LEMMA GotoOnly ==
  ASSUME TypeOK, NEW r \in Requests, NEW step, Goto(r, step), UNCHANGED reply,
         \A q \in Requests \ {r} : input'[q] = input[q] /\ snapshot'[q] = snapshot[q]
  PROVE  Only(r) /\ pc'[r] = step
  BY DEF Goto, Only, TypeOK

LEMMA VersionsGrow ==
  ASSUME TInv, [Next]_vars, NEW c \in Codes
  PROVE  rows[c].version \in Nat /\ rows'[c].version \in Nat /\ rows[c].version <= rows'[c].version
  <1>1. TypeOK'
    BY NextTypes DEF TInv
  <1>2. rows[c].version \in Nat /\ rows'[c].version \in Nat
    BY <1>1 DEF TInv, TypeOK, Rows
  <1> QED
    BY <1>2, RowSteps

\* What only r can have disturbed is looked at for r.
LEMMA OthersStay ==
  ASSUME TInv, TraceOK, [Next]_vars, NEW r \in Requests, Only(r), audits \subseteq audits',
         \A rev \in revisions' : rev \in revisions \/ rev.request = r,
         \A rev \in revisions' : rev.request = r => RevisionOK(rev)',
         \A entry \in audits' : entry \in audits \/ entry.request = r,
         \A entry \in audits' : entry.request = r => EntryOK(entry)',
         AnswerOK(r)'
  PROVE  TraceOK'
  <1>1. ASSUME NEW rev \in revisions', rev.request # r PROVE RevisionOK(rev)'
    <2>1. RevisionOK(rev)
      BY <1>1 DEF TraceOK
    <2> QED
      BY <1>1, <2>1 DEF RevisionOK, StoredBy, After, Only
  <1>2. ASSUME NEW entry \in audits', entry.request # r PROVE EntryOK(entry)'
    <2>1. EntryOK(entry) /\ entry.request \in Requests
      BY <1>2 DEF TraceOK, TInv, TypeOK, Audits
    <2> QED
      BY <1>2, <2>1 DEF EntryOK, Only
  <1>3. ASSUME NEW q \in Requests \ {r} PROVE AnswerOK(q)'
    <2>1. AnswerOK(q)
      BY <1>3 DEF TraceOK
    <2>2. pc'[q] = pc[q] /\ input'[q] = input[q] /\ snapshot'[q] = snapshot[q] /\ reply'[q] = reply[q]
      BY <1>3 DEF Only
    <2>3. pc[q] = "revisions" => snapshot[q].version \in 1 .. rows'[input[q].code].version
      <3> SUFFICES ASSUME pc[q] = "revisions"
                   PROVE  snapshot[q].version \in 1 .. rows'[input[q].code].version
        OBVIOUS
      <3>1. input[q].code \in Codes
        BY CallCode DEF InFlight
      <3>2. /\ rows[input[q].code].version \in Nat /\ rows'[input[q].code].version \in Nat
            /\ rows[input[q].code].version <= rows'[input[q].code].version
        BY <3>1, VersionsGrow
      <3> QED
        BY <2>1, <3>2 DEF AnswerOK
    <2> QED
      BY <2>1, <2>2, <2>3 DEF AnswerOK, Logged
  <1> QED
    BY <1>1, <1>2, <1>3 DEF TraceOK

\* A handler that has stored nothing and logged nothing may be answered anything but
\* success; one that has may be told of an error.
LEMMA FailureTraces ==
  ASSUME TInv, TraceOK, [Next]_vars, NEW r \in Requests, NEW call,
         NEW outcome, Answer(r, call, outcome, 0, {}), outcome # "ok",
         audits' = audits, \A rev \in revisions' : rev \in revisions \/ rev.request = r,
         outcome \in RefusedOutcomes =>
           \A rev \in revisions' : rev.request # r,
         outcome \in RefusedOutcomes => \A entry \in audits : entry.request # r
  PROVE  TraceOK'
  <1>1. Only(r) /\ pc'[r] = "done" /\ reply'[r].outcome = outcome
    <2>1. /\ Only(r) /\ pc'[r] = "done"
          /\ reply'[r] = [outcome |-> outcome, op |-> call.op, code |-> call.code,
                          version |-> 0, history |-> {}]
      BY AnswerOnly DEF TInv
    <2> QED
      BY <2>1
  <1>2. \A rev \in revisions' : rev.request = r => RevisionOK(rev)'
    BY <1>1 DEF RevisionOK
  <1>3. \A entry \in audits' : entry.request = r => EntryOK(entry)'
    BY <1>1 DEF EntryOK
  <1>4. AnswerOK(r)'
    BY <1>1 DEF AnswerOK
  <1> QED
    BY <1>1, <1>2, <1>3, <1>4, OthersStay

\* Up to the write there is no trace of a call.
LEMMA NoTraceYet ==
  ASSUME TInv, TraceOK, NEW r \in Requests, pc[r] \in {"idle", "read", "write"}
  PROVE  /\ \A rev \in revisions : rev.request # r
         /\ \A entry \in audits : entry.request # r
  BY DEF TraceOK, RevisionOK, EntryOK

LEMMA ArrivalTraces ==
  ASSUME TInv, TraceOK, [Next]_vars, NEW r \in Requests, NEW op \in Operations, NEW c \in Codes,
         NEW call \in CallsTo(op, c), Arrive(r, call) \/ Forbid(r, call) \/ RefuseCreate(r, call)
  PROVE  TraceOK'
  <1>1. /\ pc[r] = "idle" /\ UNCHANGED <<revisions, audits>>
        /\ \A rev \in revisions : rev.request # r
        /\ \A entry \in audits : entry.request # r
    BY NoTraceYet DEF Arrive, Forbid, RefuseCreate, database
  <1>2. CASE Forbid(r, call) \/ RefuseCreate(r, call)
    BY <1>1, <1>2, FailureTraces DEF Forbid, RefuseCreate
  <1>3. CASE Arrive(r, call)
    <2>1. /\ Goto(r, FirstStep(call.op)) /\ UNCHANGED reply
          /\ \A q \in Requests \ {r} : input'[q] = input[q] /\ snapshot'[q] = snapshot[q]
          /\ input'[r] = call
      BY <1>3 DEF Arrive, TInv, TypeOK
    <2>2. Only(r) /\ pc'[r] = FirstStep(call.op)
      BY <2>1, GotoOnly DEF TInv
    <2>3. /\ pc'[r] \in {"read", "write", "reload"}
          /\ pc'[r] = "reload" => call.op = "get"
      BY <2>2 DEF FirstStep
    <2>4. reply[r].outcome = "none"
      BY <1>1 DEF TraceOK, AnswerOK
    <2>5. AnswerOK(r)'
      BY <2>1, <2>3, <2>4 DEF AnswerOK
    <2> QED
      BY <1>1, <2>2, <2>5, OthersStay
  <1> QED
    BY <1>2, <1>3

LEMMA RefusalTraces ==
  ASSUME TInv, TraceOK, [Next]_vars, NEW r \in Requests, Refusal(r)
  PROVE  TraceOK'
  <1>1. InFlight(r) /\ UNCHANGED <<revisions, audits>>
    BY RefusalStep DEF database
  <1>2. PICK outcome : /\ Refuse(r, outcome) /\ outcome # "ok"
                       /\ outcome \in RefusedOutcomes => pc[r] \in {"read", "write"}
    BY DEF Refusal, ReadMissing, ReadRefused, CreateTaken, VersionConflict, DeleteMissing,
           LoadMissing, Fail, RefusedOutcomes
  <1>3. PICK call : call = input[r]
    OBVIOUS
  <1>4. Answer(r, call, outcome, 0, {})
    BY <1>2, <1>3 DEF Refuse
  <1> QED
    BY <1>1, <1>2, <1>4, NoTraceYet, FailureTraces

LEMMA ReadTraces ==
  ASSUME TInv, TraceOK, [Next]_vars, NEW r \in Requests, Read(r)
  PROVE  TraceOK'
  <1>1. /\ pc[r] = "read" /\ Goto(r, "write") /\ UNCHANGED <<revisions, audits, reply, input>>
        /\ \A q \in Requests \ {r} : input'[q] = input[q] /\ snapshot'[q] = snapshot[q]
    BY DEF Read, database, TInv, TypeOK
  <1>2. Only(r) /\ pc'[r] = "write"
    BY <1>1, GotoOnly DEF TInv
  <1>3. /\ \A rev \in revisions : rev.request # r
        /\ \A entry \in audits : entry.request # r
    BY <1>1, NoTraceYet
  <1>4. AnswerOK(r)'
    BY <1>1, <1>2 DEF TraceOK, AnswerOK
  <1> QED
    BY <1>1, <1>2, <1>3, <1>4, OthersStay

\* What a write stores.
LEMMA StoredState ==
  ASSUME TInv, DecidedOnSnapshot, NEW r \in Requests, Create(r) \/ UpdateWithRevision(r)
  PROVE  /\ audits' = audits
         /\ input[r].op \in {"create", "update", "transition"}
         /\ \E rev : revisions' = revisions \cup {rev} /\ StoredBy(rev, r)
  <1>1. pc[r] = "write" /\ input[r] \in AnyCall /\ snapshot[r] \in Rows
    BY DEF Create, UpdateWithRevision, TInv, TypeOK, HandlerOK, InFlight
  <1>2. CASE Create(r)
    <2>1. PICK row \in Rows : /\ Store(r, input[r].code, row)
                              /\ row = Seeded(InitialStatus, input[r].payload)
      BY <1>2, CreateStores
    <2>2. row.status = InitialStatus /\ input[r].op = "create"
      BY <1>2, <2>1 DEF Seeded, Create
    <2>3. StoredBy(StoredRevision(r, input[r].code, row), r)
      BY <2>2 DEF StoredRevision, StoredBy, After
    <2> QED
      BY <2>1, <2>2, <2>3 DEF Store, StoredRevision
  <1>3. CASE UpdateWithRevision(r)
    <2>1. /\ Store(r, input[r].code, NewRow(r)) /\ input[r].op \in {"update", "transition"}
          /\ ~BreaksRule(input[r], snapshot[r])
      BY <1>1, <1>3 DEF UpdateWithRevision, DecidedOnSnapshot
    <2>2. NewRow(r).status = After(r)
      <3>1. CASE input[r].op = "update"
        <4>1. NewRow(r).status = snapshot[r].status
          BY <1>1, <3>1 DEF NewRow, Rows
        <4>2. snapshot[r].status = InitialStatus
          BY <2>1, <3>1 DEF BreaksRule
        <4> QED
          BY <3>1, <4>1, <4>2 DEF After
      <3>2. CASE input[r].op = "transition"
        BY <1>1, <3>2 DEF NewRow, Rows, After
      <3> QED
        BY <2>1, <3>1, <3>2
    <2>3. StoredBy(StoredRevision(r, input[r].code, NewRow(r)), r)
      BY <2>1, <2>2 DEF StoredRevision, StoredBy
    <2> QED
      BY <2>1, <2>3 DEF Store, StoredRevision
  <1> QED
    BY <1>2, <1>3

LEMMA WrittenTraces ==
  ASSUME TInv, DecidedOnSnapshot, TraceOK, [Next]_vars, NEW r \in Requests,
         Create(r) \/ UpdateWithRevision(r) \/ Delete(r)
  PROVE  TraceOK'
  <1>1. /\ pc[r] = "write" /\ Committed(r) /\ audits' = audits
        /\ \A rev \in revisions : rev.request # r
        /\ \A entry \in audits : entry.request # r
    BY NoTraceYet, StoredState DEF Create, UpdateWithRevision, Delete
  <1>2. \A rev \in revisions' : rev \in revisions \/ StoredBy(rev, r)
    BY StoredState DEF Delete
  <1>3. \A rev \in revisions' : rev \in revisions \/ rev.request = r
    BY <1>2 DEF StoredBy
  <1>4. CASE Refuse(r, "internal_error")
    <2>1. PICK call : call = input[r]
      OBVIOUS
    <2>2. Answer(r, call, "internal_error", 0, {})
      BY <1>4, <2>1 DEF Refuse
    <2> QED
      BY <1>1, <1>3, <2>2, FailureTraces DEF RefusedOutcomes
  <1>5. CASE Goto(r, "audit") /\ UNCHANGED <<input, snapshot, reply>>
    <2>1. Only(r) /\ pc'[r] = "audit"
      BY <1>5, GotoOnly DEF TInv
    <2>2. reply[r].outcome = "none"
      BY <1>1 DEF TraceOK, AnswerOK
    <2>3. AnswerOK(r)'
      BY <1>5, <2>1, <2>2 DEF AnswerOK
    <2>4. ASSUME NEW rev \in revisions', rev.request = r PROVE RevisionOK(rev)'
      <3>1. StoredBy(rev, r)
        BY <1>1, <1>2, <2>4
      <3>2. StoredBy(rev, r)'
        BY <1>5, <3>1 DEF StoredBy, After
      <3> QED
        BY <1>5, <2>1, <2>2, <2>4, <3>2 DEF RevisionOK, RefusedOutcomes
    <2> QED
      BY <1>1, <1>3, <2>1, <2>3, <2>4, OthersStay
  <1> QED
    BY <1>1, <1>4, <1>5 DEF Committed

\* A revision of r seen from a handler that goes on to another step.
LEMMA GoingOn ==
  ASSUME NEW r \in Requests, TraceOK, pc[r] \in {"audit", "reload", "revisions"},
         NEW rev \in revisions, rev.request = r
  PROVE  StoredBy(rev, r)
  BY DEF TraceOK, RevisionOK

LEMMA AuditTraces ==
  ASSUME TInv, TraceOK, [Next]_vars, NEW r \in Requests, Audit(r) \/ AuditSkipped(r)
  PROVE  TraceOK'
  <1>1. pc[r] = "audit" /\ revisions' = revisions /\ reply[r].outcome = "none"
    BY DEF Audit, AuditSkipped, database, TraceOK, AnswerOK
  <1>2. PICK entry : entry = AuditEntry(r)
    OBVIOUS
  <1>3. entry.request = r /\ entry.action = input[r].op
    BY <1>2 DEF AuditEntry
  <1>4. /\ audits \subseteq audits' /\ audits' \subseteq audits \cup {entry}
        /\ Audit(r) => entry \in audits'
    BY <1>2 DEF Audit, AuditSkipped, database
  <1>5. CASE Goto(r, "reload") /\ UNCHANGED <<input, snapshot, reply>> /\ input[r].op # "delete"
    <2>1. Only(r) /\ pc'[r] = "reload"
      BY <1>5, GotoOnly DEF TInv
    <2>2. ASSUME NEW rev \in revisions', rev.request = r PROVE RevisionOK(rev)'
      <3>1. StoredBy(rev, r)'
        BY <1>1, <1>5, <2>2, GoingOn DEF StoredBy, After
      <3> QED
        BY <1>1, <1>5, <2>1, <2>2, <3>1 DEF RevisionOK, RefusedOutcomes
    <2>3. \A e \in audits' : e.request = r => EntryOK(e)'
      BY <1>1, <1>5, <2>1 DEF EntryOK, RefusedOutcomes
    <2>4. input[r].op = "transition" => Logged(r, "transition")'
      BY <1>3, <1>4 DEF Logged, Audit, AuditSkipped
    <2>5. AnswerOK(r)'
      BY <1>1, <1>5, <2>1, <2>4 DEF AnswerOK
    <2> QED
      BY <1>1, <1>3, <1>4, <2>1, <2>2, <2>3, <2>5, OthersStay
  <1>6. ASSUME NEW outcome \in {"ok", "internal_error"}, Answer(r, input[r], outcome, 0, {}),
               input[r].op = "delete", Audit(r)
        PROVE  TraceOK'
    <2>1. PICK call : call = input[r]
      OBVIOUS
    <2>2. Answer(r, call, outcome, 0, {})
      BY <1>6, <2>1
    <2>3. /\ Only(r) /\ pc'[r] = "done"
          /\ reply'[r] = [outcome |-> outcome, op |-> call.op, code |-> call.code,
                          version |-> 0, history |-> {}]
      BY <2>2, AnswerOnly DEF TInv
    <2>4. reply'[r].outcome = outcome /\ reply'[r].op = "delete"
      BY <1>6, <2>1, <2>3
    <2>5. \A rev \in revisions' : rev.request # r
      BY <1>1, <1>6, GoingOn DEF StoredBy
    <2>6. \A e \in audits' : e.request = r => EntryOK(e)'
      BY <2>3, <2>4 DEF EntryOK, RefusedOutcomes
    <2>7. Logged(r, "delete")'
      BY <1>3, <1>4, <1>6 DEF Logged
    <2>8. AnswerOK(r)'
      BY <2>3, <2>4, <2>7 DEF AnswerOK
    <2> QED
      BY <1>1, <1>3, <1>4, <2>3, <2>5, <2>6, <2>8, OthersStay
  <1> QED
    BY <1>5, <1>6 DEF Audit, AuditSkipped

LEMMA LoadRowTraces ==
  ASSUME TInv, HistoryMatchesRow, TraceOK, [Next]_vars, NEW r \in Requests, LoadRow(r)
  PROVE  TraceOK'
  <1>1. /\ pc[r] = "reload" /\ Goto(r, "revisions") /\ UNCHANGED <<rows, revisions, audits, input, reply>>
        /\ snapshot'[r] = rows[input[r].code] /\ Live(input[r].code)
        /\ \A q \in Requests \ {r} : input'[q] = input[q] /\ snapshot'[q] = snapshot[q]
    BY DEF LoadRow, database, TInv, TypeOK
  <1>2. Only(r) /\ pc'[r] = "revisions"
    BY <1>1, GotoOnly DEF TInv
  <1>3. input[r].code \in Codes /\ reply[r].outcome = "none"
    BY <1>1, CallCode DEF InFlight, TraceOK, AnswerOK
  <1>4. rows[input[r].code].version \in Nat /\ rows[input[r].code].version > 0
    BY <1>1, <1>3 DEF TInv, TypeOK, Rows, Live
  <1>5. ASSUME NEW rev \in revisions', rev.request = r PROVE RevisionOK(rev)'
    <2>1. StoredBy(rev, r)
      BY <1>1, <1>5, GoingOn
    <2>2. rev.code = input[r].code /\ rev \in revisions
      BY <1>1, <1>5, <2>1 DEF StoredBy
    <2>3. rev.version \in 1 .. rows[input[r].code].version
      BY <1>3, <2>2 DEF HistoryMatchesRow, RevisionsOf
    <2>4. rev.version <= snapshot'[r].version
      BY <1>1, <1>4, <2>3
    <2>5. StoredBy(rev, r)'
      BY <1>1, <2>1 DEF StoredBy, After
    <2> QED
      BY <1>1, <1>2, <1>3, <1>5, <2>4, <2>5 DEF RevisionOK, RefusedOutcomes
  <1>6. ASSUME NEW e \in audits', e.request = r PROVE EntryOK(e)'
    BY <1>1, <1>2, <1>3, <1>6 DEF EntryOK, RefusedOutcomes
  <1>7. AnswerOK(r)'
    <2>1. AnswerOK(r)
      BY DEF TraceOK
    <2> QED
      BY <1>1, <1>2, <1>3, <1>4, <2>1 DEF AnswerOK, Logged
  <1> QED
    BY <1>1, <1>2, <1>5, <1>6, <1>7, OthersStay

LEMMA LoadRevisionsTraces ==
  ASSUME TInv, HistoryMatchesRow, TraceOK, [Next]_vars, NEW r \in Requests, LoadRevisions(r)
  PROVE  TraceOK'
  <1>1. PICK call, version, history :
          /\ call = input[r] /\ version = snapshot[r].version
          /\ history = {rev.version : rev \in RevisionsOf(input[r].code)}
    OBVIOUS
  <1>2. /\ pc[r] = "revisions" /\ UNCHANGED <<revisions, audits>>
        /\ Answer(r, call, "ok", version, history)
    BY <1>1 DEF LoadRevisions, database
  <1>3. /\ Only(r) /\ pc'[r] = "done"
        /\ reply'[r] = [outcome |-> "ok", op |-> call.op, code |-> call.code,
                        version |-> version, history |-> history]
    BY <1>2, AnswerOnly DEF TInv
  <1>4. /\ reply'[r].outcome = "ok" /\ reply'[r].op = call.op
        /\ reply'[r].version = version /\ reply'[r].history = history
    BY <1>3
  <1>5. call.code \in Codes
    BY <1>1, <1>2, CallCode DEF InFlight
  <1>6. PICK latest \in Nat : latest = rows[call.code].version
    BY <1>5 DEF TInv, TypeOK, Rows
  <1>7. history = 1 .. latest /\ Cardinality(history) = latest
    <2>1. history = 1 .. latest
      BY <1>1, <1>5, <1>6 DEF HistoryMatchesRow
    <2> QED
      BY <1>6, <2>1, FS_Interval
  <1>8. AnswerOK(r)
    BY DEF TraceOK
  <1>9. version \in history
    BY <1>1, <1>2, <1>6, <1>7, <1>8 DEF AnswerOK
  <1>10. ASSUME NEW rev \in revisions', rev.request = r PROVE RevisionOK(rev)'
    <2>1. rev.version <= version
      BY <1>1, <1>2, <1>10 DEF TraceOK, RevisionOK
    <2>2. version \in Nat /\ rev.version \in Nat
      BY <1>1, <1>2, <1>10 DEF TInv, TypeOK, Rows, Revisions
    <2> QED
      BY <1>3, <1>4, <1>10, <2>1, <2>2 DEF RevisionOK, RefusedOutcomes
  <1>11. \A e \in audits' : e.request = r => EntryOK(e)'
    BY <1>3, <1>4 DEF EntryOK, RefusedOutcomes
  <1>12. call.op # "delete" /\ (call.op = "transition" => Logged(r, "transition")')
    BY <1>1, <1>2, <1>8 DEF AnswerOK, Logged
  <1>13. AnswerOK(r)'
    BY <1>3, <1>4, <1>6, <1>7, <1>9, <1>12 DEF AnswerOK
  <1> QED
    BY <1>2, <1>3, <1>10, <1>11, <1>13, OthersStay

LEMMA CrashTraces ==
  ASSUME TInv, TraceOK, Crash
  PROVE  TraceOK'
  <1>1. UNCHANGED <<revisions, audits>>
    BY DEF Crash, database
  <1>2. ASSUME NEW q \in Requests
        PROVE  /\ pc'[q] = IF InFlight(q) THEN "done" ELSE pc[q]
               /\ InFlight(q) => reply'[q].outcome = "no_response"
               /\ ~InFlight(q) => reply'[q] = reply[q]
    <2>1. reply'[q] = IF InFlight(q)
                      THEN [NoReply EXCEPT !.outcome = "no_response",
                                           !.op = input[q].op, !.code = input[q].code]
                      ELSE reply[q]
      BY DEF Crash
    <2> QED
      BY <2>1 DEF Crash, NoReply
  <1>3. ASSUME NEW rev \in revisions PROVE RevisionOK(rev)'
    <2>1. RevisionOK(rev)
      BY <1>3 DEF TraceOK
    <2> QED
      BY <1>2, <2>1 DEF RevisionOK, RefusedOutcomes, InFlight
  <1>4. ASSUME NEW e \in audits PROVE EntryOK(e)'
    <2>1. EntryOK(e) /\ e.request \in Requests
      BY <1>4 DEF TraceOK, TInv, TypeOK, Audits
    <2> QED
      BY <1>2, <2>1 DEF EntryOK, RefusedOutcomes, InFlight
  <1>5. ASSUME NEW q \in Requests PROVE AnswerOK(q)'
    <2>1. AnswerOK(q)
      BY <1>5 DEF TraceOK
    <2> QED
      BY <1>1, <1>2, <2>1 DEF AnswerOK, Logged, InFlight
  <1> QED
    BY <1>1, <1>3, <1>4, <1>5 DEF TraceOK

LEMMA NextTraces ==
  TInv /\ HistoryMatchesRow /\ DecidedOnSnapshot /\ TraceOK /\ [Next]_vars => TraceOK'
  <1> SUFFICES ASSUME TInv, HistoryMatchesRow, DecidedOnSnapshot, TraceOK, [Next]_vars
               PROVE  TraceOK'
    OBVIOUS
  <1>1. ASSUME NEW r \in Requests, Handle(r) \/ Fail(r)
        PROVE  TraceOK'
    BY <1>1, RefusalTraces, ReadTraces, WrittenTraces, AuditTraces, LoadRowTraces, LoadRevisionsTraces
    DEF Handle, Refusal
  <1>2. CASE UNCHANGED vars
    BY <1>2 DEF vars, TraceOK, RevisionOK, EntryOK, AnswerOK, StoredBy, After, Logged
  <1> QED
    BY <1>1, <1>2, ArrivalTraces, CrashTraces DEF Next, Finished

LEMMA InitTraces == Init => TraceOK
  <1> SUFFICES ASSUME Init PROVE TraceOK
    OBVIOUS
  <1>1. \A rev \in revisions : RevisionOK(rev)
    BY SystemAssumption DEF Init, SeedRevision, RevisionOK
  <1>2. \A q \in Requests : AnswerOK(q)
    BY DEF Init, AnswerOK, NoReply
  <1> QED
    BY <1>1, <1>2 DEF Init, TraceOK

LEMMA TracesCorrect == Spec => []CInv
  <1>1. Init => CInv
    BY InitTypes, InitHistory, InitDecided, InitTraces DEF CInv
  <1>2. CInv /\ [Next]_vars => CInv'
    BY NextTypes, NextHistory, NextDecided, NextTraces DEF CInv
  <1> QED
    BY <1>1, <1>2, PTL DEF Spec

\* Get reads the row and its revisions in two queries, between which other calls may
\* write: an answer still shows the call's own write and a gapless history that
\* covers the version it shows.
THEOREM ReplyConsistentCorrect == Spec => []ReplyConsistent
  <1>1. CInv => ReplyConsistent
    <2> SUFFICES ASSUME CInv, NEW r \in Requests, reply[r].outcome = "ok", reply[r].op # "delete"
                 PROVE  /\ \A rev \in revisions : rev.request = r => reply[r].version >= rev.version
                        /\ reply[r].version \in reply[r].history
                        /\ reply[r].history = 1 .. Cardinality(reply[r].history)
      BY DEF ReplyConsistent
    <2>1. TraceOK
      BY DEF CInv
    <2> QED
      BY <2>1 DEF TraceOK, RevisionOK, AnswerOK
  <1> QED
    BY <1>1, TracesCorrect, PTL

\* A call answered 403, 409 or 422 has left neither a revision nor an audit entry.
THEOREM RefusedLeavesNoTraceCorrect == Spec => []RefusedLeavesNoTrace
  <1>1. CInv => RefusedLeavesNoTrace
    BY DEF CInv, TraceOK, RevisionOK, EntryOK, RefusedLeavesNoTrace, RefusedOutcomes
  <1> QED
    BY <1>1, TracesCorrect, PTL

\* A move or a deletion answered with success is in the audit log.
THEOREM AckedChangeAuditedCorrect == Spec => []AckedChangeAudited
  <1>1. CInv => AckedChangeAudited
    BY DEF CInv, TraceOK, AnswerOK, Logged, AckedChangeAudited
  <1> QED
    BY <1>1, TracesCorrect, PTL

-----------------------------------------------------------------------------
(* What the audit log says of a change. A handler on its way to the insert   *)
(* has stored the change it is going to log, next to the revision that its   *)
(* copy of the row shows. The copy is that revision only if the version the  *)
(* client named is one it had seen.                                          *)

\* The change a handler about to log has made: rev, from the state before.
MadeBy(rev, q) ==
  /\ StoredBy(rev, q)
  /\ IF input[q].op = "create" THEN rev.version = 1
     ELSE \E prior \in RevisionsOf(rev.code) :
            prior.version = rev.version - 1 /\ prior.state = snapshot[q].status

ToldWhatWasDone ==
  \A q \in Requests : pc[q] = "audit" /\ input[q].op # "delete" =>
    \E rev \in revisions : MadeBy(rev, q)

AInv == CInv /\ Fresh /\ ToldWhatWasDone /\ AuditTellsTheTruth

\* A step leaves the handler of q where it was when q is at "audit" and stays there.
LEMMA AtAudit ==
  ASSUME TInv, [Next]_vars, NEW q \in Requests, pc'[q] = "audit"
  PROVE  \/ pc[q] = "audit" /\ input'[q] = input[q] /\ snapshot'[q] = snapshot[q]
         \/ /\ Create(q) \/ UpdateWithRevision(q) \/ Delete(q)
            /\ input'[q] = input[q] /\ snapshot'[q] = snapshot[q]
  <1>1. CASE UNCHANGED vars
    BY <1>1 DEF vars
  <1>2. CASE Crash
    BY <1>2 DEF Crash, InFlight
  <1>3. ASSUME NEW r \in Requests, Refusal(r)
        PROVE  pc[q] = "audit" /\ input'[q] = input[q] /\ snapshot'[q] = snapshot[q]
    BY <1>3, RefusalStep, RefuseSettles DEF Settled
  <1>4. ASSUME NEW r \in Requests, Create(r) \/ UpdateWithRevision(r) \/ Delete(r), q # r
        PROVE  pc[q] = "audit" /\ input'[q] = input[q] /\ snapshot'[q] = snapshot[q]
    BY <1>4, CommittedTypes DEF Create, UpdateWithRevision, Delete
  <1>5. ASSUME Create(q) \/ UpdateWithRevision(q) \/ Delete(q)
        PROVE  input'[q] = input[q] /\ snapshot'[q] = snapshot[q]
    <2>1. Committed(q)
      BY <1>5 DEF Create, UpdateWithRevision, Delete
    <2>2. ~Refuse(q, "internal_error")
      BY DEF Refuse, Answer, Goto, TInv, TypeOK
    <2> QED
      BY <2>1, <2>2 DEF Committed
  <1>6. ASSUME NEW r \in Requests,
               Audit(r) \/ AuditSkipped(r) \/ LoadRow(r) \/ LoadRevisions(r) \/ Read(r)
        PROVE  pc[q] = "audit" /\ input'[q] = input[q] /\ snapshot'[q] = snapshot[q]
    BY <1>6 DEF Audit, AuditSkipped, LoadRow, LoadRevisions, Read, Answer, Goto, TInv, TypeOK
  <1>7. ASSUME NEW r \in Requests, NEW op \in Operations, NEW c \in Codes, NEW call \in CallsTo(op, c),
               Arrive(r, call) \/ Forbid(r, call) \/ RefuseCreate(r, call)
        PROVE  pc[q] = "audit" /\ input'[q] = input[q] /\ snapshot'[q] = snapshot[q]
    BY <1>7 DEF Arrive, Forbid, RefuseCreate, Answer, Goto, FirstStep, TInv, TypeOK
  <1>8. ASSUME NEW r \in Requests, Handle(r) \/ Fail(r)
        PROVE  \/ pc[q] = "audit" /\ input'[q] = input[q] /\ snapshot'[q] = snapshot[q]
               \/ /\ Create(q) \/ UpdateWithRevision(q) \/ Delete(q)
                  /\ input'[q] = input[q] /\ snapshot'[q] = snapshot[q]
    BY <1>3, <1>4, <1>5, <1>6, <1>8 DEF Handle, Refusal
  <1> QED
    BY <1>1, <1>2, <1>7, <1>8 DEF Next, Finished

LEMMA RevisionsKept ==
  ASSUME [Next]_vars
  PROVE  revisions \subseteq revisions'
  BY WritingSteps DEF Create, UpdateWithRevision, Delete, Store

\* What a write has stored is what its handler is going to log.
LEMMA WriteMade ==
  ASSUME TInv, HistoryMatchesRow, DecidedOnSnapshot, Fresh, NEW q \in Requests,
         Create(q) \/ UpdateWithRevision(q), input'[q] = input[q], snapshot'[q] = snapshot[q]
  PROVE  \E rev \in revisions' : MadeBy(rev, q)'
  <1>1. pc[q] = "write" /\ InFlight(q)
    BY DEF Create, UpdateWithRevision, InFlight
  <1>2. PICK c \in Codes : c = input[q].code
    BY <1>1, CallCode
  <1>3. PICK row \in Rows : /\ Store(q, c, row) /\ row.version = rows[c].version + 1
                            /\ Create(q) => row = Seeded(InitialStatus, input[q].payload)
                            /\ UpdateWithRevision(q) => row = NewRow(q)
    BY <1>2, CreateStores, UpdateStores DEF Create, UpdateWithRevision
  <1>4. PICK new : new = StoredRevision(q, c, row)
    OBVIOUS
  <1>5. /\ new.code = c /\ new.version = row.version /\ new.request = q
        /\ revisions' = revisions \cup {new}
    BY <1>3, <1>4 DEF StoredRevision, Store
  <1>6. StoredBy(new, q)
    <2>1. PICK rev : revisions' = revisions \cup {rev} /\ StoredBy(rev, q)
      BY StoredState
    <2>2. new \notin revisions
      BY <1>3, <1>5 DEF Store, RevisionsOf
    <2> QED
      BY <1>5, <2>1, <2>2
  <1>7. StoredBy(new, q)'
    BY <1>6 DEF StoredBy, After
  <1>8. CASE Create(q)
    <2>1. new.version = 1 /\ input[q].op = "create"
      BY <1>3, <1>5, <1>8 DEF Create, Seeded
    <2> QED
      BY <1>5, <1>7, <2>1 DEF MadeBy
  <1>9. CASE UpdateWithRevision(q)
    <2>1. /\ input[q].op \in {"update", "transition"} /\ VersionMatches(q)
          /\ snapshot[q] = rows[c]
      BY <1>1, <1>2, <1>9, FreshImplies DEF UpdateWithRevision, SnapshotFresh
    <2>2. rows[c].version \in Nat /\ rows[c].version > 0
      BY <1>2, <2>1 DEF VersionMatches, Live, TInv, TypeOK, Rows
    <2>3. PICK prior \in RevisionsOf(c) : prior.version = rows[c].version
      BY <2>2 DEF HistoryMatchesRow
    <2>4. prior.state = rows[c].status
      BY <2>3 DEF HistoryMatchesRow, RevisionsOf
    <2>5. /\ prior \in revisions' /\ prior.code = new.code
          /\ prior.version = new.version - 1 /\ prior.state = snapshot'[q].status
      BY <1>3, <1>5, <2>1, <2>2, <2>3, <2>4 DEF RevisionsOf
    <2> QED
      BY <1>5, <1>7, <2>1, <2>5 DEF MadeBy, RevisionsOf
  <1> QED
    BY <1>8, <1>9

LEMMA NextTold == AInv /\ [Next]_vars => ToldWhatWasDone'
  <1> SUFFICES ASSUME AInv, [Next]_vars, NEW q \in Requests, pc'[q] = "audit", input'[q].op # "delete"
               PROVE  \E rev \in revisions' : MadeBy(rev, q)'
    BY DEF ToldWhatWasDone
  <1>1. CASE pc[q] = "audit" /\ input'[q] = input[q] /\ snapshot'[q] = snapshot[q]
    <2>1. PICK rev \in revisions : MadeBy(rev, q)
      BY <1>1 DEF AInv, ToldWhatWasDone
    <2>2. StoredBy(rev, q)'
      BY <1>1, <2>1 DEF MadeBy, StoredBy, After
    <2> QED
      BY <1>1, <2>1, <2>2, RevisionsKept DEF MadeBy, RevisionsOf
  <1>2. ASSUME Create(q) \/ UpdateWithRevision(q) \/ Delete(q),
               input'[q] = input[q], snapshot'[q] = snapshot[q]
        PROVE  \E rev \in revisions' : MadeBy(rev, q)'
    BY <1>2, WriteMade DEF AInv, CInv, Delete
  <1> QED
    BY <1>1, <1>2, AtAudit DEF AInv, CInv

\* What an entry has to be backed by, as AuditTellsTheTruth demands it.
Backed(entry) ==
  \E rev \in RevisionsOf(entry.code) :
    /\ rev.request = entry.request /\ rev.actor = entry.actor /\ rev.state = entry.after
    /\ IF entry.before = "" THEN rev.version = 1
       ELSE \E prior \in RevisionsOf(entry.code) :
              prior.version = rev.version - 1 /\ prior.state = entry.before

LEMMA EntryBacked ==
  ASSUME AInv, NEW r \in Requests, pc[r] = "audit", input[r].op # "delete"
  PROVE  Backed(AuditEntry(r))
  <1>1. PICK rev \in revisions : MadeBy(rev, r)
    BY DEF AInv, ToldWhatWasDone
  <1>2. PICK entry : entry = AuditEntry(r)
    OBVIOUS
  <1>3. /\ entry.request = r /\ entry.actor = input[r].user /\ entry.code = input[r].code
        /\ entry.before = (IF input[r].op = "create" THEN "" ELSE snapshot[r].status)
    BY <1>2 DEF AuditEntry
  <1>4. entry.after = After(r)
    <2>1. CASE input[r].op = "transition"
      BY <1>2, <2>1 DEF AuditEntry, After
    <2>2. CASE input[r].op # "transition"
      BY <1>2, <2>2 DEF AuditEntry, After
    <2> QED
      BY <2>1, <2>2
  <1>5. snapshot[r].status # ""
    BY StatusNames DEF AInv, CInv, TInv, TypeOK, Rows
  <1> QED
    BY <1>1, <1>2, <1>3, <1>4, <1>5 DEF MadeBy, StoredBy, Backed, RevisionsOf

\* Only Audit writes to the log.
LEMMA LoggingSteps ==
  ASSUME [Next]_vars
  PROVE  audits' = audits \/ \E r \in Requests : Audit(r)
  <1>1. ASSUME NEW r \in Requests, Handle(r) \/ Fail(r)
        PROVE  audits' = audits \/ Audit(r)
    BY <1>1, RefusalStep
    DEF Handle, Refusal, Read, Create, UpdateWithRevision, Delete, Store, AuditSkipped, LoadRow,
        LoadRevisions, database
  <1> QED
    BY <1>1 DEF Next, Arrive, Forbid, RefuseCreate, Crash, Finished, vars, database

LEMMA NextTruth == AInv /\ [Next]_vars => AuditTellsTheTruth'
  <1> SUFFICES ASSUME AInv, [Next]_vars, NEW entry \in audits', entry.action # "delete"
               PROVE  Backed(entry)'
    BY DEF AuditTellsTheTruth, Backed
  <1>1. Backed(entry) => Backed(entry)'
    BY RevisionsKept DEF Backed, RevisionsOf
  <1>2. CASE entry \in audits
    BY <1>1, <1>2 DEF AInv, AuditTellsTheTruth, Backed
  <1>3. ASSUME NEW r \in Requests, Audit(r), entry \notin audits PROVE Backed(entry)
    <2>1. entry = AuditEntry(r) /\ pc[r] = "audit"
      BY <1>3 DEF Audit
    <2>2. input[r].op # "delete"
      BY <2>1 DEF AuditEntry
    <2> QED
      BY <2>1, <2>2, EntryBacked
  <1> QED
    BY <1>1, <1>2, <1>3, LoggingSteps

\* Provided clients name only versions they have seen, the audit log tells no lies:
\* every entry about a create, an edit or a move names a change that was made, from
\* the state the decision really had, through every interleaving and crash.
THEOREM AuditTruthCorrect == Lookahead = 0 => (Spec => []AuditTellsTheTruth)
  <1> SUFFICES ASSUME Lookahead = 0 PROVE Spec => []AuditTellsTheTruth
    OBVIOUS
  <1>1. Init => CInv
    BY InitTypes, InitHistory, InitDecided, InitTraces DEF CInv
  <1>2. Init => AInv
    BY <1>1, InitFresh DEF Init, AInv, ToldWhatWasDone, AuditTellsTheTruth
  <1>3. CInv /\ [Next]_vars => CInv'
    BY NextTypes, NextHistory, NextDecided, NextTraces DEF CInv
  <1>4. AInv /\ [Next]_vars => AInv'
    BY <1>3, NextFresh, NextTold, NextTruth DEF AInv, CInv
  <1> QED
    BY <1>2, <1>4, PTL DEF Spec, AInv
=============================================================================

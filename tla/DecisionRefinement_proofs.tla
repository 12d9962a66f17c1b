--------------------- MODULE DecisionRefinement_proofs ---------------------
(* The decision service implements the ledger, for every set of codes,       *)
(* requests and users, provided clients name only versions they have seen.   *)
EXTENDS ComplianceDecision_proofs, SequenceTheorems

Entries == [state : Statuses, payload : Payloads, actor : Users \cup {System}]

EntryOf(rev) == [state |-> rev.state, payload |-> rev.payload, actor |-> rev.actor]

-----------------------------------------------------------------------------
(* The log of a decision lists its revisions by version.                     *)

LEMMA VersionsAreNumbers ==
  ASSUME TypeOK, NEW c \in Codes
  PROVE  rows[c].version \in Nat
  BY DEF TypeOK, Rows

LEMMA AtVersion ==
  ASSUME TypeOK, HistoryMatchesRow, NEW c \in Codes, NEW v \in 1 .. rows[c].version
  PROVE  /\ RevisionAt(c, v) \in revisions /\ RevisionAt(c, v).code = c
         /\ RevisionAt(c, v).version = v
         /\ \A rev \in revisions : rev.code = c /\ rev.version = v => RevisionAt(c, v) = rev
  <1>1. \E rev \in RevisionsOf(c) : rev.version = v
    BY DEF HistoryMatchesRow
  <1>2. RevisionAt(c, v) \in RevisionsOf(c) /\ RevisionAt(c, v).version = v
    BY <1>1 DEF RevisionAt
  <1> QED
    BY <1>2 DEF RevisionsOf, HistoryMatchesRow

\* What the log of every decision looks like.
LogShape ==
  /\ DOMAIN LedgerLog = Codes
  /\ \A c \in Codes :
       /\ LedgerLog[c] \in Seq(Entries)
       /\ Len(LedgerLog[c]) = rows[c].version
       /\ \A rev \in RevisionsOf(c) : LedgerLog[c][rev.version] = EntryOf(rev)

LEMMA ShapeHolds == TypeOK /\ HistoryMatchesRow => LogShape
  <1> SUFFICES ASSUME TypeOK, HistoryMatchesRow PROVE LogShape
    OBVIOUS
  <1>1. ASSUME NEW c \in Codes
        PROVE  /\ LedgerLog[c] \in Seq(Entries) /\ Len(LedgerLog[c]) = rows[c].version
               /\ \A rev \in RevisionsOf(c) : LedgerLog[c][rev.version] = EntryOf(rev)
    <2>1. PICK n \in Nat : n = rows[c].version
      BY VersionsAreNumbers
    <2>2. LedgerLog[c] = [v \in 1 .. n |-> EntryOf(RevisionAt(c, v))]
      BY <2>1 DEF LedgerLog, EntryOf
    <2>3. \A v \in 1 .. n : EntryOf(RevisionAt(c, v)) \in Entries
      BY <2>1, AtVersion DEF TypeOK, Revisions, EntryOf, Entries
    <2>4. LedgerLog[c] \in [1 .. n -> Entries]
      BY <2>2, <2>3
    <2>5. LedgerLog[c] \in Seq(Entries) /\ Len(LedgerLog[c]) = n
      BY <2>1, <2>4, SeqDef
    <2>6. ASSUME NEW rev \in RevisionsOf(c) PROVE LedgerLog[c][rev.version] = EntryOf(rev)
      <3>1. rev \in revisions /\ rev.code = c /\ rev.version \in 1 .. n
        BY <2>1, <2>6 DEF HistoryMatchesRow, RevisionsOf
      <3>2. RevisionAt(c, rev.version) = rev
        BY <2>1, <3>1, AtVersion
      <3> QED
        BY <2>2, <3>1, <3>2
    <2> QED
      BY <2>1, <2>5, <2>6
  <1> QED
    BY <1>1 DEF LogShape, LedgerLog

\* The last entry is what the row says.
LEMMA LastEntry ==
  ASSUME TypeOK, HistoryMatchesRow, NEW c \in Codes, rows[c].version > 0
  PROVE  /\ LedgerLog[c] # <<>>
         /\ LedgerLog[c][Len(LedgerLog[c])].state = rows[c].status
         /\ LedgerLog[c][Len(LedgerLog[c])].payload = rows[c].payload
  <1>1. PICK n \in Nat : n = rows[c].version
    BY VersionsAreNumbers
  <1>2. PICK rev \in RevisionsOf(c) : rev.version = n
    BY <1>1 DEF HistoryMatchesRow
  <1>3. rev.state = rows[c].status /\ rev.payload = rows[c].payload
    BY <1>1, <1>2 DEF HistoryMatchesRow, RevisionsOf
  <1>4. /\ Len(LedgerLog[c]) = n /\ LedgerLog[c] \in Seq(Entries)
        /\ LedgerLog[c][n] = EntryOf(rev)
    BY <1>1, <1>2, ShapeHolds DEF LogShape
  <1> QED
    BY <1>1, <1>3, <1>4, EmptySeq DEF EntryOf

\* A step that leaves the tables alone does not show in the log, and a stored
\* row shows as one entry at the end of its log.
LEMMA LogStays ==
  ASSUME UNCHANGED <<rows, revisions>>
  PROVE  LedgerLog' = LedgerLog
  BY DEF LedgerLog, RevisionAt, RevisionsOf

LEMMA LogGrows ==
  ASSUME TypeOK, HistoryMatchesRow, TypeOK', NEW r \in Requests, NEW c \in Codes, NEW row \in Rows,
         row.version = rows[c].version + 1, Store(r, c, row)
  PROVE  LedgerLog' = [LedgerLog EXCEPT ![c] =
           Append(@, [state |-> row.status, payload |-> row.payload, actor |-> input[r].user])]
  <1>1. HistoryMatchesRow'
    BY StoreHistory
  <1>2. LogShape /\ LogShape'
    BY <1>1, ShapeHolds, PTL
  <1>3. PICK new : new = StoredRevision(r, c, row)
    OBVIOUS
  <1>4. /\ revisions' = revisions \cup {new} /\ rows'[c] = row
        /\ \A d \in Codes \ {c} : rows'[d] = rows[d]
        /\ new.code = c /\ new.version = rows[c].version + 1
        /\ EntryOf(new) = [state |-> row.status, payload |-> row.payload, actor |-> input[r].user]
    BY <1>3 DEF Store, StoredRevision, EntryOf, TypeOK
  <1>5. PICK n \in Nat : n = rows[c].version
    BY VersionsAreNumbers
  <1>6. PICK old, grown : old = LedgerLog[c] /\ grown = LedgerLog'[c]
    OBVIOUS
  <1>7. grown = Append(old, EntryOf(new))
    <2>1. old \in Seq(Entries) /\ Len(old) = n /\ grown \in Seq(Entries) /\ Len(grown) = n + 1
      BY <1>2, <1>4, <1>5, <1>6 DEF LogShape
    <2>2. grown[n + 1] = EntryOf(new)
      BY <1>2, <1>4, <1>5, <1>6 DEF LogShape, RevisionsOf
    <2>3. EntryOf(new) \in Entries
      BY <2>1, <2>2, ElementOfSeq
    <2>4. ASSUME NEW v \in 1 .. n PROVE grown[v] = old[v]
      <3>1. PICK rev \in RevisionsOf(c) : rev.version = v
        BY <1>5 DEF HistoryMatchesRow
      <3>2. rev \in RevisionsOf(c)'
        BY <1>4, <3>1 DEF RevisionsOf
      <3>3. old[rev.version] = EntryOf(rev)
        BY <1>2, <1>6, <3>1 DEF LogShape
      <3>4. grown[rev.version] = EntryOf(rev)
        BY <1>2, <1>6, <3>2 DEF LogShape, EntryOf
      <3> QED
        BY <3>1, <3>3, <3>4
    <2>5. PICK wanted : wanted = Append(old, EntryOf(new))
      OBVIOUS
    <2>6. /\ wanted \in Seq(Entries) /\ Len(wanted) = n + 1 /\ wanted[n + 1] = EntryOf(new)
          /\ \A v \in 1 .. n : wanted[v] = old[v]
      BY <2>1, <2>3, <2>5, AppendProperties
    <2> QED
      BY <2>1, <2>2, <2>4, <2>5, <2>6, SeqEqual
  <1>8. ASSUME NEW d \in Codes, d # c PROVE LedgerLog'[d] = LedgerLog[d]
    <2>1. RevisionsOf(d)' = RevisionsOf(d) /\ rows'[d].version = rows[d].version
      BY <1>4, <1>8 DEF RevisionsOf
    <2> QED
      BY <2>1 DEF LedgerLog, RevisionAt
  <1>9. PICK log, next, entry : log = LedgerLog /\ next = LedgerLog' /\ entry = EntryOf(new)
    OBVIOUS
  <1>10. log = [d \in Codes |-> log[d]] /\ next = [d \in Codes |-> next[d]]
    BY <1>9 DEF LedgerLog
  <1>11. next[c] = Append(log[c], entry) /\ \A d \in Codes \ {c} : next[d] = log[d]
    BY <1>6, <1>7, <1>8, <1>9
  <1>12. next = [log EXCEPT ![c] = Append(log[c], entry)]
    BY <1>10, <1>11
  <1> QED
    BY <1>4, <1>9, <1>12

-----------------------------------------------------------------------------
(* Who writes. The role middleware has let the call of every handler through *)
(* and BreaksRule has looked at the role of a deciding one.                  *)

Admitted ==
  \A r \in Requests : pc[r] \in {"read", "write"} => Permitted(input[r].user, input[r].op)

LEMMA NextAdmitted == TInv /\ Admitted /\ [Next]_vars => Admitted'
  <1> SUFFICES ASSUME TInv, Admitted, [Next]_vars, NEW q \in Requests, pc'[q] \in {"read", "write"}
               PROVE  Permitted(input'[q].user, input'[q].op)
    BY DEF Admitted, Permitted
  <1>1. CASE pc'[q] = pc[q] /\ input'[q] = input[q] /\ snapshot'[q] = snapshot[q]
    BY <1>1 DEF Admitted
  <1>2. ASSUME NEW op \in Operations, NEW c \in Codes, NEW call \in CallsTo(op, c), Arrive(q, call)
        PROVE  Permitted(input'[q].user, input'[q].op)
    BY <1>2 DEF Arrive, TInv, TypeOK
  <1>3. CASE Read(q)
    BY <1>3 DEF Read, Admitted
  <1> QED
    BY <1>1, <1>2, <1>3, HandlerSteps

RInv ==
  TInv /\ HistoryMatchesRow /\ DecidedOnSnapshot /\ Fresh /\ DeletedExisted /\ Admitted

LEMMA RolesRanked ==
  ASSUME NEW u \in Users
  PROVE  Role[u] \in ReviewerRoles => HasMinimumRole(Role[u], "reviewer")
  BY RoleAssumption DEF ReviewerRoles, HasMinimumRole, roleRank

-----------------------------------------------------------------------------
(* Every step of the service is a step of the ledger or does not show in it. *)

\* The ledger speaks of the same tables: its instance has a Policy of its own.
LEMMA SamePolicy ==
  /\ \A role, minimum : Ledger!HasMinimumRole(role, minimum) = HasMinimumRole(role, minimum)
  /\ Ledger!ComplianceDecisionTransitions = ComplianceDecisionTransitions
  /\ \A graph, from, to : Ledger!CanTransition(graph, from, to) = CanTransition(graph, from, to)
  BY DEF Ledger!HasMinimumRole, HasMinimumRole, Ledger!roleRank, roleRank,
         Ledger!ComplianceDecisionTransitions, ComplianceDecisionTransitions,
         Ledger!CanTransition, CanTransition

LEMMA InitLedger == Init => Ledger!Init
  <1> SUFFICES ASSUME Init PROVE Ledger!Init
    OBVIOUS
  <1>1. TypeOK /\ HistoryMatchesRow /\ LogShape
    BY InitTypes, InitHistory, ShapeHolds DEF TInv
  <1>2. ASSUME NEW c \in Codes
        PROVE  LedgerLog[c] \in {<<>>} \cup
                 {<<Ledger!Entry(s, p, System)>> : s \in {"draft", "review", "accepted"}, p \in Payloads}
    <2>1. CASE rows[c] = NoRow
      <3>1. Len(LedgerLog[c]) = 0 /\ LedgerLog[c] \in Seq(Entries)
        BY <1>1, <2>1 DEF LogShape, NoRow
      <3> QED
        BY <3>1, EmptySeq
    <2>2. ASSUME NEW s \in SeedStatuses, NEW p \in Payloads, rows[c] = Seeded(s, p)
          PROVE  LedgerLog[c] = <<Ledger!Entry(s, p, System)>>
      <3>1. rows[c].version = 1 /\ rows[c].status = s /\ rows[c].payload = p
        BY <2>2 DEF Seeded
      <3>2. PICK rev : rev = SeedRevision(c)
        OBVIOUS
      <3>3. /\ rev.code = c /\ rev.version = 1
            /\ EntryOf(rev) = [state |-> s, payload |-> p, actor |-> System]
        BY <3>1, <3>2 DEF SeedRevision, EntryOf
      <3>4. rev \in RevisionsOf(c)
        BY <3>1, <3>2, <3>3 DEF Init, RevisionsOf
      <3>5. PICK log : log = LedgerLog[c]
        OBVIOUS
      <3>6. log \in Seq(Entries) /\ Len(log) = 1 /\ log[1] = EntryOf(rev)
        BY <1>1, <3>1, <3>3, <3>4, <3>5 DEF LogShape
      <3>7. log = <<EntryOf(rev)>>
        BY <3>6
      <3> QED
        BY <3>3, <3>5, <3>7 DEF Ledger!Entry
    <2>3. rows[c] = NoRow \/ \E s \in SeedStatuses, p \in Payloads : rows[c] = Seeded(s, p)
      BY DEF Init
    <2>4. ASSUME NEW s \in SeedStatuses, NEW p \in Payloads, rows[c] = Seeded(s, p)
          PROVE  LedgerLog[c] \in {<<Ledger!Entry(t, o, System)>> :
                                     t \in {"draft", "review", "accepted"}, o \in Payloads}
      BY <2>2, <2>4 DEF SeedStatuses
    <2> QED
      BY <2>1, <2>3, <2>4
  <1>3. \A c \in Codes : ~rows[c].deleted
    BY DEF Init, NoRow, Seeded
  <1>4. LedgerLog = [c \in Codes |-> LedgerLog[c]]
    BY DEF LedgerLog
  <1> QED
    BY <1>2, <1>3, <1>4 DEF Ledger!Init

\* A stored row that was not deleted leaves the set of removed decisions alone.
LEMMA StoreKeepsRemoved ==
  ASSUME TypeOK, NEW r \in Requests, NEW c \in Codes, NEW row \in Rows, Store(r, c, row),
         row.deleted = rows[c].deleted
  PROVE  {d \in Codes : rows'[d].deleted} = {d \in Codes : rows[d].deleted}
  <1>1. \A d \in Codes : rows'[d].deleted = rows[d].deleted
    BY DEF Store, TypeOK
  <1> QED
    BY <1>1

LEMMA CreateShows ==
  ASSUME RInv, TypeOK', NEW r \in Requests, Create(r)
  PROVE  Ledger!Next
  <1>1. pc[r] = "write" /\ InFlight(r) /\ input[r].op = "create"
    BY DEF Create, InFlight
  <1>2. PICK c \in Codes, u \in Users, p \in Payloads :
          c = input[r].code /\ u = input[r].user /\ p = input[r].payload
    BY <1>1, CallCode DEF RInv, TInv, HandlerOK
  <1>3. PICK row \in Rows : Store(r, c, row) /\ row = Seeded(InitialStatus, p) /\ row.version = rows[c].version + 1
    BY <1>2, CreateStores DEF RInv
  <1>4. rows[c].version = 0 /\ ~rows[c].deleted
    BY <1>2 DEF Create, RInv, DeletedExisted
  <1>5. row.status = "draft" /\ row.payload = p /\ row.deleted = FALSE
    BY <1>3 DEF Seeded, InitialStatus
  <1>6. LedgerLog' = [LedgerLog EXCEPT ![c] = Append(@, [state |-> "draft", payload |-> p, actor |-> u])]
    BY <1>2, <1>3, <1>5, LogGrows DEF RInv, TInv
  <1>7. {d \in Codes : rows'[d].deleted} = {d \in Codes : rows[d].deleted}
    <2>1. row.deleted = rows[c].deleted
      BY <1>4, <1>5 DEF RInv, TInv, TypeOK, Rows
    <2> QED
      BY <1>3, <2>1, StoreKeepsRemoved DEF RInv, TInv
  <1>8. LedgerLog[c] = <<>>
    <2>1. LedgerLog[c] \in Seq(Entries) /\ Len(LedgerLog[c]) = 0
      BY <1>4, ShapeHolds DEF LogShape, RInv, TInv
    <2> QED
      BY <2>1, EmptySeq
  <1>9. HasMinimumRole(Role[u], "operator")
    BY <1>1, <1>2 DEF RInv, Admitted, Permitted
  <1>10. Ledger!Start(c, u, p)
    BY <1>6, <1>7, <1>8, <1>9, SamePolicy DEF Ledger!Start, Ledger!Add, Ledger!Entry, Ledger!MayWrite
  <1> QED
    BY <1>10 DEF Ledger!Next

LEMMA UpdateShows ==
  ASSUME RInv, TypeOK', NEW r \in Requests, UpdateWithRevision(r)
  PROVE  Ledger!Next
  <1>1. /\ pc[r] = "write" /\ InFlight(r) /\ input[r].op \in {"update", "transition"}
        /\ VersionMatches(r) /\ ~BreaksRule(input[r], snapshot[r])
    BY DEF UpdateWithRevision, InFlight, RInv, DecidedOnSnapshot
  <1>2. PICK c \in Codes, u \in Users : c = input[r].code /\ u = input[r].user
    BY <1>1, CallCode DEF RInv
  <1>3. PICK row \in Rows : Store(r, c, row) /\ row = NewRow(r) /\ row.version = rows[c].version + 1
    BY <1>2, UpdateStores DEF RInv
  <1>4. PICK old \in Rows : old = snapshot[r]
    BY DEF RInv, TInv, TypeOK
  <1>5. old = rows[c] /\ rows[c].version > 0 /\ ~rows[c].deleted
    BY <1>1, <1>2, <1>4, FreshImplies DEF RInv, SnapshotFresh, VersionMatches, Live
  <1>6. row.deleted = old.deleted
    BY <1>3, <1>4 DEF NewRow, Rows
  <1>7. {d \in Codes : rows'[d].deleted} = {d \in Codes : rows[d].deleted}
    BY <1>3, <1>5, <1>6, StoreKeepsRemoved DEF RInv, TInv
  <1>8. LedgerLog' = [LedgerLog EXCEPT ![c] =
          Append(@, [state |-> row.status, payload |-> row.payload, actor |-> u])]
    BY <1>2, <1>3, LogGrows DEF RInv, TInv
  <1>9. /\ LedgerLog[c] # <<>>
        /\ LedgerLog[c][Len(LedgerLog[c])].state = old.status
        /\ LedgerLog[c][Len(LedgerLog[c])].payload = old.payload
    BY <1>5, LastEntry DEF RInv, TInv
  <1>10. Ledger!Open(c)
    BY <1>5, <1>9 DEF Ledger!Open
  <1>11. HasMinimumRole(Role[u], "operator")
    BY <1>1, <1>2 DEF RInv, Admitted, Permitted
  <1>12. CASE input[r].op = "update"
    <2>1. PICK p \in Payloads : p = input[r].payload
      BY <1>1, <1>12 DEF RInv, TInv, HandlerOK
    <2>2. row.status = old.status /\ row.payload = p
      BY <1>3, <1>4, <1>12, <2>1 DEF NewRow, Rows
    <2>3. old.status = "draft"
      BY <1>1, <1>4, <1>12 DEF BreaksRule, InitialStatus
    <2>4. Ledger!Edit(c, u, p)
      BY <1>7, <1>8, <1>9, <1>10, <1>11, <2>2, <2>3, SamePolicy
      DEF Ledger!Edit, Ledger!Add, Ledger!Entry, Ledger!MayWrite, Ledger!Last
    <2> QED
      BY <2>4 DEF Ledger!Next
  <1>13. CASE input[r].op = "transition"
    <2>1. PICK s : s = input[r].target
      OBVIOUS
    <2>2. s \in Statuses
      BY <1>1, <2>1 DEF RInv, TInv, HandlerOK, AnyCall
    <2>3. row.status = s /\ row.payload = old.payload
      BY <1>3, <1>4, <1>13, <2>1 DEF NewRow, Rows
    <2>4. /\ CanTransition(ComplianceDecisionTransitions, old.status, s)
          /\ s \in {"accepted", "escalated"} => Role[u] \in ReviewerRoles
      BY <1>1, <1>2, <1>4, <1>13, <2>1 DEF BreaksRule, FinalStatuses
    <2>5. s \in {"accepted", "escalated"} => HasMinimumRole(Role[u], "reviewer")
      BY <2>4, RolesRanked
    <2>6. Ledger!Move(c, u, s)
      BY <1>7, <1>8, <1>9, <1>10, <1>11, <2>3, <2>4, <2>5, SamePolicy
      DEF Ledger!Move, Ledger!Add, Ledger!Entry, Ledger!MayWrite, Ledger!MayDecide, Ledger!Last
    <2> QED
      BY <2>2, <2>6, SamePolicy DEF Ledger!Next, Statuses
  <1> QED
    BY <1>1, <1>12, <1>13

LEMMA DeleteShows ==
  ASSUME RInv, NEW r \in Requests, Delete(r)
  PROVE  Ledger!Next
  <1>1. pc[r] = "write" /\ InFlight(r) /\ input[r].op = "delete" /\ UNCHANGED revisions
    BY DEF Delete, InFlight
  <1>2. PICK c \in Codes, u \in Users : c = input[r].code /\ u = input[r].user
    BY <1>1, CallCode DEF RInv
  <1>3. rows[c].version > 0 /\ ~rows[c].deleted
    BY <1>2 DEF Delete, Live
  <1>4. ASSUME NEW d \in Codes
        PROVE  /\ rows'[d].version = rows[d].version
               /\ rows'[d].deleted = (d = c \/ rows[d].deleted)
    <2>1. rows[d] \in Rows
      BY DEF RInv, TInv, TypeOK
    <2>2. rows'[d] = IF d = c THEN [rows[d] EXCEPT !.deleted = TRUE] ELSE rows[d]
      BY <1>2 DEF Delete, RInv, TInv, TypeOK
    <2> QED
      BY <2>1, <2>2 DEF Rows
  <1>5. {d \in Codes : rows'[d].deleted} = {d \in Codes : rows[d].deleted} \cup {c}
    BY <1>4
  <1>6. LedgerLog' = LedgerLog
    BY <1>1, <1>4 DEF LedgerLog, RevisionAt, RevisionsOf
  <1>7. Ledger!Open(c)
    BY <1>3, LastEntry DEF Ledger!Open, RInv, TInv
  <1>8. Role[u] = "admin"
    BY <1>1, <1>2 DEF RInv, Admitted, Permitted
  <1>9. Ledger!Remove(c)
    BY <1>5, <1>6, <1>7, <1>8 DEF Ledger!Remove
  <1> QED
    BY <1>9 DEF Ledger!Next

LEMMA StepShows == RInv /\ [Next]_vars => [Ledger!Next]_(Ledger!vars)
  <1> SUFFICES ASSUME RInv, [Next]_vars PROVE [Ledger!Next]_(Ledger!vars)
    OBVIOUS
  <1>1. TypeOK'
    BY NextTypes DEF RInv, TInv
  <1>2. CASE UNCHANGED <<rows, revisions>>
    BY <1>2, LogStays DEF Ledger!vars
  <1> QED
    BY <1>1, <1>2, CreateShows, UpdateShows, DeleteShows, WritingSteps

\* Provided clients name only versions they have seen, the service implements the
\* ledger: whatever calls interleave, fail or crash, every commit appends one legal
\* entry by a user whose role allows it, or removes a decision by an administrator's
\* hand, and no other step shows.
THEOREM LedgerImplemented == Lookahead = 0 => (Spec => ImplementsLedger)
  <1> SUFFICES ASSUME Lookahead = 0 PROVE Spec => ImplementsLedger
    OBVIOUS
  <1>1. Init => RInv
    <2>1. Init => DeletedExisted /\ Admitted
      BY DEF Init, DeletedExisted, NoRow, Seeded, Admitted
    <2> QED
      BY <2>1, InitTypes, InitHistory, InitDecided, InitFresh DEF RInv
  <1>2. RInv /\ [Next]_vars => RInv'
    BY NextTypes, NextHistory, NextDecided, NextFresh, NextExisted, NextAdmitted DEF RInv
  <1> QED
    BY <1>1, <1>2, InitLedger, StepShows, PTL DEF Spec, ImplementsLedger, Ledger!Spec
=============================================================================

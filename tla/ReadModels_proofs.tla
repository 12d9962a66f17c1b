-------------------------- MODULE ReadModels_proofs -------------------------
(* Theorems about ReadModels, for any tables, page sizes and number of       *)
(* changes.                                                                  *)
EXTENDS ReadModels, FiniteSetTheorems, SequenceTheorems, TLAPS

-----------------------------------------------------------------------------
(* Pages cut out of a list.                                                  *)

LEMMA SmallerOfTwo ==
  ASSUME NEW a \in Int, NEW b \in Int
  PROVE  Min({a, b}) = IF a <= b THEN a ELSE b
  <1> DEFINE m == IF a <= b THEN a ELSE b
  <1>1. m \in {a, b} /\ \A y \in {a, b} : m <= y
    OBVIOUS
  <1>2. \A x \in {a, b} : (\A y \in {a, b} : x <= y) => x = m
    OBVIOUS
  <1> QED
    BY <1>1, <1>2 DEF Min

LEMMA FunctionIsSeq ==
  ASSUME NEW S, NEW k \in Nat, NEW f \in [1 .. k -> S]
  PROVE  f \in Seq(S) /\ Len(f) = k
  OBVIOUS

LEMMA IntervalSize ==
  ASSUME NEW k \in Nat
  PROVE  IsFiniteSet(1 .. k) /\ Cardinality(1 .. k) = k
  <1>1. IsFiniteSet(1 .. k) /\ Cardinality(1 .. k) = IF 1 > k THEN 0 ELSE k - 1 + 1
    BY FS_Interval
  <1> QED
    BY <1>1

\* Where a page begins and ends, without a product.
LEMMA Offsets ==
  ASSUME NEW p \in Nat \ {0}, NEW z \in Nat
  PROVE  /\ (p - 1) * z \in Nat
         /\ p * z = (p - 1) * z + z
         /\ ((p + 1) - 1) * z = (p - 1) * z + z
  OBVIOUS

-----------------------------------------------------------------------------
(* Types. A row has at most one version per change, and a change takes at    *)
(* most one row off the list.                                                *)

Queries ==
  [of : {"decisions"}, size : AskedSizes, status : {"any", "draft"}]
    \cup [of : {"audits"}, size : AskedSizes, status : {"any"}]
    \cup [of : {"summary"}, size : {0}, status : {"any"}]

Decisions == [version : 0 .. MaxChanges + 1, status : Statuses \cup {"deleted"}, at : 0 .. LastTick]

Entries == [event : Events, at : 0 .. LastTick]

Answers ==
  [page : Nat \ {0}, total : Nat, items : Seq(Nat), versions : Seq(Nat), revisions : Seq(SUBSET Nat)]

TInv ==
  /\ now \in Window + 1 .. LastTick /\ changes \in 0 .. MaxChanges
  /\ query \in Queries
  /\ rows \in [Ids -> Decisions] /\ \A i \in Ids : rows[i].version <= changes + 1
  /\ log \in Seq(Entries)
  /\ step \in Steps /\ owed \subseteq Listed
  /\ lost \in [reading : Nat, page : Nat] /\ lost.reading <= changes /\ lost.page <= changes
  /\ query.of # "summary" => answer \in Answers /\ Len(answer.items) <= PageSize
  /\ step = "revisions" => \A n \in 1 .. Len(answer.items) : answer.items[n] \in Ids

LEMMA QueryTypes ==
  ASSUME query \in Queries
  PROVE  /\ query.of \in {"decisions", "audits", "summary"}
         /\ query.size \in Nat /\ query.status \in {"any", "draft"}
         /\ PageSize \in 1 .. MaxSize /\ PageSize \in Nat \ {0}
         /\ ToldSize = PageSize
  <1>1. query.of \in {"decisions", "audits", "summary"} /\ query.status \in {"any", "draft"}
                  /\ query.size \in AskedSizes \cup {0}
    <2>1. PICK q : q = query
      OBVIOUS
    <2>2. q.of \in {"decisions", "audits", "summary"} /\ q.status \in {"any", "draft"}
          /\ q.size \in AskedSizes \cup {0}
      BY <2>1 DEF Queries
    <2> QED
      BY <2>1, <2>2
  <1>2. query.size \in Nat
    <2>1. AskedSizes \cup {0} \subseteq Nat
      BY SizesAssumption
    <2> QED
      BY <1>1, <2>1, Zenon
  <1>3. bindPage(query.size) \in 1 .. MaxSize /\ MaxSize \in Nat \ {0}
    BY <1>2, SizesAssumption DEF bindPage
  <1>4. PageSize = bindPage(query.size)
    BY <1>3 DEF PageSize, normalizePage
  <1> QED
    BY <1>1, <1>2, <1>3, <1>4 DEF ToldSize

LEMMA ListedIsFinite ==
  ASSUME rows \in [Ids -> Decisions], log \in Seq(Entries)
  PROVE  /\ Listed \subseteq Nat \ {0} /\ IsFiniteSet(Listed)
         /\ Cardinality(Listed) \in Nat
         /\ query.of = "decisions" => Listed \subseteq Ids
         /\ query.of # "decisions" => Listed = 1 .. Len(log)
  <1>1. CASE query.of = "decisions"
    <2>1. Listed \subseteq Ids
      BY <1>1 DEF Listed
    <2>2. IsFiniteSet(Listed)
      BY <2>1, IdsAssumption, FS_Subset
    <2> QED
      BY <1>1, <2>1, <2>2, IdsAssumption, FS_CardinalityType
  <1>2. CASE query.of # "decisions"
    <2>1. Listed = 1 .. Len(log) /\ Len(log) \in Nat
      BY <1>2, LenProperties DEF Listed
    <2>2. IsFiniteSet(Listed)
      BY <2>1, FS_Interval
    <2> QED
      BY <1>2, <2>1, <2>2, FS_CardinalityType
  <1> QED
    BY <1>1, <1>2

-----------------------------------------------------------------------------
(* What the steps do to the tables.                                          *)

\* A row is written: its version does not go back, its time may.
RowMoves(i) ==
  /\ query.of = "decisions" /\ changes' = changes + 1 /\ changes' \in 0 .. MaxChanges
  /\ \E d \in Decisions :
       /\ rows' = [rows EXCEPT ![i] = d]
       /\ rows[i].version <= d.version /\ d.version <= changes' + 1
  /\ UNCHANGED <<now, log, query, step, answer, seen>>
  /\ Noted(i)

LogMoves ==
  /\ query.of # "decisions" /\ changes' = changes + 1 /\ changes' \in 0 .. MaxChanges
  /\ \E e \in Entries : log' = Append(log, e)
  /\ UNCHANGED <<now, rows, query, step, answer, seen, owed, lost>>

LEMMA StampTypes ==
  ASSUME now \in Window + 1 .. LastTick, NEW t \in Stamps
  PROVE  t \in 0 .. LastTick
  BY WindowAssumption DEF Stamps

LEMMA RowsMove ==
  ASSUME TInv, NEW i \in Ids, CreateDecision(i) \/ ChangeDecision(i) \/ DeleteDecision(i)
  PROVE  RowMoves(i)
  <1>1. now \in Window + 1 .. LastTick /\ changes \in 0 .. MaxChanges /\ MaxChanges \in Nat
    BY ChangesAssumption DEF TInv
  <1>2. rows[i] \in Decisions /\ rows[i].version <= changes + 1 /\ rows \in [Ids -> Decisions]
    BY DEF TInv
  <1>3. rows[i].version \in 0 .. MaxChanges + 1 /\ rows[i].at \in 0 .. LastTick
    BY <1>2 DEF Decisions
  <1>4. /\ query.of = "decisions" /\ changes < MaxChanges /\ changes' = changes + 1
        /\ UNCHANGED <<now, log, query, step, answer, seen>> /\ Noted(i)
    BY DEF CreateDecision, ChangeDecision, DeleteDecision, Change, UnchangedReader
  <1>5. changes' \in 0 .. MaxChanges
    BY <1>1, <1>4
  <1>6. \E d \in Decisions :
          /\ rows' = [rows EXCEPT ![i] = d]
          /\ rows[i].version <= d.version /\ d.version <= changes' + 1
    <2>1. CASE CreateDecision(i)
      <3>1. PICK t \in Stamps : rows' = [rows EXCEPT ![i] = Decision(1, "draft", t)]
        BY <2>1 DEF CreateDecision
      <3>2. Decision(1, "draft", t) \in Decisions
        BY <1>1, <3>1, StampTypes DEF Decision, Decisions, Statuses
      <3>3. Decision(1, "draft", t).version = 1 /\ rows[i].version = 0
        BY <2>1 DEF Decision, CreateDecision
      <3>4. PICK d \in Decisions : d = Decision(1, "draft", t)
        BY <3>2
      <3>5. /\ rows' = [rows EXCEPT ![i] = d]
            /\ rows[i].version <= d.version /\ d.version <= changes' + 1
        BY <1>1, <1>4, <3>1, <3>3, <3>4
      <3> QED
        BY <3>4, <3>5, Zenon
    <2>2. CASE ChangeDecision(i)
      <3>1. PICK t \in Stamps, s \in Statuses :
              rows' = [rows EXCEPT ![i] = Decision(rows[i].version + 1, s, t)]
        BY <2>2 DEF ChangeDecision
      <3>2. t \in 0 .. LastTick
        BY <1>1, <3>1, StampTypes
      <3>3. rows[i].version + 1 \in 0 .. MaxChanges + 1
        BY <1>1, <1>2, <1>3, <1>4
      <3>4. Decision(rows[i].version + 1, s, t) \in Decisions
        BY <3>1, <3>2, <3>3 DEF Decision, Decisions
      <3>5. Decision(rows[i].version + 1, s, t).version = rows[i].version + 1
        BY DEF Decision
      <3>6. PICK d \in Decisions : d = Decision(rows[i].version + 1, s, t)
        BY <3>4
      <3>7. /\ rows' = [rows EXCEPT ![i] = d]
            /\ rows[i].version <= d.version /\ d.version <= changes' + 1
        BY <1>1, <1>2, <1>3, <1>4, <3>1, <3>2, <3>5, <3>6
      <3> QED
        BY <3>6, <3>7, Zenon
    <2>3. CASE DeleteDecision(i)
      <3>1. rows' = [rows EXCEPT ![i].status = "deleted"]
        BY <2>3 DEF DeleteDecision
      <3>2. PICK d : d = [rows[i] EXCEPT !.status = "deleted"]
        OBVIOUS
      <3>3. d \in Decisions /\ d.version = rows[i].version /\ d.at = rows[i].at
        BY <1>2, <3>2 DEF Decisions
      <3>4. rows' = [rows EXCEPT ![i] = d]
        BY <1>2, <3>1, <3>2
      <3>5. rows[i].version <= d.version /\ d.version <= changes' + 1
        BY <1>1, <1>2, <1>3, <1>4, <3>3
      <3> QED
        BY <3>3, <3>4, <3>5, Zenon
    <2> QED
      BY <2>1, <2>2, <2>3
  <1> QED
    BY <1>4, <1>5, <1>6 DEF RowMoves

LEMMA LogMovesOn == TInv /\ AppendAudit => LogMoves
  <1> SUFFICES ASSUME TInv, AppendAudit PROVE LogMoves
    OBVIOUS
  <1>1. PICK e \in Events, t \in Stamps : log' = Append(log, Entry(e, t))
    BY DEF AppendAudit
  <1>2. Entry(e, t) \in Entries
    BY <1>1, StampTypes DEF Entry, Entries, TInv
  <1>3. changes' = changes + 1 /\ changes' \in 0 .. MaxChanges
    BY ChangesAssumption DEF AppendAudit, Change, TInv
  <1> QED
    BY <1>1, <1>2, <1>3 DEF LogMoves, AppendAudit, UnchangedReader

\* What can be on a list: decisions have ids, entries of the log positions.
Places == IF query.of = "decisions" THEN Ids ELSE DOMAIN log

Before(i) == {j \in Listed : Precedes(j, i)}

\* What a change takes off the list.
Departs ==
  \/ Listed \subseteq Listed' /\ lost'.page = lost.page
  \/ \E i \in Listed : Listed \ {i} \subseteq Listed' /\ lost'.page = lost.page + 1

\* How a change shifts the list: something comes to it or up on it, or leaves it or
\* falls back on it.
Shifts ==
  \/ \E c : /\ changes' = changes + 1 /\ lost'.reading = lost.reading
            /\ Listed \subseteq Listed'
            /\ \A i \in Listed : Before(i)' \subseteq Before(i) \cup {c}
            /\ \A k \in owed' : Before(k) \subseteq Before(k)'
  \/ \E c \in Listed \ owed' :
            /\ changes' = changes + 1 /\ lost'.reading = lost.reading + 1
            /\ Listed \ {c} \subseteq Listed'
            /\ \A i \in Listed \ {c} : Before(i)' \subseteq Before(i)
            /\ \A k \in owed' : Before(k) \ {c} \subseteq Before(k)'
  \/ /\ changes' = changes /\ lost'.reading = lost.reading
     /\ Listed' = Listed /\ \A i : Before(i)' = Before(i)

\* What every step keeps: nothing that is owed falls off the list, and nothing on the
\* list gets a place of its own that it did not have.
Grows ==
  /\ owed' \subseteq owed /\ owed' \subseteq Listed'
  /\ Places \subseteq Places' /\ \A i \in Places : Distinct(i)' => Distinct(i)
  /\ \A i \in Ids : rows[i].version <= rows'[i].version
  /\ Len(log) <= Len(log') /\ \A n \in 1 .. Len(log) : log'[n] = log[n]

LEMMA DecisionsDistinct ==
  ASSUME rows \in [Ids -> Decisions], query.of = "decisions", NEW i \in Ids
  PROVE  Distinct(i)
  <1> SUFFICES ASSUME NEW j \in Listed, j # i
               PROVE  Precedes(i, j) \/ Precedes(j, i)
    BY DEF Distinct
  <1>1. j \in Ids
    BY DEF Listed
  <1>2. rows[i] \in Decisions /\ rows[j] \in Decisions /\ i \in Nat /\ j \in Nat
    BY <1>1, IdsAssumption
  <1>3. rows[i].at \in Nat /\ rows[j].at \in Nat
    BY <1>2 DEF Decisions
  <1> QED
    BY <1>2, <1>3 DEF Precedes

\* A change to a row shifts the others by that row only.
LEMMA RowShifts ==
  ASSUME TInv, NEW c \in Ids, RowMoves(c)
  PROVE  Shifts /\ Departs /\ Listed \ {c} \subseteq Listed'
  <1>1. PICK d \in Decisions : rows' = [rows EXCEPT ![c] = d]
    BY DEF RowMoves
  <1>2. rows \in [Ids -> Decisions] /\ owed \subseteq Listed /\ lost.reading \in Nat
    BY DEF TInv
  <1>3. /\ query.of = "decisions" /\ query' = query /\ changes' = changes + 1
        /\ owed' = owed \ {c}
        /\ lost' = [reading |-> lost.reading + (IF Leaves(c) \/ FallsBack(c) THEN 1 ELSE 0),
                    page    |-> lost.page + (IF Leaves(c) THEN 1 ELSE 0)]
    BY DEF RowMoves, Noted
  <1>4. \A j \in Ids : j # c => rows'[j] = rows[j]
    BY <1>1, <1>2
  <1>5. rows' \in [Ids -> Decisions]
    BY <1>1, <1>2
  <1>6. \A j \in Ids : j \in Nat /\ rows[j].at \in Nat /\ rows'[j].at \in Nat
    BY <1>2, <1>5, IdsAssumption DEF Decisions
  <1>7. Listed \subseteq Ids /\ Listed' \subseteq Ids
    BY <1>3 DEF Listed
  <1>8. \A j \in Ids : j # c => (j \in Listed <=> j \in Listed')
    BY <1>3, <1>4 DEF Listed, Live
  <1>9. \A i \in Ids, j \in Ids : Precedes(j, i) <=>
          rows[j].at > rows[i].at \/ (rows[j].at = rows[i].at /\ j > i)
    BY <1>3 DEF Precedes
  <1>10. \A i \in Ids, j \in Ids : Precedes(j, i)' <=>
          rows'[j].at > rows'[i].at \/ (rows'[j].at = rows'[i].at /\ j > i)
    BY <1>3 DEF Precedes
  <1>11. \A i : Before(i)' = {j \in Listed' : Precedes(j, i)'}
    BY DEF Before
  <1>12. Listed \ {c} \subseteq Listed'
    BY <1>7, <1>8
  <1>13. Departs
    <2>1. CASE Leaves(c)
      BY <1>3, <1>12, <2>1 DEF Departs, Leaves
    <2>2. CASE ~Leaves(c)
      <3>1. lost'.page = lost.page
        BY <1>3, <2>2 DEF TInv
      <3> QED
        BY <1>12, <2>2, <3>1 DEF Departs, Leaves
    <2> QED
      BY <2>1, <2>2
  <1>14. ASSUME Leaves(c) \/ FallsBack(c) PROVE Shifts
    <2>1. c \in Listed \ owed' /\ lost'.reading = lost.reading + 1
      BY <1>3, <1>14 DEF Leaves, FallsBack
    <2>2. ASSUME NEW i \in Listed \ {c} PROVE Before(i)' \subseteq Before(i)
      <3> SUFFICES ASSUME NEW j \in Listed', Precedes(j, i)'
                   PROVE  j \in Listed /\ Precedes(j, i)
        BY <1>11 DEF Before
      <3>1. i \in Ids /\ i # c /\ j \in Ids /\ rows'[i] = rows[i]
        BY <1>4, <1>7
      <3>2. CASE j # c
        BY <1>4, <1>8, <1>9, <1>10, <3>1, <3>2
      <3>3. CASE j = c
        <4>1. j \in Listed /\ rows'[j].at < rows[j].at
          BY <1>14, <3>3 DEF Leaves, FallsBack
        <4> QED
          BY <1>6, <1>9, <1>10, <3>1, <4>1
      <3> QED
        BY <3>2, <3>3
    <2>3. ASSUME NEW k \in owed' PROVE Before(k) \ {c} \subseteq Before(k)'
      <3>1. k \in Ids /\ k # c /\ rows'[k] = rows[k]
        BY <1>2, <1>3, <1>4, <1>7
      <3> QED
        BY <1>4, <1>7, <1>8, <1>9, <1>10, <1>11, <3>1 DEF Before
    <2> QED
      BY <1>3, <1>12, <2>1, <2>2, <2>3 DEF Shifts
  <1>15. ASSUME ~(Leaves(c) \/ FallsBack(c)) PROVE Shifts
    <2>1. lost'.reading = lost.reading
      BY <1>2, <1>3, <1>15
    <2>2. c \in Listed => c \in Listed' /\ rows[c].at <= rows'[c].at
      BY <1>6, <1>7, <1>15 DEF Leaves, FallsBack
    <2>3. Listed \subseteq Listed'
      BY <1>12, <2>2
    <2>4. ASSUME NEW i \in Listed PROVE Before(i)' \subseteq Before(i) \cup {c}
      <3> SUFFICES ASSUME NEW j \in Listed', Precedes(j, i)', j # c
                   PROVE  j \in Listed /\ Precedes(j, i)
        BY <1>11 DEF Before
      <3>1. i \in Ids /\ j \in Ids /\ rows'[j] = rows[j] /\ j \in Listed
        BY <1>4, <1>7, <1>8
      <3>2. rows[i].at <= rows'[i].at
        BY <1>4, <1>6, <2>2, <3>1
      <3> QED
        BY <1>6, <1>9, <1>10, <3>1, <3>2
    <2>5. ASSUME NEW k \in owed' PROVE Before(k) \subseteq Before(k)'
      <3> SUFFICES ASSUME NEW j \in Listed, Precedes(j, k)
                   PROVE  j \in Listed' /\ Precedes(j, k)'
        BY <1>11 DEF Before
      <3>1. k \in Ids /\ j \in Ids /\ rows'[k] = rows[k] /\ j \in Listed'
        BY <1>2, <1>3, <1>4, <1>7, <2>3
      <3>2. rows[j].at <= rows'[j].at
        BY <1>4, <1>6, <2>2, <3>1
      <3> QED
        BY <1>6, <1>9, <1>10, <3>1, <3>2
    <2> QED
      BY <1>3, <2>1, <2>3, <2>4, <2>5 DEF Shifts
  <1> QED
    BY <1>12, <1>13, <1>14, <1>15

LEMMA RowsGrow ==
  ASSUME TInv, NEW i \in Ids, RowMoves(i)
  PROVE  /\ Grows
         /\ rows' \in [Ids -> Decisions] /\ \A j \in Ids : rows'[j].version <= changes' + 1
  <1>1. PICK d \in Decisions :
          /\ rows' = [rows EXCEPT ![i] = d]
          /\ rows[i].version <= d.version /\ d.version <= changes' + 1
    BY DEF RowMoves
  <1>2. rows \in [Ids -> Decisions] /\ log \in Seq(Entries) /\ owed \subseteq Listed
    BY DEF TInv
  <1>3. /\ query.of = "decisions" /\ query' = query /\ log' = log /\ changes' = changes + 1
        /\ owed' = owed \ {i}
    BY DEF RowMoves, Noted
  <1>4. rows' \in [Ids -> Decisions] /\ \A j \in Ids : j # i => rows'[j] = rows[j]
    BY <1>1, <1>2
  <1>5. rows'[i] = d
    BY <1>1, <1>2
  <1>6. \A j \in Ids : rows[j].version \in Nat
    BY <1>2 DEF Decisions
  <1>7. \A j \in Ids : rows[j].version <= rows'[j].version
    BY <1>1, <1>4, <1>5, <1>6
  <1>8. \A j \in Ids : rows'[j].version <= changes' + 1
    <2>1. \A j \in Ids : rows[j].version <= changes + 1 /\ changes \in Nat
      BY ChangesAssumption DEF TInv
    <2> QED
      BY <1>1, <1>3, <1>4, <1>5, <1>6, <2>1
  <1>9. owed' \subseteq owed /\ owed' \subseteq Listed'
    BY <1>2, <1>3, RowShifts
  <1>10. Places \subseteq Places' /\ \A j \in Places : Distinct(j)
    BY <1>2, <1>3, DecisionsDistinct DEF Places
  <1>11. Len(log) <= Len(log') /\ \A n \in 1 .. Len(log) : log'[n] = log[n]
    BY <1>2, <1>3, LenProperties
  <1> QED
    BY <1>4, <1>7, <1>8, <1>9, <1>10, <1>11 DEF Grows

LEMMA LogGrows ==
  ASSUME TInv, LogMoves
  PROVE  Grows /\ Departs /\ Shifts /\ log' \in Seq(Entries)
  <1>1. PICK e \in Entries : log' = Append(log, e)
    BY DEF LogMoves
  <1>2. rows \in [Ids -> Decisions] /\ log \in Seq(Entries) /\ owed \subseteq Listed
    BY DEF TInv
  <1>3. /\ query.of # "decisions" /\ query' = query /\ rows' = rows /\ owed' = owed /\ lost' = lost
        /\ changes' = changes + 1
    BY DEF LogMoves
  <1>4. /\ log' \in Seq(Entries) /\ Len(log') = Len(log) + 1 /\ Len(log) \in Nat
        /\ \A n \in 1 .. Len(log) : log'[n] = log[n]
    BY <1>1, <1>2
  <1>5. Listed = 1 .. Len(log) /\ Listed' = 1 .. Len(log') /\ Places = Listed /\ Places' = Listed'
    BY <1>2, <1>3, <1>4, LenProperties DEF Listed, Places
  <1>6. Listed \subseteq Listed' /\ \A n \in Listed : log'[n] = log[n]
    BY <1>4, <1>5
  <1>7. \A i \in Listed, j \in Listed : Precedes(j, i)' <=> Precedes(j, i)
    BY <1>3, <1>6 DEF Precedes
  <1>8. \A i \in Places : Distinct(i)' => Distinct(i)
    BY <1>5, <1>6, <1>7 DEF Distinct
  <1>9. \A i \in Ids : rows[i].version <= rows'[i].version
    BY <1>2, <1>3 DEF Decisions
  <1>10. owed' \subseteq owed /\ owed' \subseteq Listed'
    BY <1>2, <1>3, <1>6
  <1>11. Departs
    BY <1>3, <1>6 DEF Departs
  <1>12. \A i : Before(i)' = {j \in Listed' : Precedes(j, i)'}
    BY DEF Before
  <1>13. \A i \in Listed : Before(i)' \subseteq Before(i) \cup {Len(log) + 1}
    <2>1. \A j \in Listed' : j \in Listed \/ j = Len(log) + 1
      BY <1>4, <1>5
    <2> QED
      BY <1>7, <1>12, <2>1 DEF Before
  <1>14. \A k \in owed' : Before(k) \subseteq Before(k)'
    BY <1>2, <1>3, <1>6, <1>7, <1>12 DEF Before
  <1>15. Shifts
    BY <1>3, <1>6, <1>13, <1>14 DEF Shifts
  <1>16. Len(log) <= Len(log')
    BY <1>4
  <1> QED
    BY <1>4, <1>5, <1>6, <1>8, <1>9, <1>10, <1>11, <1>15, <1>16 DEF Grows

LEMMA StillGrows ==
  ASSUME TInv, UNCHANGED <<rows, log, query, owed>>
  PROVE  /\ Grows /\ Listed' = Listed /\ Places' = Places
         /\ \A i : Before(i)' = Before(i) /\ (Distinct(i)' <=> Distinct(i))
  <1>1. rows \in [Ids -> Decisions] /\ log \in Seq(Entries) /\ owed \subseteq Listed
    BY DEF TInv
  <1>2. Listed' = Listed /\ Places' = Places
    BY DEF Listed, Live, Places
  <1>3. \A j, k : Precedes(j, k)' <=> Precedes(j, k)
    BY DEF Precedes
  <1>4. \A i : Before(i)' = Before(i) /\ (Distinct(i)' <=> Distinct(i))
    BY <1>2, <1>3 DEF Before, Distinct
  <1>5. \A i \in Ids : rows[i].version <= rows'[i].version
    BY <1>1 DEF Decisions
  <1>6. Len(log) \in Nat
    BY <1>1, LenProperties
  <1> QED
    BY <1>1, <1>2, <1>4, <1>5, <1>6 DEF Grows

-----------------------------------------------------------------------------
(* What a page is read from.                                                 *)

\* Every list a page is read from has all that is listed, once.
LEMMA SortedList ==
  ASSUME TInv, NEW list \in Sortings
  PROVE  /\ list \in Seq(Listed) /\ Len(list) = Cardinality(Listed) /\ Len(list) \in Nat
         /\ \A i \in Listed : \E n \in 1 .. Len(list) : list[n] = i
         /\ \A m, n \in 1 .. Len(list) :
              /\ m # n => list[m] # list[n]
              /\ m < n => ~Precedes(list[n], list[m])
  <1> DEFINE D == 1 .. Cardinality(Listed)
  <1>1. IsFiniteSet(Listed) /\ Cardinality(Listed) \in Nat
    BY ListedIsFinite DEF TInv
  <1>2. list \in SetToSeqs(Listed) /\ \A m, n \in DOMAIN list : m < n => ~Precedes(list[n], list[m])
    BY DEF Sortings
  <1>3. list \in [D -> Listed] /\ \A m, n \in D : m # n => list[m] # list[n]
    BY <1>2 DEF SetToSeqs
  <1>4. list \in Seq(Listed) /\ Len(list) = Cardinality(Listed)
    <2>1. PICK k \in Nat : k = Cardinality(Listed)
      BY <1>1
    <2>2. list \in [1 .. k -> Listed]
      BY <1>3, <2>1
    <2> QED
      BY <2>1, <2>2, FunctionIsSeq
  <1>5. list \in Injection(D, Listed)
    BY <1>3 DEF Injection, IsInjective
  <1>6. Cardinality(D) = Cardinality(Listed)
    BY <1>1, FS_Interval
  <1>7. list \in Surjection(D, Listed)
    BY <1>1, <1>5, <1>6, FS_Injection
  <1>8. \A i \in Listed : \E n \in D : list[n] = i
    BY <1>7 DEF Surjection
  <1> QED
    BY <1>1, <1>2, <1>3, <1>4, <1>8

\* Where the page begins on the list.
Skipped == (answer.page - 1) * PageSize

LEMMA SkippedTypes ==
  ASSUME TInv, query.of # "summary"
  PROVE  /\ answer \in Answers /\ answer.page \in Nat \ {0}
         /\ Skipped \in Nat /\ PageSize \in Nat \ {0} /\ ToldSize = PageSize
         /\ answer.page * PageSize = Skipped + PageSize
  <1>1. PageSize \in Nat \ {0} /\ ToldSize = PageSize
    BY QueryTypes DEF TInv
  <1>2. answer \in Answers /\ answer.page \in Nat \ {0}
    BY DEF TInv, Answers
  <1> QED
    BY <1>1, <1>2, Offsets DEF Skipped

\* The page cut out of a list.
LEMMA Cut ==
  ASSUME TInv, query.of # "summary", NEW list \in Seq(Listed)
  PROVE  /\ PageOf(list) \in Seq(Listed)
         /\ Len(PageOf(list)) \in 0 .. PageSize
         /\ Len(PageOf(list)) < PageSize => Skipped + Len(PageOf(list)) >= Len(list)
         /\ \A n \in 1 .. Len(PageOf(list)) :
              Skipped + n \in 1 .. Len(list) /\ PageOf(list)[n] = list[Skipped + n]
  <1>t. PICK from \in Nat, z \in Nat \ {0} : from = Skipped /\ z = PageSize
    BY SkippedTypes
  <1> DEFINE b == Min({from + z, Len(list)})
  <1>s. PageOf(list) = SubSeq(list, from + 1, b)
    BY <1>t, SkippedTypes DEF PageOf, Skipped
  <1>p. PICK items : items = PageOf(list)
    OBVIOUS
  <1>1. b = IF from + z <= Len(list) THEN from + z ELSE Len(list)
    BY SmallerOfTwo
  <1> HIDE DEF b
  <1>2. b \in Int /\ from + 1 \in Int /\ Len(list) \in Nat
    BY <1>1
  <1>3. \A i \in from + 1 .. b : list[i] \in Listed
    BY <1>1, <1>2, ElementOfSeq
  <1>4. /\ items \in Seq(Listed)
        /\ Len(items) = IF from + 1 <= b THEN b - (from + 1) + 1 ELSE 0
        /\ \A i \in 1 .. b - (from + 1) + 1 : items[i] = list[from + 1 + i - 1]
    <2>1. PICK lo \in Int, hi \in Int : lo = from + 1 /\ hi = b
      BY <1>2
    <2>2. \A i \in lo .. hi : list[i] \in Listed
      BY <1>3, <2>1
    <2>3. /\ SubSeq(list, lo, hi) \in Seq(Listed)
          /\ Len(SubSeq(list, lo, hi)) = IF lo <= hi THEN hi - lo + 1 ELSE 0
          /\ \A i \in 1 .. hi - lo + 1 : SubSeq(list, lo, hi)[i] = list[lo + i - 1]
      BY <2>2, SubSeqProperties
    <2>4. items = SubSeq(list, lo, hi)
      BY <1>s, <1>p, <2>1
    <2> QED
      BY <2>1, <2>3, <2>4
  <1>5. ASSUME NEW n \in 1 .. Len(items)
        PROVE  from + n \in 1 .. Len(list) /\ items[n] = list[from + n]
    <2>1. n \in 1 .. b - (from + 1) + 1 /\ from + 1 + n - 1 = from + n /\ from + n \in 1 .. Len(list)
      BY <1>1, <1>2, <1>4
    <2> QED
      BY <1>4, <2>1
  <1>6. /\ Len(items) \in 0 .. z
        /\ Len(items) < z => from + Len(items) >= Len(list)
    BY <1>1, <1>2, <1>4
  <1> QED
    BY <1>4, <1>5, <1>6, <1>p, <1>t

LEMMA PageFound ==
  ASSUME TInv, FindPage
  PROVE  \E list \in Sortings, items \in Seq(Listed) :
           /\ answer' = [answer EXCEPT !.items = items,
                           !.versions = [n \in DOMAIN items |->
                              IF query.of = "decisions" THEN rows[items[n]].version ELSE 1]]
           /\ step' = IF query.of = "decisions" /\ items # <<>> THEN "revisions" ELSE "reply"
           /\ Len(items) \in 0 .. PageSize
           /\ Len(items) < PageSize => Skipped + Len(items) >= Len(list)
           /\ \A n \in 1 .. Len(items) : Skipped + n \in 1 .. Len(list) /\ items[n] = list[Skipped + n]
  <1>1. PICK list \in Sortings :
          /\ answer' = [answer EXCEPT !.items = PageOf(list),
                          !.versions = [n \in DOMAIN PageOf(list) |->
                             IF query.of = "decisions" THEN rows[PageOf(list)[n]].version ELSE 1]]
          /\ step' = IF query.of = "decisions" /\ PageOf(list) # <<>> THEN "revisions" ELSE "reply"
    BY DEF FindPage
  <1>2. query.of # "summary"
    BY DEF FindPage, Asks
  <1>3. list \in Seq(Listed)
    BY SortedList
  <1>4. PICK items : items = PageOf(list)
    OBVIOUS
  <1>5. /\ items \in Seq(Listed) /\ Len(items) \in 0 .. PageSize
        /\ Len(items) < PageSize => Skipped + Len(items) >= Len(list)
        /\ \A n \in 1 .. Len(items) : Skipped + n \in 1 .. Len(list) /\ items[n] = list[Skipped + n]
    BY <1>2, <1>3, <1>4, Cut
  <1> QED
    BY <1>1, <1>4, <1>5

\* The page as the answer has it afterwards.
LEMMA PageFoundInAnswer ==
  ASSUME TInv, FindPage
  PROVE  \E list \in Sortings, items \in Seq(Listed), versions \in Seq(Nat) :
           /\ answer' \in Answers
           /\ answer' = [answer EXCEPT !.items = items, !.versions = versions]
           /\ answer'.page = answer.page /\ answer'.total = answer.total
           /\ answer'.items = items /\ answer'.versions = versions
           /\ DOMAIN versions = DOMAIN items /\ DOMAIN items = 1 .. Len(items)
           /\ query.of = "decisions" => \A n \in DOMAIN items : versions[n] = rows[items[n]].version
           /\ step' = IF query.of = "decisions" /\ items # <<>> THEN "revisions" ELSE "reply"
           /\ Len(items) \in 0 .. PageSize
           /\ Len(items) < PageSize => Skipped + Len(items) >= Len(list)
           /\ \A n \in 1 .. Len(items) : Skipped + n \in 1 .. Len(list) /\ items[n] = list[Skipped + n]
  <1>1. PICK list \in Sortings, items \in Seq(Listed) :
           /\ answer' = [answer EXCEPT !.items = items,
                           !.versions = [n \in DOMAIN items |->
                              IF query.of = "decisions" THEN rows[items[n]].version ELSE 1]]
           /\ step' = IF query.of = "decisions" /\ items # <<>> THEN "revisions" ELSE "reply"
           /\ Len(items) \in 0 .. PageSize
           /\ Len(items) < PageSize => Skipped + Len(items) >= Len(list)
           /\ \A n \in 1 .. Len(items) : Skipped + n \in 1 .. Len(list) /\ items[n] = list[Skipped + n]
    BY PageFound
  <1>2. query.of # "summary"
    BY DEF FindPage, Asks
  <1>3. answer \in Answers
    BY <1>2, SkippedTypes
  <1>4. PICK versions : versions = [n \in DOMAIN items |->
                          IF query.of = "decisions" THEN rows[items[n]].version ELSE 1]
    OBVIOUS
  <1>5. DOMAIN items = 1 .. Len(items) /\ Len(items) \in Nat
    BY <1>1, LenProperties
  <1>6. ASSUME NEW n \in DOMAIN items
        PROVE  items[n] \in Listed /\ versions[n] \in Nat
    <2>1. items[n] \in Listed
      BY <1>1, <1>5, ElementOfSeq
    <2>2. query.of = "decisions" => items[n] \in Ids
      BY <2>1 DEF Listed
    <2>3. query.of = "decisions" => rows[items[n]].version \in Nat
      BY <2>2 DEF TInv, Decisions
    <2> QED
      BY <1>4, <2>1, <2>3
  <1>7. versions \in Seq(Nat) /\ DOMAIN versions = DOMAIN items
    BY <1>4, <1>5, <1>6
  <1>8. items \in Seq(Nat)
    <2>1. Listed \subseteq Nat
      BY ListedIsFinite DEF TInv
    <2>2. items \in [1 .. Len(items) -> Nat]
      BY <1>5, <1>6, <2>1, LenProperties
    <2> QED
      BY <1>5, <2>2, FunctionIsSeq
  <1>9. answer' = [answer EXCEPT !.items = items, !.versions = versions]
    BY <1>1, <1>4
  <1>10. /\ answer' \in Answers
         /\ answer'.page = answer.page /\ answer'.total = answer.total
         /\ answer'.items = items /\ answer'.versions = versions
    BY <1>3, <1>7, <1>8, <1>9 DEF Answers
  <1>11. query.of = "decisions" => \A n \in DOMAIN items : versions[n] = rows[items[n]].version
    BY <1>4
  <1>12. step' = IF query.of = "decisions" /\ items # <<>> THEN "revisions" ELSE "reply"
    BY <1>1
  <1>13. /\ Len(items) \in 0 .. PageSize
         /\ Len(items) < PageSize => Skipped + Len(items) >= Len(list)
         /\ \A n \in 1 .. Len(items) : Skipped + n \in 1 .. Len(list) /\ items[n] = list[Skipped + n]
    BY <1>1
  <1>14. list \in Sortings /\ items \in Seq(Listed) /\ versions \in Seq(Nat)
    BY <1>1, <1>7
  <1> QED
    BY <1>5, <1>7, <1>9, <1>10, <1>11, <1>12, <1>13, <1>14

-----------------------------------------------------------------------------
(* What the steps do to the answer.                                          *)

WriterMoves ==
  \/ \E i \in Ids : RowMoves(i)
  \/ LogMoves
  \/ Tick
  \/ UNCHANGED vars

LEMMA NextMoves ==
  ASSUME TInv, [Next]_vars
  PROVE  \/ WriterMoves
         \/ CountListed \/ FindPage \/ FindRevisions \/ ReceivePage
         \/ SummarizeAudits \/ QueryFails
  <1>1. CASE \E i \in Ids : CreateDecision(i) \/ ChangeDecision(i) \/ DeleteDecision(i)
    BY <1>1, RowsMove DEF WriterMoves
  <1>2. CASE AppendAudit
    BY <1>2, LogMovesOn DEF WriterMoves
  <1> QED
    BY <1>1, <1>2 DEF Next, Finished, WriterMoves

LEMMA WriterKeeps ==
  ASSUME TInv, WriterMoves
  PROVE  Grows /\ Departs /\ Shifts /\ UNCHANGED <<query, step, answer, seen>>
  <1>1. ASSUME NEW i \in Ids, RowMoves(i)
        PROVE  Grows /\ Departs /\ Shifts /\ UNCHANGED <<query, step, answer, seen>>
    BY <1>1, RowsGrow, RowShifts DEF RowMoves
  <1>2. CASE LogMoves
    BY <1>2, LogGrows DEF LogMoves
  <1>3. CASE Tick
    BY <1>3, StillGrows DEF Tick, UnchangedReader, Departs, Shifts
  <1>4. CASE UNCHANGED vars
    BY <1>4, StillGrows DEF vars, tables, Departs, Shifts
  <1> QED
    BY <1>1, <1>2, <1>3, <1>4 DEF WriterMoves

LEMMA ReaderKeeps ==
  ASSUME TInv, CountListed \/ FindPage \/ FindRevisions \/ ReceivePage \/ SummarizeAudits \/ QueryFails
  PROVE  /\ Grows /\ UNCHANGED <<now, rows, log, changes, query, owed>> /\ Listed' = Listed
         /\ lost' \in [reading : Nat, page : Nat] /\ lost'.reading = lost.reading
         /\ lost'.page = IF step = "count" /\ step' = "find" THEN 0 ELSE lost.page
  <1>1. UNCHANGED <<now, rows, log, changes, query, owed>>
    BY DEF CountListed, FindPage, FindRevisions, ReceivePage, SummarizeAudits, Count, QueryFails,
           UnchangedTables, tables
  <1>2. PICK m \in Nat, n \in Nat : lost = [reading |-> m, page |-> n]
    BY DEF TInv
  <1>3. ASSUME CountListed
        PROVE  /\ lost' \in [reading : Nat, page : Nat] /\ lost'.reading = lost.reading
               /\ lost'.page = IF step = "count" /\ step' = "find" THEN 0 ELSE lost.page
    <2>1. lost' = [reading |-> m, page |-> 0] /\ step = "count" /\ step' = "find"
      BY <1>2, <1>3 DEF CountListed, Asks
    <2>2. lost' \in [reading : Nat, page : Nat] /\ lost'.reading = m /\ lost'.page = 0 /\ lost.reading = m
      BY <1>2, <2>1
    <2> QED
      BY <2>1, <2>2
  <1>4. ASSUME FindPage \/ FindRevisions \/ ReceivePage \/ SummarizeAudits \/ QueryFails
        PROVE  /\ lost' \in [reading : Nat, page : Nat] /\ lost'.reading = lost.reading
               /\ lost'.page = IF step = "count" /\ step' = "find" THEN 0 ELSE lost.page
    <2>1. lost' = lost /\ ~(step = "count" /\ step' = "find")
      BY <1>4 DEF FindPage, FindRevisions, ReceivePage, SummarizeAudits, Count, QueryFails,
                  UnchangedTables, Asks
    <2>2. lost \in [reading : Nat, page : Nat]
      BY DEF TInv
    <2> QED
      BY <2>1, <2>2
  <1> QED
    BY <1>1, <1>3, <1>4, StillGrows

LEMMA CountMoves ==
  ASSUME TInv, CountListed
  PROVE  /\ query.of # "summary" /\ step = "count" /\ step' = "find" /\ seen' = seen
         /\ answer' \in Answers
         /\ answer'.page = answer.page /\ answer'.items = answer.items
         /\ answer'.total = Cardinality(Listed)
  <1>1. /\ query.of # "summary" /\ step = "count" /\ step' = "find" /\ seen' = seen
        /\ answer' = [answer EXCEPT !.total = Cardinality(Listed)]
    BY DEF CountListed, Asks
  <1>2. PICK k \in Nat : k = Cardinality(Listed)
    BY ListedIsFinite DEF TInv
  <1>3. answer \in Answers
    BY <1>1 DEF TInv
  <1>4. /\ [answer EXCEPT !.total = k] \in Answers /\ [answer EXCEPT !.total = k].page = answer.page
        /\ [answer EXCEPT !.total = k].items = answer.items /\ [answer EXCEPT !.total = k].total = k
    BY <1>3 DEF Answers
  <1> QED
    BY <1>1, <1>2, <1>4

LEMMA RevisionsMove ==
  ASSUME TInv, FindRevisions
  PROVE  \E revisions \in Seq(SUBSET Nat) :
           /\ query.of = "decisions" /\ step = "revisions" /\ step' = "reply" /\ seen' = seen
           /\ answer' \in Answers
           /\ answer'.page = answer.page /\ answer'.items = answer.items
           /\ answer'.total = answer.total /\ answer'.versions = answer.versions
           /\ answer'.revisions = revisions
           /\ \A n \in 1 .. Len(answer.items) : revisions[n] = 1 .. rows[answer.items[n]].version
  <1>1. /\ query.of = "decisions" /\ step = "revisions" /\ step' = "reply" /\ seen' = seen
        /\ answer' = [answer EXCEPT !.revisions =
                        [n \in DOMAIN answer.items |-> 1 .. rows[answer.items[n]].version]]
    BY DEF FindRevisions, Asks
  <1>2. PICK revisions : revisions = [n \in DOMAIN answer.items |-> 1 .. rows[answer.items[n]].version]
    OBVIOUS
  <1>3. answer \in Answers /\ answer.items \in Seq(Nat)
    BY <1>1 DEF TInv, Answers
  <1>4. DOMAIN answer.items = 1 .. Len(answer.items) /\ Len(answer.items) \in Nat
    BY <1>3, LenProperties
  <1>5. ASSUME NEW n \in 1 .. Len(answer.items)
        PROVE  revisions[n] = 1 .. rows[answer.items[n]].version /\ revisions[n] \in SUBSET Nat
    <2>1. answer.items[n] \in Ids
      BY <1>1 DEF TInv
    <2>2. rows[answer.items[n]].version \in Nat
      BY <2>1 DEF TInv, Decisions
    <2> QED
      BY <1>2, <1>4, <2>2
  <1>6. revisions \in Seq(SUBSET Nat)
    <2>1. revisions \in [1 .. Len(answer.items) -> SUBSET Nat]
      BY <1>2, <1>4, <1>5
    <2> QED
      BY <1>4, <2>1, FunctionIsSeq
  <1>7. answer' = [answer EXCEPT !.revisions = revisions]
    BY <1>1, <1>2
  <1>8. /\ answer' \in Answers
        /\ answer'.page = answer.page /\ answer'.items = answer.items
        /\ answer'.total = answer.total /\ answer'.versions = answer.versions
        /\ answer'.revisions = revisions
    BY <1>3, <1>6, <1>7 DEF Answers
  <1> QED
    BY <1>1, <1>5, <1>6, <1>8

LEMMA NoAnswerTypes ==
  /\ NoAnswer \in Answers /\ NoAnswer.page = 1 /\ NoAnswer.items = <<>> /\ Len(NoAnswer.items) = 0
  /\ \A p \in Nat \ {0} : /\ [NoAnswer EXCEPT !.page = p] \in Answers
                          /\ [NoAnswer EXCEPT !.page = p].page = p
                          /\ [NoAnswer EXCEPT !.page = p].items = <<>>
  <1>1. <<>> \in Seq(Nat) /\ <<>> \in Seq(SUBSET Nat) /\ Len(<<>>) = 0
    BY EmptySeq
  <1>2. NoAnswer.page = 1 /\ NoAnswer.items = <<>>
    BY DEF NoAnswer
  <1>3. NoAnswer \in Answers
    BY <1>1 DEF NoAnswer, Answers
  <1>4. ASSUME NEW p \in Nat \ {0}
        PROVE  /\ [NoAnswer EXCEPT !.page = p] \in Answers
               /\ [NoAnswer EXCEPT !.page = p].page = p
               /\ [NoAnswer EXCEPT !.page = p].items = NoAnswer.items
    BY <1>3 DEF Answers
  <1> QED
    BY <1>1, <1>2, <1>3, <1>4

LEMMA ReceiveMoves ==
  ASSUME TInv, ReceivePage
  PROVE  /\ query.of # "summary" /\ step = "reply"
         /\ seen' = seen \cup ToSet(answer.items)
         /\ answer' \in Answers /\ Len(answer'.items) <= PageSize
         /\ \/ Len(answer.items) < PageSize /\ step' = "done" /\ answer' = answer
            \/ Len(answer.items) = PageSize /\ step' = "count" /\ answer'.page = answer.page + 1
  <1>1. query.of # "summary" /\ step = "reply" /\ seen' = seen \cup ToSet(answer.items)
    BY DEF ReceivePage, Asks
  <1>2. /\ answer \in Answers /\ Len(answer.items) <= PageSize /\ ToldSize = PageSize
        /\ PageSize \in Nat /\ answer.page + 1 \in Nat \ {0} /\ Len(answer.items) \in Nat
    <2>1. answer \in Answers /\ Len(answer.items) <= PageSize
      BY <1>1 DEF TInv
    <2>2. Len(answer.items) \in Nat
      BY <2>1, LenProperties DEF Answers
    <2> QED
      BY <1>1, <2>1, <2>2, SkippedTypes
  <1>3. CASE Len(answer.items) < ToldSize
    BY <1>1, <1>2, <1>3 DEF ReceivePage
  <1>4. CASE ~(Len(answer.items) < ToldSize)
    <2>1. step' = "count" /\ answer' = [NoAnswer EXCEPT !.page = answer.page + 1]
      BY <1>4 DEF ReceivePage
    <2>2. answer' \in Answers /\ answer'.page = answer.page + 1 /\ Len(answer'.items) = 0
      BY <1>2, <2>1, NoAnswerTypes
    <2> QED
      BY <1>1, <1>2, <1>4, <2>1, <2>2
  <1> QED
    BY <1>3, <1>4

-----------------------------------------------------------------------------

LEMMA InitTypes == Init => TInv
  <1> SUFFICES ASSUME Init PROVE TInv
    OBVIOUS
  <1>1. /\ now = Window + 1 /\ changes = 0 /\ query \in Queries
        /\ step = IF query.of = "summary" THEN "total" ELSE "count"
        /\ answer = IF query.of = "summary" THEN NoSummary ELSE NoAnswer
        /\ owed = Listed /\ lost = [reading |-> 0, page |-> 0]
    BY DEF Init, Queries
  <1>2. now \in Window + 1 .. LastTick /\ changes \in 0 .. MaxChanges /\ {now - 1, now} \subseteq 0 .. LastTick
    BY <1>1, WindowAssumption, ChangesAssumption
  <1>3. /\ rows \in [Ids -> Decisions] /\ \A i \in Ids : rows[i].version <= 1
        /\ log \in Seq(Entries)
    <2>1. \A s \in Statuses, at \in {now - 1, now} :
            Decision(1, s, at) \in Decisions /\ Decision(1, s, at).version = 1
      BY <1>2, ChangesAssumption DEF Decision, Decisions
    <2>2. NoDecision \in Decisions /\ NoDecision.version = 0
      <3>1. 0 \in 0 .. MaxChanges + 1 /\ 0 \in 0 .. LastTick
        BY ChangesAssumption, WindowAssumption
      <3> QED
        BY <3>1 DEF NoDecision, Decision, Decisions, Statuses
    <2>3. CASE query.of = "decisions"
      <3>1. PICK k \in Ids, s \in Statuses : \E at \in [1 .. k -> {now - 1, now}] :
              /\ rows = [i \in Ids |-> IF i <= k THEN Decision(1, IF i = 1 THEN s ELSE "draft", at[i])
                                       ELSE NoDecision]
              /\ log = <<>>
        BY <2>3 DEF Init
      <3>2. PICK at \in [1 .. k -> {now - 1, now}] :
              /\ rows = [i \in Ids |-> IF i <= k THEN Decision(1, IF i = 1 THEN s ELSE "draft", at[i])
                                       ELSE NoDecision]
              /\ log = <<>>
        BY <3>1
      <3>3. ASSUME NEW i \in Ids
            PROVE  rows[i] \in Decisions /\ rows[i].version <= 1
        <4>1. i \in Nat \ {0} /\ k \in Nat
          BY IdsAssumption, <3>1
        <4>2. CASE i <= k
          <5>1. at[i] \in {now - 1, now}
            BY <3>2, <4>1, <4>2
          <5>2. PICK t \in Statuses : t = IF i = 1 THEN s ELSE "draft"
            BY <3>1 DEF Statuses
          <5>3. rows[i] = Decision(1, t, at[i])
            BY <3>2, <4>2, <5>2
          <5> QED
            BY <2>1, <5>1, <5>2, <5>3
        <4>3. CASE ~(i <= k)
          BY <2>2, <3>2, <4>3
        <4> QED
          BY <4>2, <4>3
      <3>4. rows = [i \in Ids |-> rows[i]]
        BY <3>2
      <3> QED
        BY <3>2, <3>3, <3>4, EmptySeq
    <2>4. CASE query.of # "decisions"
      <3>1. PICK e \in Events, at \in {now - 1, now} :
              log = <<Entry(e, now - 1), Entry(e, at)>> /\ rows = [i \in Ids |-> NoDecision]
        BY <2>4 DEF Init
      <3>2. Entry(e, now - 1) \in Entries /\ Entry(e, at) \in Entries
        BY <1>2, <3>1 DEF Entry, Entries
      <3> QED
        BY <2>2, <3>1, <3>2
    <2> QED
      BY <2>3, <2>4
  <1>4. query.of # "summary" => answer \in Answers /\ Len(answer.items) <= PageSize
    BY <1>1, NoAnswerTypes, QueryTypes
  <1>5. step \in Steps /\ step # "revisions"
    BY <1>1 DEF Steps
  <1>6. \A i \in Ids : rows[i].version <= changes + 1
    BY <1>1, <1>3
  <1>7. lost \in [reading : Nat, page : Nat] /\ lost.reading <= changes /\ lost.page <= changes
    BY <1>1
  <1>8. owed \subseteq Listed
    BY <1>1
  <1> QED
    BY <1>1, <1>2, <1>3, <1>4, <1>5, <1>6, <1>7, <1>8, Zenon DEF TInv

TablesTyped ==
  /\ now \in Window + 1 .. LastTick /\ changes \in 0 .. MaxChanges
  /\ rows \in [Ids -> Decisions] /\ \A i \in Ids : rows[i].version <= changes + 1
  /\ log \in Seq(Entries)
  /\ lost \in [reading : Nat, page : Nat] /\ lost.reading <= changes /\ lost.page <= changes

LEMMA WriterTypes == TInv /\ WriterMoves => TInv'
  <1> SUFFICES ASSUME TInv, WriterMoves PROVE TInv'
    OBVIOUS
  <1>1. Grows /\ UNCHANGED <<query, step, answer, seen>>
    BY WriterKeeps
  <1>2. TablesTyped'
    <2>1. ASSUME NEW i \in Ids, RowMoves(i)
          PROVE  TablesTyped'
      <3>1. now' = now /\ changes' = changes + 1 /\ changes' \in 0 .. MaxChanges /\ log' = log
        BY <2>1 DEF RowMoves
      <3>2. /\ changes \in Nat
            /\ lost \in [reading : Nat, page : Nat] /\ lost.reading <= changes /\ lost.page <= changes
        BY ChangesAssumption DEF TInv
      <3>3. PICK m \in {0, 1}, n \in {0, 1} :
              lost' = [reading |-> lost.reading + m, page |-> lost.page + n]
        BY <2>1 DEF RowMoves, Noted
      <3>4. lost' \in [reading : Nat, page : Nat] /\ lost'.reading <= changes' /\ lost'.page <= changes'
        BY <3>1, <3>2, <3>3
      <3> QED
        BY <2>1, <3>1, <3>4, RowsGrow DEF TInv, TablesTyped
    <2>2. CASE LogMoves
      <3>1. changes \in Nat /\ changes' = changes + 1 /\ rows' = rows /\ now' = now /\ changes' \in 0 .. MaxChanges
        BY <2>2, ChangesAssumption DEF LogMoves, TInv
      <3>2. \A i \in Ids : rows[i].version \in Nat /\ rows[i].version <= changes + 1
        BY DEF TInv, Decisions
      <3>3. lost' \in [reading : Nat, page : Nat] /\ lost'.reading <= changes' /\ lost'.page <= changes'
        BY <2>2, <3>1 DEF LogMoves, TInv
      <3> QED
        BY <2>2, <3>1, <3>2, <3>3, LogGrows DEF TInv, TablesTyped
    <2>3. CASE Tick
      BY <2>3, WindowAssumption DEF Tick, TInv, TablesTyped
    <2>4. CASE UNCHANGED vars
      BY <2>4 DEF vars, tables, TInv, TablesTyped
    <2> QED
      BY <2>1, <2>2, <2>3, <2>4 DEF WriterMoves
  <1>3. owed' \subseteq Listed'
    BY <1>1 DEF Grows
  <1>4. /\ query' \in Queries /\ step' \in Steps
        /\ query'.of # "summary" => answer' \in Answers /\ Len(answer'.items) <= PageSize'
        /\ step' = "revisions" => \A n \in 1 .. Len(answer'.items) : answer'.items[n] \in Ids
    BY <1>1 DEF TInv, PageSize
  <1> QED
    BY <1>2, <1>3, <1>4, Zenon DEF TInv, TablesTyped

LEMMA ReaderTypes ==
  TInv /\ (CountListed \/ FindPage \/ FindRevisions \/ ReceivePage \/ SummarizeAudits \/ QueryFails) => TInv'
  <1> SUFFICES ASSUME TInv,
                      CountListed \/ FindPage \/ FindRevisions \/ ReceivePage \/ SummarizeAudits \/ QueryFails
               PROVE  TInv'
    OBVIOUS
  <1>1. UNCHANGED <<now, rows, log, changes, query, owed>> /\ Listed' = Listed /\ PageSize' = PageSize
    BY ReaderKeeps DEF PageSize
  <1>3. lost' \in [reading : Nat, page : Nat] /\ lost'.reading <= changes /\ lost'.page <= changes
    BY ReaderKeeps, ChangesAssumption DEF TInv
  <1>2. /\ step' \in Steps
        /\ query.of # "summary" => answer' \in Answers /\ Len(answer'.items) <= PageSize
        /\ step' = "revisions" => \A n \in 1 .. Len(answer'.items) : answer'.items[n] \in Ids
    <2>1. CASE CountListed
      BY <2>1, CountMoves DEF TInv, Steps
    <2>2. CASE FindPage
      <3>1. PICK items \in Seq(Listed) :
              /\ answer' \in Answers /\ answer'.items = items
              /\ Len(items) \in 0 .. PageSize
              /\ step' = IF query.of = "decisions" /\ items # <<>> THEN "revisions" ELSE "reply"
        BY <2>2, PageFoundInAnswer
      <3>2. query.of = "decisions" => \A n \in 1 .. Len(items) : items[n] \in Ids
        BY ElementOfSeq, ListedIsFinite DEF TInv
      <3>3. Len(items) <= PageSize
        BY <3>1, QueryTypes DEF TInv
      <3> QED
        BY <3>1, <3>2, <3>3 DEF Steps
    <2>3. CASE FindRevisions
      BY <2>3, RevisionsMove DEF TInv, Steps
    <2>4. CASE ReceivePage
      BY <2>4, ReceiveMoves DEF Steps
    <2>5. CASE SummarizeAudits
      BY <2>5 DEF SummarizeAudits, Count, Asks, Steps
    <2>6. CASE QueryFails
      BY <2>6, NoAnswerTypes, QueryTypes DEF QueryFails, Steps, TInv
    <2> QED
      BY <2>1, <2>2, <2>3, <2>4, <2>5, <2>6
  <1> QED
    BY <1>1, <1>2, <1>3 DEF TInv

LEMMA Typing == Spec => []TInv
  <1>1. TInv /\ [Next]_vars => TInv'
    BY NextMoves, WriterTypes, ReaderTypes
  <1> QED
    BY <1>1, InitTypes, PTL DEF Spec

LEMMA TypesHold == TInv => TypeOK
  <1> SUFFICES ASSUME TInv PROVE TypeOK
    OBVIOUS
  <1>1. now \in 0 .. LastTick
    BY WindowAssumption DEF TInv
  <1>2. rows \in [Ids -> [version : 0 .. MaxChanges + 1, status : Statuses \cup {"deleted"}, at : 0 .. LastTick]]
    BY DEF TInv, Decisions
  <1>3. \A e \in ToSet(log) : e.event \in Events /\ e.at \in 0 .. LastTick
    <2> SUFFICES ASSUME NEW n \in DOMAIN log
                 PROVE  log[n].event \in Events /\ log[n].at \in 0 .. LastTick
      BY DEF ToSet
    <2>1. log[n] \in Entries
      BY ElementOfSeq, LenProperties DEF TInv
    <2> QED
      BY <2>1 DEF Entries
  <1>4. query.of # "summary" => Len(answer.items) <= ToldSize
    BY QueryTypes DEF TInv
  <1>5. lost \in [reading : 0 .. MaxChanges, page : 0 .. MaxChanges]
    <2>1. PICK m \in Nat, n \in Nat : lost = [reading |-> m, page |-> n]
      BY DEF TInv
    <2>2. m \in 0 .. MaxChanges /\ n \in 0 .. MaxChanges
      BY <2>1, ChangesAssumption DEF TInv
    <2> QED
      BY <2>1, <2>2
  <1> QED
    BY <1>1, <1>2, <1>3, <1>4, <1>5 DEF TInv, TypeOK

\* Types, and no page is longer than the client is told a page is at most.
THEOREM TypesStay == Spec => []TypeOK
  BY Typing, TypesHold, PTL

-----------------------------------------------------------------------------
(* The revisions a page comes with. A version never goes back, so that the   *)
(* revisions read after the page go at least as far as the versions on it.   *)

HInv ==
  query.of = "decisions" /\ step \in {"revisions", "reply"} =>
    \A n \in 1 .. Len(answer.items) :
      /\ answer.items[n] \in Ids /\ answer.versions[n] \in Nat
      /\ answer.versions[n] <= rows[answer.items[n]].version
      /\ step = "reply" => 1 .. answer.versions[n] \subseteq answer.revisions[n]

LEMMA HistoryWriter == TInv /\ HInv /\ WriterMoves => HInv'
  <1> SUFFICES ASSUME TInv, HInv, WriterMoves,
                      query'.of = "decisions", step' \in {"revisions", "reply"},
                      NEW n \in 1 .. Len(answer'.items)
               PROVE  /\ answer'.items[n] \in Ids /\ answer'.versions[n] \in Nat
                      /\ answer'.versions[n] <= rows'[answer'.items[n]].version
                      /\ step' = "reply" => 1 .. answer'.versions[n] \subseteq answer'.revisions[n]
    BY DEF HInv
  <1>1. UNCHANGED <<query, step, answer>> /\ \A i \in Ids : rows[i].version <= rows'[i].version
    BY WriterKeeps DEF Grows
  <1>2. PICK i : i = answer.items[n]
    OBVIOUS
  <1>3. /\ i \in Ids /\ answer.versions[n] \in Nat /\ answer.versions[n] <= rows[i].version
        /\ step = "reply" => 1 .. answer.versions[n] \subseteq answer.revisions[n]
    BY <1>1, <1>2 DEF HInv
  <1>4. rows[i].version \in Nat /\ rows'[i].version \in Nat
    BY <1>3, WriterTypes DEF TInv, Decisions
  <1> QED
    BY <1>1, <1>2, <1>3, <1>4

LEMMA HistoryReader ==
  TInv /\ HInv /\ (CountListed \/ FindPage \/ FindRevisions \/ ReceivePage \/ SummarizeAudits \/ QueryFails) => HInv'
  <1> SUFFICES ASSUME TInv, HInv,
                      CountListed \/ FindPage \/ FindRevisions \/ ReceivePage \/ SummarizeAudits \/ QueryFails,
                      query'.of = "decisions", step' \in {"revisions", "reply"},
                      NEW n \in 1 .. Len(answer'.items)
               PROVE  /\ answer'.items[n] \in Ids /\ answer'.versions[n] \in Nat
                      /\ answer'.versions[n] <= rows'[answer'.items[n]].version
                      /\ step' = "reply" => 1 .. answer'.versions[n] \subseteq answer'.revisions[n]
    BY DEF HInv
  <1>1. rows' = rows /\ query' = query
    BY ReaderKeeps
  <1>2. CASE FindPage
    <2>1. PICK items \in Seq(Listed), versions \in Seq(Nat) :
            /\ answer'.items = items /\ answer'.versions = versions
            /\ DOMAIN versions = DOMAIN items /\ DOMAIN items = 1 .. Len(items)
            /\ \A m \in DOMAIN items : versions[m] = rows[items[m]].version
            /\ step' = IF items # <<>> THEN "revisions" ELSE "reply"
      BY <1>1, <1>2, PageFoundInAnswer
    <2>2. items # <<>> /\ step' # "reply"
      BY <2>1, EmptySeq
    <2>3. items[n] \in Ids
      BY <1>1, <2>1, ElementOfSeq, ListedIsFinite DEF TInv
    <2>4. versions[n] = rows[items[n]].version /\ rows[items[n]].version \in Nat
      BY <2>1, <2>3 DEF TInv, Decisions
    <2> QED
      BY <1>1, <2>1, <2>2, <2>3, <2>4
  <1>3. CASE FindRevisions
    <2>1. PICK revisions \in Seq(SUBSET Nat) :
            /\ step = "revisions" /\ answer'.items = answer.items /\ answer'.versions = answer.versions
            /\ answer'.revisions = revisions
            /\ \A m \in 1 .. Len(answer.items) : revisions[m] = 1 .. rows[answer.items[m]].version
      BY <1>3, RevisionsMove
    <2>2. PICK i : i = answer.items[n]
      OBVIOUS
    <2>3. i \in Ids /\ answer.versions[n] \in Nat /\ answer.versions[n] <= rows[i].version
      BY <1>1, <2>1, <2>2 DEF HInv
    <2>4. rows[i].version \in Nat
      BY <2>3 DEF TInv, Decisions
    <2>5. 1 .. answer.versions[n] \subseteq revisions[n]
      BY <2>1, <2>2, <2>3, <2>4
    <2> QED
      BY <1>1, <2>1, <2>2, <2>3, <2>5
  <1> QED
    BY <1>1, <1>2, <1>3
       DEF CountListed, ReceivePage, SummarizeAudits, Count, Asks, QueryFails

\* Every decision on a page comes with all revisions up to the version shown, for any
\* number of edits between the query for the page and the one for the revisions.
THEOREM HistoryShown == Spec => []PageShowsItsHistory
  <1>1. Init => HInv
    BY DEF Init, HInv
  <1>2. TInv /\ HInv /\ [Next]_vars => HInv'
    BY NextMoves, HistoryWriter, HistoryReader
  <1>3. TInv /\ HInv => PageShowsItsHistory
    <2> SUFFICES ASSUME TInv, HInv, query.of = "decisions", step = "reply", NEW n \in DOMAIN answer.items
                 PROVE  1 .. answer.versions[n] \subseteq answer.revisions[n]
      BY DEF PageShowsItsHistory
    <2>1. n \in 1 .. Len(answer.items)
      BY LenProperties DEF TInv, Answers
    <2> QED
      BY <2>1 DEF HInv
  <1> QED
    BY <1>1, <1>2, <1>3, Typing, PTL DEF Spec

-----------------------------------------------------------------------------
(* The total a page comes with.                                              *)

PInv ==
  query.of # "summary" =>
    /\ step = "find" => answer.total <= Cardinality(Listed) + lost.page
    /\ step \in {"revisions", "reply"} =>
         Len(answer.items) = PageSize \/ Skipped + Len(answer.items) + lost.page >= answer.total

LEMMA ListIsFinite == TInv => IsFiniteSet(Listed) /\ Cardinality(Listed) \in Nat
  BY ListedIsFinite DEF TInv

LEMMA NextListIsFinite == TInv' => IsFiniteSet(Listed') /\ Cardinality(Listed') \in Nat
  <1>1. TInv' => IsFiniteSet(Listed)' /\ (Cardinality(Listed) \in Nat)'
    BY ListIsFinite, PTL
  <1> QED
    BY <1>1

\* A list gets shorter by no more than what leaves it.
LEMMA ListedShrinks ==
  ASSUME TInv, TInv', Departs
  PROVE  /\ Cardinality(Listed) + lost.page <= Cardinality(Listed') + lost'.page
         /\ lost.page <= lost'.page
  <1>1. /\ IsFiniteSet(Listed) /\ Cardinality(Listed) \in Nat
        /\ IsFiniteSet(Listed') /\ Cardinality(Listed') \in Nat
    BY ListIsFinite, NextListIsFinite
  <1>2. lost.page \in Nat
    BY DEF TInv
  <1>3. CASE Listed \subseteq Listed' /\ lost'.page = lost.page
    BY <1>1, <1>2, <1>3, FS_Subset
  <1>4. ASSUME NEW i \in Listed, Listed \ {i} \subseteq Listed', lost'.page = lost.page + 1
        PROVE  /\ Cardinality(Listed) + lost.page <= Cardinality(Listed') + lost'.page
               /\ lost.page <= lost'.page
    <2>1. Cardinality(Listed \ {i}) = Cardinality(Listed) - 1
      BY <1>1, FS_RemoveElement
    <2>2. Cardinality(Listed \ {i}) <= Cardinality(Listed')
      BY <1>1, <1>4, FS_Subset
    <2> QED
      BY <1>1, <1>2, <1>4, <2>1, <2>2
  <1> QED
    BY <1>3, <1>4 DEF Departs

LEMMA PromiseWriter == TInv /\ PInv /\ WriterMoves => PInv'
  <1> SUFFICES ASSUME TInv, PInv, WriterMoves, query'.of # "summary"
               PROVE  PInv'
    BY DEF PInv
  <1>1. Departs /\ UNCHANGED <<query, step, answer>> /\ TInv'
    BY WriterKeeps, WriterTypes
  <1>2. PageSize' = PageSize /\ Skipped' = Skipped
    BY <1>1 DEF PageSize, Skipped
  <1>3. answer.total \in Nat /\ Len(answer.items) \in Nat /\ Skipped \in Nat
    BY <1>1, SkippedTypes, LenProperties DEF Answers
  <1>4. Cardinality(Listed) \in Nat /\ Cardinality(Listed') \in Nat /\ lost.page \in Nat /\ lost'.page \in Nat
    BY <1>1, ListIsFinite, NextListIsFinite DEF TInv
  <1>5. ASSUME step = "find"
        PROVE  answer.total <= Cardinality(Listed') + lost'.page
    <2>1. answer.total <= Cardinality(Listed) + lost.page
      BY <1>1, <1>5 DEF PInv
    <2> QED
      BY <1>1, <1>3, <1>4, <2>1, ListedShrinks
  <1>6. ASSUME step \in {"revisions", "reply"}
        PROVE  Len(answer.items) = PageSize \/ Skipped + Len(answer.items) + lost'.page >= answer.total
    <2>1. Len(answer.items) = PageSize \/ Skipped + Len(answer.items) + lost.page >= answer.total
      BY <1>1, <1>6 DEF PInv
    <2>2. lost.page <= lost'.page
      BY <1>1, ListedShrinks
    <2> QED
      BY <1>3, <1>4, <2>1, <2>2
  <1> QED
    BY <1>1, <1>2, <1>5, <1>6 DEF PInv

LEMMA PromiseReader ==
  TInv /\ PInv /\ (CountListed \/ FindPage \/ FindRevisions \/ ReceivePage \/ SummarizeAudits \/ QueryFails) => PInv'
  <1> SUFFICES ASSUME TInv, PInv,
                      CountListed \/ FindPage \/ FindRevisions \/ ReceivePage \/ SummarizeAudits \/ QueryFails,
                      query'.of # "summary"
               PROVE  /\ step' = "find" => answer'.total <= Cardinality(Listed') + lost'.page
                      /\ step' \in {"revisions", "reply"} =>
                           \/ Len(answer'.items) = PageSize'
                           \/ Skipped' + Len(answer'.items) + lost'.page >= answer'.total
    BY DEF PInv
  <1>1. /\ query' = query /\ Listed' = Listed /\ PageSize' = PageSize /\ lost.page \in Nat
        /\ lost'.page = IF step = "count" /\ step' = "find" THEN 0 ELSE lost.page
    BY ReaderKeeps DEF PageSize, TInv
  <1>2. CASE CountListed
    <2>1. Cardinality(Listed) \in Nat
      BY ListIsFinite
    <2>2. /\ step' = "find" /\ answer'.total = Cardinality(Listed) /\ lost'.page = 0
      BY <1>1, <1>2, CountMoves
    <2> QED
      BY <1>1, <2>1, <2>2
  <1>3. CASE FindPage
    <2>1. step = "find"
      BY <1>3 DEF FindPage, Asks
    <2>2. PICK list \in Sortings, items \in Seq(Listed) :
            /\ answer'.page = answer.page /\ answer'.total = answer.total
            /\ answer'.items = items
            /\ step' = IF query.of = "decisions" /\ items # <<>> THEN "revisions" ELSE "reply"
            /\ Len(items) \in 0 .. PageSize
            /\ Len(items) < PageSize => Skipped + Len(items) >= Len(list)
      BY <1>3, PageFoundInAnswer
    <2>3. Skipped' = Skipped
      BY <1>1, <2>2 DEF Skipped
    <2>4. Len(list) = Cardinality(Listed) /\ Len(list) \in Nat
      BY SortedList
    <2>5. answer.total \in Nat /\ answer.total <= Len(list) + lost.page /\ lost'.page = lost.page
      BY <1>1, <2>1, <2>4 DEF PInv, TInv, Answers
    <2>6. Skipped \in Nat /\ PageSize \in Nat
      BY <1>1, SkippedTypes
    <2>7. Len(items) = PageSize \/ Skipped + Len(items) + lost.page >= answer.total
      BY <1>1, <2>2, <2>4, <2>5, <2>6
    <2> QED
      BY <1>1, <2>2, <2>3, <2>5, <2>7
  <1>4. CASE FindRevisions
    <2>1. /\ step = "revisions" /\ step' = "reply" /\ answer'.page = answer.page
          /\ answer'.items = answer.items /\ answer'.total = answer.total
      BY <1>4, RevisionsMove
    <2>2. Skipped' = Skipped
      BY <1>1, <2>1 DEF Skipped
    <2> QED
      BY <1>1, <2>1, <2>2 DEF PInv
  <1> QED
    BY <1>1, <1>2, <1>3, <1>4
       DEF ReceivePage, SummarizeAudits, Count, Asks, QueryFails

\* A page is shorter than the total that comes with it says by no more than what has left
\* the list since the total was counted, whatever else happens before the page is read.
THEOREM PromiseKept == Spec => []PageKeepsItsPromise
  <1>1. Init => PInv
    BY DEF Init, PInv
  <1>2. TInv /\ PInv /\ [Next]_vars => PInv'
    BY NextMoves, PromiseWriter, PromiseReader
  <1>3. TInv /\ PInv => PageKeepsItsPromise
    BY SkippedTypes DEF PInv, PageKeepsItsPromise, Skipped
  <1> QED
    BY <1>1, <1>2, <1>3, Typing, PTL DEF Spec

-----------------------------------------------------------------------------
(* A walk. The place of an entry on the list is the number of those before   *)
(* it. A departure, or a fall, moves every entry up by one place at most, so *)
(* that one at a time slips from what the next page begins with to what was  *)
(* read. Any other change moves every entry down by one place at most: of    *)
(* what was read, only what has left or fallen back is further down than     *)
(* there were other changes.                                                 *)

\* The page that has been read and not received yet.
OnPage == step \in {"revisions", "reply"}

Shown == IF OnPage THEN seen \cup ToSet(answer.items) ELSE seen

\* How much of the list the pages read so far stand for.
Passed == IF OnPage THEN Skipped + PageSize ELSE Skipped

AllRead == step = "done" \/ (OnPage /\ Len(answer.items) < PageSize)

\* What is owed and comes on no page any more.
Missed == {i \in owed \ Shown : Distinct(i) /\ (AllRead \/ Cardinality(Before(i)) < Passed)}

MInv == query.of # "summary" /\ step # "failed" => Cardinality(Missed) <= lost.reading

\* The changes that move what was read down by one place.
Pushes == changes - lost.reading

\* What was shown and is not on the list any more, or further down than it was pushed.
Fallen ==
  {i \in Shown : Distinct(i) /\ (i \notin Listed \/ Cardinality(Before(i)) >= Passed + Pushes)}

\* What the page read repeats.
Repeated == {i \in ToSet(answer.items) \cap seen : Distinct(i)}

RInv ==
  query.of # "summary" =>
    /\ step \notin {"done", "failed"} =>
         Shown \subseteq Places /\ Cardinality(Fallen) <= lost.reading
    /\ OnPage => Cardinality(Repeated) <= changes

LEMMA PlacesAreFinite ==
  ASSUME TInv
  PROVE  IsFiniteSet(Places) /\ Listed \subseteq Places
  <1>1. rows \in [Ids -> Decisions] /\ log \in Seq(Entries)
    BY DEF TInv
  <1>2. CASE query.of = "decisions"
    BY <1>1, <1>2, IdsAssumption, ListedIsFinite DEF Places
  <1>3. CASE query.of # "decisions"
    <2>1. Places = 1 .. Len(log) /\ Len(log) \in Nat
      BY <1>1, <1>3, LenProperties DEF Places
    <2> QED
      BY <1>1, <1>3, <2>1, ListedIsFinite, FS_Interval
  <1> QED
    BY <1>2, <1>3

LEMMA NextPlacesAreFinite == TInv' => IsFiniteSet(Places')
  <1>1. TInv => IsFiniteSet(Places)
    BY PlacesAreFinite
  <1>2. TInv' => IsFiniteSet(Places)'
    BY <1>1, PTL
  <1> QED
    BY <1>2

LEMMA BeforeIsFinite == TInv => \A i : IsFiniteSet(Before(i)) /\ Cardinality(Before(i)) \in Nat
  <1> SUFFICES ASSUME TInv, NEW i
               PROVE  IsFiniteSet(Before(i)) /\ Cardinality(Before(i)) \in Nat
    OBVIOUS
  <1>1. Before(i) \subseteq Listed /\ IsFiniteSet(Listed)
    BY ListIsFinite DEF Before
  <1>2. IsFiniteSet(Before(i))
    BY <1>1, FS_Subset
  <1> QED
    BY <1>2, FS_CardinalityType

LEMMA NextBeforeIsFinite ==
  ASSUME TInv', NEW i
  PROVE  IsFiniteSet(Before(i)') /\ Cardinality(Before(i)') \in Nat
  <1>1. Before(i)' \subseteq Listed' /\ IsFiniteSet(Listed')
    BY NextListIsFinite DEF Before
  <1>2. IsFiniteSet(Before(i)')
    BY <1>1, FS_Subset
  <1> QED
    BY <1>2, FS_CardinalityType

LEMMA MissedIsFinite == TInv => IsFiniteSet(Missed) /\ Cardinality(Missed) \in Nat
  <1> SUFFICES ASSUME TInv PROVE IsFiniteSet(Missed) /\ Cardinality(Missed) \in Nat
    OBVIOUS
  <1>1. Missed \subseteq Listed /\ IsFiniteSet(Listed)
    BY ListIsFinite DEF Missed, TInv
  <1>2. IsFiniteSet(Missed)
    BY <1>1, FS_Subset
  <1> QED
    BY <1>2, FS_CardinalityType

LEMMA NextMissedIsFinite == TInv' => IsFiniteSet(Missed') /\ Cardinality(Missed') \in Nat
  <1>1. TInv' => IsFiniteSet(Missed)' /\ (Cardinality(Missed) \in Nat)'
    BY MissedIsFinite, PTL
  <1> QED
    BY <1>1

\* Nothing comes before itself.
LEMMA PrecedesIsIrreflexive ==
  ASSUME TInv, NEW i \in Listed
  PROVE  ~Precedes(i, i)
  <1>1. CASE query.of = "decisions"
    <2>1. i \in Ids /\ i \in Nat
      BY <1>1, IdsAssumption DEF Listed
    <2>2. rows[i].at \in Nat
      BY <2>1 DEF TInv, Decisions
    <2> QED
      BY <1>1, <2>1, <2>2 DEF Precedes
  <1>2. CASE query.of # "decisions"
    <2>1. log[i] \in Entries
      BY <1>2, ListedIsFinite, ElementOfSeq DEF TInv
    <2>2. log[i].at \in Nat
      BY <2>1 DEF Entries
    <2> QED
      BY <1>2, <2>2 DEF Precedes
  <1> QED
    BY <1>1, <1>2

\* The place of an entry, where no other has it, is the number of those before it.
LEMMA Position ==
  ASSUME TInv, NEW list \in Sortings, NEW n \in 1 .. Len(list), Distinct(list[n])
  PROVE  Cardinality(Before(list[n])) = n - 1
  <1>1. /\ list \in Seq(Listed) /\ Len(list) \in Nat
        /\ \A i \in Listed : \E m \in 1 .. Len(list) : list[m] = i
        /\ \A k, m \in 1 .. Len(list) :
             /\ k # m => list[k] # list[m]
             /\ k < m => ~Precedes(list[m], list[k])
    BY SortedList
  <1>2. \A m \in 1 .. Len(list) : list[m] \in Listed
    BY <1>1, ElementOfSeq
  <1>3. ASSUME NEW m \in 1 .. Len(list)
        PROVE  Precedes(list[m], list[n]) <=> m < n
    <2>1. CASE m < n
      <3>1. PICK i \in Listed, j \in Listed : i = list[m] /\ j = list[n]
        BY <1>2
      <3>2. i # j /\ ~Precedes(j, i)
        BY <1>1, <2>1, <3>1
      <3> QED
        BY <2>1, <3>1, <3>2 DEF Distinct
    <2>2. CASE m = n
      BY <1>1, <1>2, <2>2, PrecedesIsIrreflexive
    <2>3. CASE n < m
      BY <1>1, <2>3
    <2> QED
      BY <1>1, <2>1, <2>2, <2>3
  <1> DEFINE D == 1 .. n - 1
             f == [m \in D |-> list[m]]
  <1>4. D \subseteq 1 .. Len(list) /\ \A m \in 1 .. Len(list) : m \in D <=> m < n
    BY <1>1
  <1>5. f \in [D -> Before(list[n])]
    BY <1>2, <1>3, <1>4 DEF Before
  <1>6. \A k, m \in D : f[k] = f[m] => k = m
    BY <1>1, <1>4
  <1>7. \A i \in Before(list[n]) : \E m \in D : f[m] = i
    <2> SUFFICES ASSUME NEW i \in Before(list[n]) PROVE \E m \in D : f[m] = i
      OBVIOUS
    <2>1. i \in Listed /\ Precedes(i, list[n])
      BY DEF Before
    <2>2. PICK m \in 1 .. Len(list) : list[m] = i
      BY <1>1, <2>1
    <2> QED
      BY <1>3, <1>4, <2>1, <2>2
  <1>8. f \in Bijection(D, Before(list[n]))
    BY <1>5, <1>6, <1>7 DEF Bijection, Injection, IsInjective, Surjection
  <1>9. IsFiniteSet(D) /\ Cardinality(D) = n - 1
    <2>1. PICK m \in Nat : m = n - 1
      BY <1>1
    <2>2. IsFiniteSet(1 .. m) /\ Cardinality(1 .. m) = m
      BY IntervalSize
    <2> QED
      BY <2>1, <2>2
  <1>10. ExistsBijection(D, Before(list[n]))
    BY <1>8 DEF ExistsBijection
  <1> HIDE DEF D
  <1> QED
    BY <1>9, <1>10, FS_Bijection

\* What comes later on the list has more before it.
LEMMA Higher ==
  ASSUME TInv, NEW i \in Listed, NEW j \in Listed, Precedes(i, j)
  PROVE  Cardinality(Before(i)) < Cardinality(Before(j))
  <1>1. \A k \in Listed : Precedes(k, i) => Precedes(k, j)
    <2>1. CASE query.of = "decisions"
      <3>1. \A k \in Listed : k \in Nat /\ rows[k].at \in Nat
        BY <2>1, IdsAssumption DEF TInv, Decisions, Listed
      <3> QED
        BY <2>1, <3>1 DEF Precedes
    <2>2. CASE query.of # "decisions"
      <3>1. \A k \in Listed : log[k] \in Entries
        BY <2>2, ListedIsFinite, ElementOfSeq DEF TInv
      <3>2. \A k \in Listed : log[k].at \in Nat
        BY <3>1 DEF Entries
      <3> QED
        BY <2>2, <3>2 DEF Precedes
    <2> QED
      BY <2>1, <2>2
  <1>2. i \notin Before(i) /\ Before(i) \cup {i} \subseteq Before(j)
    BY <1>1, PrecedesIsIrreflexive DEF Before
  <1>3. /\ IsFiniteSet(Before(i)) /\ Cardinality(Before(i)) \in Nat
        /\ IsFiniteSet(Before(j)) /\ Cardinality(Before(j)) \in Nat
    BY BeforeIsFinite
  <1>4. Cardinality(Before(i) \cup {i}) = Cardinality(Before(i)) + 1
    BY <1>2, <1>3, FS_AddElement
  <1>5. Cardinality(Before(i) \cup {i}) <= Cardinality(Before(j))
    BY <1>2, <1>3, FS_Subset
  <1> QED
    BY <1>3, <1>4, <1>5

\* No other entry has as many before it.
LEMMA OnePlaceEach ==
  ASSUME TInv, NEW i \in Listed, NEW j \in Listed, Distinct(i),
         Cardinality(Before(i)) = Cardinality(Before(j))
  PROVE  i = j
  <1>1. Cardinality(Before(i)) \in Nat /\ Cardinality(Before(j)) \in Nat
    BY BeforeIsFinite
  <1>2. ~Precedes(i, j) /\ ~Precedes(j, i)
    BY <1>1, Higher
  <1> QED
    BY <1>2 DEF Distinct

\* What loses one entry before it moves up by one place at most.
LEMMA MovesUp ==
  ASSUME TInv, TInv', NEW k, NEW c, Before(k) \ {c} \subseteq Before(k)'
  PROVE  /\ Cardinality(Before(k)) <= Cardinality(Before(k)') + 1
         /\ Before(k) \subseteq Before(k)' => Cardinality(Before(k)) <= Cardinality(Before(k)')
  <1>1. /\ IsFiniteSet(Before(k)) /\ Cardinality(Before(k)) \in Nat
        /\ IsFiniteSet(Before(k)') /\ Cardinality(Before(k)') \in Nat
    BY BeforeIsFinite, NextBeforeIsFinite
  <1>2. Cardinality(Before(k) \ {c}) <= Cardinality(Before(k)')
    BY <1>1, FS_Subset
  <1>3. /\ Cardinality(Before(k)) <= Cardinality(Before(k) \ {c}) + 1
        /\ Cardinality(Before(k) \ {c}) \in Nat
    <2>1. PICK b : b = Before(k)
      OBVIOUS
    <2>2. PICK m \in Nat : m = Cardinality(b)
      BY <1>1, <2>1
    <2>3. IsFiniteSet(b \ {c}) /\ Cardinality(b \ {c}) = IF c \in b THEN m - 1 ELSE m
      BY <1>1, <2>1, <2>2, FS_RemoveElement
    <2>4. Cardinality(b \ {c}) \in Nat
      BY <2>3, FS_CardinalityType
    <2>5. m <= Cardinality(b \ {c}) + 1
      BY <2>3, <2>4
    <2> QED
      BY <2>1, <2>2, <2>4, <2>5
  <1>4. Before(k) \subseteq Before(k)' => Cardinality(Before(k)) <= Cardinality(Before(k)')
    BY <1>1, FS_Subset
  <1> QED
    BY <1>1, <1>2, <1>3, <1>4

\* What gets one entry before it moves down by one place at most.
LEMMA MovesDown ==
  ASSUME TInv, TInv', NEW i, NEW c, Before(i)' \subseteq Before(i) \cup {c}
  PROVE  /\ Cardinality(Before(i)') <= Cardinality(Before(i)) + 1
         /\ Before(i)' \subseteq Before(i) => Cardinality(Before(i)') <= Cardinality(Before(i))
  <1>1. /\ IsFiniteSet(Before(i)) /\ Cardinality(Before(i)) \in Nat
        /\ IsFiniteSet(Before(i)') /\ Cardinality(Before(i)') \in Nat
    BY BeforeIsFinite, NextBeforeIsFinite
  <1>2. PICK b : b = Before(i)
    OBVIOUS
  <1>3. PICK m \in Nat : m = Cardinality(b)
    BY <1>1, <1>2
  <1>4. IsFiniteSet(b \cup {c}) /\ Cardinality(b \cup {c}) = IF c \in b THEN m ELSE m + 1
    BY <1>1, <1>2, <1>3, FS_AddElement
  <1>5. Cardinality(Before(i)') <= Cardinality(b \cup {c})
    BY <1>2, <1>4, FS_Subset
  <1>6. Cardinality(b \cup {c}) <= m + 1 /\ Cardinality(b \cup {c}) \in Nat
    BY <1>3, <1>4
  <1>7. Before(i)' \subseteq Before(i) => Cardinality(Before(i)') <= Cardinality(Before(i))
    BY <1>1, FS_Subset
  <1> QED
    BY <1>1, <1>2, <1>3, <1>5, <1>6, <1>7

LEMMA PassedTypes ==
  ASSUME TInv, query.of # "summary"
  PROVE  /\ Skipped \in Nat /\ PageSize \in Nat \ {0} /\ Passed \in Nat
         /\ answer.items \in Seq(Nat) /\ Len(answer.items) \in Nat /\ Len(answer.items) <= PageSize
         /\ ToSet(answer.items) = {answer.items[n] : n \in 1 .. Len(answer.items)}
  <1>1. Skipped \in Nat /\ PageSize \in Nat \ {0} /\ answer \in Answers
    BY SkippedTypes
  <1>2. answer.items \in Seq(Nat) /\ Len(answer.items) \in Nat /\ DOMAIN answer.items = 1 .. Len(answer.items)
    BY <1>1, LenProperties DEF Answers
  <1>3. Passed \in Nat
    BY <1>1 DEF Passed
  <1> QED
    BY <1>1, <1>2, <1>3 DEF ToSet, TInv

\* Writers move the list only.
LEMMA PlacesKept ==
  ASSUME UNCHANGED <<query, step, answer, seen>>
  PROVE  Shown' = Shown /\ Passed' = Passed /\ (AllRead' <=> AllRead) /\ (OnPage' <=> OnPage)
  BY DEF Shown, Passed, AllRead, OnPage, Skipped, PageSize

LEMMA MissedWriter == TInv /\ MInv /\ WriterMoves => MInv'
  <1> SUFFICES ASSUME TInv, MInv, WriterMoves, query'.of # "summary", step' # "failed"
               PROVE  Cardinality(Missed') <= lost'.reading
    BY DEF MInv
  <1>1. Grows /\ Shifts /\ UNCHANGED <<query, step, answer, seen>> /\ TInv'
    BY WriterKeeps, WriterTypes
  <1>2. Shown' = Shown /\ Passed' = Passed /\ (AllRead' <=> AllRead)
    BY <1>1, PlacesKept
  <1>3. /\ owed' \subseteq owed /\ owed \subseteq Listed
        /\ \A k \in owed' : Distinct(k)' => Distinct(k)
    BY <1>1, PlacesAreFinite DEF Grows, TInv
  <1>4. /\ Cardinality(Missed) <= lost.reading /\ lost.reading \in Nat
        /\ IsFiniteSet(Missed) /\ Cardinality(Missed) \in Nat
        /\ IsFiniteSet(Missed') /\ Cardinality(Missed') \in Nat
        /\ Passed \in Nat
    BY <1>1, <1>3, MissedIsFinite, NextMissedIsFinite, PassedTypes DEF MInv, TInv
  <1>5. \A k : Cardinality(Before(k)) \in Nat /\ Cardinality(Before(k)') \in Nat
    BY <1>1, BeforeIsFinite, NextBeforeIsFinite
  <1>6. ASSUME \A k \in owed' : Before(k) \subseteq Before(k)', lost'.reading = lost.reading
        PROVE  Cardinality(Missed') <= lost'.reading
    <2>1. ASSUME NEW k \in Missed'
          PROVE  k \in Missed
      <3>1. /\ k \in owed' /\ k \notin Shown /\ Distinct(k)
            /\ AllRead \/ Cardinality(Before(k)') < Passed
        BY <1>2, <1>3, <2>1 DEF Missed
      <3>2. Before(k) \subseteq Before(k)'
        BY <1>6, <3>1
      <3>3. Cardinality(Before(k)) <= Cardinality(Before(k)')
        BY <1>1, <3>2, MovesUp
      <3>4. AllRead \/ Cardinality(Before(k)) < Passed
        BY <1>4, <1>5, <3>1, <3>3
      <3> QED
        BY <1>3, <3>1, <3>4 DEF Missed
    <2>2. Cardinality(Missed') <= Cardinality(Missed)
      BY <1>4, <2>1, FS_Subset
    <2> QED
      BY <1>4, <1>6, <2>2
  <1>7. ASSUME NEW c, \A k \in owed' : Before(k) \ {c} \subseteq Before(k)',
               lost'.reading = lost.reading + 1
        PROVE  Cardinality(Missed') <= lost'.reading
    <2>1. ASSUME NEW k \in Missed', k \notin Missed
          PROVE  k \in Listed /\ Distinct(k) /\ Cardinality(Before(k)) = Passed
      <3>1. /\ k \in owed' /\ k \notin Shown /\ Distinct(k)
            /\ AllRead \/ Cardinality(Before(k)') < Passed
        BY <1>2, <1>3, <2>1 DEF Missed
      <3>2. ~AllRead /\ ~(Cardinality(Before(k)) < Passed)
        BY <1>3, <2>1, <3>1 DEF Missed
      <3>3. Before(k) \ {c} \subseteq Before(k)'
        BY <1>7, <3>1
      <3>4. Cardinality(Before(k)) <= Cardinality(Before(k)') + 1
        BY <1>1, <3>3, MovesUp
      <3> QED
        BY <1>3, <1>4, <1>5, <3>1, <3>2, <3>4
    <2>2. \A k, l \in Missed' \ Missed : k = l
      <3> SUFFICES ASSUME NEW k \in Missed' \ Missed, NEW l \in Missed' \ Missed PROVE k = l
        OBVIOUS
      <3>1. /\ k \in Listed /\ Cardinality(Before(k)) = Passed /\ Distinct(k)
            /\ l \in Listed /\ Cardinality(Before(l)) = Passed
        BY <2>1
      <3> QED
        BY <3>1, OnePlaceEach
    <2>3. PICK x : Missed' \subseteq Missed \cup {x}
      <3>1. CASE Missed' \subseteq Missed
        BY <3>1
      <3>2. CASE ~(Missed' \subseteq Missed)
        <4>1. PICK x : x \in Missed' \ Missed
          BY <3>2
        <4>2. Missed' \subseteq Missed \cup {x}
          BY <2>2, <4>1
        <4> QED
          BY <4>2
      <3> QED
        BY <3>1, <3>2
    <2>4. /\ IsFiniteSet(Missed \cup {x})
          /\ Cardinality(Missed \cup {x}) = IF x \in Missed THEN Cardinality(Missed) ELSE Cardinality(Missed) + 1
      BY <1>4, FS_AddElement
    <2>5. Cardinality(Missed') <= Cardinality(Missed \cup {x})
      BY <2>3, <2>4, FS_Subset
    <2> QED
      BY <1>4, <1>7, <2>4, <2>5
  <1> QED
    BY <1>1, <1>6, <1>7 DEF Shifts

LEMMA MissedFinds == TInv /\ MInv /\ FindPage => MInv'
  <1> SUFFICES ASSUME TInv, MInv, FindPage
               PROVE  Cardinality(Missed') <= lost'.reading
    BY DEF MInv
  <1>1. /\ Grows /\ UNCHANGED <<rows, log, query, owed>> /\ lost'.reading = lost.reading
        /\ Listed' = Listed /\ PageSize' = PageSize
    BY ReaderKeeps DEF PageSize
  <1>2. query.of # "summary" /\ step = "find" /\ seen' = seen
    BY DEF FindPage, Asks
  <1>3. PICK list \in Sortings, items \in Seq(Listed) :
          /\ answer'.page = answer.page /\ answer'.items = items
          /\ step' = IF query.of = "decisions" /\ items # <<>> THEN "revisions" ELSE "reply"
          /\ Len(items) \in 0 .. PageSize
          /\ Len(items) < PageSize => Skipped + Len(items) >= Len(list)
          /\ \A n \in 1 .. Len(items) : Skipped + n \in 1 .. Len(list) /\ items[n] = list[Skipped + n]
    BY PageFoundInAnswer
  <1>4. Skipped' = Skipped /\ Skipped \in Nat /\ PageSize \in Nat \ {0} /\ Len(items) \in Nat
    BY <1>1, <1>2, <1>3, SkippedTypes DEF Skipped
  <1>5. \A k : Distinct(k)' <=> Distinct(k)
    BY <1>1, StillGrows
  <1>6. step' \in {"revisions", "reply"} /\ step' # "done"
    BY <1>3
  <1>7. /\ Passed' = Skipped + PageSize /\ (AllRead' <=> Len(items) < PageSize)
        /\ Shown' = seen \cup ToSet(items)
    BY <1>1, <1>2, <1>3, <1>4, <1>6 DEF Passed, AllRead, Shown, OnPage
  <1>8. Passed = Skipped /\ ~AllRead /\ Shown = seen
    BY <1>2 DEF Passed, AllRead, Shown, OnPage
  <1>9. \A k : Before(k)' = Before(k)
    BY <1>1 DEF Before, Precedes
  <1>10. ASSUME NEW k \in Missed'
         PROVE  k \in Missed
    <2>1. /\ k \in owed /\ k \notin seen /\ k \notin ToSet(items) /\ Distinct(k)
          /\ Len(items) < PageSize \/ Cardinality(Before(k)) < Skipped + PageSize
      BY <1>1, <1>5, <1>7, <1>9, <1>10 DEF Missed
    <2>2. PICK n \in 1 .. Len(list) : list[n] = k
      BY <2>1, SortedList DEF TInv
    <2>3. Cardinality(Before(k)) = n - 1 /\ Len(list) \in Nat
      BY <2>1, <2>2, Position, SortedList
    <2>4. n <= Skipped
      <3> SUFFICES ASSUME n > Skipped PROVE FALSE
        BY <1>4, <2>3
      <3>1. PICK m \in Nat \ {0} : n = Skipped + m
        <4>1. n - Skipped \in Nat \ {0} /\ n = Skipped + (n - Skipped)
          BY <1>4, <2>3
        <4> QED
          BY <4>1
      <3>2. m <= Len(items)
        BY <1>3, <1>4, <2>1, <2>3, <3>1
      <3>3. items[m] = k
        BY <1>3, <1>4, <2>2, <3>1, <3>2
      <3>4. m \in DOMAIN items
        BY <1>3, <1>4, <3>1, <3>2, LenProperties
      <3> QED
        BY <2>1, <3>3, <3>4 DEF ToSet
    <2>5. Cardinality(Before(k)) < Skipped
      BY <1>4, <2>3, <2>4
    <2> QED
      BY <1>8, <2>1, <2>5 DEF Missed
  <1>11. Cardinality(Missed') <= Cardinality(Missed)
    BY <1>10, MissedIsFinite, FS_Subset
  <1>12. Cardinality(Missed) <= lost.reading
    BY <1>2 DEF MInv
  <1>13. Cardinality(Missed) \in Nat /\ Cardinality(Missed') \in Nat /\ lost.reading \in Nat
    BY MissedIsFinite, NextMissedIsFinite, ReaderTypes DEF TInv
  <1> QED
    BY <1>1, <1>11, <1>12, <1>13

\* The other steps of a walk leave what is on the list and what has been read of it.
LEMMA WalkGoesOn ==
  ASSUME TInv, CountListed \/ FindRevisions \/ ReceivePage
  PROVE  /\ query.of # "summary" /\ step' # "failed" /\ step # "failed"
         /\ Shown' = Shown /\ (AllRead' <=> AllRead) /\ (step' # "done" => Passed' = Passed)
         /\ \A k : Before(k)' = Before(k) /\ (Distinct(k)' <=> Distinct(k))
         /\ OnPage' => OnPage /\ Repeated' = Repeated
         /\ step # "done"
  <1>1. UNCHANGED <<rows, log, query>> /\ Listed' = Listed /\ PageSize' = PageSize
    BY ReaderKeeps DEF PageSize
  <1>2. \A k : Before(k)' = Before(k) /\ (Distinct(k)' <=> Distinct(k))
    BY ReaderKeeps, StillGrows
  <1>3. CASE CountListed
    <2>1. /\ query.of # "summary" /\ step = "count" /\ step' = "find" /\ seen' = seen
          /\ answer'.page = answer.page
      BY <1>3, CountMoves
    <2>2. Skipped' = Skipped
      BY <1>1, <2>1 DEF Skipped
    <2> QED
      BY <1>1, <1>2, <2>1, <2>2 DEF Shown, AllRead, Passed, OnPage
  <1>4. CASE FindRevisions
    <2>1. /\ query.of # "summary" /\ step = "revisions" /\ step' = "reply" /\ seen' = seen
          /\ answer'.page = answer.page /\ answer'.items = answer.items
      BY <1>4, RevisionsMove
    <2>2. Skipped' = Skipped /\ Repeated' = Repeated
      BY <1>1, <1>2, <2>1 DEF Skipped, Repeated
    <2> QED
      BY <1>1, <1>2, <2>1, <2>2 DEF Shown, AllRead, Passed, OnPage
  <1>5. CASE ReceivePage
    <2>1. /\ query.of # "summary" /\ step = "reply" /\ seen' = seen \cup ToSet(answer.items)
          /\ \/ Len(answer.items) < PageSize /\ step' = "done" /\ answer' = answer
             \/ Len(answer.items) = PageSize /\ step' = "count" /\ answer'.page = answer.page + 1
      BY <1>5, ReceiveMoves
    <2>2. PageSize \in Nat /\ Len(answer.items) \in Nat /\ answer.page \in Nat \ {0}
      BY <2>1, PassedTypes, SkippedTypes
    <2>3. CASE step' = "done"
      BY <1>1, <1>2, <2>1, <2>3 DEF Shown, AllRead, OnPage
    <2>4. CASE step' = "count"
      <3>1. Len(answer.items) = PageSize /\ answer'.page = answer.page + 1
        BY <2>1, <2>4
      <3>2. Skipped' = Skipped + PageSize
        <4>1. Skipped' = ((answer.page + 1) - 1) * PageSize
          BY <1>1, <3>1 DEF Skipped
        <4>2. ((answer.page + 1) - 1) * PageSize = (answer.page - 1) * PageSize + PageSize
          BY <2>2, Offsets
        <4> QED
          BY <4>1, <4>2 DEF Skipped
      <3>3. Passed' = Passed
        BY <2>1, <2>4, <3>2 DEF Passed, OnPage
      <3>4. ~AllRead /\ ~AllRead'
        BY <2>1, <2>2, <2>4, <3>1 DEF AllRead, OnPage
      <3>5. Shown' = Shown /\ ~OnPage'
        BY <2>1, <2>4 DEF Shown, OnPage
      <3> QED
        BY <1>2, <2>1, <2>4, <3>3, <3>4, <3>5
    <2> QED
      BY <2>1, <2>3, <2>4
  <1> QED
    BY <1>3, <1>4, <1>5

LEMMA MissedReader == TInv /\ MInv /\ (CountListed \/ FindRevisions \/ ReceivePage) => MInv'
  <1> SUFFICES ASSUME TInv, MInv, CountListed \/ FindRevisions \/ ReceivePage
               PROVE  Cardinality(Missed') <= lost'.reading
    BY DEF MInv
  <1>1. owed' = owed /\ lost'.reading = lost.reading
    BY ReaderKeeps
  <1>2. /\ query.of # "summary" /\ step # "failed" /\ Shown' = Shown /\ (AllRead' <=> AllRead)
        /\ (step' # "done" => Passed' = Passed)
        /\ \A k : Before(k)' = Before(k) /\ (Distinct(k)' <=> Distinct(k))
    BY WalkGoesOn
  <1>3. step' = "done" => AllRead'
    BY DEF AllRead
  <1>4. Missed' = Missed
    BY <1>1, <1>2, <1>3 DEF Missed
  <1> QED
    BY <1>1, <1>2, <1>4 DEF MInv

LEMMA RepeatedIsFinite ==
  ASSUME TInv, query.of # "summary"
  PROVE  IsFiniteSet(Repeated) /\ Cardinality(Repeated) \in Nat
  <1> DEFINE D == 1 .. Len(answer.items)
             f == [n \in D |-> answer.items[n]]
  <1>1. Len(answer.items) \in Nat /\ ToSet(answer.items) = {answer.items[n] : n \in D}
    BY PassedTypes
  <1>2. IsFiniteSet(D)
    BY <1>1, FS_Interval
  <1>3. f \in Surjection(D, ToSet(answer.items))
    BY <1>1 DEF Surjection
  <1>4. IsFiniteSet(ToSet(answer.items))
    BY <1>2, <1>3, FS_Surjection
  <1>5. IsFiniteSet(Repeated)
    BY <1>4, FS_Subset DEF Repeated
  <1> QED
    BY <1>5, FS_CardinalityType

LEMMA PushTypes ==
  ASSUME TInv
  PROVE  changes \in Nat /\ lost.reading \in Nat /\ Pushes \in Nat /\ changes = Pushes + lost.reading
  BY ChangesAssumption DEF TInv, Pushes

LEMMA NextPushTypes ==
  TInv' => changes' \in Nat /\ lost'.reading \in Nat /\ Pushes' \in Nat
  <1>1. TInv => changes \in Nat /\ lost.reading \in Nat /\ Pushes \in Nat
    BY PushTypes
  <1>2. TInv' => (changes \in Nat /\ lost.reading \in Nat /\ Pushes \in Nat)'
    BY <1>1, PTL
  <1> QED
    BY <1>2

\* A change adds to what has fallen back only the row it takes from its place.
LEMMA FallenWriter ==
  ASSUME TInv, WriterMoves, query.of # "summary", Shown \subseteq Places,
         Cardinality(Fallen) <= lost.reading
  PROVE  Shown' \subseteq Places' /\ Cardinality(Fallen') <= lost'.reading
  <1>1. Grows /\ Shifts /\ UNCHANGED <<query, step, answer, seen>> /\ TInv'
    BY WriterKeeps, WriterTypes
  <1>2. Shown' = Shown /\ Passed' = Passed
    BY <1>1, PlacesKept
  <1>3. Shown' \subseteq Places' /\ \A i \in Shown : Distinct(i)' => Distinct(i)
    BY <1>1, <1>2 DEF Grows
  <1>4. /\ Passed \in Nat /\ changes \in Nat /\ lost.reading \in Nat /\ Pushes \in Nat
        /\ changes' \in Nat /\ lost'.reading \in Nat /\ Pushes' \in Nat
        /\ Pushes = changes - lost.reading /\ Pushes' = changes' - lost'.reading
    BY <1>1, PassedTypes, PushTypes, NextPushTypes DEF Pushes
  <1>5. /\ IsFiniteSet(Fallen) /\ Cardinality(Fallen) \in Nat
        /\ IsFiniteSet(Fallen') /\ Cardinality(Fallen') \in Nat
    <2>1. Fallen \subseteq Places /\ Fallen' \subseteq Places'
      BY <1>3 DEF Fallen
    <2>2. IsFiniteSet(Fallen) /\ IsFiniteSet(Fallen')
      BY <1>1, <2>1, PlacesAreFinite, NextPlacesAreFinite, FS_Subset
    <2> QED
      BY <2>2, FS_CardinalityType
  <1>6. \A i : Cardinality(Before(i)) \in Nat /\ Cardinality(Before(i)') \in Nat
    BY <1>1, BeforeIsFinite, NextBeforeIsFinite
  <1>7. \A i \in Fallen' : /\ i \in Shown /\ Distinct(i)
                           /\ i \notin Listed' \/ Cardinality(Before(i)') >= Passed + Pushes'
    BY <1>2, <1>3 DEF Fallen
  <1>8. ASSUME NEW c, changes' = changes + 1, lost'.reading = lost.reading,
               Listed \subseteq Listed',
               \A i \in Listed : Before(i)' \subseteq Before(i) \cup {c}
        PROVE  Cardinality(Fallen') <= lost'.reading
    <2>1. Pushes' = Pushes + 1
      BY <1>4, <1>8
    <2>2. ASSUME NEW i \in Fallen' PROVE i \in Fallen
      <3>1. CASE i \notin Listed
        BY <1>7, <3>1 DEF Fallen
      <3>2. CASE i \in Listed
        <4>1. Before(i)' \subseteq Before(i) \cup {c} /\ i \in Listed'
          BY <1>8, <3>2
        <4>2. Cardinality(Before(i)') <= Cardinality(Before(i)) + 1
          BY <1>1, <4>1, MovesDown
        <4>3. Cardinality(Before(i)') >= Passed + Pushes'
          BY <1>7, <4>1
        <4>4. Cardinality(Before(i)) >= Passed + Pushes
          BY <1>4, <1>6, <2>1, <4>2, <4>3
        <4> QED
          BY <1>7, <4>4 DEF Fallen
      <3> QED
        BY <3>1, <3>2
    <2>3. Cardinality(Fallen') <= Cardinality(Fallen)
      BY <1>5, <2>2, FS_Subset
    <2> QED
      BY <1>4, <1>5, <1>8, <2>3
  <1>9. ASSUME NEW c \in Listed, changes' = changes + 1, lost'.reading = lost.reading + 1,
               Listed \ {c} \subseteq Listed',
               \A i \in Listed \ {c} : Before(i)' \subseteq Before(i)
        PROVE  Cardinality(Fallen') <= lost'.reading
    <2>1. Pushes' = Pushes
      BY <1>4, <1>9
    <2>2. ASSUME NEW i \in Fallen', i # c PROVE i \in Fallen
      <3>1. CASE i \notin Listed
        BY <1>7, <3>1 DEF Fallen
      <3>2. CASE i \in Listed
        <4>1. Before(i)' \subseteq Before(i) /\ i \in Listed'
          BY <1>9, <2>2, <3>2
        <4>2. Cardinality(Before(i)') <= Cardinality(Before(i))
          BY <1>1, <4>1, MovesDown
        <4>3. Cardinality(Before(i)') >= Passed + Pushes'
          BY <1>7, <4>1
        <4>4. Cardinality(Before(i)) >= Passed + Pushes
          BY <1>4, <1>6, <2>1, <4>2, <4>3
        <4> QED
          BY <1>7, <4>4 DEF Fallen
      <3> QED
        BY <3>1, <3>2
    <2>3. Fallen' \subseteq Fallen \cup {c}
      BY <2>2
    <2>4. /\ IsFiniteSet(Fallen \cup {c})
          /\ Cardinality(Fallen \cup {c}) = IF c \in Fallen THEN Cardinality(Fallen) ELSE Cardinality(Fallen) + 1
      BY <1>5, FS_AddElement
    <2>5. Cardinality(Fallen') <= Cardinality(Fallen \cup {c})
      BY <2>3, <2>4, FS_Subset
    <2> QED
      BY <1>4, <1>5, <1>9, <2>4, <2>5
  <1>10. ASSUME changes' = changes, lost'.reading = lost.reading, Listed' = Listed,
                \A i : Before(i)' = Before(i)
         PROVE  Cardinality(Fallen') <= lost'.reading
    <2>1. Pushes' = Pushes
      BY <1>4, <1>10
    <2>2. Fallen' \subseteq Fallen
      BY <1>7, <1>10, <2>1 DEF Fallen
    <2>3. Cardinality(Fallen') <= Cardinality(Fallen)
      BY <1>5, <2>2, FS_Subset
    <2> QED
      BY <1>4, <1>5, <1>10, <2>3
  <1> QED
    BY <1>1, <1>3, <1>8, <1>9, <1>10 DEF Shifts

LEMMA RepeatedWriter == TInv /\ RInv /\ WriterMoves => RInv'
  <1> SUFFICES ASSUME TInv, RInv, WriterMoves, query'.of # "summary"
               PROVE  RInv'
    BY DEF RInv
  <1>1. Grows /\ UNCHANGED <<query, step, answer, seen>> /\ TInv'
    BY WriterKeeps, WriterTypes
  <1>2. OnPage' <=> OnPage
    BY <1>1, PlacesKept
  <1>3. ASSUME OnPage
        PROVE  Cardinality(Repeated') <= changes'
    <2>1. Cardinality(Repeated) <= changes
      BY <1>1, <1>3 DEF RInv
    <2>2. changes <= changes' /\ changes \in Nat /\ changes' \in Nat
      <3>1. changes' = changes \/ changes' = changes + 1
        BY DEF WriterMoves, RowMoves, LogMoves, Tick, vars, tables
      <3> QED
        BY <3>1, PushTypes
    <2>3. seen \subseteq Places
      BY <1>1, <1>3 DEF RInv, Shown, OnPage
    <2>4. Repeated' \subseteq Repeated
      BY <1>1, <2>3 DEF Repeated, Grows
    <2>5. IsFiniteSet(Repeated) /\ Cardinality(Repeated) \in Nat
      BY <1>1, RepeatedIsFinite
    <2>6. IsFiniteSet(Repeated') /\ Cardinality(Repeated') <= Cardinality(Repeated)
      BY <2>4, <2>5, FS_Subset
    <2>7. Cardinality(Repeated') \in Nat
      BY <2>6, FS_CardinalityType
    <2> QED
      BY <2>1, <2>2, <2>5, <2>6, <2>7
  <1>4. ASSUME step \notin {"done", "failed"}
        PROVE  Shown' \subseteq Places' /\ Cardinality(Fallen') <= lost'.reading
    <2>1. query.of # "summary" /\ Shown \subseteq Places /\ Cardinality(Fallen) <= lost.reading
      BY <1>1, <1>4 DEF RInv
    <2> QED
      BY <2>1, FallenWriter
  <1> QED
    BY <1>1, <1>2, <1>3, <1>4 DEF RInv

LEMMA RepeatedFinds == TInv /\ RInv /\ FindPage => RInv'
  <1> SUFFICES ASSUME TInv, RInv, FindPage
               PROVE  RInv'
    BY DEF RInv
  <1>1. /\ UNCHANGED <<rows, log, query, changes>> /\ lost'.reading = lost.reading
        /\ Listed' = Listed /\ PageSize' = PageSize /\ Places' = Places
        /\ \A k : Before(k)' = Before(k) /\ (Distinct(k)' <=> Distinct(k))
    BY ReaderKeeps, StillGrows DEF PageSize
  <1>2. query.of # "summary" /\ step = "find" /\ seen' = seen
    BY DEF FindPage, Asks
  <1>3. PICK list \in Sortings, items \in Seq(Listed) :
          /\ answer'.page = answer.page /\ answer'.items = items
          /\ step' = IF query.of = "decisions" /\ items # <<>> THEN "revisions" ELSE "reply"
          /\ Len(items) \in 0 .. PageSize
          /\ Len(items) < PageSize => Skipped + Len(items) >= Len(list)
          /\ \A n \in 1 .. Len(items) : Skipped + n \in 1 .. Len(list) /\ items[n] = list[Skipped + n]
    BY PageFoundInAnswer
  <1>4. Skipped' = Skipped /\ Skipped \in Nat /\ PageSize \in Nat \ {0} /\ Len(items) \in Nat
    BY <1>1, <1>2, <1>3, SkippedTypes DEF Skipped
  <1>5. /\ seen \subseteq Places /\ Cardinality(Fallen) <= lost.reading /\ IsFiniteSet(Fallen)
        /\ Cardinality(Fallen) \in Nat
    <2>1. Shown = seen /\ Shown \subseteq Places /\ Cardinality(Fallen) <= lost.reading
      BY <1>2 DEF RInv, Shown, OnPage
    <2>2. Fallen \subseteq Places
      BY <2>1 DEF Fallen
    <2>3. IsFiniteSet(Fallen)
      BY <2>2, PlacesAreFinite, FS_Subset
    <2> QED
      BY <2>1, <2>3, FS_CardinalityType
  <1>6. step' \in {"revisions", "reply"}
    BY <1>3
  <1>7. Passed' = Skipped + PageSize /\ Shown' = seen \cup ToSet(items)
    BY <1>1, <1>2, <1>3, <1>4, <1>6 DEF Passed, Shown, OnPage
  <1>8. Passed = Skipped /\ Shown = seen
    BY <1>2 DEF Passed, Shown, OnPage
  <1>9. Repeated' = {i \in ToSet(items) \cap seen : Distinct(i)}
    BY <1>1, <1>2, <1>3 DEF Repeated
  <1>10. /\ DOMAIN items = 1 .. Len(items) /\ changes \in Nat /\ lost.reading \in Nat /\ Pushes \in Nat
         /\ changes = Pushes + lost.reading /\ Pushes' = Pushes
    BY <1>1, <1>3, LenProperties, PushTypes DEF Pushes
  <1>11. ASSUME NEW n \in 1 .. Len(items), Distinct(items[n])
         PROVE  items[n] \in Listed /\ Cardinality(Before(items[n])) = Skipped + n - 1
    <2>1. PICK i \in Listed : i = items[n] /\ Distinct(i)
      BY <1>3, <1>11, ElementOfSeq
    <2>2. PICK m \in 1 .. Len(list) : m = Skipped + n
      BY <1>3
    <2>3. list[m] = i
      BY <1>3, <2>1, <2>2
    <2>4. Cardinality(Before(i)) = m - 1
      BY <2>1, <2>3, Position
    <2>5. Cardinality(Before(i)) = Skipped + n - 1
      BY <1>4, <2>2, <2>4
    <2> QED
      BY <2>1, <2>5, Zenon
  <1>12. Shown' \subseteq Places'
    <2>1. ToSet(items) \subseteq Listed
      BY <1>3, <1>10, ElementOfSeq DEF ToSet
    <2> QED
      BY <1>1, <1>5, <1>7, <2>1, PlacesAreFinite
  <1>13. Fallen' \subseteq Fallen
    <2> SUFFICES ASSUME NEW i \in Fallen' PROVE i \in Fallen
      OBVIOUS
    <2>1. /\ i \in seen \cup ToSet(items) /\ Distinct(i)
          /\ i \notin Listed \/ Cardinality(Before(i)) >= Skipped + PageSize + Pushes
      BY <1>1, <1>7, <1>10 DEF Fallen
    <2>2. CASE i \in seen
      <3>1. Cardinality(Before(i)) \in Nat
        BY BeforeIsFinite
      <3>2. i \notin Listed \/ Cardinality(Before(i)) >= Passed + Pushes
        BY <1>4, <1>8, <1>10, <2>1, <3>1
      <3> QED
        BY <1>8, <2>1, <2>2, <3>2 DEF Fallen
    <2>3. CASE i \in ToSet(items)
      <3>1. PICK n \in 1 .. Len(items) : items[n] = i
        BY <1>10, <2>3 DEF ToSet
      <3>2. n <= PageSize
        BY <1>3, <1>4, <3>1
      <3>3. i \in Listed /\ Cardinality(Before(i)) = Skipped + n - 1
        BY <1>11, <2>1, <3>1
      <3> QED
        BY <1>4, <1>10, <2>1, <3>1, <3>2, <3>3
    <2> QED
      BY <2>1, <2>2, <2>3
  <1>14. Cardinality(Fallen') <= lost'.reading
    <2>1. IsFiniteSet(Fallen') /\ Cardinality(Fallen') <= Cardinality(Fallen)
      BY <1>5, <1>13, FS_Subset
    <2>2. Cardinality(Fallen') \in Nat
      BY <2>1, FS_CardinalityType
    <2> QED
      BY <1>1, <1>5, <1>10, <2>1, <2>2
  <1>15. Cardinality(Repeated') <= changes
    <2> DEFINE D == {n \in 1 .. Pushes : n \in 1 .. Len(items)}
               f == [n \in D |-> items[n]]
               R == {items[n] : n \in D}
    <2>1. Repeated' \subseteq Fallen \cup R
      <3> SUFFICES ASSUME NEW i \in ToSet(items), i \in seen, Distinct(i), i \notin Fallen
                   PROVE  i \in R
        BY <1>9
      <3>1. PICK n \in 1 .. Len(items) : items[n] = i
        BY <1>10 DEF ToSet
      <3>2. i \in Listed /\ Cardinality(Before(i)) = Skipped + n - 1
        BY <1>11, <3>1
      <3>3. ~(Cardinality(Before(i)) >= Skipped + Pushes)
        BY <1>8, <3>2 DEF Fallen
      <3>4. n \in 1 .. Pushes
        BY <1>4, <1>10, <3>1, <3>2, <3>3
      <3> QED
        BY <3>1, <3>4
    <2>2. IsFiniteSet(1 .. Pushes) /\ Cardinality(1 .. Pushes) = Pushes
      BY <1>10, IntervalSize
    <2>3. IsFiniteSet(D) /\ Cardinality(D) <= Pushes
      BY <2>2, FS_Subset
    <2>4. f \in Surjection(D, R)
      BY DEF Surjection
    <2> HIDE DEF D, f, R
    <2>5. IsFiniteSet(R) /\ Cardinality(R) <= Cardinality(D)
      BY <2>3, <2>4, FS_Surjection
    <2>6. Cardinality(D) \in Nat /\ Cardinality(R) \in Nat
      BY <2>3, <2>5, FS_CardinalityType
    <2>7. /\ IsFiniteSet(Fallen \cup R)
          /\ Cardinality(Fallen \cup R) = Cardinality(Fallen) + Cardinality(R) - Cardinality(Fallen \cap R)
      BY <1>5, <2>5, FS_Union
    <2>8. Cardinality(Fallen \cap R) \in Nat
      BY <1>5, FS_Subset, FS_CardinalityType
    <2>9. IsFiniteSet(Repeated') /\ Cardinality(Repeated') <= Cardinality(Fallen \cup R)
      BY <2>1, <2>7, FS_Subset
    <2>10. Cardinality(Repeated') \in Nat
      BY <2>9, FS_CardinalityType
    <2> QED
      BY <1>5, <1>10, <2>3, <2>5, <2>6, <2>7, <2>8, <2>9, <2>10
  <1> QED
    BY <1>1, <1>12, <1>14, <1>15 DEF RInv

LEMMA RepeatedReader == TInv /\ RInv /\ (CountListed \/ FindRevisions \/ ReceivePage) => RInv'
  <1> SUFFICES ASSUME TInv, RInv, CountListed \/ FindRevisions \/ ReceivePage
               PROVE  RInv'
    BY DEF RInv
  <1>1. /\ UNCHANGED <<rows, log, query, changes>> /\ lost'.reading = lost.reading
        /\ Listed' = Listed /\ Places' = Places
    BY ReaderKeeps, StillGrows
  <1>2. /\ query.of # "summary" /\ step \notin {"done", "failed"} /\ Shown' = Shown
        /\ (step' # "done" => Passed' = Passed)
        /\ \A k : Before(k)' = Before(k) /\ (Distinct(k)' <=> Distinct(k))
        /\ OnPage' => OnPage /\ Repeated' = Repeated
    BY WalkGoesOn
  <1>3. Shown' \subseteq Places' /\ Cardinality(Fallen) <= lost.reading
    BY <1>1, <1>2 DEF RInv
  <1>4. step' # "done" => Fallen' = Fallen
    <2>1. Pushes' = Pushes
      BY <1>1 DEF Pushes
    <2> QED
      BY <1>1, <1>2, <2>1 DEF Fallen
  <1>5. OnPage => Cardinality(Repeated) <= changes
    BY <1>2 DEF RInv
  <1> QED
    BY <1>1, <1>2, <1>3, <1>4, <1>5 DEF RInv

\* A client that asks for pages until one is not full sees everything that was listed
\* all the while and not touched, but for one row at most per row that left the list or
\* fell back on it, and no page shows it again more than there were changes, for any page
\* size, however old the times are that the writers store and however the changes fall
\* between its queries. Only entries of the log that share their time with others are exempt.
THEOREM WalkExact == Spec => []WalkExactUpToChanges
  <1>1. TInv /\ Init => MInv /\ RInv
    <2> SUFFICES ASSUME TInv, Init, query.of # "summary"
                 PROVE  Missed = {} /\ Fallen = {} /\ Shown = {} /\ ~OnPage /\ lost.reading = 0
      BY FS_EmptySet DEF MInv, RInv
    <2>1. step = "count" /\ answer = NoAnswer /\ seen = {} /\ lost.reading = 0
      BY DEF Init
    <2>2. Passed = 0 /\ ~AllRead /\ Shown = {} /\ ~OnPage
      <3>1. PageSize \in Nat
        BY SkippedTypes
      <3>2. Skipped = 0
        BY <2>1, <3>1, NoAnswerTypes DEF Skipped
      <3> QED
        BY <2>1, <3>2 DEF Passed, AllRead, Shown, OnPage
    <2>3. \A i : ~(Cardinality(Before(i)) < 0)
      BY BeforeIsFinite
    <2> QED
      BY <2>1, <2>2, <2>3 DEF Missed, Fallen
  <1>2. TInv /\ MInv /\ RInv /\ [Next]_vars => MInv' /\ RInv'
    <2> SUFFICES ASSUME TInv, MInv, RInv, [Next]_vars PROVE MInv' /\ RInv'
      OBVIOUS
    <2>1. CASE SummarizeAudits \/ QueryFails
      <3>1. query' = query /\ (query.of = "summary" \/ step' = "failed")
        BY <2>1, ReaderKeeps DEF SummarizeAudits, Count, QueryFails, Asks
      <3> QED
        BY <3>1 DEF MInv, RInv, OnPage
    <2> QED
      BY <2>1, NextMoves, MissedWriter, MissedFinds, MissedReader,
         RepeatedWriter, RepeatedFinds, RepeatedReader
  <1>3. TInv /\ MInv /\ RInv => WalkExactUpToChanges
    <2> SUFFICES ASSUME TInv, MInv, RInv, query.of # "summary"
                 PROVE  /\ step = "done" => Cardinality({i \in owed \ seen : Distinct(i)}) <= lost.reading
                        /\ step = "reply" =>
                             Cardinality({i \in ToSet(answer.items) \cap seen : Distinct(i)}) <= changes
      BY DEF WalkExactUpToChanges
    <2>1. step = "done" => Missed = {i \in owed \ seen : Distinct(i)}
      BY DEF Missed, AllRead, Shown, OnPage
    <2> QED
      BY <2>1 DEF MInv, RInv, OnPage, Repeated
  <1> QED
    BY <1>1, <1>2, <1>3, Typing, InitTypes, PTL DEF Spec

-----------------------------------------------------------------------------
(* A summary. The window does not move, so that every count is over a part   *)
(* of what the counts after it are over; a group adds up to what it counts.  *)

\* Counting a set by the values of a function on it.
CountBy(f, S) == [v \in {f[i] : i \in S} |-> Cardinality({i \in S : f[i] = v})]

LEMMA BijectionParts ==
  ASSUME NEW D, NEW T, NEW h \in Bijection(D, T)
  PROVE  /\ h \in [D -> T]
         /\ \A k, l \in D : h[k] = h[l] => k = l
         /\ \A i \in T : \E k \in D : h[k] = i
  BY DEF Bijection, Injection, IsInjective, Surjection

LEMMA PairParts ==
  ASSUME NEW a, NEW X, NEW p \in {a} \X X
  PROVE  \E k \in X : p = <<a, k>>
  OBVIOUS

\* The counts of all values add up to the size of the set.
LEMMA CountsAddUp ==
  ASSUME NEW S, IsFiniteSet(S), NEW f
  PROVE  InAll(CountBy(f, S)) = Cardinality(S)
  <1> DEFINE V == {f[i] : i \in S}
             C(v) == {i \in S : f[i] = v}
             g == CountBy(f, S)
             U == UNION {{v} \X (1 .. g[v]) : v \in DOMAIN g}
             b == [v \in V |-> CHOOSE h : h \in Bijection(1 .. Cardinality(C(v)), C(v))]
             w == [p \in U |-> b[p[1]][p[2]]]
             Bijects(h, D, T) == /\ h \in [D -> T]
                                 /\ \A k, l \in D : h[k] = h[l] => k = l
                                 /\ \A i \in T : \E k \in D : h[k] = i
  <1>1. DOMAIN g = V /\ \A v \in V : g[v] = Cardinality(C(v))
    BY DEF CountBy
  <1>2. ASSUME NEW v \in V
        PROVE  b[v] \in Bijection(1 .. g[v], C(v))
    <2>1. IsFiniteSet(C(v))
      BY FS_Subset
    <2>2. ExistsBijection(1 .. Cardinality(C(v)), C(v))
      BY <2>1, FS_CardinalityType
    <2>3. \E h : h \in Bijection(1 .. Cardinality(C(v)), C(v))
      BY <2>2 DEF ExistsBijection
    <2> QED
      BY <1>1, <2>3
  <1>3. ASSUME NEW v \in V
        PROVE  Bijects(b[v], 1 .. g[v], C(v))
    <2>1. PICK h, D, T : h = b[v] /\ D = 1 .. g[v] /\ T = C(v)
      OBVIOUS
    <2>2. h \in Bijection(D, T)
      BY <1>2, <2>1
    <2>3. Bijects(h, D, T)
      BY <2>2, BijectionParts
    <2> HIDE DEF Bijects
    <2> QED
      BY <2>1, <2>3
  <1>4. ASSUME NEW p \in U
        PROVE  \E v \in V : \E k \in 1 .. g[v] : p = <<v, k>>
    <2>1. PICK v \in V : p \in {v} \X (1 .. g[v])
      BY <1>1
    <2> QED
      BY <2>1, PairParts
  <1>5. ASSUME NEW v \in V, NEW k \in 1 .. g[v]
        PROVE  <<v, k>> \in U /\ w[<<v, k>>] = b[v][k]
    <2>1. <<v, k>> \in {v} \X (1 .. g[v])
      OBVIOUS
    <2>2. <<v, k>> \in U
      BY <1>1, <2>1
    <2>3. PICK p \in U : p = <<v, k>>
      BY <2>2
    <2>4. w[p] = b[p[1]][p[2]] /\ p[1] = v /\ p[2] = k
      BY <2>3
    <2> QED
      BY <2>2, <2>3, <2>4
  <1> HIDE DEF b, g
  <1>6. ASSUME NEW p \in U
        PROVE  \E v \in V : \E k \in 1 .. g[v] :
                 p = <<v, k>> /\ w[p] = b[v][k] /\ w[p] \in S /\ f[w[p]] = v
    <2>0. PICK v \in V : \E k \in 1 .. g[v] : p = <<v, k>>
      BY <1>4
    <2>1. PICK k \in 1 .. g[v] : p = <<v, k>>
      BY <2>0
    <2>2. w[p] = b[v][k]
      BY <1>5, <2>1
    <2>3. b[v][k] \in C(v)
      BY <1>3
    <2> QED
      BY <2>1, <2>2, <2>3
  <1>7. w \in [U -> S]
    BY <1>6
  <1>8. ASSUME NEW p \in U, NEW q \in U, w[p] = w[q]
        PROVE  p = q
    <2>1. PICK v \in V : \E k \in 1 .. g[v] : p = <<v, k>> /\ w[p] = b[v][k] /\ f[w[p]] = v
      BY <1>6
    <2>2. PICK k \in 1 .. g[v] : p = <<v, k>> /\ w[p] = b[v][k]
      BY <2>1
    <2>3. \E l \in 1 .. g[v] : q = <<v, l>> /\ w[q] = b[v][l]
      BY <1>6, <1>8, <2>1
    <2>4. PICK l \in 1 .. g[v] : q = <<v, l>> /\ w[q] = b[v][l]
      BY <2>3
    <2>5. k = l
      BY <1>3, <1>8, <2>2, <2>4
    <2> QED
      BY <2>2, <2>4, <2>5
  <1>9. ASSUME NEW i \in S
        PROVE  \E p \in U : w[p] = i
    <2>1. f[i] \in V /\ i \in C(f[i])
      OBVIOUS
    <2>2. PICK v \in V : i \in C(v)
      BY <2>1
    <2>3. PICK k \in 1 .. g[v] : b[v][k] = i
      BY <1>3, <2>2
    <2> QED
      BY <1>5, <2>3
  <1> HIDE DEF U, w
  <1>10. w \in Injection(U, S) /\ w \in Surjection(U, S)
    BY <1>7, <1>8, <1>9 DEF Injection, IsInjective, Surjection
  <1>11. Cardinality(U) = Cardinality(S)
    BY <1>10, FS_Injection
  <1> QED
    BY <1>11 DEF U, g, InAll

\* No more values than elements.
LEMMA ValuesAtMost ==
  ASSUME NEW S, IsFiniteSet(S), NEW f
  PROVE  /\ Cardinality({f[i] : i \in S}) \in Nat
         /\ Cardinality({f[i] : i \in S}) <= Cardinality(S)
  <1> DEFINE V == {f[i] : i \in S}
             h == [i \in S |-> f[i]]
  <1>1. h \in Surjection(S, V)
    BY DEF Surjection
  <1>2. IsFiniteSet(V) /\ Cardinality(V) <= Cardinality(S)
    BY <1>1, FS_Surjection
  <1>3. Cardinality(V) \in Nat
    BY <1>2, FS_CardinalityType
  <1> QED
    BY <1>2, <1>3

Columns == {"since", "total", "transitions", "actors", "actions", "entities"}

Transitions == {i \in Recent : log[i].event.action = "transition"}

SInv ==
  query.of = "summary" /\ step # "failed" =>
    /\ answer = [c \in Columns |-> answer[c]]
    /\ step \in {"total", "transitions", "actors", "actions", "entities", "done"}
    /\ step # "total" =>
         answer.total \in Nat /\ answer.total <= Cardinality(Recent)
    /\ step \notin {"total", "transitions"} =>
         answer.transitions \in Nat /\ answer.transitions <= Cardinality(Transitions)
    /\ step \notin {"total", "transitions", "actors"} =>
         answer.actors \in Nat /\ answer.actors <= Cardinality(Recent)
    /\ step \in {"entities", "done"} =>
         /\ InAll(answer.actions) \in Nat /\ InAll(answer.actions) <= Cardinality(Recent)
         /\ answer.total <= InAll(answer.actions) /\ answer.actors <= InAll(answer.actions)
         /\ answer.transitions > 0 => answer.transitions <= answer.actions["transition"]
    /\ step = "done" => InAll(answer.actions) <= InAll(answer.entities)

LEMMA RecentIsFinite ==
  TInv => /\ IsFiniteSet(Recent) /\ Cardinality(Recent) \in Nat
          /\ IsFiniteSet(Transitions) /\ Cardinality(Transitions) \in Nat
  <1> SUFFICES ASSUME TInv
               PROVE  /\ IsFiniteSet(Recent) /\ Cardinality(Recent) \in Nat
                      /\ IsFiniteSet(Transitions) /\ Cardinality(Transitions) \in Nat
    OBVIOUS
  <1>1. DOMAIN log = 1 .. Len(log) /\ Len(log) \in Nat
    BY LenProperties DEF TInv
  <1>2. IsFiniteSet(DOMAIN log)
    BY <1>1, FS_Interval
  <1>3. IsFiniteSet(Recent) /\ IsFiniteSet(Transitions)
    BY <1>2, FS_Subset DEF Recent, Transitions
  <1> QED
    BY <1>3, FS_CardinalityType

\* While the window stays where it is, what is in it stays.
LEMMA RecentGrows ==
  ASSUME TInv, TInv', Grows, answer' = answer
  PROVE  /\ Cardinality(Recent) <= Cardinality(Recent')
         /\ Cardinality(Transitions) <= Cardinality(Transitions')
         /\ Cardinality(Recent) \in Nat /\ Cardinality(Recent') \in Nat
         /\ Cardinality(Transitions) \in Nat /\ Cardinality(Transitions') \in Nat
  <1>1. TInv' => /\ IsFiniteSet(Recent)' /\ (Cardinality(Recent) \in Nat)'
                 /\ IsFiniteSet(Transitions)' /\ (Cardinality(Transitions) \in Nat)'
    BY RecentIsFinite, PTL
  <1>2. /\ IsFiniteSet(Recent') /\ Cardinality(Recent') \in Nat
        /\ IsFiniteSet(Transitions') /\ Cardinality(Transitions') \in Nat
    BY <1>1
  <1>3. /\ DOMAIN log = 1 .. Len(log) /\ Len(log) \in Nat
        /\ DOMAIN log' = 1 .. Len(log') /\ Len(log') \in Nat
    BY LenProperties DEF TInv
  <1>4. DOMAIN log \subseteq DOMAIN log' /\ \A n \in DOMAIN log : log'[n] = log[n]
    BY <1>3 DEF Grows
  <1>5. Recent \subseteq Recent' /\ Transitions \subseteq Transitions'
    BY <1>4 DEF Recent, Since, Transitions
  <1> QED
    BY <1>2, <1>5, RecentIsFinite, FS_Subset

LEMMA SummaryWriter == TInv /\ SInv /\ WriterMoves => SInv'
  <1> SUFFICES ASSUME TInv, SInv, WriterMoves, query'.of = "summary", step' # "failed"
               PROVE  SInv'
    BY DEF SInv
  <1>1. Grows /\ UNCHANGED <<query, step, answer>> /\ TInv'
    BY WriterKeeps, WriterTypes
  <1>2. /\ Cardinality(Recent) <= Cardinality(Recent')
        /\ Cardinality(Transitions) <= Cardinality(Transitions')
        /\ Cardinality(Recent) \in Nat /\ Cardinality(Recent') \in Nat
        /\ Cardinality(Transitions) \in Nat /\ Cardinality(Transitions') \in Nat
    BY <1>1, RecentGrows
  <1>3. step # "total" => answer.total \in Nat /\ answer.total <= Cardinality(Recent')
    BY <1>1, <1>2 DEF SInv
  <1>4. step \notin {"total", "transitions"} =>
          answer.transitions \in Nat /\ answer.transitions <= Cardinality(Transitions')
    BY <1>1, <1>2 DEF SInv
  <1>5. step \notin {"total", "transitions", "actors"} =>
          answer.actors \in Nat /\ answer.actors <= Cardinality(Recent')
    BY <1>1, <1>2 DEF SInv
  <1>6. step \in {"entities", "done"} =>
          /\ InAll(answer.actions) \in Nat /\ InAll(answer.actions) <= Cardinality(Recent')
          /\ answer.total <= InAll(answer.actions) /\ answer.actors <= InAll(answer.actions)
          /\ answer.transitions > 0 => answer.transitions <= answer.actions["transition"]
    BY <1>1, <1>2 DEF SInv
  <1>7. /\ answer = [c \in Columns |-> answer[c]]
        /\ step \in {"total", "transitions", "actors", "actions", "entities", "done"}
        /\ step = "done" => InAll(answer.actions) <= InAll(answer.entities)
    BY <1>1 DEF SInv
  <1> QED
    BY <1>1, <1>3, <1>4, <1>5, <1>6, <1>7 DEF SInv

\* A count fills in one column and leaves the others.
LEMMA Fills ==
  ASSUME answer = [c \in Columns |-> answer[c]], NEW column \in Columns, NEW x,
         answer' = [answer EXCEPT ![column] = x]
  PROVE  /\ answer' = [c \in Columns |-> answer'[c]]
         /\ answer'[column] = x
         /\ \A c \in Columns \ {column} : answer'[c] = answer[c]
  OBVIOUS

\* What a group counts.
LEMMA GroupAddsUp ==
  ASSUME TInv, NEW column
  PROVE  InAll(Grouped(column)) = Cardinality(Recent)
  <1>1. PICK f : f = [i \in Recent |-> log[i].event[column]]
    OBVIOUS
  <1>2. Grouped(column) = CountBy(f, Recent)
    <2>1. {log[i].event[column] : i \in Recent} = {f[i] : i \in Recent}
      BY <1>1
    <2>2. \A v : {i \in Recent : log[i].event[column] = v} = {i \in Recent : f[i] = v}
      BY <1>1
    <2> QED
      BY <2>1, <2>2 DEF Grouped, CountBy
  <1> QED
    BY <1>2, RecentIsFinite, CountsAddUp

LEMMA TransitionsGrouped ==
  ASSUME TInv, NEW k \in Nat, k <= Cardinality(Transitions), k > 0
  PROVE  k <= Grouped("action")["transition"]
  <1>1. Transitions # {}
    BY RecentIsFinite, FS_EmptySet
  <1>2. "transition" \in {log[i].event["action"] : i \in Recent}
    BY <1>1 DEF Transitions
  <1>3. Transitions = {i \in Recent : log[i].event["action"] = "transition"}
    BY DEF Transitions
  <1>4. Grouped("action")["transition"] = Cardinality(Transitions)
    BY <1>2, <1>3 DEF Grouped
  <1> QED
    BY <1>4

LEMMA ActorsCounted ==
  TInv => /\ Cardinality({log[i].event.actor : i \in Recent}) \in Nat
          /\ Cardinality({log[i].event.actor : i \in Recent}) <= Cardinality(Recent)
  <1> SUFFICES ASSUME TInv
               PROVE  /\ Cardinality({log[i].event.actor : i \in Recent}) \in Nat
                      /\ Cardinality({log[i].event.actor : i \in Recent}) <= Cardinality(Recent)
    OBVIOUS
  <1>1. PICK f : f = [i \in Recent |-> log[i].event.actor]
    OBVIOUS
  <1>2. {log[i].event.actor : i \in Recent} = {f[i] : i \in Recent}
    BY <1>1
  <1>3. /\ Cardinality({f[i] : i \in Recent}) \in Nat
        /\ Cardinality({f[i] : i \in Recent}) <= Cardinality(Recent)
    BY RecentIsFinite, ValuesAtMost
  <1> QED
    BY <1>2, <1>3

LEMMA SummaryReader == TInv /\ SInv /\ SummarizeAudits => SInv'
  <1> SUFFICES ASSUME TInv, SInv, SummarizeAudits
               PROVE  SInv'
    OBVIOUS
  <1>1. UNCHANGED <<log, query>> /\ query.of = "summary"
    BY ReaderKeeps DEF SummarizeAudits, Count, Asks
  <1>2. /\ Cardinality(Recent) \in Nat /\ Cardinality(Transitions) \in Nat
    BY RecentIsFinite
  <1>3. step # "failed" /\ answer = [c \in Columns |-> answer[c]]
    BY <1>1 DEF SInv, SummarizeAudits, Count, Asks
  <1>4. answer'.since = answer.since => Recent' = Recent /\ Transitions' = Transitions
    BY <1>1 DEF Recent, Since, Transitions
  <1>5. ASSUME Count("total", [answer EXCEPT !.total = Cardinality(Recent)], "transitions")
        PROVE  SInv'
    <2>1. /\ step = "total" /\ step' = "transitions"
          /\ answer' = [answer EXCEPT !["total"] = Cardinality(Recent)]
      BY <1>5 DEF Count, Asks
    <2>2. /\ answer' = [c \in Columns |-> answer'[c]]
          /\ answer'.total = Cardinality(Recent) /\ answer'.since = answer.since
      BY <1>3, <2>1, Fills DEF Columns
    <2> QED
      BY <1>1, <1>2, <1>4, <2>1, <2>2 DEF SInv
  <1>6. ASSUME Count("transitions", [answer EXCEPT !.transitions =
                       Cardinality({i \in Recent : log[i].event.action = "transition"})], "actors")
        PROVE  SInv'
    <2>1. /\ step = "transitions" /\ step' = "actors"
          /\ answer' = [answer EXCEPT !["transitions"] = Cardinality(Transitions)]
      BY <1>6 DEF Count, Asks, Transitions
    <2>2. /\ answer' = [c \in Columns |-> answer'[c]]
          /\ answer'.transitions = Cardinality(Transitions) /\ answer'.since = answer.since
          /\ answer'.total = answer.total
      BY <1>3, <2>1, Fills DEF Columns
    <2> QED
      BY <1>1, <1>2, <1>4, <2>1, <2>2 DEF SInv
  <1>7. ASSUME Count("actors", [answer EXCEPT !.actors =
                       Cardinality({log[i].event.actor : i \in Recent})], "actions")
        PROVE  SInv'
    <2>1. /\ step = "actors" /\ step' = "actions"
          /\ answer' = [answer EXCEPT !["actors"] = Cardinality({log[i].event.actor : i \in Recent})]
      BY <1>7 DEF Count, Asks
    <2>2. /\ answer' = [c \in Columns |-> answer'[c]]
          /\ answer'.actors = Cardinality({log[i].event.actor : i \in Recent})
          /\ answer'.since = answer.since /\ answer'.total = answer.total
          /\ answer'.transitions = answer.transitions
      BY <1>3, <2>1, Fills DEF Columns
    <2>3. answer'.actors \in Nat /\ answer'.actors <= Cardinality(Recent)
      BY <2>2, ActorsCounted
    <2> QED
      BY <1>1, <1>2, <1>4, <2>1, <2>2, <2>3 DEF SInv
  <1>8. ASSUME Count("actions", [answer EXCEPT !.actions = Grouped("action")], "entities")
        PROVE  SInv'
    <2>1. /\ step = "actions" /\ step' = "entities"
          /\ answer' = [answer EXCEPT !["actions"] = Grouped("action")]
      BY <1>8 DEF Count, Asks
    <2>2. /\ answer' = [c \in Columns |-> answer'[c]]
          /\ answer'.actions = Grouped("action")
          /\ answer'.since = answer.since /\ answer'.total = answer.total
          /\ answer'.transitions = answer.transitions /\ answer'.actors = answer.actors
      BY <1>3, <2>1, Fills DEF Columns
    <2>3. InAll(answer'.actions) = Cardinality(Recent)
      BY <2>2, GroupAddsUp
    <2>4. /\ answer.total \in Nat /\ answer.total <= Cardinality(Recent)
          /\ answer.actors \in Nat /\ answer.actors <= Cardinality(Recent)
          /\ answer.transitions \in Nat /\ answer.transitions <= Cardinality(Transitions)
      BY <1>1, <2>1 DEF SInv
    <2>5. answer'.transitions > 0 => answer'.transitions <= answer'.actions["transition"]
      BY <2>2, <2>4, TransitionsGrouped
    <2> QED
      BY <1>1, <1>2, <1>4, <2>1, <2>2, <2>3, <2>4, <2>5 DEF SInv
  <1>9. ASSUME Count("entities", [answer EXCEPT !.entities = Grouped("entity")], "done")
        PROVE  SInv'
    <2>1. /\ step = "entities" /\ step' = "done"
          /\ answer' = [answer EXCEPT !["entities"] = Grouped("entity")]
      BY <1>9 DEF Count, Asks
    <2>2. /\ answer' = [c \in Columns |-> answer'[c]]
          /\ answer'.entities = Grouped("entity")
          /\ answer'.since = answer.since /\ answer'.total = answer.total
          /\ answer'.transitions = answer.transitions /\ answer'.actors = answer.actors
          /\ answer'.actions = answer.actions
      BY <1>3, <2>1, Fills DEF Columns
    <2>3. InAll(answer'.entities) = Cardinality(Recent)
      BY <2>2, GroupAddsUp
    <2> QED
      BY <1>1, <1>2, <1>4, <2>1, <2>2, <2>3 DEF SInv
  <1> QED
    BY <1>5, <1>6, <1>7, <1>8, <1>9 DEF SummarizeAudits

\* The parts of a summary fit together whatever is appended to the log between its
\* counts: each count covers what the counts before it did.
THEOREM SummariesAddUp == Spec => []SummaryAddsUp
  <1>1. Init => SInv
    <2> SUFFICES ASSUME Init, query.of = "summary"
                 PROVE  step = "total" /\ answer = [c \in Columns |-> answer[c]]
      BY DEF SInv
    <2>1. step = "total" /\ answer = NoSummary
      BY DEF Init
    <2> QED
      BY <2>1 DEF NoSummary, Columns
  <1>2. TInv /\ SInv /\ [Next]_vars => SInv'
    <2> SUFFICES ASSUME TInv, SInv, [Next]_vars PROVE SInv'
      OBVIOUS
    <2>1. CASE CountListed \/ FindPage \/ FindRevisions \/ ReceivePage \/ QueryFails
      <3>1. query' = query /\ (query.of # "summary" \/ step' = "failed")
        BY <2>1, ReaderKeeps DEF CountListed, FindPage, FindRevisions, ReceivePage, QueryFails, Asks
      <3> QED
        BY <3>1 DEF SInv
    <2> QED
      BY <2>1, NextMoves, SummaryWriter, SummaryReader
  <1>3. SInv => SummaryAddsUp
    BY DEF SInv, SummaryAddsUp
  <1> QED
    BY <1>1, <1>2, <1>3, Typing, PTL DEF Spec
=============================================================================

--------------------------- MODULE Startup_proofs ---------------------------
(* Theorems about Startup, for any tables, rows, attempts and kills.         *)
EXTENDS Startup, TLAPS

TableStates == [Tables -> [Codes -> {"absent", "live", "deleted"}]]

TablesInOrder == \A i \in 1 .. Len(TableOrder) : TableOrder[i] \in Tables

LEMMA Order == TablesInOrder /\ \A t \in Tables : \E i \in 1 .. Len(TableOrder) : t = TableOrder[i]
  BY OrderAssumption DEF TablesInOrder, Tables

\* The rows of a table once it is seeded.
Filled(t) == [c \in Codes |-> IF c \in SeedCodes THEN "live" ELSE tables[t][c]]

LEMMA FillTableFills ==
  ASSUME TypeOK, FillTable
  PROVE  tables' = [tables EXCEPT ![TableOrder[seeding]] = Filled(TableOrder[seeding])]
  <1>1. TableOrder[seeding] \in Tables
    BY Order, OrderAssumption DEF FillTable, TypeOK, TablesInOrder
  <1> QED
    BY <1>1 DEF FillTable, Filled, TypeOK

-----------------------------------------------------------------------------
(* Types. An attempt is counted before it is made, and only as many as there *)
(* may be; a table is worked on only while the index is one of a table.      *)

Flags == <<connected, users, dbUp, redisUp>> \in BOOLEAN \X BOOLEAN \X BOOLEAN \X BOOLEAN

LEMMA FlagTypes ==
  Flags <=> connected \in BOOLEAN /\ users \in BOOLEAN /\ dbUp \in BOOLEAN /\ redisUp \in BOOLEAN
  BY DEF Flags

LEMMA InitTypes == Init => TypeOK
  <1> SUFFICES ASSUME Init PROVE TypeOK
    OBVIOUS
  <1>1. Flags
    BY FlagTypes DEF Init
  <1>2. seeding \in 1 .. Len(TableOrder) + 1 /\ attempt \in 0 .. MaxAttempts
    BY OrderAssumption, AttemptsAssumption DEF Init
  <1> QED
    BY <1>1, <1>2 DEF Init, TypeOK, Flags, Phases

\* The steps up to the connection.
LEMMA OpenTypes ==
  ASSUME TypeOK, Restart \/ Open \/ Migrate
  PROVE  TypeOK'
  <1>1. ASSUME Restart PROVE TypeOK'
    <2>1. Flags'
      <3>1. Flags
        BY DEF TypeOK, Flags
      <3>2. connected' = FALSE /\ UNCHANGED <<users, dbUp, redisUp>>
        BY <1>1 DEF Restart, database, environment
      <3> QED
        BY <3>1, <3>2, FlagTypes DEF Flags
    <2>2. seeding' \in 1 .. Len(TableOrder) + 1 /\ attempt' \in 0 .. MaxAttempts
      BY <1>1, OrderAssumption, AttemptsAssumption DEF Restart
    <2> QED
      BY <1>1, <2>1, <2>2 DEF TypeOK, Flags, Phases, Restart, database
  <1>2. Connect \/ ConnectFails \/ ConnectRecovers => TypeOK'
    BY DEF TypeOK, Phases, Connect, ConnectFails, ConnectRecovers, database, environment
  <1>3. TryAgain => TypeOK'
    BY AttemptsAssumption DEF TypeOK, Phases, TryAgain, database, environment
  <1>4. GiveUp \/ Deadline \/ Migrate => TypeOK'
    BY DEF TypeOK, Phases, GiveUp, Deadline, Migrate, Become, database, environment
  <1> QED
    BY <1>1, <1>2, <1>3, <1>4 DEF Open

LEMMA SeedTypes ==
  ASSUME TypeOK, Seed \/ ConnectRedis
  PROVE  TypeOK'
  <1>1. SeedUsers \/ FillTableRefused \/ SeedFails \/ SeedDone \/ ConnectRedis => TypeOK'
    BY DEF TypeOK, Phases, SeedUsers, FillTableRefused, SeedFails, SeedDone, ConnectRedis,
           Become, database, environment
  <1>2. SkipTable => TypeOK'
    BY OrderAssumption DEF TypeOK, SkipTable, database, environment
  <1>3. ASSUME FillTable PROVE TypeOK'
    <2>1. \A t \in Tables : Filled(t) \in [Codes -> {"absent", "live", "deleted"}]
      BY DEF Filled, TypeOK
    <2>2. tables' \in TableStates
      <3>1. TableOrder[seeding] \in Tables
        BY <1>3, Order, OrderAssumption DEF FillTable, TypeOK, TablesInOrder
      <3> QED
        BY <1>3, <2>1, <3>1, FillTableFills DEF TypeOK, TableStates
    <2>3. seeding' \in 1 .. Len(TableOrder) + 1
      BY <1>3, OrderAssumption DEF FillTable, TypeOK
    <2> QED
      BY <1>3, <2>2, <2>3 DEF FillTable, TypeOK, TableStates, environment
  <1> QED
    BY <1>1, <1>2, <1>3 DEF Seed

LEMMA ServeTypes ==
  ASSUME TypeOK, CreateRow \/ DeleteRow \/ Kill \/ DatabaseFlips \/ RedisFlips
  PROVE  TypeOK'
  <1>1. ASSUME CreateRow PROVE TypeOK'
    <2>1. PICK t \in Tables, c \in Codes : tables' = [tables EXCEPT ![t][c] = "live"]
      BY <1>1 DEF CreateRow, Codes
    <2>2. tables' \in TableStates
      BY <2>1 DEF TypeOK, TableStates
    <2> QED
      BY <1>1, <2>2 DEF CreateRow, TypeOK, TableStates, environment
  <1>2. DeleteRow => TypeOK'
    BY DEF TypeOK, DeleteRow, LiveRows, environment
  <1>3. Kill \/ DatabaseFlips \/ RedisFlips => TypeOK'
    BY DEF TypeOK, Phases, Kill, DatabaseFlips, RedisFlips, Become, database
  <1> QED
    BY <1>1, <1>2, <1>3

LEMMA NextTypes ==
  ASSUME TypeOK, [Next]_vars
  PROVE  TypeOK'
  <1>1. UNCHANGED vars => TypeOK'
    BY DEF TypeOK, vars
  <1> QED
    BY <1>1, OpenTypes, SeedTypes, ServeTypes DEF Next, Start

\* However often the process is restarted, the attempt and the index of the table
\* stay within their bounds and a row is absent, live or deleted.
THEOREM TypeCorrect == Spec => []TypeOK
  BY InitTypes, NextTypes, PTL DEF Spec

-----------------------------------------------------------------------------
(* The connection.                                                           *)

LEMMA NextConnected ==
  ASSUME SeedsConnected, [Next]_vars
  PROVE  SeedsConnected'
  <1>1. CASE UNCHANGED vars
    BY <1>1 DEF SeedsConnected, vars
  <1>2. CASE Restart \/ Open \/ Migrate
    BY <1>2 DEF SeedsConnected, Restart, Open, Connect, ConnectFails, ConnectRecovers, TryAgain,
                GiveUp, Deadline, Migrate, Become
  <1>3. CASE Seed \/ ConnectRedis
    BY <1>3 DEF SeedsConnected, Seed, SeedUsers, SkipTable, FillTable, FillTableRefused, SeedFails,
                SeedDone, ConnectRedis, Become
  <1>4. CASE CreateRow \/ DeleteRow \/ Kill \/ DatabaseFlips \/ RedisFlips
    BY <1>4 DEF SeedsConnected, CreateRow, DeleteRow, Kill, DatabaseFlips, RedisFlips, Become
  <1> QED
    BY <1>1, <1>2, <1>3, <1>4 DEF Next, Start

\* Seeding is reached only from an attempt whose last ping had succeeded, for any
\* number of attempts.
THEOREM SeedsConnectedCorrect == Spec => []SeedsConnected
  <1>1. Init => SeedsConnected
    BY DEF Init, SeedsConnected
  <1> QED
    BY <1>1, NextConnected, PTL DEF Spec

-----------------------------------------------------------------------------
(* What a start leaves. Once the users are seeded they stay; the tables the  *)
(* index has passed have a live row, and keep it until the process serves.   *)

Passed ==
  /\ phase \in {"seeding", "redis"} => users
  /\ phase = "seeding" => \A i \in 1 .. (seeding - 1) : LiveRows(TableOrder[i]) # {}
  /\ phase = "redis" => \A t \in Tables : LiveRows(t) # {}
  /\ phase \notin {"seeding", "redis", "serving"} => seeding = 1 \/ phase = "stopped"

LEMMA FilledHasRows ==
  ASSUME TypeOK, FillTable, NEW i \in 1 .. seeding,
         i < seeding => LiveRows(TableOrder[i]) # {}
  PROVE  LiveRows(TableOrder[i])' # {}
  <1>1. seeding \in 1 .. Len(TableOrder)
    BY OrderAssumption DEF FillTable, TypeOK
  <1>2. i \in 1 .. Len(TableOrder)
    BY <1>1, OrderAssumption
  <1>3. TableOrder[i] \in Tables /\ TableOrder[seeding] \in Tables
    BY <1>1, <1>2, Order DEF TablesInOrder
  <1>4. CASE TableOrder[i] = TableOrder[seeding]
    <2>1. tables'[TableOrder[i]] = Filled(TableOrder[i])
      BY <1>3, <1>4, FillTableFills DEF TypeOK
    <2>2. PICK c \in SeedCodes : TRUE
      BY CodesAssumption
    <2>3. c \in Codes /\ Filled(TableOrder[i])[c] = "live"
      BY <2>2 DEF Filled, Codes
    <2> QED
      BY <2>1, <2>3 DEF LiveRows
  <1>5. CASE TableOrder[i] # TableOrder[seeding]
    <2>1. tables'[TableOrder[i]] = tables[TableOrder[i]]
      BY <1>3, <1>5 DEF FillTable, TypeOK
    <2>2. i < seeding
      BY <1>1, <1>5
    <2> QED
      BY <2>1, <2>2 DEF LiveRows
  <1> QED
    BY <1>4, <1>5

LEMMA SeedPassed ==
  ASSUME TypeOK, Passed, Seed
  PROVE  Passed'
  <1>1. ASSUME SeedUsers PROVE Passed'
    <2>1. users' /\ phase' = "seeding" /\ seeding' = 1
      BY <1>1 DEF SeedUsers, Become, Passed
    <2> QED
      BY <2>1 DEF Passed
  <1>2. ASSUME SkipTable PROVE Passed'
    <2>1. /\ UNCHANGED <<users, tables, phase>> /\ phase = "seeding" /\ seeding' = seeding + 1
          /\ LiveRows(TableOrder[seeding]) # {} /\ seeding \in Nat
      BY <1>2, OrderAssumption DEF SkipTable, TypeOK, database
    <2>2. \A i \in 1 .. seeding : LiveRows(TableOrder[i]) # {}
      BY <1>2, <2>1 DEF Passed
    <2>3. \A i \in 1 .. (seeding' - 1) : LiveRows(TableOrder[i])' # {}
      BY <2>1, <2>2 DEF LiveRows
    <2> QED
      BY <2>1, <2>3 DEF Passed
  <1>3. ASSUME FillTable PROVE Passed'
    <2>1. /\ UNCHANGED <<users, phase>> /\ phase = "seeding" /\ seeding' = seeding + 1
          /\ seeding \in Nat
      BY <1>3, OrderAssumption DEF FillTable, TypeOK
    <2>2. \A i \in 1 .. seeding : i < seeding => LiveRows(TableOrder[i]) # {}
      BY <2>1 DEF Passed
    <2>3. \A i \in 1 .. seeding : LiveRows(TableOrder[i])' # {}
      BY <1>3, <2>2, FilledHasRows
    <2> QED
      BY <2>1, <2>3 DEF Passed
  <1>4. ASSUME SeedDone PROVE Passed'
    <2>1. /\ UNCHANGED <<users, tables>> /\ phase = "seeding" /\ phase' = "redis"
          /\ seeding > Len(TableOrder) /\ seeding \in Nat
      BY <1>4, OrderAssumption DEF SeedDone, Become, TypeOK, database
    <2>2. \A t \in Tables : LiveRows(t) # {}
      BY <2>1, Order, OrderAssumption DEF Passed
    <2> QED
      BY <2>1, <2>2 DEF Passed, LiveRows
  <1>5. FillTableRefused \/ SeedFails => Passed'
    BY DEF FillTableRefused, SeedFails, Become, Passed
  <1> QED
    BY <1>1, <1>2, <1>3, <1>4, <1>5 DEF Seed

LEMMA NextPassed ==
  ASSUME TypeOK, Passed, [Next]_vars
  PROVE  Passed'
  <1>1. CASE UNCHANGED <<phase, seeding, users, tables>>
    BY <1>1 DEF Passed, LiveRows
  <1>2. CASE Restart
    BY <1>2 DEF Restart, Passed
  <1>3. CASE Open \/ Migrate
    BY <1>3 DEF Open, Connect, ConnectFails, ConnectRecovers, TryAgain, GiveUp, Deadline, Migrate,
                Become, Passed
  <1>4. CASE ConnectRedis \/ Kill
    BY <1>4 DEF ConnectRedis, Kill, Become, Passed
  <1>5. CASE CreateRow \/ DeleteRow
    BY <1>5 DEF CreateRow, DeleteRow, Passed
  <1>6. DatabaseFlips \/ RedisFlips \/ UNCHANGED vars => UNCHANGED <<phase, seeding, users, tables>>
    BY DEF DatabaseFlips, RedisFlips, database, vars
  <1> QED
    BY <1>1, <1>2, <1>3, <1>4, <1>5, <1>6, SeedPassed DEF Next, Start

\* A process that begins to serve has its users and a live row in every table, whatever
\* state earlier starts, kills and deletions left the database in.
THEOREM ServesSeededCorrect == Spec => ServesSeeded
  <1>1. Init => TypeOK /\ Passed
    BY InitTypes DEF Init, Passed
  <1>2. TypeOK /\ Passed /\ [Next]_vars => TypeOK' /\ Passed'
    BY NextTypes, NextPassed
  <1>3. Passed /\ [Next]_vars =>
          [phase # "serving" /\ phase' = "serving" =>
             users /\ \A t \in Tables : LiveRows(t) # {}]_vars
    <2> SUFFICES ASSUME Passed, [Next]_vars, phase # "serving", phase' = "serving"
                 PROVE  users /\ \A t \in Tables : LiveRows(t) # {}
      OBVIOUS
    <2>1. ConnectRedis
      BY DEF Next, Start, Restart, Open, Connect, ConnectFails, ConnectRecovers, TryAgain, GiveUp,
             Deadline, Migrate, Seed, SeedUsers, SkipTable, FillTable, FillTableRefused, SeedFails,
             SeedDone, CreateRow, DeleteRow, Kill, DatabaseFlips, RedisFlips, Become, vars
    <2>2. phase = "redis"
      BY <2>1 DEF ConnectRedis
    <2> QED
      BY <2>2 DEF Passed
  <1> QED
    BY <1>1, <1>2, <1>3, PTL DEF Spec, ServesSeeded

-----------------------------------------------------------------------------
(* What a start writes. It looks at live rows only, and the index at the seed *)
(* codes only: that neither lets it write to a table emptied by deletion      *)
(* needs that a table has its demonstration rows, live or deleted, before it  *)
(* has any other, which holds because rows are created by a process that      *)
(* serves, and a process serves only when no table is without them.           *)

Seeded(t) == \A c \in SeedCodes : tables[t][c] # "absent"

SeedRowsFirst ==
  /\ \A t \in Tables : Empty(t) \/ Seeded(t)
  /\ phase = "serving" => \A t \in Tables : Seeded(t)

LEMMA LiveMeansSeeded ==
  ASSUME SeedRowsFirst, NEW t \in Tables, LiveRows(t) # {}
  PROVE  Seeded(t)
  BY DEF SeedRowsFirst, LiveRows, Empty

LEMMA SeededStays ==
  ASSUME TypeOK, CreateRow \/ DeleteRow, NEW t \in Tables, Seeded(t)
  PROVE  Seeded(t)'
  <1>1. PICK u \in Tables, c \in Codes, v \in {"live", "deleted"} :
               tables' = [tables EXCEPT ![u][c] = v]
    BY DEF CreateRow, DeleteRow, LiveRows
  <1> QED
    BY <1>1 DEF Seeded, TypeOK, Codes

LEMMA NextSeedRowsFirst ==
  ASSUME TypeOK, Passed, SeedRowsFirst, [Next]_vars
  PROVE  SeedRowsFirst'
  <1>1. ASSUME FillTable PROVE SeedRowsFirst'
    <2>1. phase' # "serving"
      BY <1>1 DEF FillTable
    <2>2. ASSUME NEW t \in Tables PROVE (Empty(t) \/ Seeded(t))'
      <3>1. CASE t = TableOrder[seeding]
        <4>1. tables'[t] = Filled(t)
          BY <1>1, <3>1, FillTableFills DEF TypeOK
        <4> QED
          BY <4>1 DEF Seeded, Filled, Codes
      <3>2. CASE t # TableOrder[seeding]
        <4>1. tables'[t] = tables[t]
          BY <1>1, <3>2 DEF FillTable, TypeOK
        <4> QED
          BY <4>1 DEF SeedRowsFirst, Empty, Seeded
      <3> QED
        BY <3>1, <3>2
    <2> QED
      BY <2>1, <2>2 DEF SeedRowsFirst
  <1>2. ASSUME CreateRow \/ DeleteRow PROVE SeedRowsFirst'
    <2>1. phase = "serving"
      BY <1>2 DEF CreateRow, DeleteRow
    <2>2. \A t \in Tables : Seeded(t)'
      BY <1>2, <2>1, SeededStays DEF SeedRowsFirst
    <2> QED
      BY <2>2 DEF SeedRowsFirst
  <1>3. ASSUME ConnectRedis PROVE SeedRowsFirst'
    <2>1. phase = "redis" /\ UNCHANGED tables
      BY <1>3 DEF ConnectRedis, database
    <2>2. \A t \in Tables : Seeded(t)
      BY <2>1, LiveMeansSeeded DEF Passed
    <2> QED
      BY <2>1, <2>2 DEF SeedRowsFirst, Empty, Seeded
  <1>4. CASE UNCHANGED tables /\ (phase' # "serving" \/ phase' = phase)
    BY <1>4 DEF SeedRowsFirst, Empty, Seeded
  <1>5. Restart \/ Open \/ Migrate => UNCHANGED tables /\ phase' # "serving"
    BY DEF Restart, Open, Connect, ConnectFails, ConnectRecovers, TryAgain, GiveUp, Deadline,
           Migrate, Become, database
  <1>6. Seed => FillTable \/ (UNCHANGED tables /\ phase' # "serving")
    BY DEF Seed, SeedUsers, SkipTable, FillTableRefused, SeedFails, SeedDone, Become, database
  <1>7. Kill \/ DatabaseFlips \/ RedisFlips \/ UNCHANGED vars =>
          UNCHANGED tables /\ (phase' # "serving" \/ phase' = phase)
    BY DEF Kill, DatabaseFlips, RedisFlips, Become, database, vars
  <1> QED
    BY <1>1, <1>2, <1>3, <1>4, <1>5, <1>6, <1>7 DEF Next, Start

LEMMA StartWrites ==
  ASSUME TypeOK, SeedRowsFirst, [Next]_vars, Starting, NEW t \in Tables, ~Empty(t)
  PROVE  tables'[t] = tables[t]
  <1>1. ASSUME FillTable PROVE tables'[t] = tables[t]
    <2>1. Seeded(t)
      BY DEF SeedRowsFirst
    <2>2. ~SeedsFree(t)
      BY <2>1, CodesAssumption DEF Seeded, SeedsFree
    <2>3. TableOrder[seeding] # t
      BY <1>1, <2>2 DEF FillTable
    <2> QED
      BY <1>1, <2>3 DEF FillTable, TypeOK
  <1>2. ~(CreateRow \/ DeleteRow)
    BY DEF CreateRow, DeleteRow, Starting
  <1>3. CASE UNCHANGED tables
    BY <1>3
  <1>4. Open \/ Migrate \/ Restart \/ ConnectRedis => UNCHANGED tables
    BY DEF Open, Connect, ConnectFails, ConnectRecovers, TryAgain, GiveUp, Deadline, Migrate,
           Restart, ConnectRedis, database
  <1>5. Seed => FillTable \/ UNCHANGED tables
    BY DEF Seed, SeedUsers, SkipTable, FillTableRefused, SeedFails, SeedDone, database
  <1>6. Kill \/ DatabaseFlips \/ RedisFlips \/ UNCHANGED vars => UNCHANGED tables
    BY DEF Kill, DatabaseFlips, RedisFlips, database, vars
  <1> QED
    BY <1>1, <1>2, <1>3, <1>4, <1>5, <1>6 DEF Next, Start

\* No start, at whatever point an earlier one was cut short, writes to a table that has
\* ever had a row: a row deleted by a user stays deleted, and a table users have emptied
\* is not filled again, although the seeding looks at live rows only.
THEOREM SeedsOnlyEmptyTablesCorrect == Spec => SeedsOnlyEmptyTables
  <1>1. Init => TypeOK /\ Passed /\ SeedRowsFirst
    BY InitTypes DEF Init, Passed, SeedRowsFirst, Empty
  <1>2. TypeOK /\ Passed /\ SeedRowsFirst /\ [Next]_vars =>
          TypeOK' /\ Passed' /\ SeedRowsFirst'
    BY NextTypes, NextPassed, NextSeedRowsFirst
  <1>3. TypeOK /\ SeedRowsFirst /\ [Next]_vars =>
          [Starting => \A t \in Tables : ~Empty(t) => tables'[t] = tables[t]]_vars
    BY StartWrites
  <1> QED
    BY <1>1, <1>2, <1>3, PTL DEF Spec, SeedsOnlyEmptyTables
=============================================================================

------------------------------ MODULE Startup ------------------------------
(* The life of the backend process: it waits for its database, seeds it,     *)
(* connects to Redis and serves; when it exits or is killed, the container   *)
(* runtime starts it again on whatever database it left behind. The seeding  *)
(* of the users and of each table commits on its own, so that a kill between *)
(* two of them leaves a half-seeded database for the next start.             *)
EXTENDS Naturals, Sequences, FiniteSets

CONSTANTS
  TableOrder,   \* the aggregate tables, in the order they are seeded
  SeedCodes,    \* codes of the demonstration rows of a table
  UserCodes,    \* codes of the rows users create
  MaxAttempts,  \* connection attempts before the process gives up
  MaxKills      \* bound: how often the process is killed from outside

ASSUME OrderAssumption ==
  Len(TableOrder) \in Nat \ {0} /\ DOMAIN TableOrder = 1 .. Len(TableOrder)
ASSUME CodesAssumption == SeedCodes # {} /\ SeedCodes \cap UserCodes = {}
ASSUME AttemptsAssumption == MaxAttempts \in Nat \ {0} /\ MaxKills \in Nat

VARIABLES
  phase,      \* where the process is
  attempt,    \* number of the connection attempt
  connected,  \* the error of the last attempt is nil
  seeding,    \* index of the next table to seed
  users,      \* the users table holds the four seeded users
  tables,     \* every row of every table: absent, live or (soft-)deleted
  dbUp, redisUp,
  kills

environment == <<dbUp, redisUp, kills>>
database == <<users, tables>>
vars == <<phase, attempt, connected, seeding, users, tables, dbUp, redisUp, kills>>

Tables == {TableOrder[i] : i \in DOMAIN TableOrder}
Codes == SeedCodes \cup UserCodes
Phases == {"stopped", "connecting", "waiting", "migrating", "users", "seeding", "redis", "serving"}
Starting == phase \notin {"stopped", "serving"}

LiveRows(t) == {c \in Codes : tables[t][c] = "live"}
SeedsFree(t) == \A c \in SeedCodes : tables[t][c] = "absent"

Init ==
  /\ phase = "stopped" /\ attempt = 0 /\ connected = FALSE /\ seeding = 1
  /\ users = FALSE
  /\ tables = [t \in Tables |-> [c \in Codes |-> "absent"]]
  /\ dbUp \in BOOLEAN /\ redisUp \in BOOLEAN /\ kills = 0

Become(p) == phase' = p /\ UNCHANGED <<attempt, connected, seeding>>

-----------------------------------------------------------------------------
(* The container runtime, and main up to Open.                               *)

Restart ==
  /\ phase = "stopped"
  /\ phase' = "connecting" /\ attempt' = 1 /\ connected' = FALSE /\ seeding' = 1
  /\ UNCHANGED <<database, environment>>

-----------------------------------------------------------------------------
(* Open: up to MaxAttempts connections, a wait after each that did not leave *)
(* the loop. The error of the second ping replaces that of the first.        *)

Connect ==
  /\ phase = "connecting" /\ dbUp
  /\ connected' = TRUE /\ phase' = "migrating"
  /\ UNCHANGED <<attempt, seeding, database, environment>>

ConnectFails ==
  /\ phase = "connecting" /\ ~dbUp
  /\ connected' = FALSE /\ phase' = "waiting"
  /\ UNCHANGED <<attempt, seeding, database, environment>>

\* The first ping fails, the second succeeds: no error is left, yet the loop goes on.
ConnectRecovers ==
  /\ phase = "connecting" /\ ~dbUp
  /\ dbUp' = TRUE
  /\ connected' = TRUE /\ phase' = "waiting"
  /\ UNCHANGED <<attempt, seeding, database, redisUp, kills>>

\* Slip: a retry that is not counted.
TryAgainUncounted ==
  /\ phase = "waiting" /\ attempt < MaxAttempts
  /\ phase' = "connecting"
  /\ UNCHANGED <<attempt, connected, seeding, database, environment>>

\* Slip: the bound of the loop off by one.
TryAgainOnceMore ==
  /\ phase = "waiting" /\ attempt <= MaxAttempts
  /\ attempt' = attempt + 1 /\ phase' = "connecting"
  /\ UNCHANGED <<connected, seeding, database, environment>>

TryAgain ==
  /\ phase = "waiting" /\ attempt < MaxAttempts
  /\ attempt' = attempt + 1 /\ phase' = "connecting"
  /\ UNCHANGED <<connected, seeding, database, environment>>

\* Slip: the error of the last attempt not looked at after the loop.
GiveUpUnchecked ==
  /\ phase = "waiting" /\ attempt = MaxAttempts
  /\ Become("migrating")
  /\ UNCHANGED <<database, environment>>

\* The loop is over: go on if the last ping had succeeded, exit otherwise.
GiveUp ==
  /\ phase = "waiting" /\ attempt = MaxAttempts
  /\ IF connected THEN Become("migrating") ELSE Become("stopped")
  /\ UNCHANGED <<database, environment>>

\* The startup context expires: during a wait or, in a start that had to wait, in a
\* later statement. Only the waits take time worth the name.
Deadline ==
  /\ \/ phase = "waiting"
     \/ attempt > 1 /\ phase \in {"users", "seeding", "redis"}
  /\ Become("stopped")
  /\ UNCHANGED <<database, environment>>

Migrate ==
  /\ phase = "migrating"
  /\ IF dbUp THEN Become("users") ELSE Become("stopped")
  /\ UNCHANGED <<database, environment>>

-----------------------------------------------------------------------------
(* Seed: users, then table after table.                                      *)

\* Slip: users inserted whether or not they exist; the index on names refuses them.
SeedUsersAgain ==
  /\ phase = "users" /\ dbUp
  /\ IF users THEN Become("stopped") ELSE Become("seeding")
  /\ users' = TRUE
  /\ UNCHANGED <<tables, environment>>

SeedUsers ==
  /\ phase = "users" /\ dbUp
  /\ users' = TRUE
  /\ Become("seeding")
  /\ UNCHANGED <<tables, environment>>

\* A table with a live row is left alone. The count does not see deleted rows.
SkipTable ==
  /\ phase = "seeding" /\ seeding <= Len(TableOrder) /\ dbUp
  /\ LiveRows(TableOrder[seeding]) # {}
  /\ seeding' = seeding + 1
  /\ UNCHANGED <<phase, attempt, connected, database, environment>>

\* The rows (of decisions, with their revisions) are inserted in one transaction. The
\* code looks at live rows only; the unique index on codes lets the insert through
\* when no row, deleted ones included, has one of them.
FillTable ==
  /\ phase = "seeding" /\ seeding <= Len(TableOrder) /\ dbUp
  /\ LiveRows(TableOrder[seeding]) = {} /\ SeedsFree(TableOrder[seeding])
  /\ tables' = [tables EXCEPT ![TableOrder[seeding]] =
                  [c \in Codes |-> IF c \in SeedCodes THEN "live" ELSE @[c]]]
  /\ seeding' = seeding + 1
  /\ UNCHANGED <<phase, attempt, connected, users, environment>>

\* Slip: a table that cannot be filled is skipped.
FillTableIgnored ==
  /\ phase = "seeding" /\ seeding <= Len(TableOrder) /\ dbUp
  /\ LiveRows(TableOrder[seeding]) = {} /\ ~SeedsFree(TableOrder[seeding])
  /\ seeding' = seeding + 1
  /\ UNCHANGED <<phase, attempt, connected, database, environment>>

\* No row is live but a deleted row holds a code: the unique index refuses the
\* insert and the process exits.
FillTableRefused ==
  /\ phase = "seeding" /\ seeding <= Len(TableOrder) /\ dbUp
  /\ LiveRows(TableOrder[seeding]) = {} /\ ~SeedsFree(TableOrder[seeding])
  /\ Become("stopped")
  /\ UNCHANGED <<database, environment>>

\* Slip: the error of the users' or a table's seeding is swallowed.
SeedFailsIgnored ==
  /\ phase \in {"users", "seeding"} /\ ~dbUp
  /\ seeding <= Len(TableOrder)
  /\ phase' = "seeding"
  /\ seeding' = IF phase = "users" THEN seeding ELSE seeding + 1
  /\ UNCHANGED <<attempt, connected, database, environment>>

SeedFails ==
  /\ phase \in {"users", "seeding"} /\ ~dbUp
  /\ Become("stopped")
  /\ UNCHANGED <<database, environment>>

SeedDone ==
  /\ phase = "seeding" /\ seeding > Len(TableOrder)
  /\ Become("redis")
  /\ UNCHANGED <<database, environment>>

ConnectRedis ==
  /\ phase = "redis"
  /\ IF redisUp THEN Become("serving") ELSE Become("stopped")
  /\ UNCHANGED <<database, environment>>

-----------------------------------------------------------------------------
(* A serving process changes the tables as the services do: it creates rows  *)
(* with codes no row has and soft-deletes live ones.                         *)

CreateRow ==
  /\ phase = "serving" /\ dbUp
  /\ \E t \in Tables, c \in Codes :
       tables[t][c] = "absent" /\ tables' = [tables EXCEPT ![t][c] = "live"]
  /\ UNCHANGED <<phase, attempt, connected, seeding, users, environment>>

DeleteRow ==
  /\ phase = "serving" /\ dbUp
  /\ \E t \in Tables : \E c \in LiveRows(t) : tables' = [tables EXCEPT ![t][c] = "deleted"]
  /\ UNCHANGED <<phase, attempt, connected, seeding, users, environment>>

\* The process is killed, or shut down, at any point.
Kill ==
  /\ phase # "stopped" /\ kills < MaxKills
  /\ kills' = kills + 1
  /\ Become("stopped")
  /\ UNCHANGED <<database, dbUp, redisUp>>

DatabaseFlips == dbUp' = ~dbUp /\ UNCHANGED <<phase, attempt, connected, seeding, database, redisUp, kills>>
RedisFlips == redisUp' = ~redisUp /\ UNCHANGED <<phase, attempt, connected, seeding, database, dbUp, kills>>

Open == Connect \/ ConnectFails \/ ConnectRecovers \/ TryAgain \/ GiveUp \/ Deadline
Seed == SeedUsers \/ SkipTable \/ FillTable \/ FillTableRefused \/ SeedFails \/ SeedDone
Start == Open \/ Migrate \/ Seed \/ ConnectRedis

Next ==
  \/ Restart \/ Start
  \/ CreateRow \/ DeleteRow
  \/ Kill \/ DatabaseFlips \/ RedisFlips

Spec == Init /\ [][Next]_vars

\* The process executes its startup, and the container runtime restarts it.
FairSpec == Spec /\ WF_vars(Start) /\ WF_vars(Restart)

-----------------------------------------------------------------------------
(* Properties.                                                               *)

\* Types; in particular the index of the table being seeded stays within bounds.
TypeOK ==
  /\ phase \in Phases
  /\ attempt \in 0 .. MaxAttempts
  /\ seeding \in 1 .. Len(TableOrder) + 1
  /\ tables \in [Tables -> [Codes -> {"absent", "live", "deleted"}]]
  /\ <<connected, users, dbUp, redisUp>> \in BOOLEAN \X BOOLEAN \X BOOLEAN \X BOOLEAN

Empty(t) == \A c \in Codes : tables[t][c] = "absent"

\* A start changes nothing a user can have touched: seeding writes to a table only if
\* it has never had a row. The code counts live rows only, so this rests on what no
\* single start can see: that nothing was ever created in a table before its
\* demonstration rows were, so that their codes still block a table emptied by deletion.
SeedsOnlyEmptyTables ==
  [][Starting => \A t \in Tables : ~Empty(t) => tables'[t] = tables[t]]_vars

\* A process that begins to serve has users to log in with and at least one live
\* row of every aggregate, whatever kills cut earlier starts short.
ServesSeeded ==
  [][phase # "serving" /\ phase' = "serving" =>
       users /\ \A t \in Tables : LiveRows(t) # {}]_vars

\* The connection loop leaves no trace of trouble: seeding is reached only from an
\* attempt whose last ping had succeeded.
SeedsConnected == phase \in {"migrating", "users", "seeding", "redis"} => connected

\* Every start ends, by serving or by an exit.
StartEnds == Starting ~> ~Starting

\* A table without live rows in which a deleted row holds a seed code cannot be seeded.
Blocked == \E t \in Tables : LiveRows(t) = {} /\ ~SeedsFree(t)

\* With database and Redis up for good, and no table emptied by deletion, the
\* process gets to serve, however many half-done starts lie behind it.
ServesInTheEnd ==
  <>[](dbUp /\ redisUp /\ ~Blocked) => []<>(phase = "serving")

\* What the deployment says ("restart: unless-stopped"): with database and Redis up
\* for good, a backend that went down comes back.
ComesBack == <>[](dbUp /\ redisUp) => []<>(phase = "serving")

=============================================================================

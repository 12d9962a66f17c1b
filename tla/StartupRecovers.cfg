\* Kills, restarts and outages of the database and of Redis at every point of a start.
SPECIFICATION FairSpec
CONSTANTS
  TableOrder <- MCTableOrder
  SeedCodes = {"S1", "S2"}
  UserCodes = {"N1"}
  MaxAttempts = 2
  MaxKills = 2
INVARIANTS
  TypeOK
  SeedsConnected
PROPERTIES
  SeedsOnlyEmptyTables
  ServesSeeded
  StartEnds
  ServesInTheEnd

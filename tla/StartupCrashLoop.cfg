\* A restart after every row of a table has been deleted.
SPECIFICATION FairSpec
CONSTANTS
  TableOrder <- MCTableOrder
  SeedCodes = {"S1", "S2"}
  UserCodes = {"N1"}
  MaxAttempts = 2
  MaxKills = 2
PROPERTY ComesBack

\* One tab, two overlapping calls, a row others change and one that is created.
SPECIFICATION FairSpec
CONSTANTS
  MaxOutages = 1
  Starts <- MCStarts
  Rows = {x, y}
  Found = {x}
  PageSize = 1
  Parallel = 2
  MaxAsks = 2
  MaxOthers = 1
INVARIANTS
  TypeOK
  SpinnerHonest
  MovesWelcome
  IdleShowsStored
PROPERTIES
  ConfirmedMoveExact
  GuardOpens

\* A walk over pages or a summary, over tables that change twice.
SPECIFICATION Spec
CONSTANTS
  Ids <- MCIds
  Events <- MCEvents
  AskedSizes = {0, 2, 3}
  DefaultSize = 1
  MaxSize = 2
  Window = 1
  Delay = 1
  LastTick = 3
  MaxChanges = 2
INVARIANTS
  TypeOK
  WalkExactUpToChanges
  PageKeepsItsPromise
  PageShowsItsHistory
  SummaryAddsUp

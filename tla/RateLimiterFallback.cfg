\* Redis failing at every point, the minute ending at every point, one restart.
SPECIFICATION Spec
CONSTANTS
  Requests = {r1, r2, r3}
  Keys = {k1, k2, k3}
  Limit = 1
  Threshold = 2
  LastMinute = 3
  MaxRestarts = 1
SYMMETRY Symmetry
INVARIANTS
  TypeOK
  PassedBounded
  RefusedOnlyOverLimit
PROPERTIES
  StaleBucketsBounded

\* Three calls of an administrator on one decision, naming versions their clients have seen.
SPECIFICATION Spec
CONSTANTS
  Codes = {c1}
  Requests = {r1, r2, r3}
  Users <- MCAdmin
  Role <- MCRole
  Payloads = {p1}
  Blank = blank
  Lookahead = 0
SYMMETRY RequestSymmetry
INVARIANTS
  SnapshotFresh
  LegalHistory
  AuditTellsTheTruth

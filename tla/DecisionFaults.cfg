\* Two calls on one decision, any expectedVersion up to one past the stored one.
SPECIFICATION Spec
CONSTANTS
  Codes = {c1}
  Requests = {r1, r2}
  Users <- MCUsers
  Role <- MCRole
  Payloads = {p1, p2}
  Blank = blank
  Lookahead = 1
SYMMETRY Symmetry
INVARIANTS
  TypeOK
  HistoryMatchesRow
  FinalStateByReviewer
  ReplyConsistent
  RefusedLeavesNoTrace
  AckedChangeAudited
PROPERTY DeletedFrozen

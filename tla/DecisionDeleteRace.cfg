\* A delete that races a move to review.
SPECIFICATION Spec
CONSTANTS
  Codes = {c1}
  Requests = {r1, r2}
  Users <- MCUsers
  Role <- MCRole
  Payloads = {p1}
  Blank = blank
  Lookahead = 0
SYMMETRY RequestSymmetry
INVARIANT DeletedOnlyAsDraft

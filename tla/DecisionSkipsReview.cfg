\* A client that names the version its own unanswered call will write.
SPECIFICATION Spec
CONSTANTS
  Codes = {c1}
  Requests = {r1, r2}
  Users <- MCUsers
  Role <- MCRole
  Payloads = {p1, p2}
  Blank = blank
  Lookahead = 1
SYMMETRY Symmetry
INVARIANT LegalHistory

\* A change of status whose audit entry is lost.
SPECIFICATION FairSpec
CONSTANTS
  Codes = {c1}
  Requests = {r1}
  Users <- MCUsers
  Role <- MCRole
  Payloads = {p1}
  Blank = blank
  Lookahead = 0
PROPERTY EveryMoveAudited

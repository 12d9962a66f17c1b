\* Two calls of any role on one decision under fair scheduling; no symmetry, for liveness.
SPECIFICATION FairSpec
CONSTANTS
  Codes = {c1}
  Requests = {r1, r2}
  Users <- MCUsers
  Role <- MCRole
  Payloads = {p1}
  Blank = blank
  Lookahead = 0
PROPERTIES
  ImplementsLedger
  EveryCallAnswered
  CommittedMoveAudited

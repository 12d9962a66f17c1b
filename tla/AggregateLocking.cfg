\* Two calls on one row of each aggregate, naming versions their clients have seen.
SPECIFICATION Spec
CONSTANTS
  Codes = {c1}
  Requests = {r1, r2, r3}
  Payloads = {p1, p2}
  Blank = blank
  Lookahead = 0
SYMMETRY Symmetry
INVARIANTS
  TypeOK
  OneWriterPerVersion
  ReplyShowsOwnWrite
  AckedChangeAudited
PROPERTIES
  LegalChange
  DeletedFrozen

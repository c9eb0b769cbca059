SPECIFICATION ActionsSpec
CONSTANTS
  Names = {a, b}
  Types = {T}
  PropNames = {p, m}
  MetaNames = {m}
  Values = {v}
  Numbers = {0, 1, 2}
  SentCounts = {}
  Ops <- HttpOps
  MaxNodes = 2
  MaxRelationships = 2
  MaxDebt = 1
  Null = Null
  Empty = Empty
  Malformed = Malformed
  None = None
VIEW ActionsView
SYMMETRY NameSymmetry
CHECK_DEADLOCK FALSE
INVARIANT ActionsTypeOK
PROPERTY ReplicasEndTogether
PROPERTY AnswersFitLedger

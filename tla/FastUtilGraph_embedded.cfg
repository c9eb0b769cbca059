SPECIFICATION Spec
CONSTANTS
  Names = {a, b}
  Types = {T}
  PropNames = {p, m}
  MetaNames = {m}
  Values = {v}
  Numbers = {1, 2, 3}
  SentCounts = {}
  Ops <- EmbeddedOps
  MaxNodes = 2
  MaxRelationships = 3
  MaxDebt = 1
  Null = Null
VIEW GraphView
SYMMETRY NameSymmetry
INVARIANT TypeOK
INVARIANT NodeOwnRecord
INVARIANT LiveIsIndexed
PROPERTY NumberNeverStolen

SPECIFICATION Spec
CONSTANTS
  Names = {a, b}
  Types = {T}
  PropNames = {}
  MetaNames = {}
  Values = {}
  Numbers = {1}
  SentCounts = {}
  Ops <- NamedOps
  MaxNodes = 2
  MaxRelationships = 2
  MaxDebt = 1
  Null = Null
VIEW GraphView
SYMMETRY NameSymmetry
INVARIANT ReadsOwnProperties

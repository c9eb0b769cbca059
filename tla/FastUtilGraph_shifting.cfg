SPECIFICATION Spec
CONSTANTS
  Names = {a, b}
  Types = {T}
  PropNames = {}
  MetaNames = {}
  Values = {}
  Numbers = {0, 1}
  SentCounts = {}
  Ops <- ShiftingOps
  MaxNodes = 2
  MaxRelationships = 3
  MaxDebt = 1
  Null = Null
VIEW GraphView
SYMMETRY NameSymmetry
INVARIANT IndexedIdsAllocated

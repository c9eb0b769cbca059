SPECIFICATION Spec
CONSTANTS
  Names = {a, b}
  Types = {T}
  PropNames = {}
  MetaNames = {}
  Values = {}
  Numbers = {1, 2}
  SentCounts = {}
  Ops <- HttpOps
  MaxNodes = 3
  MaxRelationships = 3
  MaxDebt = 1
  Null = Null
VIEW GraphView
SYMMETRY NameSymmetry
INVARIANT NodeIdsSound
INVARIANT RemoveAllNeverOverruns
INVARIANT EndsMirrored

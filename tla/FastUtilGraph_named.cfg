SPECIFICATION Spec
CONSTANTS
  Names = {a, b}
  Types = {T}
  PropNames = {p}
  MetaNames = {}
  Values = {v}
  Numbers = {1, 2}
  SentCounts = {}
  Ops <- NamedPropertyOps
  MaxNodes = 2
  MaxRelationships = 4
  MaxDebt = 1
  Null = Null
VIEW ListView
SYMMETRY NameSymmetry
INVARIANT NumbersDense
INVARIANT CountsExact
INVARIANT RelatedExact
PROPERTY NumberedGraphSpec

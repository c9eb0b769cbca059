SPECIFICATION SmallSpec
CONSTANTS
  Names <- LabelledNames
  Types = {T}
  PropNames = {p}
  MetaNames = {}
  Values = {v}
  Numbers = {}
  SentCounts = {}
  Ops <- GremlinOps
  MaxNodes = 2
  MaxRelationships = 3
  MaxDebt = 1
  Null = Null
  LabelOf <- FirstPart
  KeyOf <- SecondPart
  MaxEdges = 3
VIEW GremlinView
INVARIANT GremlinTypeOK
INVARIANT EdgeKeepsEnds
INVARIANT EdgesIterable
INVARIANT RemoveFindsOwnNumber
INVARIANT LiveIsIndexed

------------------------------- MODULE MCGremlin -------------------------------
(* Small instances of Gremlin. *)
EXTENDS Gremlin

\* What the elements of the adapter call.
GremlinOps ==
  {"addNode", "removeNode", "updateNodeProperty", "deleteNodeProperty",
   "addRelationshipWithProperties", "removeRelationshipById",
   "updateRelationshipPropertyById", "deleteRelationshipPropertyById", "clear"}

\* A name is a label and a key: two of a label, and one of another label that
\* shares its key with the second.
LabelledNames == {<<"person", "one">>, <<"person", "two">>, <<"place", "two">>}
FirstPart  == [n \in Names |-> n[1]]
SecondPart == [n \in Names |-> n[2]]

\* The bound of the run: a third edge is added in graphs of persons only.
OnlyPersons == \A v \in vertices : v.name = Null \/ v.name[1] = "person"
SmallGraph  == spent + Len(edges) <= 2 \/ OnlyPersons

SmallSpec == GremlinInit /\ [][GremlinNext /\ SmallGraph']_gremlinVars

\* No guard reads what the last operation returned, the properties, or what an edge
\* that is gone remembers of its ends.
Structure(r) == IF r = Null THEN Null ELSE [r EXCEPT !.props = NoProps]
Remembered(e) == IF EdgeReadable(e.id) THEN e ELSE Null

GremlinView ==
  <<nodeKeys, [i \in DOMAIN nodes |-> Structure(nodes[i])], deletedNodes, relationshipKeys,
    [i \in DOMAIN relationships |-> Structure(relationships[i])],
    related, relationshipCounts, relatedCounts,
    vertices, [i \in DOMAIN edges |-> Remembered(edges[i])], tidy, spent>>
=============================================================================

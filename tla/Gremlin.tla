-------------------------------- MODULE Gremlin --------------------------------
(***************************************************************************)
(* The TinkerPop adapter (languages/gremlin/structure/): a client of the    *)
(* graph that holds on to vertices and edges.  A vertex remembers the id    *)
(* and the name it was made with, an edge its id and its ends; both go on   *)
(* being used after the element is gone and its id belongs to another one.  *)
(* The client keeps every element it was ever given.                        *)
(***************************************************************************)
EXTENDS FastUtilGraph

CONSTANTS
  LabelOf, KeyOf,  \* the label and the key a name stands for
  MaxEdges         \* bound on the edges added, over all closings of the graph

ASSUME NamesAssumption ==
  \A m, n \in Names : LabelOf[m] = LabelOf[n] /\ KeyOf[m] = KeyOf[n] => m = n

ASSUME EdgesAssumption == MaxEdges \in Nat

VARIABLES
  vertices,  \* the vertices the client holds, as [id, name]
  edges,     \* the edge of each relationship id: its type, the names of the vertices
             \* addEdge was called with, and whether the second was stale by then
  tidy,      \* no vertex has been removed while others had edges to it
  spent      \* the edges added before the graph was last closed

gremlinVars == <<vars, vertices, edges, tidy, spent>>

\* new UranusVertex(id): when the id leads to no map, an element without a name.
VertexOf(id) == [id |-> id, name |-> IF NodeUsable(id) THEN NodeRec(id).name ELSE Null]

\* getNodeId on the cached label and key.
IdByName(v) == IF v.name = Null THEN -1 ELSE nodeKeys[v.name]

\* The vertices of an edge, made anew from the ids its map holds.
OutVertex(e) == VertexOf(RelRec(e.id).from)
InVertex(e)  == VertexOf(RelRec(e.id).to)

\* new UranusEdge(id) throws where the id leads to no map.
EdgeReadable(id) == RelUsable(id)

\* g.E(), and v.vertices(OUT) of the vertex with this id.
EdgeIds == AllRelationshipIds
OutVertices(id) == {VertexOf(to) : to \in UNION {ToSet(OutgoingNodeIds(t, id)) : t \in KnownTypes}}

GremlinInit ==
  /\ Init
  /\ vertices = {}
  /\ edges = <<>>
  /\ tidy = TRUE
  /\ spent = 0

Elements == UNCHANGED <<vertices, edges, tidy, spent>>

-----------------------------------------------------------------------------
(* UranusGraph, UranusVertex, UranusVertexProperty *)

\* A key that exists gives a vertex with id -1, and no exception.
AddVertex(n, props) ==
  /\ AddNode(n, props)
  /\ vertices' = vertices \cup {VertexOf(result.id)'}
  /\ UNCHANGED <<edges, tidy, spent>>

\* By name: after the vertex is gone this removes whoever has its name now.
RemoveVertex(v) ==
  /\ \/ IdByName(v) = -1 /\ Unchanged(<<"removeNode", -1>>, "refused")
     \/ IdByName(v) # -1 /\ RemoveNode(<<"removeNode", nodeKeys[v.name]>>, v.name)
  /\ tidy' = (tidy /\ (result'.outcome = "done" =>
                \A t \in KnownTypes :
                  ToSet(IncomingNodeIds(t, IdByName(v))) \subseteq {IdByName(v)}))
  /\ UNCHANGED <<vertices, edges, spent>>

\* Written by name, removed by id.
PutVertexProperty(v, p, value) == UpdateNodeProperty(IdByName(v), p, value) /\ Elements
RemoveVertexProperty(v, p)     == DeleteNodeProperty(v.id, p) /\ Elements

\* The target goes by the label it was made with and by the key its id leads to
\* now.  When the id has passed to a vertex of another label, that may be a third
\* vertex or none.
TargetById(w) == nodeKeys[NodeRec(w.id).name]   \* mutant: the label of its id too
TargetId(w) ==
  LET there == {n \in Names : /\ w.name # Null /\ LabelOf[n] = LabelOf[w.name]
                              /\ KeyOf[n] = KeyOf[NodeRec(w.id).name]}
  IN  IF there = {} THEN -1 ELSE nodeKeys[CHOOSE n \in there : TRUE]

\* The source goes by its name; a missing end ends in an exception, of getNodeKey
\* or of new UranusEdge(-1), and changes nothing.
AddEdge(v, w, t, props) ==
  \/ /\ ~ NodeUsable(w.id)
     /\ Unchanged(<<"getNodeKey", w.id>>, "threw")
     /\ Elements
  \/ /\ NodeUsable(w.id)
     /\ spent + Len(edges) < MaxEdges
     /\ AddRelationshipWithProperties(t, IdByName(v), TargetId(w), props, 0)
     /\ edges' = IF result'.outcome = "done"
                 THEN Append(edges, [id |-> result'.id, type |-> t, out |-> v.name,
                                     in |-> w.name, stale |-> VertexOf(w.id) # w])
                 ELSE edges
     /\ UNCHANGED <<vertices, tidy, spent>>

(* UranusEdge, UranusProperty *)

RemoveEdge(e)               == RemoveRelationshipById(e.id) /\ Elements
PutEdgeProperty(e, p, v)    == UpdateRelationshipPropertyById(e.id, p, v) /\ Elements
RemoveEdgeProperty(e, p)    == DeleteRelationshipPropertyById(e.id, p) /\ Elements

\* The client lets go of its elements when it closes the graph.
Close ==
  /\ spent' = spent + Len(edges)
  /\ Clear
  /\ vertices' = {}
  /\ edges' = <<>>
  /\ tidy' = TRUE

VertexStep ==
  \/ \E n \in Names, m \in UserMaps : AddVertex(n, m)
  \/ \E v \in vertices :
       \/ RemoveVertex(v)
       \/ \E p \in PropNames :
            \/ \E value \in Values : PutVertexProperty(v, p, value)
            \/ RemoveVertexProperty(v, p)
       \/ \E w \in vertices, t \in Types, m \in UserMaps : AddEdge(v, w, t, m)

EdgeStep ==
  \E e \in ToSet(edges) :
    \/ RemoveEdge(e)
    \/ \E p \in PropNames :
         \/ \E v \in Values : PutEdgeProperty(e, p, v)
         \/ RemoveEdgeProperty(e, p)

GremlinNext == VertexStep \/ EdgeStep \/ Close

GremlinSpec == GremlinInit /\ [][GremlinNext]_gremlinVars

-----------------------------------------------------------------------------

\* The elements the client holds have the types of their fields.
GremlinTypeOK ==
  /\ TypeOK
  /\ vertices \subseteq [id : {-1} \cup NodeIds, name : Names \cup {Null}]
  /\ \A i \in DOMAIN edges :
       /\ edges[i].id = i - 1
       /\ edges[i].type \in Types /\ {edges[i].out, edges[i].in} \subseteq Names
       /\ edges[i].stale \in BOOLEAN
  /\ Len(edges) = Len(relationships)
  /\ tidy \in BOOLEAN /\ spent + Len(edges) \in 0 .. MaxEdges

\* Where an edge may lead: to the vertex addEdge was called with or, when the id
\* of that one had passed to another, to some vertex of its label.
Reached(e) == IF e.stale THEN {n \in Names : LabelOf[n] = LabelOf[e.in]} ELSE {e.in}

\* outVertex() of an edge that has not been removed is the vertex addEdge was
\* called on, inVertex() the one it was called with unless that was stale, and
\* even then one of its label; although the source was found by name and the
\* target by id, and although ids are reused, before the call and after it.
EdgeKeepsEnds ==
  \A e \in ToSet(edges) :
    EdgeReadable(e.id) => OutVertex(e).name = e.out /\ InVertex(e).name \in Reached(e)

\* g.E() meets every edge, and as long as no vertex was removed with edges of
\* others still coming in it meets no removed one (new UranusEdge would throw),
\* and v.vertices(OUT) no removed vertex.
EdgesIterable ==
  /\ LiveRels \subseteq EdgeIds
  /\ tidy =>
       /\ \A id \in EdgeIds : EdgeReadable(id)
       /\ \A n \in NodeIds : \A v \in OutVertices(n) : v.name # Null

\* Edge.remove() works on every edge that exists and forgets its own number:
\* the number in its map leads to that edge, also in a graph that was cleared
\* while relationshipKeys still held the numbers of the old one.
RemoveFindsOwnNumber == \A id \in LiveRels : PropertySource(id) = id
=============================================================================

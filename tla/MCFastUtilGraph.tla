---------------------------- MODULE MCFastUtilGraph ----------------------------
(* Small instances of FastUtilGraph: the workloads of its different clients. *)
EXTENDS FastUtilGraph

\* A client that names relationships, and removes those of a node before it.
NamedOps ==
  {"addNode", "removeDetachedNode", "addRelationship",
   "addRelationshipWithProperties", "removeRelationship",
   "removeRelationshipNumber"}

\* The same client working on the properties of relationships.
NamedPropertyOps ==
  NamedOps \cup {"updateRelationshipProperties", "updateRelationshipProperty",
                 "deleteRelationshipProperty"}

\* What the HTTP actions call.
HttpOps ==
  {"addNode", "removeNode", "updateNodeProperties", "updateNodeProperty",
   "deleteNodeProperty", "deleteNodeProperties", "addRelationship",
   "addRelationshipWithProperties", "removeRelationship",
   "removeRelationshipNumber", "updateRelationshipProperties",
   "updateRelationshipProperty", "deleteRelationshipProperty",
   "deleteRelationshipProperties"}

\* An embedded client that removes by names and numbers: the structural
\* operations without removal by id and without the insertions, the properties
\* of nodes, and those of relationships by id.
EmbeddedOps ==
  {"addNode", "removeNode", "removeDetachedNode", "addRelationship",
   "addRelationshipWithProperties", "removeRelationship",
   "removeRelationshipNumber", "updateRelationshipPropertiesById",
   "updateRelationshipPropertyById", "deleteRelationshipPropertyById",
   "deleteRelationshipPropertiesById", "updateNodeProperties",
   "updateNodeProperty", "deleteNodeProperty"}

\* An embedded client of the structural operations, the insertions of
\* deleteRelationshipProperties included.
ShiftingOps ==
  {"addNode", "removeNode", "addRelationship", "removeRelationshipById",
   "removeRelationship", "removeRelationshipNumber",
   "deleteRelationshipProperties"}

\* No guard reads what the last operation returned.
GraphView == <<nodeVars, relVars>>

\* NamedPropertyOps never read a node's map.  A step that changes nothing but
\* the result is compared with NumberedGraph before it is identified with the
\* state it left.
ListView == <<nodeKeys, Len(nodes), deletedNodes, relVars>>

NameSymmetry == Permutations(Names)

\* Refinement: the list of a pair is what its numbers lead to.
ListOf(t, n1, n2) ==
  [k \in 1 .. (IF t \in KnownTypes THEN relatedCounts[t][<<n1, n2>>] ELSE 0) |->
     [id    |-> RelationshipKeyId(t, k, n1, n2),
      props |-> RelRec(RelationshipKeyId(t, k, n1, n2)).props]]

Listed(e) ==
  IF nodeKeys[e[2]] = -1 \/ nodeKeys[e[3]] = -1 THEN <<>>
  ELSE ListOf(e[1], nodeKeys[e[2]], nodeKeys[e[3]])

Parallels == [e \in Types \X Names \X Names |-> Listed(e)]

Numbered ==
  INSTANCE NumberedGraph WITH
    idOf <- nodeKeys,
    known <- KnownTypes,
    parallel <- Parallels,
    RelIds <- 0 .. MaxRelationships - 1

\* The graph implements the lists of parallel relationships: a number always
\* leads to the relationship the client's own operations put there, with its
\* properties, and every operation returns what the lists say.
NumberedGraphSpec == Numbered!Spec
=============================================================================

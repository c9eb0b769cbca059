----------------------------- MODULE FastUtilGraph -----------------------------
(***************************************************************************)
(* The in-memory property graph (graph/FastUtilGraph.java).  One graph is   *)
(* only ever used by one thread, so every operation is one atomic action;   *)
(* an operation that throws part way keeps what it did before throwing.     *)
(*                                                                          *)
(* A name stands for a (label, key) pair.  A node or a relationship is the  *)
(* record of its "~" entries and its user properties; the packed long key   *)
(* (node1 << 32) + node2 is the pair <<node1, node2>>, and the string key   *)
(* type + count the pair of its parts.                                      *)
(***************************************************************************)
EXTENDS Integers, FiniteSets, ReversibleMultiMap

CONSTANTS
  Names,             \* (label, key) pairs clients use
  Types,             \* relationship types
  PropNames,         \* property names clients use
  MetaNames,         \* those of them that are reserved, such as "~id"
  Values,            \* property values
  Numbers,           \* relationship numbers clients pass
  SentCounts,        \* "~count" values clients put in a new relationship's map
  Ops,               \* the operations of the Graph interface the client uses
  MaxNodes,          \* bound on the length of nodes
  MaxRelationships,  \* bound on the length of relationships
  MaxDebt,           \* bound on how far below zero a type's count may fall
  Null               \* Java's null

AllOps ==
  {"addNode", "removeNode", "removeDetachedNode",
   "updateNodeProperties", "updateNodeProperty", "deleteNodeProperty",
   "deleteNodeProperties", "addRelationship", "addRelationshipWithProperties",
   "removeRelationshipById", "removeRelationship", "removeRelationshipNumber",
   "updateRelationshipProperties", "updateRelationshipProperty",
   "deleteRelationshipProperty", "deleteRelationshipProperties",
   "updateRelationshipPropertiesById", "updateRelationshipPropertyById",
   "deleteRelationshipPropertyById", "deleteRelationshipPropertiesById",
   "clear"}

ASSUME NullIsFresh == Null \notin Names \cup Types \cup Values
ASSUME MetaAssumption == MetaNames \subseteq PropNames
ASSUME OpsAssumption == Ops \subseteq AllOps
ASSUME BoundsAssumption ==
  /\ MaxNodes \in Nat \ {0} /\ MaxRelationships \in Nat /\ MaxDebt \in Nat
  /\ Numbers \subseteq Int /\ SentCounts \subseteq Int

VARIABLES
  nodeKeys,            \* label -> key -> node id, -1 when there is none
  nodes,               \* the node list; node id i is nodes[i + 1]
  deletedNodes,        \* the ids free for reuse
  relationshipKeys,    \* (type, number) -> pair -> relationship id
  relationships,       \* the relationship list; id i is relationships[i + 1]
  related,             \* type -> ReversibleMultiMap, on the types seen so far
  relationshipCounts,  \* type -> number of its relationships
  relatedCounts,       \* type -> pair -> number of parallel relationships
  result               \* the last operation (nodes by their ids) and what it returned

nodeVars == <<nodeKeys, nodes, deletedNodes>>
relVars  == <<relationshipKeys, relationships, related, relationshipCounts,
              relatedCounts>>
vars     == <<nodeKeys, nodes, deletedNodes, relationshipKeys, relationships,
              related, relationshipCounts, relatedCounts, result>>


NodeIds   == 0 .. MaxNodes - 1
NoProps   == <<>>
PropMaps  == UNION {[D -> Values] : D \in SUBSET PropNames}
UserMaps  == {m \in PropMaps : DOMAIN m \cap MetaNames = {}}
StoredMaps == UNION {[D -> Values \cup {Null}] : D \in SUBSET (PropNames \ MetaNames)}

\* node.id = -1, name = Null is the map without "~" entries that
\* deleteNodeProperties inserts; a count of 0 is an absent "~count".
Node == [id : {-1} \cup NodeIds, name : Names \cup {Null}, props : StoredMaps]
Relationship ==
  [id : Nat, type : Types, from : NodeIds, to : NodeIds, count : Int,
   props : StoredMaps]

ASSUME NullIsNoMap == Null \notin Node \cup Relationship

Outcomes == {"done", "refused", "threw"}

Init ==
  /\ nodeKeys = [n \in Names |-> -1]
  /\ nodes = <<>>
  /\ deletedNodes = {}
  /\ relationshipKeys = <<>>
  /\ relationships = <<>>
  /\ related = <<>>
  /\ relationshipCounts = <<>>
  /\ relatedCounts = <<>>
  /\ result = [call |-> <<"clear">>, outcome |-> "done", id |-> -1]

Return(call, outcome, id) ==
  result' = [call |-> call, outcome |-> outcome, id |-> id]

\* An operation that changes nothing: refused, or thrown out before a write.
Unchanged(call, outcome) ==
  Return(call, outcome, -1) /\ UNCHANGED <<nodeVars, relVars>>

-----------------------------------------------------------------------------
(* Lookups *)

NodeRec(id) == nodes[id + 1]
RelRec(id)  == relationships[id + 1]

\* list.get(id) throws outside the list, and the map it returns may be null.
NodeUsable(id) == id + 1 \in DOMAIN nodes /\ NodeRec(id) # Null
RelUsable(id)  == id + 1 \in DOMAIN relationships /\ RelRec(id) # Null

KnownTypes == DOMAIN related

\* map.put(x, v), map.putAll(g) and map.remove(x).
MapPut(f, x, v) == [y \in DOMAIN f \cup {x} |-> IF y = x THEN v ELSE f[y]]
MapPutAll(f, g) == [y \in DOMAIN f \cup DOMAIN g |-> IF y \in DOMAIN g THEN g[y] ELSE f[y]]
Drop(f, x)      == Restrict(f, DOMAIN f \ {x})

\* relationshipKeys.get(type + number), empty when there is none yet.
KeyMap(t, k) ==
  IF <<t, k>> \in DOMAIN relationshipKeys THEN relationshipKeys[<<t, k>>] ELSE <<>>

RelationshipKeyId(t, k, n1, n2) ==
  IF <<n1, n2>> \in DOMAIN KeyMap(t, k) THEN KeyMap(t, k)[<<n1, n2>>] ELSE -1

PutNoKey(keys, t, k, n1, n2, id) == keys   \* mutant: addRelationshipKeyId is missing
PutKey(keys, t, k, n1, n2, id) ==
  MapPut(keys, <<t, k>>, MapPut(KeyMap(t, k), <<n1, n2>>, id))

\* Meaningful where the (type, number) map exists: Java throws elsewhere.
DropNothing(keys, t, k, n1, n2) == keys   \* mutant: the key stays
DropKey(keys, t, k, n1, n2) ==
  [keys EXCEPT ![<<t, k>>] = Drop(@, <<n1, n2>>)]

\* The checks every by-name operation on relationship number k makes before it
\* looks the relationship up: "refused" returns false or null, "threw" meets a
\* type without pair counts.  The methods without a number look for number 1.
CheckedStrictly(t, n1, n2, k) ==   \* mutant: the last number is refused
  IF n1 = -1 \/ n2 = -1 THEN "refused"
  ELSE IF t \notin KnownTypes THEN "threw"
  ELSE IF relatedCounts[t][<<n1, n2>>] = 0 \/ relatedCounts[t][<<n1, n2>>] <= k
       THEN "refused" ELSE "found"

Checked(t, n1, n2, k) ==
  IF n1 = -1 \/ n2 = -1 THEN "refused"
  ELSE IF t \notin KnownTypes THEN "threw"
  ELSE IF relatedCounts[t][<<n1, n2>>] = 0 \/ relatedCounts[t][<<n1, n2>>] < k
       THEN "refused" ELSE "found"

-----------------------------------------------------------------------------
(* Nodes *)

\* addNode: an existing name is refused with -1; the new node takes the
\* smallest free id, or the end of the list.
AddNode(name, props) ==
  /\ "addNode" \in Ops
  /\ \/ /\ nodeKeys[name] # -1
        /\ Unchanged(<<"addNode", nodeKeys[name]>>, "refused")
     \/ /\ nodeKeys[name] = -1
        /\ deletedNodes = {}
        /\ Len(nodes) < MaxNodes
        /\ LET id == Len(nodes) IN
             /\ nodes' = Append(nodes, [id |-> id, name |-> name, props |-> props])
             /\ nodeKeys' = [nodeKeys EXCEPT ![name] = id]
             /\ Return(<<"addNode", nodeKeys[name]>>, "done", id)
        /\ UNCHANGED <<deletedNodes, relVars>>
     \/ /\ nodeKeys[name] = -1
        /\ \E id \in deletedNodes :
             /\ \A other \in deletedNodes : id <= other
             /\ nodes' = [nodes EXCEPT ![id + 1] =
                            [id |-> id, name |-> name, props |-> props]]
             /\ nodeKeys' = [nodeKeys EXCEPT ![name] = id]
             /\ deletedNodes' = deletedNodes \ {id}
             /\ Return(<<"addNode", nodeKeys[name]>>, "done", id)
        /\ UNCHANGED relVars

\* removeNodeKeyId
KeepKey(name)   == nodeKeys   \* mutant: the key is not removed
ForgetKey(name) == [nodeKeys EXCEPT ![name] = -1]


\* The relationship ids removeNode sets to null for type t.
Incident(t, id) ==
  ToSet(related[t].from2rel[id]) \cup ToSet(related[t].to2rel[id])

Nulled(ids) ==
  [i \in DOMAIN relationships |-> IF i - 1 \in ids THEN Null ELSE relationships[i]]

DetachTypes(done, id) ==
  /\ related' = [t \in KnownTypes |-> IF t \in done THEN RemoveAll(related[t], id)
                                      ELSE related[t]]
  /\ relationships' = Nulled(UNION {Incident(t, id) : t \in done})

Discount(done, id) ==
  /\ relationshipCounts' =
       [t \in KnownTypes |->
          IF t \in done
          THEN relationshipCounts[t]
               - (Len(related[t].from2rel[id]) + Len(related[t].to2rel[id]))
          ELSE relationshipCounts[t]]
  /\ \A t \in KnownTypes : relationshipCounts'[t] >= - MaxDebt

\* removeNode: every type forgets the relationships of the node, outgoing ones
\* in its index too; the pair counts and the relationship keys stay.
RemoveNodeDone(call, name) ==
  LET id == nodeKeys[name] IN
    /\ id # -1
    /\ \A t \in KnownTypes : ~ RemoveAllOverruns(related[t], id)
    /\ nodes' = [nodes EXCEPT ![id + 1] = Null]
    /\ deletedNodes' = deletedNodes \cup {id}
    /\ DetachTypes(KnownTypes, id)
    /\ Discount(KnownTypes, id)
    /\ nodeKeys' = ForgetKey(name)
    /\ Return(call, "done", -1)
    /\ UNCHANGED <<relationshipKeys, relatedCounts>>

\* removeNode when an index throws: the types iterated before it are done, it
\* is half done and not discounted, and the name keeps its id.
RemoveNodeThrows(call, name) ==
  LET id == nodeKeys[name] IN
    /\ id # -1
    /\ \E done \in SUBSET KnownTypes, bad \in KnownTypes :
         /\ bad \notin done
         /\ RemoveAllOverruns(related[bad], id)
         /\ \A t \in done : ~ RemoveAllOverruns(related[t], id)
         /\ DetachTypes(done \cup {bad}, id)
         /\ Discount(done, id)
    /\ nodes' = [nodes EXCEPT ![id + 1] = Null]
    /\ deletedNodes' = deletedNodes \cup {id}
    /\ Return(call, "threw", -1)
    /\ UNCHANGED <<nodeKeys, relationshipKeys, relatedCounts>>

RemoveNode(call, name) ==
  /\ call[1] \in Ops
  /\ \/ nodeKeys[name] = -1 /\ Unchanged(call, "refused")
     \/ RemoveNodeDone(call, name)
     \/ RemoveNodeThrows(call, name)

\* A client that removes the relationships of a node before the node.
Detached(name) ==
  nodeKeys[name] # -1 =>
    \A t \in KnownTypes :
      /\ FromSize(related[t], nodeKeys[name]) = 0
      /\ ToSize(related[t], nodeKeys[name]) = 0

-----------------------------------------------------------------------------
(* Node properties *)

\* A map with a name the interface reserves for itself: for relationships any
\* "~" name, for nodes "~id", "~label" and "~key".  MetaNames stands for names
\* that are both.
NothingReserved(props) == FALSE   \* mutant: the check is missing
Reserved(props)        == DOMAIN props \cap MetaNames # {}

SetNodeProps(call, id, props) ==
  /\ nodes' = [nodes EXCEPT ![id + 1].props = props]
  /\ Return(call, "done", -1)
  /\ UNCHANGED <<nodeKeys, deletedNodes, relVars>>

UpdateNodeProperties(id, props) ==
  LET call == <<"updateNodeProperties", id, props>> IN
  /\ call[1] \in Ops
  /\ \/ /\ id = -1 \/ Reserved(props)
        /\ Unchanged(call, "refused")
     \/ /\ id # -1 /\ ~ Reserved(props)
        /\ \/ ~ NodeUsable(id) /\ Unchanged(call, "threw")
           \/ NodeUsable(id) /\ SetNodeProps(call, id, MapPutAll(NodeRec(id).props, props))

\* A "~" name is refused after nodes.get(id): for an id the client got from
\* getNodeId the list always has that position.
UpdateNodeProperty(id, p, v) ==
  LET call == <<"updateNodeProperty", id, p, v>> IN
  /\ call[1] \in Ops
  /\ \/ (id = -1 \/ p \in MetaNames) /\ Unchanged(call, "refused")
     \/ /\ id # -1 /\ p \notin MetaNames
        /\ \/ ~ NodeUsable(id) /\ Unchanged(call, "threw")
           \/ NodeUsable(id) /\ SetNodeProps(call, id, MapPut(NodeRec(id).props, p, v))

DeleteNodeProperty(id, p) ==
  LET call == <<"deleteNodeProperty", id, p>> IN
  /\ call[1] \in Ops
  /\ \/ (id = -1 \/ p \in MetaNames) /\ Unchanged(call, "refused")
     \/ /\ id # -1 /\ p \notin MetaNames
        /\ \/ ~ NodeUsable(id) /\ Unchanged(call, "threw")
           \/ NodeUsable(id) /\ SetNodeProps(call, id, Drop(NodeRec(id).props, p))

\* deleteNodeProperties rewrites "~id" of the current map and then INSERTS an
\* empty map at the node's position: every later map moves up by one.
DeleteNodeProperties(id) ==
  LET call == <<"deleteNodeProperties", id>>
      fresh == [id |-> -1, name |-> Null, props |-> NoProps]
  IN
  /\ call[1] \in Ops
  /\ \/ id = -1 /\ Unchanged(call, "refused")
     \/ id # -1 /\ ~ NodeUsable(id) /\ Unchanged(call, "threw")
     \/ /\ id # -1 /\ NodeUsable(id) /\ Len(nodes) < MaxNodes
        /\ nodes' = InsertAt([nodes EXCEPT ![id + 1].id = id], id + 1, fresh)
        /\ Return(call, "done", -1)
        /\ UNCHANGED <<nodeKeys, deletedNodes, relVars>>

-----------------------------------------------------------------------------
(* Relationships *)

\* putIfAbsent on the three per-type maps.
RelatedOf(t)  == IF t \in KnownTypes THEN related[t] ELSE NewMap(NodeIds)
TypeCount(t)  == IF t \in KnownTypes THEN relationshipCounts[t] ELSE 0
PairCounts(t) == IF t \in KnownTypes THEN relatedCounts[t]
                 ELSE [pair \in NodeIds \X NodeIds |-> 0]

\* The number and the id of the next relationship.
LastNumber(t, n1, n2) == PairCounts(t)[<<n1, n2>>]   \* mutant: counts before adding
NextNumber(t, n1, n2) == PairCounts(t)[<<n1, n2>>] + 1
LaterRelId == Len(relationships) + 1   \* mutant: off by one
NextRelId  == Len(relationships)

\* The state both addRelationship methods leave: the new relationship takes
\* the next id and the next number of its pair.
Link(call, t, n1, n2, shownCount, props) ==
  LET id    == NextRelId
      count == NextNumber(t, n1, n2)
      rel   == [id |-> id, type |-> t, from |-> n1, to |-> n2,
                count |-> shownCount, props |-> props]
  IN
  /\ Len(relationships) < MaxRelationships
  /\ relationships' = Append(relationships, rel)
  /\ related' = MapPut(related, t, Put(RelatedOf(t), n1, n2, id))
  /\ relationshipCounts' = MapPut(relationshipCounts, t, TypeCount(t) + 1)
  /\ relatedCounts' =
       MapPut(relatedCounts, t, [PairCounts(t) EXCEPT ![<<n1, n2>>] = count])
  /\ relationshipKeys' = PutKey(relationshipKeys, t, count, n1, n2, id)
  /\ Return(call, "done", id)
  /\ UNCHANGED nodeVars

\* Without properties "~count" is never set, whatever the number.
AddRelationship(t, n1, n2) ==
  LET call == <<"addRelationship", t, n1, n2>> IN
  /\ call[1] \in Ops
  /\ \/ (n1 = -1 \/ n2 = -1) /\ Unchanged(call, "refused")
     \/ n1 # -1 /\ n2 # -1 /\ Link(call, t, n1, n2, 0, NoProps)

\* With properties "~count" is set from number 2 on; the client's own map is
\* stored, so for number 1 it is whatever "~count" the client sent (sent = 0:
\* none).
AddRelationshipWithProperties(t, n1, n2, props, sent) ==
  LET call == <<"addRelationshipWithProperties", t, n1, n2, props>>
      count == NextNumber(t, n1, n2)
  IN
  /\ call[1] \in Ops
  /\ \/ (n1 = -1 \/ n2 = -1) /\ Unchanged(call, "refused")
     \/ /\ n1 # -1 /\ n2 # -1
        /\ Link(call, t, n1, n2, IF count > 1 THEN count ELSE sent, props)

\* removeRelationship(int id) believes the map at that position: its ends, its
\* type and its "~count".  No count is decremented, and a "~count" nobody has
\* numbered yet throws at the very end.
RemoveRelationshipById(id) ==
  LET call == <<"removeRelationshipById", id>> IN
  /\ call[1] \in Ops
  /\ \/ ~ RelUsable(id) /\ Unchanged(call, "threw")
     \/ /\ RelUsable(id)
        /\ LET r == RelRec(id)
               k == IF r.count = 0 THEN 1 ELSE r.count
           IN
             /\ related' = [related EXCEPT ![r.type] = RemoveRel(related[r.type], r.from, r.to, id)]
             /\ relationships' = Nulled({id})
             /\ \/ /\ <<r.type, k>> \in DOMAIN relationshipKeys
                   /\ relationshipKeys' = DropKey(relationshipKeys, r.type, k, r.from, r.to)
                   /\ Return(call, "done", -1)
                \/ /\ <<r.type, k>> \notin DOMAIN relationshipKeys
                   /\ Return(call, "threw", -1)
                   /\ UNCHANGED relationshipKeys
        /\ UNCHANGED <<nodeVars, relationshipCounts, relatedCounts>>

\* Whether removing number k of count leaves a gap to fill.
NeverMoves(count, k) == count # 1 /\ count < k   \* mutant: wrong way round
Moves(count, k)      == count # 1 /\ count # k

OneMore(t)  == [relationshipCounts EXCEPT ![t] = @ + 1]   \* mutant: wrong sign
OneLess(t)  == [relationshipCounts EXCEPT ![t] = @ - 1]

\* Removing number k of a pair: both counts go down first, then the
\* relationship is looked up (-1 throws), then the last number takes the place
\* of k (a missing last relationship throws).
RemoveNumber(call, t, n1, n2, k) ==
  LET count   == relatedCounts[t][<<n1, n2>>]
      relId   == RelationshipKeyId(t, k, n1, n2)
      exists  == relId + 1 \in DOMAIN relationships
      lastId  == RelationshipKeyId(t, count, n1, n2)
      moves   == Moves(count, k)
      movable == lastId # relId /\ RelUsable(lastId)
  IN
  /\ relatedCounts' = [relatedCounts EXCEPT ![t][<<n1, n2>>] = count - 1]
  /\ relationshipCounts' = OneLess(t)
  /\ related' = [related EXCEPT ![t] = RemoveRel(related[t], n1, n2, relId)]
  /\ \/ /\ ~ exists
        /\ Return(call, "threw", -1)
        /\ UNCHANGED <<relationships, relationshipKeys>>
     \/ /\ exists /\ ~ moves
        /\ relationships' = Nulled({relId})
        /\ relationshipKeys' = DropKey(relationshipKeys, t, k, n1, n2)
        /\ Return(call, "done", -1)
     \/ /\ exists /\ moves /\ movable
        /\ relationships' = [Nulled({relId}) EXCEPT
                               ![lastId + 1].count = IF k > 1 THEN k ELSE 0]
        /\ relationshipKeys' =
             DropKey(PutKey(relationshipKeys, t, k, n1, n2, lastId), t, count, n1, n2)
        /\ Return(call, "done", -1)
     \/ /\ exists /\ moves /\ ~ movable
        /\ relationships' = Nulled({relId})
        /\ Return(call, "threw", -1)
        /\ UNCHANGED relationshipKeys
  /\ UNCHANGED nodeVars

\* An unknown type is refused here, where the other methods throw.
Removable(t, n1, n2, k) ==
  n1 # -1 /\ n2 # -1 /\ t \in KnownTypes /\ Checked(t, n1, n2, k) = "found"

\* By names alone the last number goes, so nothing moves.
RemoveRelationship(t, n1, n2) ==
  LET call == <<"removeRelationship", t, n1, n2>> IN
  /\ call[1] \in Ops
  /\ \/ ~ Removable(t, n1, n2, 1) /\ Unchanged(call, "refused")
     \/ Removable(t, n1, n2, 1) /\ RemoveNumber(call, t, n1, n2, relatedCounts[t][<<n1, n2>>])

RemoveRelationshipNumber(t, n1, n2, k) ==
  LET call == <<"removeRelationshipNumber", t, n1, n2, k>> IN
  /\ call[1] \in Ops
  /\ \/ ~ Removable(t, n1, n2, k) /\ Unchanged(call, "refused")
     \/ Removable(t, n1, n2, k) /\ RemoveNumber(call, t, n1, n2, k)

-----------------------------------------------------------------------------
(* Relationship properties *)

SetRelProps(call, id, outcome, props) ==
  /\ relationships' = [relationships EXCEPT ![id + 1].props = props]
  /\ Return(call, outcome, -1)
  /\ UNCHANGED <<nodeVars, relationshipKeys, related, relationshipCounts, relatedCounts>>

\* The part the property operations share once their arguments are accepted:
\* they throw on a null map or a position outside the list.
ChangeProps(call, id, outcome, props) ==
  \/ ~ RelUsable(id) /\ Unchanged(call, "threw")
  \/ RelUsable(id) /\ SetRelProps(call, id, outcome, props)

UpdateRelationshipPropertiesById(id, props) ==
  LET call == <<"updateRelationshipPropertiesById", id, props>> IN
  /\ call[1] \in Ops
  /\ \/ Reserved(props) /\ Unchanged(call, "refused")
     \/ /\ ~ Reserved(props)
        /\ ChangeProps(call, id, "done", MapPutAll(RelRec(id).props, props))

UpdateRelationshipPropertyById(id, p, v) ==
  LET call == <<"updateRelationshipPropertyById", id, p, v>> IN
  /\ call[1] \in Ops
  /\ \/ p \in MetaNames /\ Unchanged(call, "refused")
     \/ p \notin MetaNames /\ ChangeProps(call, id, "done", MapPut(RelRec(id).props, p, v))

DeleteRelationshipPropertyById(id, p) ==
  LET call == <<"deleteRelationshipPropertyById", id, p>> IN
  /\ call[1] \in Ops
  /\ \/ p \in MetaNames /\ Unchanged(call, "refused")
     \/ p \notin MetaNames /\
          ChangeProps(call, id,
                      IF p \in DOMAIN RelRec(id).props THEN "done" ELSE "refused",
                      Drop(RelRec(id).props, p))

\* deleteRelationshipProperties(int id) removes from the map it iterates: after
\* the first user property is gone the iteration throws, unless that property
\* was the last entry of the HashMap's order.
DeleteRelationshipPropertiesById(id) ==
  LET call == <<"deleteRelationshipPropertiesById", id>> IN
  /\ call[1] \in Ops
  /\ \/ ~ RelUsable(id) /\ Unchanged(call, "threw")
     \/ /\ RelUsable(id) /\ DOMAIN RelRec(id).props = {}
        /\ Unchanged(call, "done")
     \/ /\ RelUsable(id)
        /\ \E p \in DOMAIN RelRec(id).props, outcome \in {"done", "threw"} :
             /\ outcome = "done" => DOMAIN RelRec(id).props = {p}
             /\ SetRelProps(call, id, outcome, Drop(RelRec(id).props, p))

UpdateRelationshipProperties(t, n1, n2, k, props) ==
  LET call == <<"updateRelationshipProperties", t, n1, n2, k, props>>
      id == RelationshipKeyId(t, k, n1, n2)
  IN
  /\ call[1] \in Ops
  /\ \/ Reserved(props) /\ Unchanged(call, "refused")
     \/ /\ ~ Reserved(props)
        /\ \/ Checked(t, n1, n2, k) # "found" /\ Unchanged(call, Checked(t, n1, n2, k))
           \/ Checked(t, n1, n2, k) = "found" /\
                ChangeProps(call, id, "done", MapPutAll(RelRec(id).props, props))

UpdateRelationshipProperty(t, n1, n2, k, p, v) ==
  LET call == <<"updateRelationshipProperty", t, n1, n2, k, p, v>>
      id == RelationshipKeyId(t, k, n1, n2)
  IN
  /\ call[1] \in Ops
  /\ \/ p \in MetaNames /\ Unchanged(call, "refused")
     \/ /\ p \notin MetaNames
        /\ \/ Checked(t, n1, n2, k) # "found" /\ Unchanged(call, Checked(t, n1, n2, k))
           \/ Checked(t, n1, n2, k) = "found" /\
                ChangeProps(call, id, "done", MapPut(RelRec(id).props, p, v))

\* With a number an absent property counts as deleted, without one it does not.
DeleteRelationshipProperty(t, n1, n2, k, numbered, p) ==
  LET call == <<"deleteRelationshipProperty", t, n1, n2, k, numbered, p>>
      id == RelationshipKeyId(t, k, n1, n2)
  IN
  /\ call[1] \in Ops
  /\ \/ p \in MetaNames /\ Unchanged(call, "refused")
     \/ /\ p \notin MetaNames
        /\ \/ Checked(t, n1, n2, k) # "found" /\ Unchanged(call, Checked(t, n1, n2, k))
           \/ Checked(t, n1, n2, k) = "found" /\
                ChangeProps(call, id,
                            IF numbered \/ p \in DOMAIN RelRec(id).props
                            THEN "done" ELSE "refused",
                            Drop(RelRec(id).props, p))

\* Like deleteNodeProperties, this INSERTS the emptied map, so every later
\* relationship moves up by one; the numbered form shows the pair's count as
\* "~count", whatever the number.
DeleteRelationshipProperties(t, n1, n2, k, numbered) ==
  LET call == <<"deleteRelationshipProperties", t, n1, n2, k, numbered>>
      id == RelationshipKeyId(t, k, n1, n2)
      fresh == [id |-> id, type |-> t, from |-> n1, to |-> n2,
                count |-> IF numbered THEN relatedCounts[t][<<n1, n2>>] ELSE 0,
                props |-> NoProps]
  IN
  /\ call[1] \in Ops
  /\ \/ Checked(t, n1, n2, k) # "found" /\ Unchanged(call, Checked(t, n1, n2, k))
     \/ /\ Checked(t, n1, n2, k) = "found"
        /\ \/ id \notin 0 .. Len(relationships) /\ Unchanged(call, "threw")
           \/ /\ id \in 0 .. Len(relationships)
              /\ Len(relationships) < MaxRelationships
              /\ relationships' = InsertAt(relationships, id + 1, fresh)
              /\ Return(call, "done", -1)
              /\ UNCHANGED <<nodeVars, relationshipKeys, related, relationshipCounts,
                             relatedCounts>>

\* clear() empties everything but relationshipKeys.  Only the Gremlin adapter
\* calls it, when it is closed (module Gremlin).
Clear ==
  /\ "clear" \in Ops
  /\ nodeKeys' = [n \in Names |-> -1]
  /\ nodes' = <<>>
  /\ deletedNodes' = {}
  /\ relationships' = <<>>
  /\ related' = <<>>
  /\ relationshipCounts' = <<>>
  /\ relatedCounts' = <<>>
  /\ Return(<<"clear">>, "done", -1)
  /\ UNCHANGED relationshipKeys

-----------------------------------------------------------------------------
(* Queries.  They change nothing, so they are operators of the state: a map,  *)
(* null, or an exception.                                                     *)

Found(map) == [outcome |-> "done", map |-> map]
Threw      == [outcome |-> "threw", map |-> Null]

FetchRel(id) ==
  IF id + 1 \in DOMAIN relationships THEN Found(RelRec(id)) ELSE Threw

GetNode(name) ==
  IF nodeKeys[name] = -1 THEN Null ELSE NodeRec(nodeKeys[name])

GetRelationshipTypeCount(t) == TypeCount(t)

\* getRelationship without a number checks the type and the count first.
GetRelationship(t, n1, n2) ==
  CASE Checked(t, n1, n2, 1) = "refused" -> Found(Null)
    [] Checked(t, n1, n2, 1) = "threw"   -> Threw
    [] OTHER -> FetchRel(RelationshipKeyId(t, 1, n1, n2))

\* getRelationship with a number checks nothing but the nodes.
GetRelationshipNumber(t, n1, n2, k) ==
  IF n1 = -1 \/ n2 = -1 THEN Found(Null) ELSE FetchRel(RelationshipKeyId(t, k, n1, n2))

\* getRelationshipProperty(int id, ..) looks the relationship up again, by the
\* ends and the "~count" its map shows: this is the id whose map it reads.
PropertySource(id) ==
  LET r == RelRec(id) IN
    RelationshipKeyId(r.type, IF r.count = 0 THEN 1 ELSE r.count, r.from, r.to)

\* An empty list of types means all of them; any other keeps its known types.
ChosenTypes(types) == IF types = {} THEN KnownTypes ELSE types \cap KnownTypes

NodeDegree(name, direction, types) ==
  LET id == nodeKeys[name]
      DegreeIn(t) ==
        (IF direction # "IN" THEN FromSize(related[t], id) ELSE 0)
        + (IF direction # "OUT" THEN ToSize(related[t], id) ELSE 0)
  IN  IF id = -1 THEN -1
      ELSE SumFunction([t \in ChosenTypes(types) |-> DegreeIn(t)])

\* related() asks the index of relationships number 1, not the adjacency.
Related(n1, n2, direction, types) ==
  /\ n1 # -1 /\ n2 # -1
  /\ \E t \in ChosenTypes(types) :
       \/ direction # "IN"  /\ <<n1, n2>> \in DOMAIN KeyMap(t, 1)
       \/ direction # "OUT" /\ <<n2, n1>> \in DOMAIN KeyMap(t, 1)

OutgoingRelationshipIds(t, id) == IF t \in KnownTypes THEN related[t].from2rel[id] ELSE <<>>
IncomingRelationshipIds(t, id) == IF t \in KnownTypes THEN related[t].to2rel[id] ELSE <<>>
OutgoingNodeIds(t, id)         == IF t \in KnownTypes THEN related[t].from2to[id] ELSE <<>>
IncomingNodeIds(t, id)         == IF t \in KnownTypes THEN related[t].to2from[id] ELSE <<>>

AllRelationshipIds == UNION {AllRels(related[t]) : t \in KnownTypes}

-----------------------------------------------------------------------------
(* The client.  Operations by names resolve them to ids first; operations by *)
(* id take any id handed out so far, the stale ones included.                *)

NodeStep ==
  \E n \in Names :
    \/ \E m \in UserMaps : AddNode(n, m)
    \/ RemoveNode(<<"removeNode", nodeKeys[n]>>, n)
    \/ Detached(n) /\ RemoveNode(<<"removeDetachedNode", nodeKeys[n]>>, n)
    \/ \E m \in PropMaps : UpdateNodeProperties(nodeKeys[n], m)
    \/ \E p \in PropNames, v \in Values : UpdateNodeProperty(nodeKeys[n], p, v)
    \/ \E p \in PropNames : DeleteNodeProperty(nodeKeys[n], p)
    \/ DeleteNodeProperties(nodeKeys[n])

PairStep ==
  \E t \in Types, f \in Names, g \in Names :
    LET n1 == nodeKeys[f]
        n2 == nodeKeys[g]
    IN
      \/ AddRelationship(t, n1, n2)
      \/ \E m \in UserMaps, sent \in {0} \cup SentCounts :
           AddRelationshipWithProperties(t, n1, n2, m, sent)
      \/ RemoveRelationship(t, n1, n2)
      \/ \E k \in Numbers :
           \/ RemoveRelationshipNumber(t, n1, n2, k)
           \/ \E m \in PropMaps : UpdateRelationshipProperties(t, n1, n2, k, m)
           \/ \E p \in PropNames, v \in Values :
                UpdateRelationshipProperty(t, n1, n2, k, p, v)
           \/ \E numbered \in BOOLEAN :
                /\ numbered \/ k = 1
                /\ \/ \E p \in PropNames :
                        DeleteRelationshipProperty(t, n1, n2, k, numbered, p)
                   \/ DeleteRelationshipProperties(t, n1, n2, k, numbered)

IdStep ==
  \E id \in 0 .. Len(relationships) - 1 :
    \/ RemoveRelationshipById(id)
    \/ \E m \in PropMaps : UpdateRelationshipPropertiesById(id, m)
    \/ \E p \in PropNames, v \in Values : UpdateRelationshipPropertyById(id, p, v)
    \/ \E p \in PropNames : DeleteRelationshipPropertyById(id, p)
    \/ DeleteRelationshipPropertiesById(id)

Next == NodeStep \/ PairStep \/ IdStep

Spec == Init /\ [][Next]_vars
-----------------------------------------------------------------------------
(* Type invariant *)

\* The nine variables keep the types of the fields of FastUtilGraph, and the
\* per-type maps keep the same key set.
TypeOK ==
  /\ nodeKeys \in [Names -> {-1} \cup NodeIds]
  /\ nodes \in Seq(Node \cup {Null})
  /\ deletedNodes \subseteq NodeIds
  /\ relationships \in Seq(Relationship \cup {Null})
  /\ KnownTypes \subseteq Types
  /\ DOMAIN relationshipCounts = KnownTypes
  /\ DOMAIN relatedCounts = KnownTypes
  /\ \A t \in KnownTypes :
       /\ relationshipCounts[t] \in Int
       /\ relatedCounts[t] \in [NodeIds \X NodeIds -> Nat]
  /\ \A key \in DOMAIN relationshipKeys : key[1] \in Types
  /\ result.outcome \in Outcomes

(* Node ids *)

LiveNames == {n \in Names : nodeKeys[n] # -1}

\* No two names share an id, every id points into the list, and no id in use is
\* also free for reuse: addNode can never hand out the record of another node,
\* however removals, reuse and the insertions of deleteNodeProperties mix.
NodeIdsSound ==
  /\ \A n, m \in LiveNames : nodeKeys[n] = nodeKeys[m] => n = m
  /\ \A n \in LiveNames : nodeKeys[n] < Len(nodes) /\ nodeKeys[n] \notin deletedNodes
  /\ \A id \in deletedNodes : id < Len(nodes)

(* The adjacency index *)

Occurrences(s, e) == Cardinality({i \in DOMAIN s : s[i] = e})

\* removeNode never throws half way: an index always has a relationship id for
\* every neighbour removeAll is going to unlink.
RemoveAllNeverOverruns ==
  \A t \in KnownTypes, id \in NodeIds : ~ RemoveAllOverruns(related[t], id)

\* The outgoing and the incoming neighbour lists of a type describe the same
\* pairs, each as often.
EndsMirrored ==
  \A t \in KnownTypes, n1, n2 \in NodeIds :
    Occurrences(OutgoingNodeIds(t, n1), n2) = Occurrences(IncomingNodeIds(t, n2), n1)

LiveRels == {id \in 0 .. Len(relationships) - 1 : RelRec(id) # Null}

\* A relationship that exists is in the adjacency of both its ends, exactly
\* once: no removal of another relationship or of another node takes it out.
LiveIsIndexed ==
  \A id \in LiveRels :
    LET r == RelRec(id) IN
      /\ r.id = id
      /\ Occurrences(OutgoingRelationshipIds(r.type, r.from), id) = 1
      /\ Occurrences(IncomingRelationshipIds(r.type, r.to), id) = 1

\* Every id an index holds has been allocated, so the id of a new relationship
\* is in no index yet.
IndexedIdsAllocated ==
  /\ \A t \in KnownTypes, n \in NodeIds :
       \A id \in ToSet(OutgoingRelationshipIds(t, n))
                 \cup ToSet(IncomingRelationshipIds(t, n)) :
         id \in 0 .. Len(relationships) - 1
  /\ \A key \in DOMAIN relationshipKeys :
       \A pair \in DOMAIN relationshipKeys[key] :
         relationshipKeys[key][pair] \in 0 .. Len(relationships) - 1

\* An operation never takes a number away from a relationship that lives on:
\* a key is replaced or dropped only when its relationship is gone or has
\* another number of the same pair.
NumberNeverStolen ==
  [][\A key \in DOMAIN relationshipKeys :
       \A pair \in DOMAIN relationshipKeys[key] :
         \A id \in {relationshipKeys[key][pair]} :
           RelUsable(id) =>
             \/ ~ RelUsable(id)'
             \/ \E k \in 1 .. MaxRelationships :
                  RelationshipKeyId(key[1], k, pair[1], pair[2])' = id]_vars

\* A node keeps its own record: the map at the id of a name is the map of that
\* name (or an emptied one), never another node's and never null.
NodeOwnRecord ==
  \A n \in LiveNames : GetNode(n) # Null /\ GetNode(n).name \in {n, Null}

(* Numbering and counts, for a client of the by-name operations *)

Parallel(t, n1, n2) ==
  {id \in LiveRels : RelRec(id).type = t /\ RelRec(id).from = n1 /\ RelRec(id).to = n2}

\* The relationships of a pair are numbered 1..count without gap: reading the
\* numbers gives the relationships of that pair, each once, and there is no
\* number beyond the count.
NumbersDense ==
  \A t \in KnownTypes, n1, n2 \in NodeIds :
    LET count  == relatedCounts[t][<<n1, n2>>]
        ReadAt(k) == GetRelationshipNumber(t, n1, n2, k).map
    IN
      /\ \A k \in 1 .. count : ReadAt(k) # Null
      /\ {ReadAt(k) : k \in 1 .. count} = {RelRec(id) : id \in Parallel(t, n1, n2)}
      /\ Cardinality(Parallel(t, n1, n2)) = count
      /\ GetRelationship(t, n1, n2).map = IF count = 0 THEN Null ELSE ReadAt(1)
      /\ \A k \in count + 1 .. MaxRelationships : RelationshipKeyId(t, k, n1, n2) = -1

\* The count of a type, the degrees of a node, the list of all relationships
\* and the neighbour lists agree with the relationships that exist.
CountsExact ==
  /\ AllRelationshipIds = LiveRels
  /\ \A t \in KnownTypes :
       /\ GetRelationshipTypeCount(t) = Cardinality({id \in LiveRels : RelRec(id).type = t})
       /\ \A n \in LiveNames :
            LET out == {id \in LiveRels : RelRec(id).type = t /\ RelRec(id).from = nodeKeys[n]}
                in  == {id \in LiveRels : RelRec(id).type = t /\ RelRec(id).to = nodeKeys[n]}
            IN  /\ NodeDegree(n, "OUT", {t}) = Cardinality(out)
                /\ NodeDegree(n, "ALL", {t}) = Cardinality(out) + Cardinality(in)

\* related() says yes exactly when a relationship exists.
RelatedExact ==
  \A n, m \in LiveNames, t \in KnownTypes :
    Related(nodeKeys[n], nodeKeys[m], "OUT", {t})
      <=> Parallel(t, nodeKeys[n], nodeKeys[m]) # {}

(* What tests and comments of the repository say *)

\* "shouldNotFindUnRelated": related() does not answer yes for two nodes
\* without any relationship between them.
UnrelatedNotRelated ==
  \A n, m \in LiveNames :
    n # m /\ Related(nodeKeys[n], nodeKeys[m], "ALL", {}) =>
      \E t \in KnownTypes : \/ Parallel(t, nodeKeys[n], nodeKeys[m]) # {}
                            \/ Parallel(t, nodeKeys[m], nodeKeys[n]) # {}

\* "shouldRemoveNodeRelationships": the count of a type is the number of its
\* relationships, also after nodes have been removed.
TypeCountAfterRemoval ==
  \A t \in KnownTypes :
    GetRelationshipTypeCount(t) = Cardinality({id \in LiveRels : RelRec(id).type = t})

\* "else assume it is one": a relationship whose map shows no "~count" is
\* number one of its pair, so reading a property by id reads that relationship.
ReadsOwnProperties == \A id \in LiveRels : PropertySource(id) = id
=============================================================================

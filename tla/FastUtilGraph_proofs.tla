-------------------------- MODULE FastUtilGraph_proofs --------------------------
(***************************************************************************)
(* Proofs about the graph, for any number of names, types, nodes and        *)
(* relationships.                                                           *)
(***************************************************************************)
EXTENDS FastUtilGraph, ReversibleMultiMap_proofs

(* Maps and lists *)

\* The map with x leading to v.
LEMMA MapPutIs ==
  ASSUME NEW f, NEW x, NEW v
  PROVE  /\ DOMAIN MapPut(f, x, v) = DOMAIN f \cup {x}
         /\ MapPut(f, x, v)[x] = v
         /\ \A y \in DOMAIN f : y # x => MapPut(f, x, v)[y] = f[y]
BY DEF MapPut

LEMMA DropIs ==
  ASSUME NEW f, NEW x
  PROVE  /\ DOMAIN Drop(f, x) = DOMAIN f \ {x}
         /\ \A y \in DOMAIN f \ {x} : Drop(f, x)[y] = f[y]
BY DEF Drop, Restrict

LEMMA InsertedAt ==
  ASSUME NEW S, NEW s \in Seq(S), NEW i \in 1 .. Len(s) + 1, NEW e \in S
  PROVE  /\ InsertAt(s, i, e) \in Seq(S)
         /\ Len(InsertAt(s, i, e)) = Len(s) + 1
<1> DEFINE a == SubSeq(s, 1, i - 1)
<1> DEFINE b == SubSeq(s, i, Len(s))
<1>1. a \in Seq(S) /\ Len(a) = i - 1 /\ b \in Seq(S) /\ Len(b) = Len(s) - i + 1 /\ Len(s) \in Nat
  OBVIOUS
<1>2. <<e>> \in Seq(S) /\ Len(<<e>>) = 1 OBVIOUS
<1> HIDE DEF a, b
<1> DEFINE c == a \o <<e>>
<1>3. c \in Seq(S) /\ Len(c) = Len(a) + 1 BY <1>1, <1>2
<1> HIDE DEF c
<1>4. c \o b \in Seq(S) /\ Len(c \o b) = Len(c) + Len(b) BY <1>1, <1>3
<1>5. InsertAt(s, i, e) = c \o b BY DEF InsertAt, a, b, c
<1>6. QED BY <1>1, <1>3, <1>4, <1>5

LEMMA NoPropsStored == NoProps \in StoredMaps
<1>1. <<>> \in [{} -> Values \cup {Null}] OBVIOUS
<1>2. QED BY <1>1 DEF NoProps, StoredMaps

LEMMA UserMapsStored == UserMaps \subseteq StoredMaps
<1>1. SUFFICES ASSUME NEW m \in UserMaps PROVE m \in StoredMaps OBVIOUS
<1>2. PICK D \in SUBSET PropNames : m \in [D -> Values] BY DEF UserMaps, PropMaps
<1>3. D \in SUBSET (PropNames \ MetaNames) BY <1>2 DEF UserMaps
<1>4. m \in [D -> Values \cup {Null}] BY <1>2
<1>5. QED BY <1>3, <1>4 DEF StoredMaps

LEMMA MergeStored ==
  ASSUME NEW m \in PropMaps, ~ Reserved(m), NEW f \in StoredMaps
  PROVE  MapPutAll(f, m) \in StoredMaps
<1>1. PICK D \in SUBSET PropNames : m \in [D -> Values] BY DEF PropMaps
<1>2. PICK E \in SUBSET (PropNames \ MetaNames) : f \in [E -> Values \cup {Null}] BY DEF StoredMaps
<1>3. D \in SUBSET (PropNames \ MetaNames) BY <1>1 DEF Reserved
<1>4. MapPutAll(f, m) \in [D \cup E -> Values \cup {Null}] BY <1>1, <1>2 DEF MapPutAll
<1>5. QED BY <1>2, <1>3, <1>4 DEF StoredMaps

LEMMA PutStored ==
  ASSUME NEW p \in PropNames \ MetaNames, NEW v \in Values \cup {Null},
         NEW f \in StoredMaps
  PROVE  MapPut(f, p, v) \in StoredMaps
<1>2. PICK E \in SUBSET (PropNames \ MetaNames) : f \in [E -> Values \cup {Null}] BY DEF StoredMaps
<1>4. MapPut(f, p, v) \in [{p} \cup E -> Values \cup {Null}] BY <1>2 DEF MapPut
<1>5. QED BY <1>2, <1>4 DEF StoredMaps

LEMMA DropStored ==
  ASSUME NEW p, NEW f \in StoredMaps
  PROVE  Drop(f, p) \in StoredMaps
<1>2. PICK E \in SUBSET (PropNames \ MetaNames) : f \in [E -> Values \cup {Null}] BY DEF StoredMaps
<1>4. Drop(f, p) \in [E \ {p} -> Values \cup {Null}] BY <1>2 DEF Drop, Restrict
<1>5. QED BY <1>2, <1>4 DEF StoredMaps

-----------------------------------------------------------------------------
(* What a step can be.  The operations that change nothing when they refuse  *)
(* or throw, and those that only replace the properties of one map, are      *)
(* alike for every invariant.                                                *)

Nothing == UNCHANGED <<nodeVars, relVars>>

\* A new node at the end of the list, or in a place that was free.
AddNodeStep ==
  /\ \E name \in Names, id \in NodeIds, props \in StoredMaps :
       LET rec == [id |-> id, name |-> name, props |-> props] IN
       /\ nodeKeys[name] = -1
       /\ nodeKeys' = [nodeKeys EXCEPT ![name] = id]
       /\ \/ /\ deletedNodes = {} /\ id = Len(nodes)
             /\ nodes' = Append(nodes, rec)
             /\ UNCHANGED deletedNodes
          \/ /\ id \in deletedNodes
             /\ nodes' = [nodes EXCEPT ![id + 1] = rec]
             /\ deletedNodes' = deletedNodes \ {id}
  /\ UNCHANGED relVars

NodePropsStep ==
  /\ \E id \in Int, props \in StoredMaps :
       NodeUsable(id) /\ nodes' = [nodes EXCEPT ![id + 1].props = props]
  /\ UNCHANGED <<nodeKeys, deletedNodes, relVars>>

InsertNodeStep ==
  /\ "deleteNodeProperties" \in Ops
  /\ \E id \in Int :
       /\ NodeUsable(id)
       /\ nodes' = InsertAt([nodes EXCEPT ![id + 1].id = id], id + 1,
                            [id |-> -1, name |-> Null, props |-> NoProps])
       /\ id \in NodeIds
  /\ UNCHANGED <<nodeKeys, deletedNodes, relVars>>

RemoveNodeStep ==
  \E name \in Names : \E call :
    /\ "removeNode" \in Ops \/ Detached(name)
    /\ RemoveNodeDone(call, name) \/ RemoveNodeThrows(call, name)

LinkStep ==
  \E t \in Types, n1 \in NodeIds, n2 \in NodeIds, count \in Int, props \in StoredMaps :
    \E call : Link(call, t, n1, n2, count, props)

RemoveByIdStep == \E id \in Int : RelUsable(id) /\ RemoveRelationshipById(id)

\* A number that is not above the count, and the count is not 0.
RemoveNumberStep ==
  \E t \in KnownTypes, n1 \in NodeIds, n2 \in NodeIds, k \in Int :
    /\ relatedCounts[t][<<n1, n2>>] # 0 /\ k <= relatedCounts[t][<<n1, n2>>]
    /\ k \in Numbers \cup {relatedCounts[t][<<n1, n2>>]}
    /\ \E call : RemoveNumber(call, t, n1, n2, k)

RelPropsStep ==
  /\ \E id \in Int, props \in StoredMaps :
       RelUsable(id) /\ relationships' = [relationships EXCEPT ![id + 1].props = props]
  /\ UNCHANGED <<nodeVars, relationshipKeys, related, relationshipCounts, relatedCounts>>

InsertRelStep ==
  /\ "deleteRelationshipProperties" \in Ops
  /\ \E id \in 0 .. Len(relationships), rel \in Relationship :
       relationships' = InsertAt(relationships, id + 1, rel)
  /\ UNCHANGED <<nodeVars, relationshipKeys, related, relationshipCounts, relatedCounts>>

\* Any of them.
GraphStep ==
  \/ Nothing \/ AddNodeStep \/ NodePropsStep \/ InsertNodeStep \/ RemoveNodeStep
  \/ LinkStep \/ RemoveByIdStep \/ RemoveNumberStep \/ RelPropsStep \/ InsertRelStep

Said == result'.outcome \in Outcomes

LEMMA UnchangedIsNothing ==
  ASSUME NEW call, NEW outcome \in Outcomes, Unchanged(call, outcome)
  PROVE  Nothing /\ Said
BY DEF Unchanged, Nothing, Return, Said

LEMMA SetNodePropsKind ==
  ASSUME NEW call, NEW id \in Int, NodeUsable(id), NEW props \in StoredMaps,
         SetNodeProps(call, id, props)
  PROVE  NodePropsStep /\ Said
BY DEF SetNodeProps, NodePropsStep, Return, Said, Outcomes

LEMMA NodeRecTyped ==
  ASSUME TypeOK, NEW id \in Int, NodeUsable(id)
  PROVE  NodeRec(id) \in Node /\ NodeRec(id).props \in StoredMaps
BY DEF TypeOK, NodeUsable, NodeRec, Node

LEMMA RelRecTyped ==
  ASSUME TypeOK, NEW id \in Int, RelUsable(id)
  PROVE  RelRec(id) \in Relationship /\ RelRec(id).props \in StoredMaps
BY DEF TypeOK, RelUsable, RelRec, Relationship

LEMMA AddNodeKind ==
  ASSUME TypeOK, NEW name \in Names, NEW props \in UserMaps, AddNode(name, props)
  PROVE  (Nothing \/ AddNodeStep) /\ Said
<1> DEFINE call == <<"addNode", nodeKeys[name]>>
<1> DEFINE rec(id) == [id |-> id, name |-> name, props |-> props]
<1>1. props \in StoredMaps BY UserMapsStored
<1>2. CASE Unchanged(<<"addNode", nodeKeys[name]>>, "refused")
  BY <1>2, UnchangedIsNothing DEF Outcomes
<1>3. CASE /\ nodeKeys[name] = -1 /\ deletedNodes = {} /\ Len(nodes) < MaxNodes
           /\ nodes' = Append(nodes, rec(Len(nodes)))
           /\ nodeKeys' = [nodeKeys EXCEPT ![name] = Len(nodes)]
           /\ Return(call, "done", Len(nodes))
           /\ UNCHANGED <<deletedNodes, relVars>>
  <2>1. Len(nodes) \in NodeIds BY <1>3, BoundsAssumption DEF TypeOK, NodeIds
  <2>2. AddNodeStep BY <1>1, <1>3, <2>1 DEF AddNodeStep
  <2>3. Said BY <1>3 DEF Return, Said, Outcomes
  <2>4. QED BY <2>2, <2>3
<1>4. ASSUME nodeKeys[name] = -1, NEW id \in deletedNodes,
             nodes' = [nodes EXCEPT ![id + 1] = rec(id)],
             nodeKeys' = [nodeKeys EXCEPT ![name] = id],
             deletedNodes' = deletedNodes \ {id},
             Return(call, "done", id), UNCHANGED relVars
      PROVE  AddNodeStep /\ Said
  <2>1. id \in NodeIds BY DEF TypeOK
  <2>2. AddNodeStep BY <1>1, <1>4, <2>1 DEF AddNodeStep
  <2>3. Said BY <1>4 DEF Return, Said, Outcomes
  <2>4. QED BY <2>2, <2>3
<1>5. QED BY <1>2, <1>3, <1>4 DEF AddNode

LEMMA NodePropertyKinds ==
  ASSUME TypeOK, NEW id \in Int,
         \/ \E m \in PropMaps : UpdateNodeProperties(id, m)
         \/ \E p \in PropNames, v \in Values \cup {Null} : UpdateNodeProperty(id, p, v)
         \/ \E p \in PropNames : DeleteNodeProperty(id, p)
  PROVE  (Nothing \/ NodePropsStep) /\ Said
<1> USE DEF Outcomes
<1>1. ASSUME NEW m \in PropMaps, UpdateNodeProperties(id, m)
      PROVE  (Nothing \/ NodePropsStep) /\ Said
  <2> DEFINE call == <<"updateNodeProperties", id, m>>
  <2>1. CASE Unchanged(call, "refused") BY <2>1, UnchangedIsNothing
  <2>2. CASE Unchanged(call, "threw") BY <2>2, UnchangedIsNothing
  <2>3. CASE /\ NodeUsable(id) /\ ~ Reserved(m)
             /\ SetNodeProps(call, id, MapPutAll(NodeRec(id).props, m))
    BY <2>3, NodeRecTyped, MergeStored, SetNodePropsKind
  <2>4. QED BY <1>1, <2>1, <2>2, <2>3 DEF UpdateNodeProperties
<1>2. ASSUME NEW p \in PropNames, NEW v \in Values \cup {Null},
             UpdateNodeProperty(id, p, v)
      PROVE  (Nothing \/ NodePropsStep) /\ Said
  <2> DEFINE call == <<"updateNodeProperty", id, p, v>>
  <2>1. CASE Unchanged(call, "refused") BY <2>1, UnchangedIsNothing
  <2>2. CASE Unchanged(call, "threw") BY <2>2, UnchangedIsNothing
  <2>3. CASE /\ NodeUsable(id) /\ p \notin MetaNames
             /\ SetNodeProps(call, id, MapPut(NodeRec(id).props, p, v))
    BY <2>3, NodeRecTyped, PutStored, SetNodePropsKind
  <2>4. QED BY <1>2, <2>1, <2>2, <2>3 DEF UpdateNodeProperty
<1>3. ASSUME NEW p \in PropNames, DeleteNodeProperty(id, p)
      PROVE  (Nothing \/ NodePropsStep) /\ Said
  <2> DEFINE call == <<"deleteNodeProperty", id, p>>
  <2>1. CASE Unchanged(call, "refused") BY <2>1, UnchangedIsNothing
  <2>2. CASE Unchanged(call, "threw") BY <2>2, UnchangedIsNothing
  <2>3. CASE NodeUsable(id) /\ SetNodeProps(call, id, Drop(NodeRec(id).props, p))
    BY <2>3, NodeRecTyped, DropStored, SetNodePropsKind
  <2>4. QED BY <1>3, <2>1, <2>2, <2>3 DEF DeleteNodeProperty
<1>4. QED BY <1>1, <1>2, <1>3

LEMMA DeleteNodePropertiesKind ==
  ASSUME NEW id \in {-1} \cup NodeIds, DeleteNodeProperties(id)
  PROVE  (Nothing \/ InsertNodeStep) /\ Said
<1> DEFINE call == <<"deleteNodeProperties", id>>
<1>1. CASE Unchanged(call, "refused") BY <1>1, UnchangedIsNothing DEF Outcomes
<1>2. CASE Unchanged(call, "threw") BY <1>2, UnchangedIsNothing DEF Outcomes
<1>3. CASE /\ "deleteNodeProperties" \in Ops /\ id # -1 /\ NodeUsable(id)
           /\ nodes' = InsertAt([nodes EXCEPT ![id + 1].id = id], id + 1,
                                [id |-> -1, name |-> Null, props |-> NoProps])
           /\ Return(call, "done", -1)
           /\ UNCHANGED <<nodeKeys, deletedNodes, relVars>>
  <2>1. id \in NodeIds /\ id \in Int BY <1>3, BoundsAssumption DEF NodeIds
  <2>2. QED BY <1>3, <2>1 DEF InsertNodeStep, Return, Said, Outcomes
<1>4. QED BY <1>1, <1>2, <1>3 DEF DeleteNodeProperties

LEMMA RemoveNodeKind ==
  ASSUME NEW call, NEW name \in Names, RemoveNode(call, name),
         "removeNode" \in Ops \/ Detached(name)
  PROVE  (Nothing \/ RemoveNodeStep) /\ Said
<1>1. CASE Unchanged(call, "refused") BY <1>1, UnchangedIsNothing DEF Outcomes
<1>2. CASE RemoveNodeDone(call, name) \/ RemoveNodeThrows(call, name)
  <2>1. RemoveNodeStep BY <1>2 DEF RemoveNodeStep
  <2>2. Said BY <1>2 DEF RemoveNodeDone, RemoveNodeThrows, Return, Said, Outcomes
  <2>3. QED BY <2>1, <2>2
<1>3. QED BY <1>1, <1>2 DEF RemoveNode

LEMMA LinkKinds ==
  ASSUME TypeOK, NEW t \in Types, NEW n1 \in {-1} \cup NodeIds, NEW n2 \in {-1} \cup NodeIds,
         \/ AddRelationship(t, n1, n2)
         \/ \E m \in UserMaps, sent \in {0} \cup SentCounts :
              AddRelationshipWithProperties(t, n1, n2, m, sent)
  PROVE  (Nothing \/ LinkStep) /\ Said
<1> USE DEF Outcomes
<1>1. NextNumber(t, n1, n2) \in Int \/ n1 = -1 \/ n2 = -1
  BY DEF TypeOK, NextNumber, PairCounts
<1>2. CASE AddRelationship(t, n1, n2)
  <2> DEFINE call == <<"addRelationship", t, n1, n2>>
  <2>1. CASE Unchanged(call, "refused") BY <2>1, UnchangedIsNothing
  <2>2. CASE n1 # -1 /\ n2 # -1 /\ Link(call, t, n1, n2, 0, NoProps)
    <3>1. n1 \in NodeIds /\ n2 \in NodeIds BY <2>2
    <3>2. Said BY <2>2 DEF Link, Return, Said
    <3>3. QED BY <2>2, <3>1, <3>2, NoPropsStored DEF LinkStep
  <2>3. QED BY <1>2, <2>1, <2>2 DEF AddRelationship
<1>3. ASSUME NEW m \in UserMaps, NEW sent \in {0} \cup SentCounts,
             AddRelationshipWithProperties(t, n1, n2, m, sent)
      PROVE  (Nothing \/ LinkStep) /\ Said
  <2> DEFINE call == <<"addRelationshipWithProperties", t, n1, n2, m>>
  <2> DEFINE next == NextNumber(t, n1, n2)
  <2> DEFINE count == IF next > 1 THEN next ELSE sent
  <2>1. CASE Unchanged(call, "refused") BY <2>1, UnchangedIsNothing
  <2>2. CASE n1 # -1 /\ n2 # -1 /\ Link(call, t, n1, n2, count, m)
    <3>1. n1 \in NodeIds /\ n2 \in NodeIds BY <2>2
    <3>2. Said BY <2>2 DEF Link, Return, Said
    <3>3. next \in Int BY <1>1, <2>2
    <3>4. sent \in Int BY BoundsAssumption
    <3> HIDE DEF next
    <3>5. count \in Int BY <3>3, <3>4
    <3>6. m \in StoredMaps BY UserMapsStored
    <3> HIDE DEF count
    <3>7. QED BY <2>2, <3>1, <3>2, <3>5, <3>6 DEF LinkStep
  <2>3. QED BY <1>3, <2>1, <2>2 DEF AddRelationshipWithProperties
<1>4. QED BY <1>2, <1>3

LEMMA RemoveByIdKind ==
  ASSUME NEW id \in Int, RemoveRelationshipById(id)
  PROVE  (Nothing \/ RemoveByIdStep) /\ Said
<1>1. CASE ~ RelUsable(id)
  <2>1. Unchanged(<<"removeRelationshipById", id>>, "threw")
    BY <1>1 DEF RemoveRelationshipById
  <2>2. QED BY <2>1, UnchangedIsNothing DEF Outcomes
<1>2. CASE RelUsable(id)
  <2>1. Said BY <1>2 DEF RemoveRelationshipById, Return, Said, Outcomes
  <2>2. QED BY <1>2, <2>1 DEF RemoveByIdStep
<1>3. QED BY <1>1, <1>2

LEMMA RemoveNumberKinds ==
  ASSUME TypeOK, NEW t \in Types, NEW n1 \in {-1} \cup NodeIds, NEW n2 \in {-1} \cup NodeIds,
         \/ RemoveRelationship(t, n1, n2)
         \/ \E k \in Numbers : RemoveRelationshipNumber(t, n1, n2, k)
  PROVE  (Nothing \/ RemoveNumberStep) /\ Said
<1> USE DEF Outcomes
<1> DEFINE count == relatedCounts[t][<<n1, n2>>]
<1>1. ASSUME NEW k \in Int, Removable(t, n1, n2, k)
      PROVE  /\ t \in KnownTypes /\ n1 \in NodeIds /\ n2 \in NodeIds
             /\ count \in Nat /\ count # 0 /\ k <= count
  <2>1. t \in KnownTypes /\ n1 \in NodeIds /\ n2 \in NodeIds BY <1>1 DEF Removable
  <2>2. count \in Nat BY <2>1 DEF TypeOK
  <2>3. ~ (count = 0 \/ count < k) BY <1>1, <2>1 DEF Removable, Checked
  <2>4. QED BY <2>1, <2>2, <2>3
<1>2. ASSUME NEW call, NEW k \in Int, RemoveNumber(call, t, n1, n2, k) PROVE Said
  BY <1>2 DEF RemoveNumber, Return, Said
<1>3. CASE RemoveRelationship(t, n1, n2)
  <2> DEFINE call == <<"removeRelationship", t, n1, n2>>
  <2>1. CASE Unchanged(call, "refused") BY <2>1, UnchangedIsNothing
  <2>2. CASE Removable(t, n1, n2, 1) /\ RemoveNumber(call, t, n1, n2, count)
    <3>1. /\ t \in KnownTypes /\ n1 \in NodeIds /\ n2 \in NodeIds
          /\ count \in Nat /\ count # 0
      BY <1>1, <2>2
    <3>2. Said BY <1>2, <2>2, <3>1
    <3>3. RemoveNumberStep BY <2>2, <3>1 DEF RemoveNumberStep
    <3>4. QED BY <3>2, <3>3
  <2>3. QED BY <1>3, <2>1, <2>2 DEF RemoveRelationship
<1>4. ASSUME NEW k \in Numbers, RemoveRelationshipNumber(t, n1, n2, k)
      PROVE  (Nothing \/ RemoveNumberStep) /\ Said
  <2> DEFINE call == <<"removeRelationshipNumber", t, n1, n2, k>>
  <2>1. CASE Unchanged(call, "refused") BY <2>1, UnchangedIsNothing
  <2>2. CASE Removable(t, n1, n2, k) /\ RemoveNumber(call, t, n1, n2, k)
    <3>1. k \in Int BY BoundsAssumption
    <3>2. /\ t \in KnownTypes /\ n1 \in NodeIds /\ n2 \in NodeIds
          /\ count # 0 /\ k <= count
      BY <1>1, <2>2, <3>1
    <3>3. Said BY <1>2, <2>2, <3>1
    <3>4. RemoveNumberStep BY <2>2, <3>1, <3>2 DEF RemoveNumberStep
    <3>5. QED BY <3>3, <3>4
  <2>3. QED BY <1>4, <2>1, <2>2 DEF RemoveRelationshipNumber
<1>5. QED BY <1>3, <1>4

LEMMA SetRelPropsKind ==
  ASSUME NEW call, NEW id \in Int, RelUsable(id), NEW outcome \in Outcomes,
         NEW props \in StoredMaps, SetRelProps(call, id, outcome, props)
  PROVE  RelPropsStep /\ Said
BY DEF SetRelProps, RelPropsStep, Return, Said

LEMMA ChangePropsKind ==
  ASSUME NEW call, NEW id \in Int, NEW outcome \in Outcomes, NEW props,
         RelUsable(id) => props \in StoredMaps, ChangeProps(call, id, outcome, props)
  PROVE  (Nothing \/ RelPropsStep) /\ Said
<1>1. CASE Unchanged(call, "threw") BY <1>1, UnchangedIsNothing DEF Outcomes
<1>2. CASE RelUsable(id) /\ SetRelProps(call, id, outcome, props)
  BY <1>2, SetRelPropsKind
<1>3. QED BY <1>1, <1>2 DEF ChangeProps

LEMMA IdPropertyKinds ==
  ASSUME TypeOK, NEW id \in Int,
         \/ \E m \in PropMaps : UpdateRelationshipPropertiesById(id, m)
         \/ \E p \in PropNames, v \in Values : UpdateRelationshipPropertyById(id, p, v)
         \/ \E p \in PropNames : DeleteRelationshipPropertyById(id, p)
         \/ DeleteRelationshipPropertiesById(id)
  PROVE  (Nothing \/ RelPropsStep) /\ Said
<1> USE DEF Outcomes
<1>1. ASSUME NEW m \in PropMaps, UpdateRelationshipPropertiesById(id, m)
      PROVE  (Nothing \/ RelPropsStep) /\ Said
  <2> DEFINE call == <<"updateRelationshipPropertiesById", id, m>>
  <2> DEFINE props == MapPutAll(RelRec(id).props, m)
  <2>1. CASE Unchanged(call, "refused") BY <2>1, UnchangedIsNothing
  <2>2. CASE ~ Reserved(m) /\ ChangeProps(call, id, "done", props)
    <3>1. RelUsable(id) => props \in StoredMaps BY <2>2, RelRecTyped, MergeStored
    <3> HIDE DEF props
    <3>2. QED BY <2>2, <3>1, ChangePropsKind
  <2>3. QED BY <1>1, <2>1, <2>2 DEF UpdateRelationshipPropertiesById
<1>2. ASSUME NEW p \in PropNames, NEW v \in Values, UpdateRelationshipPropertyById(id, p, v)
      PROVE  (Nothing \/ RelPropsStep) /\ Said
  <2> DEFINE call == <<"updateRelationshipPropertyById", id, p, v>>
  <2> DEFINE props == MapPut(RelRec(id).props, p, v)
  <2>1. CASE Unchanged(call, "refused") BY <2>1, UnchangedIsNothing
  <2>2. CASE p \notin MetaNames /\ ChangeProps(call, id, "done", props)
    <3>1. RelUsable(id) => props \in StoredMaps BY <2>2, RelRecTyped, PutStored
    <3> HIDE DEF props
    <3>2. QED BY <2>2, <3>1, ChangePropsKind
  <2>3. QED BY <1>2, <2>1, <2>2 DEF UpdateRelationshipPropertyById
<1>3. ASSUME NEW p \in PropNames, DeleteRelationshipPropertyById(id, p)
      PROVE  (Nothing \/ RelPropsStep) /\ Said
  <2> DEFINE call == <<"deleteRelationshipPropertyById", id, p>>
  <2> DEFINE props == Drop(RelRec(id).props, p)
  <2> DEFINE outcome == IF p \in DOMAIN RelRec(id).props THEN "done" ELSE "refused"
  <2>1. CASE Unchanged(call, "refused") BY <2>1, UnchangedIsNothing
  <2>2. CASE ChangeProps(call, id, outcome, props)
    <3>1. RelUsable(id) => props \in StoredMaps BY RelRecTyped, DropStored
    <3>2. outcome \in Outcomes OBVIOUS
    <3> HIDE DEF props, outcome
    <3>3. QED BY <2>2, <3>1, <3>2, ChangePropsKind
  <2>3. QED BY <1>3, <2>1, <2>2 DEF DeleteRelationshipPropertyById
<1>4. CASE DeleteRelationshipPropertiesById(id)
  <2> DEFINE call == <<"deleteRelationshipPropertiesById", id>>
  <2>1. CASE Unchanged(call, "threw") \/ Unchanged(call, "done")
    BY <2>1, UnchangedIsNothing
  <2>2. CASE /\ RelUsable(id)
             /\ \E p \in DOMAIN RelRec(id).props, outcome \in {"done", "threw"} :
                  SetRelProps(call, id, outcome, Drop(RelRec(id).props, p))
    <3>1. PICK p \in DOMAIN RelRec(id).props, outcome \in {"done", "threw"} :
            SetRelProps(call, id, outcome, Drop(RelRec(id).props, p))
      BY <2>2
    <3>2. Drop(RelRec(id).props, p) \in StoredMaps BY <2>2, RelRecTyped, DropStored
    <3>3. outcome \in Outcomes OBVIOUS
    <3>4. QED BY <2>2, <3>1, <3>2, <3>3, SetRelPropsKind
  <2>3. QED BY <1>4, <2>1, <2>2 DEF DeleteRelationshipPropertiesById
<1>5. QED BY <1>1, <1>2, <1>3, <1>4

\* The relationship keys lead to ids.
KeysTyped ==
  \A key \in DOMAIN relationshipKeys :
    \A pair \in DOMAIN relationshipKeys[key] : relationshipKeys[key][pair] \in Nat

LEMMA KeyIdTyped ==
  ASSUME KeysTyped, NEW t, NEW k, NEW n1, NEW n2
  PROVE  RelationshipKeyId(t, k, n1, n2) \in {-1} \cup Nat
<1>1. DOMAIN <<>> = {} OBVIOUS
<1>2. QED BY <1>1 DEF KeysTyped, RelationshipKeyId, KeyMap

LEMMA CheckedIs ==
  ASSUME NEW t, NEW n1 \in {-1} \cup NodeIds, NEW n2 \in {-1} \cup NodeIds, NEW k
  PROVE  /\ Checked(t, n1, n2, k) # "found" => Checked(t, n1, n2, k) \in Outcomes
         /\ Checked(t, n1, n2, k) = "found" =>
              /\ t \in KnownTypes /\ n1 \in NodeIds /\ n2 \in NodeIds
              /\ ~ (relatedCounts[t][<<n1, n2>>] < k)
BY DEF Checked, Outcomes

LEMMA NamedPropertyKinds ==
  ASSUME TypeOK, KeysTyped, NEW t \in Types,
         NEW n1 \in {-1} \cup NodeIds, NEW n2 \in {-1} \cup NodeIds, NEW k,
         \/ \E m \in PropMaps : UpdateRelationshipProperties(t, n1, n2, k, m)
         \/ \E p \in PropNames, v \in Values : UpdateRelationshipProperty(t, n1, n2, k, p, v)
         \/ \E numbered \in BOOLEAN, p \in PropNames :
              DeleteRelationshipProperty(t, n1, n2, k, numbered, p)
  PROVE  (Nothing \/ RelPropsStep) /\ Said
<1> USE DEF Outcomes
<1> DEFINE id == RelationshipKeyId(t, k, n1, n2)
<1> DEFINE answer == Checked(t, n1, n2, k)
<1>1. id \in Int
  <2>1. id \in {-1} \cup Nat BY KeyIdTyped
  <2>2. QED BY <2>1
<1>2. answer # "found" => answer \in Outcomes BY CheckedIs
<1> HIDE DEF id, answer
<1>3. ASSUME NEW m \in PropMaps, UpdateRelationshipProperties(t, n1, n2, k, m)
      PROVE  (Nothing \/ RelPropsStep) /\ Said
  <2> DEFINE call == <<"updateRelationshipProperties", t, n1, n2, k, m>>
  <2> DEFINE props == MapPutAll(RelRec(id).props, m)
  <2>1. CASE Unchanged(call, "refused") BY <2>1, UnchangedIsNothing
  <2>2. CASE answer # "found" /\ Unchanged(call, answer) BY <1>2, <2>2, UnchangedIsNothing
  <2>3. CASE ~ Reserved(m) /\ ChangeProps(call, id, "done", props)
    <3>1. RelUsable(id) => props \in StoredMaps BY <1>1, <2>3, RelRecTyped, MergeStored
    <3> HIDE DEF props
    <3>2. QED BY <1>1, <2>3, <3>1, ChangePropsKind
  <2>4. QED BY <1>3, <2>1, <2>2, <2>3 DEF UpdateRelationshipProperties, id, answer
<1>4. ASSUME NEW p \in PropNames, NEW v \in Values,
             UpdateRelationshipProperty(t, n1, n2, k, p, v)
      PROVE  (Nothing \/ RelPropsStep) /\ Said
  <2> DEFINE call == <<"updateRelationshipProperty", t, n1, n2, k, p, v>>
  <2> DEFINE props == MapPut(RelRec(id).props, p, v)
  <2>1. CASE Unchanged(call, "refused") BY <2>1, UnchangedIsNothing
  <2>2. CASE answer # "found" /\ Unchanged(call, answer) BY <1>2, <2>2, UnchangedIsNothing
  <2>3. CASE p \notin MetaNames /\ ChangeProps(call, id, "done", props)
    <3>1. RelUsable(id) => props \in StoredMaps BY <1>1, <2>3, RelRecTyped, PutStored
    <3> HIDE DEF props
    <3>2. QED BY <1>1, <2>3, <3>1, ChangePropsKind
  <2>4. QED BY <1>4, <2>1, <2>2, <2>3 DEF UpdateRelationshipProperty, id, answer
<1>5. ASSUME NEW numbered \in BOOLEAN, NEW p \in PropNames,
             DeleteRelationshipProperty(t, n1, n2, k, numbered, p)
      PROVE  (Nothing \/ RelPropsStep) /\ Said
  <2> DEFINE call == <<"deleteRelationshipProperty", t, n1, n2, k, numbered, p>>
  <2> DEFINE props == Drop(RelRec(id).props, p)
  <2> DEFINE outcome == IF numbered \/ p \in DOMAIN RelRec(id).props
                        THEN "done" ELSE "refused"
  <2>1. CASE Unchanged(call, "refused") BY <2>1, UnchangedIsNothing
  <2>2. CASE answer # "found" /\ Unchanged(call, answer) BY <1>2, <2>2, UnchangedIsNothing
  <2>3. CASE ChangeProps(call, id, outcome, props)
    <3>1. RelUsable(id) => props \in StoredMaps BY <1>1, RelRecTyped, DropStored
    <3>2. outcome \in Outcomes OBVIOUS
    <3> HIDE DEF props, outcome
    <3>3. QED BY <1>1, <2>3, <3>1, <3>2, ChangePropsKind
  <2>4. QED BY <1>5, <2>1, <2>2, <2>3 DEF DeleteRelationshipProperty, id, answer
<1>6. QED BY <1>3, <1>4, <1>5

LEMMA DeleteRelationshipPropertiesKind ==
  ASSUME TypeOK, KeysTyped, NEW t \in Types,
         NEW n1 \in {-1} \cup NodeIds, NEW n2 \in {-1} \cup NodeIds, NEW k,
         NEW numbered \in BOOLEAN, DeleteRelationshipProperties(t, n1, n2, k, numbered)
  PROVE  (Nothing \/ InsertRelStep) /\ Said
<1> USE DEF Outcomes
<1> DEFINE call == <<"deleteRelationshipProperties", t, n1, n2, k, numbered>>
<1> DEFINE id == RelationshipKeyId(t, k, n1, n2)
<1> DEFINE count == IF numbered THEN relatedCounts[t][<<n1, n2>>] ELSE 0
<1> DEFINE fresh == [id |-> id, type |-> t, from |-> n1, to |-> n2, count |-> count,
                     props |-> NoProps]
<1> DEFINE answer == Checked(t, n1, n2, k)
<1>1. answer # "found" => answer \in Outcomes BY CheckedIs
<1>2. CASE answer # "found" /\ Unchanged(call, answer)
  <2> HIDE DEF answer
  <2>1. QED BY <1>1, <1>2, UnchangedIsNothing
<1>3. CASE Unchanged(call, "threw") BY <1>3, UnchangedIsNothing
<1>4. CASE /\ "deleteRelationshipProperties" \in Ops /\ answer = "found"
           /\ id \in 0 .. Len(relationships)
           /\ relationships' = InsertAt(relationships, id + 1, fresh)
           /\ Return(call, "done", -1)
           /\ UNCHANGED <<nodeVars, relationshipKeys, related, relationshipCounts,
                          relatedCounts>>
  <2>1. t \in KnownTypes /\ n1 \in NodeIds /\ n2 \in NodeIds BY <1>4, CheckedIs
  <2>2. relatedCounts[t][<<n1, n2>>] \in Nat BY <2>1 DEF TypeOK
  <2>3. count \in Int BY <2>2
  <2>4. id \in Nat
    <3>1. Len(relationships) \in Nat BY DEF TypeOK
    <3> HIDE DEF id
    <3>2. QED BY <1>4, <3>1
  <2> HIDE DEF count, id
  <2>5. fresh \in Relationship BY <2>1, <2>3, <2>4, NoPropsStored DEF Relationship
  <2> HIDE DEF fresh
  <2>6. Said BY <1>4 DEF Return, Said
  <2>7. QED BY <1>4, <2>5, <2>6 DEF InsertRelStep
<1>5. QED BY <1>2, <1>3, <1>4 DEF DeleteRelationshipProperties

LEMMA Kinds ==
  ASSUME TypeOK, KeysTyped, [Next]_vars
  PROVE  /\ \/ Nothing \/ AddNodeStep \/ NodePropsStep \/ InsertNodeStep \/ RemoveNodeStep
            \/ LinkStep \/ RemoveByIdStep \/ RemoveNumberStep \/ RelPropsStep
            \/ InsertRelStep
         /\ Said
<1> DEFINE Kind ==
      \/ Nothing \/ AddNodeStep \/ NodePropsStep \/ InsertNodeStep \/ RemoveNodeStep
      \/ LinkStep \/ RemoveByIdStep \/ RemoveNumberStep \/ RelPropsStep
      \/ InsertRelStep
<1>1. \A n \in Names : nodeKeys[n] \in {-1} \cup NodeIds BY DEF TypeOK
<1>2. \A id \in {-1} \cup NodeIds : id \in Int BY DEF NodeIds
<1>3. ASSUME NodeStep PROVE Kind /\ Said
  <2>1. PICK n \in Names :
          \/ \E m \in UserMaps : AddNode(n, m)
          \/ RemoveNode(<<"removeNode", nodeKeys[n]>>, n)
          \/ Detached(n) /\ RemoveNode(<<"removeDetachedNode", nodeKeys[n]>>, n)
          \/ \E m \in PropMaps : UpdateNodeProperties(nodeKeys[n], m)
          \/ \E p \in PropNames, v \in Values : UpdateNodeProperty(nodeKeys[n], p, v)
          \/ \E p \in PropNames : DeleteNodeProperty(nodeKeys[n], p)
          \/ DeleteNodeProperties(nodeKeys[n])
    BY <1>3 DEF NodeStep
  <2>2. CASE \E m \in UserMaps : AddNode(n, m) BY <2>2, AddNodeKind
  <2>3. CASE \/ RemoveNode(<<"removeNode", nodeKeys[n]>>, n)
             \/ Detached(n) /\ RemoveNode(<<"removeDetachedNode", nodeKeys[n]>>, n)
    <3>1. ASSUME RemoveNode(<<"removeNode", nodeKeys[n]>>, n) PROVE "removeNode" \in Ops
      BY <3>1 DEF RemoveNode
    <3>2. QED BY <2>3, <3>1, RemoveNodeKind
  <2>4. CASE \/ \E m \in PropMaps : UpdateNodeProperties(nodeKeys[n], m)
             \/ \E p \in PropNames, v \in Values : UpdateNodeProperty(nodeKeys[n], p, v)
             \/ \E p \in PropNames : DeleteNodeProperty(nodeKeys[n], p)
    BY <1>1, <1>2, <2>4, NodePropertyKinds
  <2>5. CASE DeleteNodeProperties(nodeKeys[n])
    BY <1>1, <2>5, DeleteNodePropertiesKind
  <2>6. QED BY <2>1, <2>2, <2>3, <2>4, <2>5
<1>4. ASSUME PairStep PROVE Kind /\ Said
  <2>1. PICK t \in Types, f \in Names, g \in Names :
          LET n1 == nodeKeys[f]
              n2 == nodeKeys[g]
          IN
            \/ AddRelationship(t, n1, n2)
            \/ \E m \in UserMaps, sent \in {0} \cup SentCounts :
                 AddRelationshipWithProperties(t, n1, n2, m, sent)
            \/ RemoveRelationship(t, n1, n2)
            \/ \E k \in Numbers :
                 \/ RemoveRelationshipNumber(t, n1, n2, k)
                 \/ \E m \in PropMaps : UpdateRelationshipProperties(t, n1, n2, k, m)
                 \/ \E p \in PropNames, v \in Values :
                      UpdateRelationshipProperty(t, n1, n2, k, p, v)
                 \/ \E numbered \in BOOLEAN :
                      /\ numbered \/ k = 1
                      /\ \/ \E p \in PropNames :
                              DeleteRelationshipProperty(t, n1, n2, k, numbered, p)
                         \/ DeleteRelationshipProperties(t, n1, n2, k, numbered)
    BY <1>4 DEF PairStep
  <2> DEFINE n1 == nodeKeys[f]
  <2> DEFINE n2 == nodeKeys[g]
  <2>2. n1 \in {-1} \cup NodeIds /\ n2 \in {-1} \cup NodeIds BY <1>1
  <2> HIDE DEF n1, n2
  <2>3. CASE \/ AddRelationship(t, n1, n2)
             \/ \E m \in UserMaps, sent \in {0} \cup SentCounts :
                  AddRelationshipWithProperties(t, n1, n2, m, sent)
    BY <2>2, <2>3, LinkKinds
  <2>4. CASE \/ RemoveRelationship(t, n1, n2)
             \/ \E k \in Numbers : RemoveRelationshipNumber(t, n1, n2, k)
    BY <2>2, <2>4, RemoveNumberKinds
  <2>5. ASSUME NEW k \in Numbers,
               \/ \E m \in PropMaps : UpdateRelationshipProperties(t, n1, n2, k, m)
               \/ \E p \in PropNames, v \in Values :
                    UpdateRelationshipProperty(t, n1, n2, k, p, v)
               \/ \E numbered \in BOOLEAN, p \in PropNames :
                    DeleteRelationshipProperty(t, n1, n2, k, numbered, p)
        PROVE  Kind /\ Said
    BY <2>2, <2>5, NamedPropertyKinds
  <2>6. ASSUME NEW k \in Numbers, NEW numbered \in BOOLEAN,
               DeleteRelationshipProperties(t, n1, n2, k, numbered)
        PROVE  Kind /\ Said
    BY <2>2, <2>6, DeleteRelationshipPropertiesKind
  <2> HIDE DEF Kind
  <2>7. QED BY <2>1, <2>3, <2>4, <2>5, <2>6 DEF n1, n2, Kind
<1>5. ASSUME IdStep PROVE Kind /\ Said
  <2>1. PICK id \in 0 .. Len(relationships) - 1 :
          \/ RemoveRelationshipById(id)
          \/ \E m \in PropMaps : UpdateRelationshipPropertiesById(id, m)
          \/ \E p \in PropNames, v \in Values : UpdateRelationshipPropertyById(id, p, v)
          \/ \E p \in PropNames : DeleteRelationshipPropertyById(id, p)
          \/ DeleteRelationshipPropertiesById(id)
    BY <1>5 DEF IdStep
  <2>2. id \in Int BY DEF TypeOK
  <2>3. CASE RemoveRelationshipById(id) BY <2>2, <2>3, RemoveByIdKind
  <2>4. CASE \/ \E m \in PropMaps : UpdateRelationshipPropertiesById(id, m)
             \/ \E p \in PropNames, v \in Values : UpdateRelationshipPropertyById(id, p, v)
             \/ \E p \in PropNames : DeleteRelationshipPropertyById(id, p)
             \/ DeleteRelationshipPropertiesById(id)
    BY <2>2, <2>4, IdPropertyKinds
  <2>5. QED BY <2>1, <2>3, <2>4
<1>6. ASSUME UNCHANGED vars PROVE Kind /\ Said
  BY <1>6 DEF vars, Nothing, nodeVars, relVars, Said, TypeOK
<1>7. QED BY <1>3, <1>4, <1>5, <1>6 DEF Next

-----------------------------------------------------------------------------
(* Types.  The lists of the indices and the relationship keys hold only ids  *)
(* that have been allocated: without that the operations that follow them    *)
(* would not keep the types.                                                 *)

RelIds == 0 .. Len(relationships) - 1

IndexTyped == \A t \in KnownTypes : related[t] \in Index(NodeIds, RelIds)

KeysAllocated ==
  \A key \in DOMAIN relationshipKeys :
    \A pair \in DOMAIN relationshipKeys[key] : relationshipKeys[key][pair] \in RelIds

TypeInv == TypeOK /\ IndexTyped /\ KeysAllocated

NodesTyped ==
  /\ nodeKeys \in [Names -> {-1} \cup NodeIds]
  /\ nodes \in Seq(Node \cup {Null})
  /\ deletedNodes \subseteq NodeIds

ListTyped == relationships \in Seq(Relationship \cup {Null})

CountsTyped ==
  /\ KnownTypes \subseteq Types
  /\ DOMAIN relationshipCounts = KnownTypes
  /\ DOMAIN relatedCounts = KnownTypes
  /\ \A t \in KnownTypes :
       /\ relationshipCounts[t] \in Int
       /\ relatedCounts[t] \in [NodeIds \X NodeIds -> Nat]

KeyTypesTyped == \A key \in DOMAIN relationshipKeys : key[1] \in Types

LEMMA TypeOKParts ==
  TypeOK <=> /\ NodesTyped /\ ListTyped /\ CountsTyped /\ KeyTypesTyped
             /\ result.outcome \in Outcomes
BY DEF TypeOK, NodesTyped, ListTyped, CountsTyped, KeyTypesTyped

LEMMA KeysAllocatedTyped ==
  ASSUME TypeOK, KeysAllocated
  PROVE  KeysTyped
BY DEF TypeOK, KeysAllocated, KeysTyped, RelIds

LEMMA Replaced ==
  ASSUME NEW S, NEW s \in Seq(S), NEW i, NEW e \in S
  PROVE  [s EXCEPT ![i] = e] \in Seq(S) /\ Len([s EXCEPT ![i] = e]) = Len(s)
<1>1. CASE i \in DOMAIN s BY <1>1
<1>2. CASE i \notin DOMAIN s
  <2>1. [s EXCEPT ![i] = e] = s BY <1>2
  <2>2. QED BY <2>1
<1>3. QED BY <1>1, <1>2

LEMMA IndexMore ==
  ASSUME NEW ids, NEW rels, NEW more, rels \subseteq more, NEW m \in Index(ids, rels)
  PROVE  m \in Index(ids, more)
<1>1. Seq(rels) \subseteq Seq(more) OBVIOUS
<1>2. QED BY <1>1 DEF Index

LEMMA NulledIs ==
  ASSUME ListTyped, NEW ids
  PROVE  /\ Nulled(ids) \in Seq(Relationship \cup {Null})
         /\ Len(Nulled(ids)) = Len(relationships)
         /\ \A i \in DOMAIN relationships :
              Nulled(ids)[i] = IF i - 1 \in ids THEN Null ELSE relationships[i]
<1>1. relationships \in Seq(Relationship \cup {Null}) BY DEF ListTyped
<1>2. Len(relationships) \in Nat /\ DOMAIN relationships = 1 .. Len(relationships) BY <1>1
<1>3. \A i \in DOMAIN relationships : relationships[i] \in Relationship \cup {Null} BY <1>1
<1>4. QED BY <1>2, <1>3 DEF Nulled

(* The relationship keys *)

Has(keys, key, pair) == key \in DOMAIN keys /\ pair \in DOMAIN keys[key]

\* new holds what keys held, and id for this key.
IsPut(keys, new, t, k, n1, n2, id) ==
  /\ DOMAIN new = DOMAIN keys \cup {<<t, k>>}
  /\ \A key, pair :
       /\ Has(new, key, pair) <=>
            Has(keys, key, pair) \/ (key = <<t, k>> /\ pair = <<n1, n2>>)
       /\ key = <<t, k>> /\ pair = <<n1, n2>> => new[key][pair] = id
       /\ Has(keys, key, pair) /\ ~ (key = <<t, k>> /\ pair = <<n1, n2>>) =>
            new[key][pair] = keys[key][pair]

\* new holds what keys held, but nothing for this key.
IsDrop(keys, new, t, k, n1, n2) ==
  /\ DOMAIN new = DOMAIN keys
  /\ \A key, pair :
       /\ Has(new, key, pair) <=>
            Has(keys, key, pair) /\ ~ (key = <<t, k>> /\ pair = <<n1, n2>>)
       /\ Has(new, key, pair) => new[key][pair] = keys[key][pair]

LEMMA PutKeyIs ==
  ASSUME NEW t, NEW k, NEW n1, NEW n2, NEW id
  PROVE  IsPut(relationshipKeys, PutKey(relationshipKeys, t, k, n1, n2, id), t, k, n1, n2, id)
<1> DEFINE new == PutKey(relationshipKeys, t, k, n1, n2, id)
<1> DEFINE mine == <<t, k>>
<1> DEFINE ends == <<n1, n2>>
<1> DEFINE old == KeyMap(t, k)
<1> DEFINE map == MapPut(old, ends, id)
<1>1. new = MapPut(relationshipKeys, mine, map) BY DEF PutKey
<1>2. old = IF mine \in DOMAIN relationshipKeys THEN relationshipKeys[mine] ELSE <<>>
  BY DEF KeyMap
<1>3. DOMAIN <<>> = {} OBVIOUS
<1> HIDE DEF new, mine, ends, old
<1>4. /\ DOMAIN map = DOMAIN old \cup {ends} /\ map[ends] = id
      /\ \A pair \in DOMAIN old : pair # ends => map[pair] = old[pair]
  BY DEF MapPut
<1> HIDE DEF map
<1>5. /\ DOMAIN new = DOMAIN relationshipKeys \cup {mine} /\ new[mine] = map
      /\ \A key \in DOMAIN relationshipKeys : key # mine => new[key] = relationshipKeys[key]
  BY <1>1 DEF MapPut
<1>6. ASSUME NEW key, NEW pair
      PROVE  /\ Has(new, key, pair) <=>
                  Has(relationshipKeys, key, pair) \/ (key = mine /\ pair = ends)
             /\ key = mine /\ pair = ends => new[key][pair] = id
             /\ Has(relationshipKeys, key, pair) /\ ~ (key = mine /\ pair = ends) =>
                  new[key][pair] = relationshipKeys[key][pair]
  <2>1. CASE key = mine BY <1>2, <1>3, <1>4, <1>5, <2>1 DEF Has
  <2>2. CASE key # mine BY <1>5, <2>2 DEF Has
  <2>3. QED BY <2>1, <2>2
<1>7. QED BY <1>5, <1>6 DEF new, mine, ends, IsPut

LEMMA DropKeyIs ==
  ASSUME NEW keys, NEW t, NEW k, NEW n1, NEW n2
  PROVE  IsDrop(keys, DropKey(keys, t, k, n1, n2), t, k, n1, n2)
<1> DEFINE new == DropKey(keys, t, k, n1, n2)
<1> DEFINE mine == <<t, k>>
<1> DEFINE ends == <<n1, n2>>
<1>1. new = [key \in DOMAIN keys |-> IF key = mine THEN Drop(keys[key], ends) ELSE keys[key]]
  BY DEF DropKey
<1> HIDE DEF new, mine, ends
<1>2. DOMAIN new = DOMAIN keys BY <1>1
<1>3. ASSUME NEW key, NEW pair
      PROVE  /\ Has(new, key, pair) <=>
                  Has(keys, key, pair) /\ ~ (key = mine /\ pair = ends)
             /\ Has(new, key, pair) => new[key][pair] = keys[key][pair]
  <2>1. CASE key \notin DOMAIN keys BY <1>2, <2>1 DEF Has
  <2>2. CASE key \in DOMAIN keys /\ key = mine
    <3>1. new[key] = Drop(keys[key], ends) BY <1>1, <2>2
    <3>2. /\ DOMAIN Drop(keys[key], ends) = DOMAIN keys[key] \ {ends}
          /\ \A y \in DOMAIN keys[key] \ {ends} : Drop(keys[key], ends)[y] = keys[key][y]
      BY DropIs
    <3>3. QED BY <1>2, <2>2, <3>1, <3>2 DEF Has
  <2>3. CASE key \in DOMAIN keys /\ key # mine BY <1>1, <1>2, <2>3 DEF Has
  <2>4. QED BY <2>1, <2>2, <2>3
<1>4. QED BY <1>2, <1>3 DEF new, mine, ends, IsDrop

(* The nodes *)

LEMMA NodesStayTyped ==
  ASSUME NodesTyped,
         AddNodeStep \/ NodePropsStep \/ InsertNodeStep \/ RemoveNodeStep
  PROVE  NodesTyped'
<1>1. nodes \in Seq(Node \cup {Null}) BY DEF NodesTyped
<1>2. CASE AddNodeStep
  <2>1. PICK name \in Names, id \in NodeIds, props \in StoredMaps :
          /\ nodeKeys' = [nodeKeys EXCEPT ![name] = id]
          /\ \/ /\ nodes' = Append(nodes, [id |-> id, name |-> name, props |-> props])
                /\ UNCHANGED deletedNodes
             \/ /\ nodes' = [nodes EXCEPT ![id + 1] =
                               [id |-> id, name |-> name, props |-> props]]
                /\ deletedNodes' = deletedNodes \ {id}
    BY <1>2 DEF AddNodeStep
  <2> DEFINE rec == [id |-> id, name |-> name, props |-> props]
  <2>2. rec \in Node BY DEF Node
  <2> HIDE DEF rec
  <2>3. nodes' \in Seq(Node \cup {Null})
    <3>1. Append(nodes, rec) \in Seq(Node \cup {Null}) BY <1>1, <2>2
    <3>2. [nodes EXCEPT ![id + 1] = rec] \in Seq(Node \cup {Null}) BY <1>1, <2>2, Replaced
    <3>3. QED BY <2>1, <3>1, <3>2 DEF rec
  <2>4. nodeKeys' \in [Names -> {-1} \cup NodeIds] BY <2>1 DEF NodesTyped
  <2>5. deletedNodes' \subseteq NodeIds BY <2>1 DEF NodesTyped
  <2>6. QED BY <2>3, <2>4, <2>5 DEF NodesTyped
<1>3. CASE NodePropsStep
  <2>1. PICK id \in Int, props \in StoredMaps :
          NodeUsable(id) /\ nodes' = [nodes EXCEPT ![id + 1].props = props]
    BY <1>3 DEF NodePropsStep
  <2>2. id + 1 \in DOMAIN nodes /\ nodes[id + 1] \in Node
    BY <1>1, <2>1 DEF NodeUsable, NodeRec
  <2> DEFINE rec == [nodes[id + 1] EXCEPT !.props = props]
  <2>3. rec \in Node BY <2>2 DEF Node
  <2>4. nodes' = [nodes EXCEPT ![id + 1] = rec] BY <2>1
  <2> HIDE DEF rec
  <2>5. nodes' \in Seq(Node \cup {Null}) BY <1>1, <2>2, <2>3, <2>4, Replaced
  <2>6. QED BY <1>3, <2>5 DEF NodePropsStep, NodesTyped
<1>4. CASE InsertNodeStep
  <2>1. PICK id \in Int :
          /\ NodeUsable(id) /\ id \in NodeIds
          /\ nodes' = InsertAt([nodes EXCEPT ![id + 1].id = id], id + 1,
                               [id |-> -1, name |-> Null, props |-> NoProps])
    BY <1>4 DEF InsertNodeStep
  <2>2. id + 1 \in DOMAIN nodes /\ nodes[id + 1] \in Node
    BY <1>1, <2>1 DEF NodeUsable, NodeRec
  <2> DEFINE rec == [nodes[id + 1] EXCEPT !.id = id]
  <2> DEFINE fresh == [id |-> -1, name |-> Null, props |-> NoProps]
  <2> DEFINE list == [nodes EXCEPT ![id + 1] = rec]
  <2>3. rec \in Node BY <2>1, <2>2 DEF Node
  <2>4. fresh \in Node BY NoPropsStored DEF Node
  <2>5. nodes' = InsertAt(list, id + 1, fresh) BY <2>1
  <2> HIDE DEF rec, fresh
  <2>6. list \in Seq(Node \cup {Null}) /\ Len(list) = Len(nodes) BY <1>1, <2>2, <2>3, Replaced
  <2>7. id + 1 \in 1 .. Len(list) + 1 BY <1>1, <2>2, <2>6
  <2> HIDE DEF list
  <2>8. nodes' \in Seq(Node \cup {Null}) BY <2>4, <2>5, <2>6, <2>7, InsertedAt
  <2>9. QED BY <1>4, <2>8 DEF InsertNodeStep, NodesTyped
<1>5. CASE RemoveNodeStep
  <2>1. PICK name \in Names :
          /\ nodeKeys[name] # -1
          /\ nodes' = [nodes EXCEPT ![nodeKeys[name] + 1] = Null]
          /\ deletedNodes' = deletedNodes \cup {nodeKeys[name]}
          /\ nodeKeys' = ForgetKey(name) \/ UNCHANGED nodeKeys
    BY <1>5 DEF RemoveNodeStep, RemoveNodeDone, RemoveNodeThrows
  <2>2. nodeKeys[name] \in NodeIds BY <2>1 DEF NodesTyped
  <2>3. nodes' \in Seq(Node \cup {Null}) BY <1>1, <2>1, Replaced
  <2>4. nodeKeys' \in [Names -> {-1} \cup NodeIds] BY <2>1 DEF NodesTyped, ForgetKey
  <2>5. QED BY <2>1, <2>2, <2>3, <2>4 DEF NodesTyped
<1>6. QED BY <1>2, <1>3, <1>4, <1>5

(* The relationships *)

RelsInv == ListTyped /\ CountsTyped /\ KeyTypesTyped /\ IndexTyped /\ KeysAllocated

\* What a graph still has after clear(), which leaves the keys of old ids.
RelsTyped == ListTyped /\ CountsTyped /\ KeyTypesTyped /\ IndexTyped

LEMMA RelsInvIs ==
  /\ RelsInv <=> RelsTyped /\ KeysAllocated
  /\ RelsInv' <=> RelsTyped' /\ KeysAllocated'
BY DEF RelsInv, RelsTyped

LEMMA DetachEffect ==
  ASSUME ListTyped, IndexTyped, NEW done \in SUBSET KnownTypes, NEW id \in NodeIds,
         DetachTypes(done, id)
  PROVE  /\ ListTyped' /\ Len(relationships)' = Len(relationships)
         /\ KnownTypes' = KnownTypes
         /\ IndexTyped'
<1>1. \E ids : relationships' = Nulled(ids) BY DEF DetachTypes
<1>2. ListTyped' /\ Len(relationships)' = Len(relationships)
  BY <1>1, NulledIs DEF ListTyped
<1>3. related' = [t \in KnownTypes |-> IF t \in done THEN RemoveAll(related[t], id)
                                       ELSE related[t]]
  BY DEF DetachTypes
<1>4. KnownTypes' = KnownTypes BY <1>3 DEF KnownTypes
<1>5. ASSUME NEW t \in KnownTypes PROVE related'[t] \in Index(NodeIds, RelIds)
  <2>1. related[t] \in Index(NodeIds, RelIds) BY DEF IndexTyped
  <2>2. RemoveAll(related[t], id) \in Index(NodeIds, RelIds)
    <3>1. AllRemoved(NodeIds, RelIds, related[t], id, RemoveAll(related[t], id))
      BY <2>1, RemoveAllEffect
    <3>2. QED BY <3>1 DEF AllRemoved
  <2>3. related'[t] = IF t \in done THEN RemoveAll(related[t], id) ELSE related[t]
    BY <1>3
  <2>4. QED BY <2>1, <2>2, <2>3
<1>6. RelIds' = RelIds BY <1>2 DEF RelIds
<1>7. QED BY <1>2, <1>4, <1>5, <1>6 DEF IndexTyped

LEMMA RemoveNodeTyped ==
  ASSUME NodesTyped, RelsTyped, RemoveNodeStep
  PROVE  RelsTyped' /\ (KeysAllocated => KeysAllocated')
<1>c1. PICK name \in Names :
        \E call : RemoveNodeDone(call, name) \/ RemoveNodeThrows(call, name)
  BY DEF RemoveNodeStep
<1>1. PICK call : RemoveNodeDone(call, name) \/ RemoveNodeThrows(call, name) BY <1>c1
<1> DEFINE id == nodeKeys[name]
<1>2. \E done \in SUBSET KnownTypes, counted \in SUBSET KnownTypes :
        /\ id # -1
        /\ DetachTypes(done, id) /\ Discount(counted, id)
        /\ UNCHANGED <<relationshipKeys, relatedCounts>>
  <2>1. CASE RemoveNodeDone(call, name) BY <2>1 DEF RemoveNodeDone
  <2>2. CASE RemoveNodeThrows(call, name)
    <3>1. PICK done \in SUBSET KnownTypes, bad \in KnownTypes :
            DetachTypes(done \cup {bad}, id) /\ Discount(done, id)
      BY <2>2 DEF RemoveNodeThrows
    <3>2. done \cup {bad} \in SUBSET KnownTypes OBVIOUS
    <3>3. id # -1 /\ UNCHANGED <<relationshipKeys, relatedCounts>>
      BY <2>2 DEF RemoveNodeThrows
    <3>4. QED BY <3>1, <3>2, <3>3
  <2>3. QED BY <1>1, <2>1, <2>2
<1>3. PICK done \in SUBSET KnownTypes, counted \in SUBSET KnownTypes :
        /\ id # -1
        /\ DetachTypes(done, id) /\ Discount(counted, id)
        /\ UNCHANGED <<relationshipKeys, relatedCounts>>
  BY <1>2
<1>4. id \in NodeIds BY <1>3 DEF NodesTyped
<1> HIDE DEF id
<1>5. /\ ListTyped' /\ Len(relationships)' = Len(relationships)
      /\ KnownTypes' = KnownTypes /\ IndexTyped'
  BY <1>3, <1>4, DetachEffect DEF RelsTyped
<1>6. relationshipCounts' =
        [t \in KnownTypes |->
           IF t \in counted
           THEN relationshipCounts[t]
                - (Len(related[t].from2rel[id]) + Len(related[t].to2rel[id]))
           ELSE relationshipCounts[t]]
  BY <1>3 DEF Discount
<1>7. ASSUME NEW t \in KnownTypes PROVE relationshipCounts'[t] \in Int
  <2>1. related[t] \in Index(NodeIds, RelIds) BY DEF RelsTyped, IndexTyped
  <2>2. related[t].from2rel[id] \in Seq(RelIds) /\ related[t].to2rel[id] \in Seq(RelIds)
    BY <1>4, <2>1 DEF Index
  <2> DEFINE a == Len(related[t].from2rel[id])
  <2> DEFINE b == Len(related[t].to2rel[id])
  <2> DEFINE c == relationshipCounts[t]
  <2>3. a \in Nat /\ b \in Nat BY <2>2
  <2>4. c \in Int BY DEF RelsTyped, CountsTyped
  <2>5. relationshipCounts'[t] = IF t \in counted THEN c - (a + b) ELSE c BY <1>6
  <2> HIDE DEF a, b, c
  <2>6. QED BY <2>3, <2>4, <2>5
<1>8. CountsTyped'
  BY <1>3, <1>5, <1>6, <1>7 DEF RelsTyped, CountsTyped
<1>9. KeyTypesTyped' /\ (KeysAllocated => KeysAllocated')
  BY <1>3, <1>5 DEF RelsTyped, KeysAllocated, KeyTypesTyped, RelIds
<1>10. QED BY <1>5, <1>8, <1>9 DEF RelsTyped

\* What a new relationship changes.
Linked(t, n1, n2, shown, props) ==
  /\ ListTyped' /\ Len(relationships)' = Len(relationships) + 1
  /\ \A i \in DOMAIN relationships : relationships'[i] = relationships[i]
  /\ relationships'[Len(relationships) + 1] =
       [id |-> Len(relationships), type |-> t, from |-> n1, to |-> n2,
        count |-> shown, props |-> props]
  /\ KnownTypes' = KnownTypes \cup {t}
  /\ RelatedOf(t) \in Index(NodeIds, RelIds)
  /\ related'[t] = Put(RelatedOf(t), n1, n2, Len(relationships))
  /\ \A u \in KnownTypes : u # t => related'[u] = related[u]
  /\ PairCounts(t) \in [NodeIds \X NodeIds -> Nat]
  /\ DOMAIN relatedCounts' = KnownTypes \cup {t}
  /\ relatedCounts'[t] = [PairCounts(t) EXCEPT ![<<n1, n2>>] = @ + 1]
  /\ \A u \in KnownTypes : u # t => relatedCounts'[u] = relatedCounts[u]

LEMMA LinkEffect ==
  ASSUME RelsTyped, NEW t \in Types, NEW n1 \in NodeIds, NEW n2 \in NodeIds, NEW shown \in Int,
         NEW props \in StoredMaps, NEW call, Link(call, t, n1, n2, shown, props)
  PROVE  Linked(t, n1, n2, shown, props)
<1>1. relationships \in Seq(Relationship \cup {Null}) BY DEF RelsTyped, ListTyped
<1> DEFINE id == Len(relationships)
<1> DEFINE rel == [id |-> id, type |-> t, from |-> n1, to |-> n2,
                   count |-> shown, props |-> props]
<1>2. id \in Nat BY <1>1
<1>3. rel \in Relationship BY <1>2 DEF Relationship
<1>4. relationships' = Append(relationships, rel) BY DEF Link, NextRelId
<1> HIDE DEF rel
<1>5. /\ ListTyped' /\ Len(relationships)' = id + 1
      /\ \A i \in DOMAIN relationships : relationships'[i] = relationships[i]
      /\ relationships'[id + 1] = rel
  BY <1>1, <1>3, <1>4 DEF ListTyped
<1>6. RelatedOf(t) \in Index(NodeIds, RelIds)
  BY NewMapTyped DEF RelsTyped, IndexTyped, RelatedOf
<1>7. related' = MapPut(related, t, Put(RelatedOf(t), n1, n2, id)) BY DEF Link, NextRelId
<1>8. /\ KnownTypes' = KnownTypes \cup {t}
      /\ related'[t] = Put(RelatedOf(t), n1, n2, id)
      /\ \A u \in KnownTypes : u # t => related'[u] = related[u]
  BY <1>7 DEF KnownTypes, MapPut
<1>9. PairCounts(t) \in [NodeIds \X NodeIds -> Nat]
  BY DEF RelsTyped, CountsTyped, PairCounts
<1>10. relatedCounts' = MapPut(relatedCounts, t, [PairCounts(t) EXCEPT ![<<n1, n2>>] =
                                                   PairCounts(t)[<<n1, n2>>] + 1])
  BY DEF Link, NextNumber
<1>11. DOMAIN relatedCounts = KnownTypes BY DEF RelsTyped, CountsTyped
<1>12. /\ DOMAIN relatedCounts' = KnownTypes \cup {t}
       /\ relatedCounts'[t] = [PairCounts(t) EXCEPT ![<<n1, n2>>] = @ + 1]
       /\ \A u \in KnownTypes : u # t => relatedCounts'[u] = relatedCounts[u]
  BY <1>10, <1>11 DEF MapPut
<1>13. QED BY <1>5, <1>6, <1>8, <1>9, <1>12 DEF rel, Linked

LEMMA LinkTyped ==
  ASSUME RelsTyped, LinkStep
  PROVE  RelsTyped' /\ (KeysAllocated => KeysAllocated')
<1>c1. PICK t \in Types, n1 \in NodeIds, n2 \in NodeIds, shown \in Int, props \in StoredMaps :
        \E call : Link(call, t, n1, n2, shown, props)
  BY DEF LinkStep
<1>1. PICK call : Link(call, t, n1, n2, shown, props) BY <1>c1
<1> DEFINE id == Len(relationships)
<1>2. /\ ListTyped' /\ Len(relationships)' = id + 1
      /\ KnownTypes' = KnownTypes \cup {t}
      /\ RelatedOf(t) \in Index(NodeIds, RelIds)
      /\ related'[t] = Put(RelatedOf(t), n1, n2, id)
      /\ \A u \in KnownTypes : u # t => related'[u] = related[u]
      /\ PairCounts(t) \in [NodeIds \X NodeIds -> Nat]
      /\ DOMAIN relatedCounts' = KnownTypes \cup {t}
      /\ relatedCounts'[t] = [PairCounts(t) EXCEPT ![<<n1, n2>>] = @ + 1]
      /\ \A u \in KnownTypes : u # t => relatedCounts'[u] = relatedCounts[u]
  <2>1. Linked(t, n1, n2, shown, props) BY <1>1, LinkEffect
  <2>2. QED BY <2>1 DEF Linked
<1>3. id \in Nat BY DEF RelsTyped, ListTyped
<1>4. RelIds \subseteq RelIds' /\ id \in RelIds' BY <1>2, <1>3 DEF RelIds
<1>5. ASSUME NEW u \in KnownTypes' PROVE related'[u] \in Index(NodeIds, RelIds')
  <2>1. CASE u = t
    <3>1. RelatedOf(t) \in Index(NodeIds, RelIds') BY <1>2, <1>4, IndexMore
    <3>2. Put(RelatedOf(t), n1, n2, id) \in Index(NodeIds, RelIds')
      BY <1>4, <3>1, PutTyped
    <3>3. QED BY <1>2, <2>1, <3>2
  <2>2. CASE u # t
    <3>1. u \in KnownTypes /\ related'[u] = related[u] BY <1>2, <2>2
    <3>2. related[u] \in Index(NodeIds, RelIds) BY <3>1 DEF RelsTyped, IndexTyped
    <3>3. QED BY <1>4, <3>1, <3>2, IndexMore
  <2>3. QED BY <2>1, <2>2
<1>6. IndexTyped' BY <1>5 DEF IndexTyped
<1>7. relationshipCounts' = MapPut(relationshipCounts, t, TypeCount(t) + 1)
  BY <1>1 DEF Link
<1>8. TypeCount(t) + 1 \in Int BY DEF RelsTyped, CountsTyped, TypeCount
<1>9. CountsTyped'
  <2>1. DOMAIN relationshipCounts' = KnownTypes'
    BY <1>2, <1>7 DEF MapPut, RelsTyped, CountsTyped
  <2>2. \A u \in KnownTypes' : relationshipCounts'[u] \in Int
    BY <1>2, <1>7, <1>8 DEF MapPut, RelsTyped, CountsTyped
  <2>3. relatedCounts'[t] \in [NodeIds \X NodeIds -> Nat] BY <1>2
  <2>4. \A u \in KnownTypes' : relatedCounts'[u] \in [NodeIds \X NodeIds -> Nat]
    BY <1>2, <2>3 DEF RelsTyped, CountsTyped
  <2>5. QED BY <1>2, <2>1, <2>2, <2>4 DEF RelsTyped, CountsTyped
<1>10. KeyTypesTyped' /\ (KeysAllocated => KeysAllocated')
  <2> DEFINE k == NextNumber(t, n1, n2)
  <2>1. relationshipKeys' = PutKey(relationshipKeys, t, k, n1, n2, id)
    BY <1>1 DEF Link, NextRelId
  <2> HIDE DEF k
  <2>2. /\ DOMAIN relationshipKeys' = DOMAIN relationshipKeys \cup {<<t, k>>}
        /\ \A key, pair :
             /\ Has(relationshipKeys', key, pair) <=>
                  Has(relationshipKeys, key, pair) \/ (key = <<t, k>> /\ pair = <<n1, n2>>)
             /\ key = <<t, k>> /\ pair = <<n1, n2>> => relationshipKeys'[key][pair] = id
             /\ Has(relationshipKeys, key, pair) /\ ~ (key = <<t, k>> /\ pair = <<n1, n2>>) =>
                  relationshipKeys'[key][pair] = relationshipKeys[key][pair]
    <3>1. IsPut(relationshipKeys, relationshipKeys', t, k, n1, n2, id) BY <2>1, PutKeyIs
    <3>2. QED BY <3>1 DEF IsPut
  <2>5. ASSUME KeysAllocated PROVE KeysAllocated'
    <3>1. \A key, pair : Has(relationshipKeys, key, pair) =>
            relationshipKeys[key][pair] \in RelIds
      BY <2>5 DEF KeysAllocated, Has
    <3>2. \A key, pair : Has(relationshipKeys', key, pair) =>
            relationshipKeys'[key][pair] \in RelIds'
      BY <1>4, <2>2, <3>1
    <3>3. QED BY <3>2 DEF KeysAllocated, Has
  <2>6. <<t, k>>[1] = t OBVIOUS
  <2>7. KeyTypesTyped' BY <2>2, <2>6 DEF RelsTyped, KeyTypesTyped
  <2>8. QED BY <2>5, <2>7
<1>11. QED BY <1>2, <1>6, <1>9, <1>10 DEF RelsTyped

\* Setting the properties or the number of one map.
LEMMA MapReplaced ==
  ASSUME NEW list \in Seq(Relationship \cup {Null}), NEW i, list[i] \in Relationship,
         NEW new, \/ \E props \in StoredMaps : new = [list EXCEPT ![i].props = props]
                  \/ \E count \in Int : new = [list EXCEPT ![i].count = count]
  PROVE  /\ new \in Seq(Relationship \cup {Null}) /\ Len(new) = Len(list)
         /\ \A j \in DOMAIN list : j # i => new[j] = list[j]
         /\ i \in DOMAIN list =>
              /\ new[i] \in Relationship
              /\ new[i].id = list[i].id /\ new[i].type = list[i].type
              /\ new[i].from = list[i].from /\ new[i].to = list[i].to
<1> DEFINE r == list[i]
<1>1. PICK rec \in Relationship :
        /\ new = [list EXCEPT ![i] = rec]
        /\ rec.id = r.id /\ rec.type = r.type /\ rec.from = r.from /\ rec.to = r.to
  <2>1. ASSUME NEW props \in StoredMaps, new = [list EXCEPT ![i].props = props]
        PROVE  /\ new = [list EXCEPT ![i] = [r EXCEPT !.props = props]]
               /\ [r EXCEPT !.props = props] \in Relationship
               /\ LET q == [r EXCEPT !.props = props] IN
                  q.id = r.id /\ q.type = r.type /\ q.from = r.from /\ q.to = r.to
    BY <2>1 DEF Relationship
  <2>2. ASSUME NEW count \in Int, new = [list EXCEPT ![i].count = count]
        PROVE  /\ new = [list EXCEPT ![i] = [r EXCEPT !.count = count]]
               /\ [r EXCEPT !.count = count] \in Relationship
               /\ LET q == [r EXCEPT !.count = count] IN
                  q.id = r.id /\ q.type = r.type /\ q.from = r.from /\ q.to = r.to
    BY <2>2 DEF Relationship
  <2>3. QED BY <2>1, <2>2
<1> DEFINE S == Relationship \cup {Null}
<1>2. rec \in S /\ list \in Seq(S) OBVIOUS
<1> HIDE DEF S
<1>3. /\ [list EXCEPT ![i] = rec] \in Seq(S)
      /\ Len([list EXCEPT ![i] = rec]) = Len(list)
  BY <1>2, Replaced
<1>4. new \in Seq(S) /\ Len(new) = Len(list) BY <1>1, <1>3
<1>5. QED BY <1>1, <1>4 DEF S

LEMMA RelPropsTyped ==
  ASSUME RelsTyped, RelPropsStep
  PROVE  RelsTyped' /\ (KeysAllocated => KeysAllocated')
<1>1. PICK id \in Int, props \in StoredMaps :
        RelUsable(id) /\ relationships' = [relationships EXCEPT ![id + 1].props = props]
  BY DEF RelPropsStep
<1>2. relationships[id + 1] \in Relationship /\ relationships \in Seq(Relationship \cup {Null})
  BY <1>1 DEF RelsTyped, ListTyped, RelUsable, RelRec
<1>3. ListTyped' /\ Len(relationships)' = Len(relationships)
  BY <1>1, <1>2, MapReplaced DEF ListTyped
<1>4. RelIds' = RelIds BY <1>3 DEF RelIds
<1>5. UNCHANGED <<relationshipKeys, related, relationshipCounts, relatedCounts>>
  BY DEF RelPropsStep
<1>6. CountsTyped' /\ KeyTypesTyped' /\ IndexTyped' /\ (KeysAllocated => KeysAllocated')
  BY <1>4, <1>5 DEF RelsTyped, CountsTyped, KeyTypesTyped, IndexTyped, KeysAllocated, KnownTypes
<1>7. QED BY <1>3, <1>6 DEF RelsTyped

LEMMA InsertRelTyped ==
  ASSUME RelsInv, InsertRelStep
  PROVE  RelsInv' /\ Len(relationships)' = Len(relationships) + 1
<1>1. PICK id \in 0 .. Len(relationships), rel \in Relationship :
        relationships' = InsertAt(relationships, id + 1, rel)
  BY DEF InsertRelStep
<1>2. relationships \in Seq(Relationship \cup {Null}) BY DEF RelsInv, ListTyped
<1> DEFINE j == id + 1
<1> DEFINE S == Relationship \cup {Null}
<1>3. j \in 1 .. Len(relationships) + 1 /\ rel \in S /\ relationships \in Seq(S) BY <1>2
<1>4. ListTyped' /\ Len(relationships)' = Len(relationships) + 1
  <2>1. relationships' = InsertAt(relationships, j, rel) BY <1>1
  <2> HIDE DEF j, S
  <2>2. relationships' \in Seq(S) /\ Len(relationships)' = Len(relationships) + 1
    BY <1>3, <2>1, InsertedAt
  <2>3. QED BY <2>2 DEF S, ListTyped
<1>5. RelIds \subseteq RelIds' BY <1>2, <1>4 DEF RelIds
<1>6. UNCHANGED <<relationshipKeys, related, relationshipCounts, relatedCounts>>
  BY DEF InsertRelStep
<1>7. CountsTyped' /\ KeyTypesTyped' /\ KeysAllocated'
  BY <1>5, <1>6 DEF RelsInv, CountsTyped, KeyTypesTyped, KeysAllocated, KnownTypes
<1>8. IndexTyped'
  <2>1. \A t \in KnownTypes : related[t] \in Index(NodeIds, RelIds')
    BY <1>5, IndexMore DEF RelsInv, IndexTyped
  <2>2. QED BY <1>6, <2>1 DEF IndexTyped, KnownTypes
<1>9. QED BY <1>4, <1>7, <1>8 DEF RelsInv

\* One index loses one relationship, wherever it is.
LEMMA OneRemovedTyped ==
  ASSUME IndexTyped, NEW t, NEW n1 \in NodeIds, NEW n2 \in NodeIds, NEW id,
         related' = [related EXCEPT ![t] = RemoveRel(related[t], n1, n2, id)],
         Len(relationships)' = Len(relationships)
  PROVE  IndexTyped' /\ KnownTypes' = KnownTypes /\ RelIds' = RelIds
<1>1. KnownTypes' = KnownTypes /\ RelIds' = RelIds BY DEF KnownTypes, RelIds
<1>2. ASSUME NEW u \in KnownTypes PROVE related'[u] \in Index(NodeIds, RelIds)
  <2>1. related[u] \in Index(NodeIds, RelIds) BY DEF IndexTyped
  <2>2. RemoveRel(related[u], n1, n2, id) \in Index(NodeIds, RelIds)
    BY <2>1, RemoveRelTyped
  <2>3. related'[u] = IF u = t THEN RemoveRel(related[u], n1, n2, id) ELSE related[u]
    BY DEF KnownTypes
  <2>4. QED BY <2>1, <2>2, <2>3
<1>3. QED BY <1>1, <1>2 DEF IndexTyped

LEMMA RemoveByIdTyped ==
  ASSUME RelsTyped, RemoveByIdStep
  PROVE  RelsTyped' /\ (KeysAllocated => KeysAllocated')
<1>1. PICK id \in Int : RelUsable(id) /\ RemoveRelationshipById(id) BY DEF RemoveByIdStep
<1> DEFINE r == RelRec(id)
<1> DEFINE k == IF r.count = 0 THEN 1 ELSE r.count
<1>2. r \in Relationship BY <1>1 DEF RelsTyped, ListTyped, RelUsable, RelRec
<1>3. r.from \in NodeIds /\ r.to \in NodeIds BY <1>2 DEF Relationship
<1>4. /\ related' = [related EXCEPT ![r.type] = RemoveRel(related[r.type], r.from, r.to, id)]
      /\ relationships' = Nulled({id})
      /\ \/ relationshipKeys' = DropKey(relationshipKeys, r.type, k, r.from, r.to)
         \/ UNCHANGED relationshipKeys
      /\ UNCHANGED <<relationshipCounts, relatedCounts>>
  BY <1>1 DEF RemoveRelationshipById
<1> HIDE DEF r, k
<1>5. ListTyped' /\ Len(relationships)' = Len(relationships)
  BY <1>4, NulledIs DEF ListTyped, RelsTyped
<1>6. IndexTyped' /\ KnownTypes' = KnownTypes /\ RelIds' = RelIds
  BY <1>3, <1>4, <1>5, OneRemovedTyped DEF RelsTyped
<1>7. CountsTyped' BY <1>4, <1>6 DEF RelsTyped, CountsTyped
<1>8. KeyTypesTyped' /\ (KeysAllocated => KeysAllocated')
  <2>1. CASE UNCHANGED relationshipKeys
    BY <1>6, <2>1 DEF RelsTyped, KeysAllocated, KeyTypesTyped
  <2>2. CASE relationshipKeys' = DropKey(relationshipKeys, r.type, k, r.from, r.to)
    <3>1. IsDrop(relationshipKeys, relationshipKeys', r.type, k, r.from, r.to)
      BY <2>2, DropKeyIs
    <3>2. DOMAIN relationshipKeys' = DOMAIN relationshipKeys BY <3>1 DEF IsDrop
    <3>3. \A key, pair : Has(relationshipKeys', key, pair) =>
            /\ Has(relationshipKeys, key, pair)
            /\ relationshipKeys'[key][pair] = relationshipKeys[key][pair]
      BY <3>1 DEF IsDrop
    <3>4. QED BY <1>6, <3>2, <3>3 DEF RelsTyped, KeysAllocated, KeyTypesTyped, Has
  <2>3. QED BY <1>4, <2>1, <2>2
<1>9. QED BY <1>5, <1>6, <1>7, <1>8 DEF RelsTyped

LEMMA KeyIdIs ==
  ASSUME NEW t, NEW k, NEW n1, NEW n2
  PROVE  RelationshipKeyId(t, k, n1, n2) =
           IF Has(relationshipKeys, <<t, k>>, <<n1, n2>>)
           THEN relationshipKeys[<<t, k>>][<<n1, n2>>] ELSE -1
<1>1. DOMAIN <<>> = {} OBVIOUS
<1>2. QED BY <1>1 DEF RelationshipKeyId, KeyMap, Has

SameEnds(r, q) == q.id = r.id /\ q.type = r.type /\ q.from = r.from /\ q.to = r.to

\* The ids of gone lead to null, and nothing else does that did not; what is
\* left is still where and what it was.
Shrinks(gone) ==
  /\ ListTyped' /\ Len(relationships)' = Len(relationships)
  /\ \A i \in DOMAIN relationships :
       /\ relationships'[i] = Null <=> i - 1 \in gone \/ relationships[i] = Null
       /\ relationships'[i] # Null => SameEnds(relationships[i], relationships'[i])

\* Every key leads where a key of the same pair led before.
KeysInherited ==
  \A key, pair : Has(relationshipKeys', key, pair) =>
    \E old : /\ Has(relationshipKeys, old, pair)
             /\ relationshipKeys'[key][pair] = relationshipKeys[old][pair]

LEMMA NulledShrinks ==
  ASSUME ListTyped, NEW ids, relationships' = Nulled(ids)
  PROVE  Shrinks(ids)
<1>1. /\ ListTyped' /\ Len(relationships)' = Len(relationships)
      /\ \A i \in DOMAIN relationships :
           relationships'[i] = IF i - 1 \in ids THEN Null ELSE relationships[i]
  BY NulledIs DEF ListTyped
<1>2. QED BY <1>1 DEF Shrinks, SameEnds

LEMMA DropInherits ==
  ASSUME NEW t, NEW k, NEW n1, NEW n2,
         relationshipKeys' = DropKey(relationshipKeys, t, k, n1, n2)
  PROVE  KeysInherited /\ DOMAIN relationshipKeys' = DOMAIN relationshipKeys
<1>1. IsDrop(relationshipKeys, relationshipKeys', t, k, n1, n2) BY DropKeyIs
<1>2. QED BY <1>1 DEF IsDrop, KeysInherited

LEMMA PutDropInherits ==
  ASSUME NEW t, NEW k, NEW n1, NEW n2, NEW last,
         Has(relationshipKeys, <<t, last>>, <<n1, n2>>),
         relationshipKeys' =
           DropKey(PutKey(relationshipKeys, t, k, n1, n2,
                          relationshipKeys[<<t, last>>][<<n1, n2>>]), t, last, n1, n2)
  PROVE  KeysInherited /\ DOMAIN relationshipKeys' = DOMAIN relationshipKeys \cup {<<t, k>>}
<1> DEFINE id == relationshipKeys[<<t, last>>][<<n1, n2>>]
<1> DEFINE keys == PutKey(relationshipKeys, t, k, n1, n2, id)
<1>1. relationshipKeys' = DropKey(keys, t, last, n1, n2) OBVIOUS
<1> HIDE DEF id
<1>2. IsPut(relationshipKeys, keys, t, k, n1, n2, id) BY PutKeyIs
<1> HIDE DEF keys
<1>3. IsDrop(keys, relationshipKeys', t, last, n1, n2) BY <1>1, DropKeyIs
<1>4. DOMAIN relationshipKeys' = DOMAIN relationshipKeys \cup {<<t, k>>}
  BY <1>2, <1>3 DEF IsPut, IsDrop
<1>5. ASSUME NEW key, NEW pair, Has(relationshipKeys', key, pair)
      PROVE  \E old : /\ Has(relationshipKeys, old, pair)
                      /\ relationshipKeys'[key][pair] = relationshipKeys[old][pair]
  <2>1. Has(keys, key, pair) /\ relationshipKeys'[key][pair] = keys[key][pair]
    BY <1>3, <1>5 DEF IsDrop
  <2>2. CASE key = <<t, k>> /\ pair = <<n1, n2>>
    <3>1. keys[key][pair] = id BY <1>2, <2>2 DEF IsPut
    <3>2. QED BY <2>1, <2>2, <3>1 DEF id
  <2>3. CASE ~ (key = <<t, k>> /\ pair = <<n1, n2>>)
    <3>1. Has(relationshipKeys, key, pair) /\ keys[key][pair] = relationshipKeys[key][pair]
      BY <1>2, <2>1, <2>3 DEF IsPut
    <3>2. QED BY <2>1, <3>1
  <2>4. QED BY <2>2, <2>3
<1>6. QED BY <1>4, <1>5 DEF KeysInherited

LEMMA InheritedTyped ==
  ASSUME KeysAllocated, KeyTypesTyped, KeysInherited, RelIds' = RelIds, NEW t \in Types, NEW k,
         DOMAIN relationshipKeys' \subseteq DOMAIN relationshipKeys \cup {<<t, k>>}
  PROVE  KeysAllocated' /\ KeyTypesTyped'
<1>1. ASSUME NEW key \in DOMAIN relationshipKeys', NEW pair \in DOMAIN relationshipKeys'[key]
      PROVE  relationshipKeys'[key][pair] \in RelIds
  <2>1. Has(relationshipKeys', key, pair) BY DEF Has
  <2>2. PICK old : /\ Has(relationshipKeys, old, pair)
                   /\ relationshipKeys'[key][pair] = relationshipKeys[old][pair]
    BY <2>1 DEF KeysInherited
  <2>3. QED BY <2>2 DEF KeysAllocated, Has
<1>2. <<t, k>>[1] = t OBVIOUS
<1>3. QED BY <1>1, <1>2 DEF KeysAllocated, KeyTypesTyped

\* What removing number k of a pair changes.
NumberRemoved(t, n1, n2, k) ==
  /\ Shrinks({RelationshipKeyId(t, k, n1, n2)})
  /\ related' = [related EXCEPT ![t] =
                   RemoveRel(related[t], n1, n2, RelationshipKeyId(t, k, n1, n2))]
  /\ KeysInherited
  /\ DOMAIN relationshipKeys' \subseteq DOMAIN relationshipKeys \cup {<<t, k>>}

LEMMA RemoveNumberEffect ==
  ASSUME RelsInv, NEW t, NEW n1, NEW n2, NEW k \in Int, NEW call, RemoveNumber(call, t, n1, n2, k)
  PROVE  NumberRemoved(t, n1, n2, k)
<1> DEFINE count == relatedCounts[t][<<n1, n2>>]
<1> DEFINE relId == RelationshipKeyId(t, k, n1, n2)
<1> DEFINE lastId == RelationshipKeyId(t, count, n1, n2)
<1> DEFINE c == IF k > 1 THEN k ELSE 0
<1>1. /\ \/ relId + 1 \notin DOMAIN relationships /\ UNCHANGED <<relationships, relationshipKeys>>
         \/ /\ relationships' = Nulled({relId})
            /\ \/ UNCHANGED relationshipKeys
               \/ relationshipKeys' = DropKey(relationshipKeys, t, k, n1, n2)
         \/ /\ lastId # relId /\ RelUsable(lastId)
            /\ relationships' = [Nulled({relId}) EXCEPT ![lastId + 1].count = c]
            /\ relationshipKeys' =
                 DropKey(PutKey(relationshipKeys, t, k, n1, n2, lastId), t, count, n1, n2)
      /\ related' = [related EXCEPT ![t] = RemoveRel(related[t], n1, n2, relId)]
  BY DEF RemoveNumber
<1>2. ListTyped BY DEF RelsInv
<1> HIDE DEF count, c
<1>3. CASE relId + 1 \notin DOMAIN relationships /\ UNCHANGED <<relationships, relationshipKeys>>
  <2> HIDE DEF relId
  <2>1. Shrinks({relId})
    <3>1. \A i \in DOMAIN relationships : i - 1 # relId BY <1>2, <1>3 DEF ListTyped
    <3>2. QED BY <1>2, <1>3, <3>1 DEF Shrinks, SameEnds, ListTyped
  <2>2. KeysInherited BY <1>3 DEF KeysInherited
  <2>3. QED BY <1>1, <1>3, <2>1, <2>2 DEF NumberRemoved, relId
<1>4. CASE /\ relationships' = Nulled({relId})
           /\ \/ UNCHANGED relationshipKeys
              \/ relationshipKeys' = DropKey(relationshipKeys, t, k, n1, n2)
  <2> HIDE DEF relId
  <2>1. Shrinks({relId}) BY <1>2, <1>4, NulledShrinks
  <2>2. KeysInherited /\ DOMAIN relationshipKeys' = DOMAIN relationshipKeys
    <3>1. CASE UNCHANGED relationshipKeys BY <3>1 DEF KeysInherited
    <3>2. CASE relationshipKeys' = DropKey(relationshipKeys, t, k, n1, n2)
      BY <3>2, DropInherits
    <3>3. QED BY <1>4, <3>1, <3>2
  <2>3. QED BY <1>1, <2>1, <2>2 DEF NumberRemoved, relId
<1>5. CASE /\ lastId # relId /\ RelUsable(lastId)
           /\ relationships' = [Nulled({relId}) EXCEPT ![lastId + 1].count = c]
           /\ relationshipKeys' =
                DropKey(PutKey(relationshipKeys, t, k, n1, n2, lastId), t, count, n1, n2)
  <2>1. Has(relationshipKeys, <<t, count>>, <<n1, n2>>)
        /\ lastId = relationshipKeys[<<t, count>>][<<n1, n2>>]
    <3>1. lastId + 1 \in DOMAIN relationships BY <1>5 DEF RelUsable
    <3>2. lastId # -1 BY <1>2, <3>1 DEF ListTyped
    <3>3. QED BY <3>2, KeyIdIs
  <2>2. KeysInherited /\ DOMAIN relationshipKeys' = DOMAIN relationshipKeys \cup {<<t, k>>}
    BY <1>5, <2>1, PutDropInherits
  <2>3. lastId \in Int BY <2>1 DEF RelsInv, KeysAllocated, Has, RelIds
  <2>4. c \in Int BY DEF c
  <2> HIDE DEF relId, lastId
  <2> DEFINE list == Nulled({relId})
  <2> DEFINE j == lastId + 1
  <2>5. /\ list \in Seq(Relationship \cup {Null}) /\ Len(list) = Len(relationships)
        /\ \A i \in DOMAIN relationships :
             list[i] = IF i - 1 \in {relId} THEN Null ELSE relationships[i]
    BY <1>2, NulledIs
  <2>6. j \in DOMAIN relationships /\ relationships[j] \in Relationship /\ j - 1 # relId
    BY <1>2, <1>5, <2>3 DEF RelUsable, RelRec, ListTyped
  <2>7. list[j] \in Relationship /\ list[j] = relationships[j] BY <2>5, <2>6
  <2>8. j \in DOMAIN list /\ DOMAIN list = DOMAIN relationships
    BY <1>2, <2>5, <2>6 DEF ListTyped
  <2>9. relationships' = [list EXCEPT ![j].count = c] BY <1>5
  <2> HIDE DEF list, j
  <2>10. /\ ListTyped' /\ Len(relationships)' = Len(list)
         /\ \A i \in DOMAIN list : i # j => relationships'[i] = list[i]
         /\ relationships'[j] \in Relationship /\ SameEnds(list[j], relationships'[j])
    <3>1. \/ \E props \in StoredMaps : relationships' = [list EXCEPT ![j].props = props]
          \/ \E shown \in Int : relationships' = [list EXCEPT ![j].count = shown]
      BY <2>4, <2>9
    <3>2. /\ relationships' \in Seq(Relationship \cup {Null}) /\ Len(relationships') = Len(list)
          /\ \A i \in DOMAIN list : i # j => relationships'[i] = list[i]
          /\ j \in DOMAIN list =>
              /\ relationships'[j] \in Relationship
              /\ relationships'[j].id = list[j].id /\ relationships'[j].type = list[j].type
              /\ relationships'[j].from = list[j].from /\ relationships'[j].to = list[j].to
      BY <2>5, <2>7, <3>1, MapReplaced
    <3>3. QED BY <2>8, <3>2 DEF ListTyped, SameEnds
  <2>11. ASSUME NEW i \in DOMAIN relationships
         PROVE  /\ relationships'[i] = Null <=> i - 1 \in {relId} \/ relationships[i] = Null
                /\ relationships'[i] # Null => SameEnds(relationships[i], relationships'[i])
    <3>1. CASE i = j
      BY <2>6, <2>7, <2>10, <3>1, NullIsNoMap
    <3>2. CASE i # j BY <2>5, <2>8, <2>10, <3>2 DEF SameEnds
    <3>3. QED BY <3>1, <3>2
  <2>12. Shrinks({relId}) BY <2>5, <2>10, <2>11 DEF Shrinks
  <2>13. QED BY <1>1, <2>2, <2>12 DEF NumberRemoved, relId
<1>6. QED BY <1>1, <1>3, <1>4, <1>5

LEMMA RemoveNumberTyped ==
  ASSUME RelsInv, RemoveNumberStep
  PROVE  RelsInv'
<1>c1. PICK t \in KnownTypes, n1 \in NodeIds, n2 \in NodeIds, k \in Int : \E call :
        relatedCounts[t][<<n1, n2>>] # 0 /\ RemoveNumber(call, t, n1, n2, k)
  BY DEF RemoveNumberStep
<1>1. PICK call :
        relatedCounts[t][<<n1, n2>>] # 0 /\ RemoveNumber(call, t, n1, n2, k)
  BY <1>c1
<1> DEFINE relId == RelationshipKeyId(t, k, n1, n2)
<1>2. /\ ListTyped' /\ Len(relationships)' = Len(relationships)
      /\ related' = [related EXCEPT ![t] = RemoveRel(related[t], n1, n2, relId)]
      /\ KeysInherited
      /\ DOMAIN relationshipKeys' \subseteq DOMAIN relationshipKeys \cup {<<t, k>>}
  <2>1. NumberRemoved(t, n1, n2, k) BY <1>1, RemoveNumberEffect
  <2>2. QED BY <2>1 DEF NumberRemoved, Shrinks
<1> HIDE DEF relId
<1>3. IndexTyped' /\ KnownTypes' = KnownTypes /\ RelIds' = RelIds
  BY <1>2, OneRemovedTyped DEF RelsInv
<1>4. KeysAllocated' /\ KeyTypesTyped'
  <2>1. t \in Types BY DEF RelsInv, CountsTyped
  <2>2. QED BY <1>2, <1>3, <2>1, InheritedTyped DEF RelsInv
<1>5. CountsTyped'
  <2>1. /\ relatedCounts' = [relatedCounts EXCEPT ![t][<<n1, n2>>] = relatedCounts[t][<<n1, n2>>] - 1]
        /\ relationshipCounts' = [relationshipCounts EXCEPT ![t] = @ - 1]
    BY <1>1 DEF RemoveNumber, OneLess
  <2>2. relatedCounts[t] \in [NodeIds \X NodeIds -> Nat] BY DEF RelsInv, CountsTyped
  <2> DEFINE pair == <<n1, n2>>
  <2>3. pair \in NodeIds \X NodeIds OBVIOUS
  <2>4. relatedCounts[t][pair] - 1 \in Nat BY <1>1, <2>2, <2>3
  <2>5. [relatedCounts[t] EXCEPT ![pair] = relatedCounts[t][pair] - 1] \in [NodeIds \X NodeIds -> Nat]
    BY <2>2, <2>4
  <2>6. \A u \in KnownTypes : relatedCounts'[u] \in [NodeIds \X NodeIds -> Nat]
    <3>1. SUFFICES ASSUME NEW u \in KnownTypes
                   PROVE  relatedCounts'[u] \in [NodeIds \X NodeIds -> Nat]
      OBVIOUS
    <3>2. u \in DOMAIN relatedCounts BY DEF RelsInv, CountsTyped
    <3>3. CASE u = t
      <4>1. relatedCounts'[u] = [relatedCounts[t] EXCEPT ![pair] = relatedCounts[t][pair] - 1]
        BY <2>1, <3>2, <3>3
      <4>2. QED BY <2>5, <4>1
    <3>4. CASE u # t BY <2>1, <3>2, <3>4 DEF RelsInv, CountsTyped
    <3>5. QED BY <3>3, <3>4
  <2>7. \A u \in KnownTypes : relationshipCounts'[u] \in Int
    BY <2>1 DEF RelsInv, CountsTyped
  <2>8. DOMAIN relationshipCounts' = KnownTypes /\ DOMAIN relatedCounts' = KnownTypes
    BY <2>1 DEF RelsInv, CountsTyped
  <2>9. QED BY <1>3, <2>6, <2>7, <2>8 DEF RelsInv, CountsTyped
<1>6. QED BY <1>2, <1>3, <1>4, <1>5 DEF RelsInv

LEMMA TypeInvParts ==
  TypeInv <=> NodesTyped /\ RelsInv /\ result.outcome \in Outcomes
BY TypeOKParts DEF TypeInv, RelsInv

LEMMA TypeInvInit == Init => TypeInv
<1>1. SUFFICES ASSUME Init PROVE TypeInv OBVIOUS
<1> USE <1>1 DEF Init
<1>2. nodes \in Seq(Node \cup {Null}) /\ relationships \in Seq(Relationship \cup {Null})
  OBVIOUS
<1>3. NodesTyped BY <1>2 DEF NodesTyped
<1>4. \A x : x \notin DOMAIN <<>> OBVIOUS
<1>5. RelsInv
  BY <1>2, <1>4 DEF RelsInv, ListTyped, CountsTyped, KeyTypesTyped, IndexTyped, KeysAllocated,
                    KnownTypes
<1>6. QED BY <1>3, <1>5, TypeInvParts DEF Outcomes

LEMMA NodesUntouched ==
  /\ Nothing => UNCHANGED nodeVars
  /\ LinkStep => UNCHANGED nodeVars
  /\ RemoveByIdStep => UNCHANGED nodeVars
  /\ RemoveNumberStep => UNCHANGED nodeVars
  /\ RelPropsStep => UNCHANGED nodeVars
  /\ InsertRelStep => UNCHANGED nodeVars
<1>1. ASSUME Nothing PROVE UNCHANGED nodeVars BY <1>1 DEF Nothing
<1>2. ASSUME LinkStep PROVE UNCHANGED nodeVars
  <2>1. ASSUME NEW t, NEW n1, NEW n2, NEW count, NEW props, NEW call,
               Link(call, t, n1, n2, count, props)
        PROVE  UNCHANGED nodeVars
    BY <2>1 DEF Link
  <2>2. QED BY <1>2, <2>1 DEF LinkStep
<1>3. ASSUME RemoveByIdStep PROVE UNCHANGED nodeVars
  <2>1. ASSUME NEW id, RemoveRelationshipById(id) PROVE UNCHANGED nodeVars
    BY <2>1 DEF RemoveRelationshipById, Unchanged
  <2>2. QED BY <1>3, <2>1 DEF RemoveByIdStep
<1>4. ASSUME RemoveNumberStep PROVE UNCHANGED nodeVars
  <2>1. ASSUME NEW t, NEW n1, NEW n2, NEW k, NEW call, RemoveNumber(call, t, n1, n2, k)
        PROVE  UNCHANGED nodeVars
    BY <2>1 DEF RemoveNumber
  <2>2. QED BY <1>4, <2>1 DEF RemoveNumberStep
<1>5. ASSUME RelPropsStep PROVE UNCHANGED nodeVars BY <1>5 DEF RelPropsStep
<1>6. ASSUME InsertRelStep PROVE UNCHANGED nodeVars BY <1>6 DEF InsertRelStep
<1>7. QED BY <1>1, <1>2, <1>3, <1>4, <1>5, <1>6

LEMMA TypeInvPartsNext ==
  TypeInv' <=> NodesTyped' /\ RelsInv' /\ (result.outcome \in Outcomes)'
BY TypeInvParts, PTL

LEMMA TypeInvKeeps ==
  ASSUME TypeInv, GraphStep, Said
  PROVE  TypeInv'
<1>2. NodesTyped /\ RelsInv BY TypeInvParts
<1>4. \/ Nothing \/ AddNodeStep \/ NodePropsStep \/ InsertNodeStep \/ RemoveNodeStep
      \/ LinkStep \/ RemoveByIdStep \/ RemoveNumberStep \/ RelPropsStep
      \/ InsertRelStep
  BY DEF GraphStep
<1>5. NodesTyped'
  <2>1. CASE AddNodeStep \/ NodePropsStep \/ InsertNodeStep \/ RemoveNodeStep
    BY <1>2, <2>1, NodesStayTyped
  <2>2. CASE UNCHANGED nodeVars BY <1>2, <2>2 DEF nodeVars, NodesTyped
  <2>3. QED BY <1>4, <2>1, <2>2, NodesUntouched
<1>6. RelsInv'
  <2>1. CASE UNCHANGED relVars
    BY <1>2, <2>1 DEF relVars, RelsInv, ListTyped, CountsTyped, KeyTypesTyped, IndexTyped,
                      KeysAllocated, KnownTypes, RelIds
  <2>2. Nothing \/ AddNodeStep \/ NodePropsStep \/ InsertNodeStep => UNCHANGED relVars
    BY DEF Nothing, AddNodeStep, NodePropsStep, InsertNodeStep
  <2>3. QED
    BY <1>2, <1>4, <2>1, <2>2, RelsInvIs, RemoveNodeTyped, LinkTyped, RemoveByIdTyped,
       RemoveNumberTyped, RelPropsTyped, InsertRelTyped
<1>7. (result.outcome \in Outcomes)' BY DEF Said, Outcomes
<1>8. QED BY <1>5, <1>6, <1>7, TypeInvPartsNext

\* Every step of the graph is one of the kinds.
LEMMA StepKinds ==
  ASSUME TypeInv, [Next]_vars
  PROVE  GraphStep /\ Said
<1>1. TypeOK /\ KeysAllocated BY DEF TypeInv
<1>2. KeysTyped BY <1>1, KeysAllocatedTyped
<1>3. QED BY <1>1, <1>2, Kinds DEF GraphStep

LEMMA TypeInvStep == TypeInv /\ [Next]_vars => TypeInv'
BY StepKinds, TypeInvKeeps

LEMMA TypeInvHolds == Spec => []TypeInv
<1>1. Init => TypeInv BY TypeInvInit
<1>2. TypeInv /\ [Next]_vars => TypeInv' BY TypeInvStep
<1>3. QED BY <1>1, <1>2, PTL DEF Spec

TwoTo31 == 2147483648
TwoTo32 == 4294967296

\* ((long)node1 << 32) + node2, the key of a pair in the maps of counts and ids.
PackedKey(node1, node2) == node1 * TwoTo32 + node2

\* The ids an int holds but the negative ones, which stand for no node.
IntIds == {id \in Nat : id < TwoTo31}

\* The model writes a pair of ids where the code packs them in one long: for ids
\* from 0 on, the only ones that pass the -1 checks, the key fits in 63 bits
\* and no two pairs share one, the pair turned round included.
THEOREM PackedKeysDistinct ==
  \A m1, m2, n1, n2 \in IntIds :
    /\ PackedKey(n1, n2) \in Nat /\ PackedKey(n1, n2) < TwoTo31 * TwoTo32
    /\ PackedKey(m1, m2) = PackedKey(n1, n2) => m1 = n1 /\ m2 = n2
<1>1. TAKE m1, m2, n1, n2 \in IntIds
<1>2. PackedKey(n1, n2) \in Nat /\ PackedKey(n1, n2) < TwoTo31 * TwoTo32
  <2>1. PICK end \in Nat : end = TwoTo31 BY SMT DEF TwoTo31
  <2>2. PICK e \in Nat : end = n1 + 1 + e BY <2>1, SMT DEF IntIds
  <2>3. n1 \in Nat /\ n2 \in Nat /\ n2 < TwoTo32 BY SMT DEF IntIds, TwoTo31, TwoTo32
  <2>4. n1 * TwoTo32 \in Nat /\ e * TwoTo32 \in Nat BY <2>3, SMT DEF TwoTo32
  <2>5. end * TwoTo32 = n1 * TwoTo32 + TwoTo32 + e * TwoTo32 BY <2>2, <2>3, SMT DEF TwoTo32
  <2>6. PackedKey(n1, n2) \in Nat /\ PackedKey(n1, n2) < end * TwoTo32
    BY <2>3, <2>4, <2>5, SMT DEF PackedKey, TwoTo32
  <2>7. QED BY <2>1, <2>6, Zenon
<1>3. ASSUME NEW a \in IntIds, NEW b \in IntIds, NEW c \in IntIds, NEW d \in IntIds, a < b
      PROVE  PackedKey(a, c) < PackedKey(b, d)
  \* a row of the smaller first id ends before the next one starts
  <2>1. PICK e \in Nat : b = a + 1 + e BY <1>3, SMT DEF IntIds
  <2>2. b * TwoTo32 = a * TwoTo32 + TwoTo32 + e * TwoTo32 BY <2>1, SMT DEF IntIds, TwoTo32
  <2>3. e * TwoTo32 >= 0 /\ c < TwoTo32 /\ d >= 0 BY SMT DEF IntIds, TwoTo31, TwoTo32
  <2>4. QED BY <2>2, <2>3, SMT DEF PackedKey, IntIds, TwoTo32
<1>4. ASSUME PackedKey(m1, m2) = PackedKey(n1, n2) PROVE m1 = n1 /\ m2 = n2
  <2>1. PackedKey(m1, m2) \in Int /\ PackedKey(n1, n2) \in Int
    BY SMT DEF PackedKey, IntIds, TwoTo32
  <2>2. ~ m1 < n1 /\ ~ n1 < m1 BY <1>3, <1>4, <2>1, SMT
  <2>3. m1 = n1 BY <2>2, SMT DEF IntIds
  <2>4. QED BY <1>4, <2>3, SMT DEF PackedKey, IntIds, TwoTo32
<1>5. QED BY <1>2, <1>4

\* The fields of the graph keep their types, whatever operations the client
\* uses and however they refuse or throw half way.
THEOREM GraphTypeOK == Spec => []TypeOK
<1>1. TypeInv => TypeOK BY DEF TypeInv
<1>2. QED BY <1>1, TypeInvHolds, PTL

\* The index and the relationship keys never hold an id beyond the end of the
\* relationship list: no half done removal and no insertion leaves one, so the
\* id of a new relationship is always a new one for them.
THEOREM IdsAllocated == Spec => []IndexedIdsAllocated
<1>1. ASSUME TypeInv PROVE IndexedIdsAllocated
  <2>1. ASSUME NEW t \in KnownTypes, NEW n \in NodeIds,
               NEW id \in ToSet(OutgoingRelationshipIds(t, n))
                          \cup ToSet(IncomingRelationshipIds(t, n))
        PROVE  id \in 0 .. Len(relationships) - 1
    <3>1. related[t] \in Index(NodeIds, RelIds) BY <1>1 DEF TypeInv, IndexTyped
    <3>2. related[t].from2rel[n] \in Seq(RelIds) /\ related[t].to2rel[n] \in Seq(RelIds)
      BY <3>1 DEF Index
    <3>3. \/ id \in ToSet(related[t].from2rel[n])
          \/ id \in ToSet(related[t].to2rel[n])
      BY DEF OutgoingRelationshipIds, IncomingRelationshipIds
    <3>4. \A s \in Seq(RelIds) : ToSet(s) \subseteq RelIds BY DEF ToSet
    <3>5. QED BY <3>2, <3>3, <3>4 DEF RelIds
  <2>2. QED BY <1>1, <2>1 DEF IndexedIdsAllocated, TypeInv, KeysAllocated, RelIds
<1>2. QED BY <1>1, TypeInvHolds, PTL

-----------------------------------------------------------------------------
(* The indices.  A client that never mixes removal by id with the insertions *)
(* of deleteRelationshipProperties names both ends of what it removes right: *)
(* the record at an id is the relationship the index has under that id.      *)

StableClient == ~ ({"removeRelationshipById", "deleteRelationshipProperties"} \subseteq Ops)

\* ends is the node that each id allocated so far was linked to.
EndsOfKeys(ends) ==
  \A key, pair : Has(relationshipKeys, key, pair) =>
    ends[relationshipKeys[key][pair]] = pair[2]

EndsOfRecords(ends) ==
  "deleteRelationshipProperties" \notin Ops =>
    \A i \in DOMAIN relationships : relationships[i] # Null =>
      /\ relationships[i].id = i - 1
      /\ ends[i - 1] = relationships[i].to

IndicesSound(ends) ==
  \A t \in KnownTypes : Covers(NodeIds, related[t], ends) /\ BothWays(NodeIds, related[t])

Ends(ends) ==
  /\ ends \in [RelIds -> NodeIds]
  /\ EndsOfKeys(ends) /\ EndsOfRecords(ends) /\ IndicesSound(ends)

IndexInv == \E ends : Ends(ends)

\* Without the keys.
RecordEnds(ends) == ends \in [RelIds -> NodeIds] /\ EndsOfRecords(ends) /\ IndicesSound(ends)

EndsInv == \E ends : RecordEnds(ends)

LEMMA EndsIs ==
  ASSUME NEW ends
  PROVE  /\ Ends(ends) <=> RecordEnds(ends) /\ EndsOfKeys(ends)
         /\ Ends(ends)' <=> RecordEnds(ends)' /\ EndsOfKeys(ends)'
BY DEF Ends, RecordEnds

LEMMA IndexEnds == IndexInv => EndsInv
BY EndsIs DEF IndexInv, EndsInv

LEMMA EndsShrink ==
  ASSUME RelsTyped, NEW ends, EndsOfRecords(ends), NEW gone, Shrinks(gone)
  PROVE  EndsOfRecords(ends)'
<1>1. DOMAIN relationships' = DOMAIN relationships
  BY DEF RelsTyped, ListTyped, Shrinks
<1>2. QED BY <1>1 DEF Shrinks, SameEnds, EndsOfRecords

LEMMA EndsInherited ==
  ASSUME NEW ends, EndsOfKeys(ends), KeysInherited
  PROVE  EndsOfKeys(ends)'
BY DEF KeysInherited, EndsOfKeys

\* One relationship leaves the index of a type.
LEMMA OneRemovedSound ==
  ASSUME RelsTyped, NEW ends, RecordEnds(ends), NEW t, NEW n1 \in NodeIds, NEW n2 \in NodeIds,
         NEW id, id \in RelIds => ends[id] = n2,
         related' = [related EXCEPT ![t] = RemoveRel(related[t], n1, n2, id)]
  PROVE  IndicesSound(ends)'
<1>1. KnownTypes' = KnownTypes BY DEF KnownTypes
<1>2. DOMAIN ends = RelIds BY DEF RecordEnds
<1>3. ASSUME NEW u \in KnownTypes
      PROVE  Covers(NodeIds, related'[u], ends) /\ BothWays(NodeIds, related'[u])
  <2> DEFINE m == related[u]
  <2>1. m \in Index(NodeIds, DOMAIN ends) BY <1>2 DEF RelsTyped, IndexTyped
  <2>2. Covers(NodeIds, m, ends) /\ BothWays(NodeIds, m) BY DEF RecordEnds, IndicesSound
  <2>3. related'[u] = IF u = t THEN RemoveRel(m, n1, n2, id) ELSE m BY DEF KnownTypes
  <2> HIDE DEF m
  <2>4. Covers(NodeIds, RemoveRel(m, n1, n2, id), ends)
    BY <1>2, <2>1, <2>2, RemoveRelCovers
  <2>5. BothWays(NodeIds, RemoveRel(m, n1, n2, id)) BY <2>1, <2>2, RemoveRelBothWays
  <2>6. QED BY <2>2, <2>3, <2>4, <2>5 DEF m
<1>4. QED BY <1>1, <1>3 DEF IndicesSound

LEMMA RemoveNumberSound ==
  ASSUME RelsInv, NEW ends, Ends(ends), RemoveNumberStep
  PROVE  Ends(ends)'
<1>c1. PICK t \in KnownTypes, n1 \in NodeIds, n2 \in NodeIds, k \in Int : \E call :
        RemoveNumber(call, t, n1, n2, k)
  BY DEF RemoveNumberStep
<1>1. PICK call :
        RemoveNumber(call, t, n1, n2, k)
  BY <1>c1
<1> DEFINE id == RelationshipKeyId(t, k, n1, n2)
<1>2. /\ Shrinks({id}) /\ KeysInherited
      /\ related' = [related EXCEPT ![t] = RemoveRel(related[t], n1, n2, id)]
  BY <1>1, RemoveNumberEffect DEF NumberRemoved
<1>3. id \in RelIds => ends[id] = n2
  <2>1. -1 \notin RelIds BY DEF RelIds
  <2>2. <<n1, n2>>[2] = n2 OBVIOUS
  <2>3. QED BY <2>1, <2>2, KeyIdIs DEF Ends, EndsOfKeys
<1> HIDE DEF id
<1>4. IndicesSound(ends)' BY <1>2, <1>3, RelsInvIs, EndsIs, OneRemovedSound
<1>5. EndsOfKeys(ends)' /\ EndsOfRecords(ends)'
  BY <1>2, RelsInvIs, EndsShrink, EndsInherited DEF Ends
<1>6. RelIds' = RelIds BY <1>2 DEF Shrinks, RelIds
<1>7. QED BY <1>4, <1>5, <1>6 DEF Ends

LEMMA RemoveByIdSound ==
  ASSUME StableClient, RelsTyped, NEW ends, RecordEnds(ends), RemoveByIdStep
  PROVE  RecordEnds(ends)' /\ (EndsOfKeys(ends) => EndsOfKeys(ends)')
<1>1. PICK id \in Int : RelUsable(id) /\ RemoveRelationshipById(id) BY DEF RemoveByIdStep
<1> DEFINE r == RelRec(id)
<1> DEFINE k == IF r.count = 0 THEN 1 ELSE r.count
<1>2. /\ "removeRelationshipById" \in Ops
      /\ related' = [related EXCEPT ![r.type] = RemoveRel(related[r.type], r.from, r.to, id)]
      /\ relationships' = Nulled({id})
      /\ \/ relationshipKeys' = DropKey(relationshipKeys, r.type, k, r.from, r.to)
         \/ UNCHANGED relationshipKeys
  BY <1>1 DEF RemoveRelationshipById
<1>3. r \in Relationship /\ r.from \in NodeIds /\ r.to \in NodeIds
  BY <1>1 DEF RelsTyped, ListTyped, RelUsable, RelRec, Relationship
<1>4. id \in RelIds => ends[id] = r.to
  <2>1. "deleteRelationshipProperties" \notin Ops BY <1>2 DEF StableClient
  <2> DEFINE i == id + 1
  <2>2. i \in DOMAIN relationships /\ relationships[i] # Null /\ i - 1 = id /\ r = relationships[i]
    BY <1>1 DEF RelUsable, RelRec
  <2> HIDE DEF i, r
  <2>3. ends[i - 1] = relationships[i].to BY <2>1, <2>2 DEF RecordEnds, EndsOfRecords
  <2>4. QED BY <2>2, <2>3
<1> HIDE DEF r, k
<1>5. IndicesSound(ends)' BY <1>2, <1>3, <1>4, OneRemovedSound
<1>6. Shrinks({id}) BY <1>2, NulledShrinks DEF RelsTyped
<1>7. KeysInherited
  <2>1. CASE UNCHANGED relationshipKeys BY <2>1 DEF KeysInherited
  <2>2. CASE relationshipKeys' = DropKey(relationshipKeys, r.type, k, r.from, r.to)
    BY <2>2, DropInherits
  <2>3. QED BY <1>2, <2>1, <2>2
<1>8. EndsOfRecords(ends)' /\ (EndsOfKeys(ends) => EndsOfKeys(ends)')
  BY <1>6, <1>7, EndsShrink, EndsInherited DEF RecordEnds
<1>9. RelIds' = RelIds BY <1>6 DEF Shrinks, RelIds
<1>10. QED BY <1>5, <1>8, <1>9 DEF RecordEnds

LEMMA NeverOverruns ==
  ASSUME IndexTyped, NEW ends, RecordEnds(ends), NEW t \in KnownTypes, NEW n \in NodeIds
  PROVE  ~ RemoveAllOverruns(related[t], n)
<1> DEFINE m == related[t]
<1>1. DOMAIN ends = RelIds /\ ends \in [DOMAIN ends -> NodeIds] BY DEF RecordEnds
<1>2. m \in Index(NodeIds, DOMAIN ends) BY <1>1 DEF IndexTyped
<1>3. Covers(NodeIds, m, ends) BY DEF RecordEnds, IndicesSound
<1> HIDE DEF m
<1>4. ~ RemoveAllOverruns(m, n) BY <1>1, <1>2, <1>3, CoversEnough
<1>5. QED BY <1>4 DEF m

LEMMA RemoveNodeIsDone ==
  ASSUME NodesTyped, IndexTyped, EndsInv, RemoveNodeStep
  PROVE  \E name \in Names : \E call : RemoveNodeDone(call, name)
<1>c1. PICK name \in Names :
        \E call : RemoveNodeDone(call, name) \/ RemoveNodeThrows(call, name)
  BY DEF RemoveNodeStep
<1>1. PICK call : RemoveNodeDone(call, name) \/ RemoveNodeThrows(call, name) BY <1>c1
<1>2. CASE RemoveNodeThrows(call, name)
  <2>1. nodeKeys[name] # -1 BY <1>2 DEF RemoveNodeThrows
  <2> DEFINE id == nodeKeys[name]
  <2>2. id \in NodeIds BY <2>1 DEF NodesTyped
  <2>3. \E bad \in KnownTypes : RemoveAllOverruns(related[bad], id) BY <1>2 DEF RemoveNodeThrows
  <2> HIDE DEF id
  <2>4. QED BY <2>2, <2>3, NeverOverruns DEF EndsInv
<1>3. QED BY <1>1, <1>2

LEMMA RemoveNodeSound ==
  ASSUME NodesTyped, RelsTyped, NEW ends, RecordEnds(ends), NEW name \in Names, NEW call,
         RemoveNodeDone(call, name)
  PROVE  RecordEnds(ends)' /\ (EndsOfKeys(ends) => EndsOfKeys(ends)')
<1> DEFINE id == nodeKeys[name]
<1>1. /\ id # -1
      /\ related' = [t \in KnownTypes |-> IF t \in KnownTypes THEN RemoveAll(related[t], id)
                                          ELSE related[t]]
      /\ \E ids : relationships' = Nulled(ids)
      /\ UNCHANGED relationshipKeys
  BY DEF RemoveNodeDone, DetachTypes
<1>2. id \in NodeIds BY <1>1 DEF NodesTyped
<1> HIDE DEF id
<1>3. PICK gone : Shrinks(gone) BY <1>1, NulledShrinks DEF RelsTyped
<1>4. KeysInherited BY <1>1 DEF KeysInherited
<1>5. EndsOfRecords(ends)' /\ (EndsOfKeys(ends) => EndsOfKeys(ends)')
  BY <1>3, <1>4, EndsShrink, EndsInherited DEF RecordEnds
<1>6. RelIds' = RelIds BY <1>3 DEF Shrinks, RelIds
<1>7. KnownTypes' = KnownTypes BY <1>1 DEF KnownTypes
<1>8. ASSUME NEW t \in KnownTypes
      PROVE  Covers(NodeIds, related'[t], ends) /\ BothWays(NodeIds, related'[t])
  <2> DEFINE m == related[t]
  <2>1. DOMAIN ends = RelIds /\ ends \in [DOMAIN ends -> NodeIds] BY DEF RecordEnds
  <2>2. m \in Index(NodeIds, DOMAIN ends) BY <2>1 DEF RelsTyped, IndexTyped
  <2>3. Covers(NodeIds, m, ends) /\ BothWays(NodeIds, m) BY DEF RecordEnds, IndicesSound
  <2>4. related'[t] = RemoveAll(m, id) BY <1>1
  <2> HIDE DEF m
  <2>5. QED BY <1>2, <2>1, <2>2, <2>3, <2>4, RemoveAllKeeps
<1>9. QED BY <1>5, <1>6, <1>7, <1>8 DEF RecordEnds, IndicesSound

\* The ends of a list that is one longer.
LEMMA MoreEnds ==
  ASSUME RelsTyped, NEW ends, RecordEnds(ends), Len(relationships)' = Len(relationships) + 1,
         NEW n \in NodeIds
  PROVE  LET more == MapPut(ends, Len(relationships), n) IN
         /\ more \in [RelIds' -> NodeIds]
         /\ DOMAIN ends \subseteq DOMAIN more
         /\ \A id \in DOMAIN ends : more[id] = ends[id]
         /\ more[Len(relationships)] = n
         /\ \A t \in KnownTypes : Covers(NodeIds, related[t], more)
<1> DEFINE new == Len(relationships)
<1> DEFINE more == MapPut(ends, new, n)
<1>1. new \in Nat BY DEF RelsTyped, ListTyped
<1>2. RelIds' = RelIds \cup {new} /\ new \notin RelIds BY <1>1 DEF RelIds
<1>3. DOMAIN ends = RelIds /\ \A id \in RelIds : ends[id] \in NodeIds BY DEF RecordEnds
<1> HIDE DEF new
<1>4. more \in [RelIds' -> NodeIds] BY <1>2, <1>3 DEF MapPut
<1>5. DOMAIN ends \subseteq DOMAIN more /\ \A id \in DOMAIN ends : more[id] = ends[id]
  BY <1>2, <1>3 DEF MapPut
<1>6. more[new] = n BY DEF MapPut
<1> HIDE DEF more
<1>7. ASSUME NEW t \in KnownTypes PROVE Covers(NodeIds, related[t], more)
  <2> DEFINE m == related[t]
  <2>1. m \in Index(NodeIds, DOMAIN ends) BY <1>3 DEF RelsTyped, IndexTyped
  <2>2. Covers(NodeIds, m, ends) BY DEF RecordEnds, IndicesSound
  <2> HIDE DEF m
  <2>3. Covers(NodeIds, m, more) BY <1>5, <2>1, <2>2, CoversMore
  <2>4. QED BY <2>3 DEF m
<1>8. QED BY <1>4, <1>5, <1>6, <1>7 DEF more, new

LEMMA LinkSound ==
  ASSUME RelsTyped, NEW ends, RecordEnds(ends), LinkStep
  PROVE  \E more : /\ RecordEnds(more)'
                   /\ KeysAllocated /\ EndsOfKeys(ends) => EndsOfKeys(more)'
<1>c1. PICK t \in Types, n1 \in NodeIds, n2 \in NodeIds, shown \in Int, props \in StoredMaps :
        \E call : Link(call, t, n1, n2, shown, props)
  BY DEF LinkStep
<1>1. PICK call : Link(call, t, n1, n2, shown, props) BY <1>c1
<1>2. RecordEnds(ends) OBVIOUS
<1> DEFINE new == Len(relationships)
<1> DEFINE m == RelatedOf(t)
<1>3. /\ Len(relationships)' = new + 1
      /\ \A i \in DOMAIN relationships : relationships'[i] = relationships[i]
      /\ relationships'[new + 1].id = new /\ relationships'[new + 1].to = n2
      /\ ListTyped'
      /\ KnownTypes' = KnownTypes \cup {t}
      /\ m \in Index(NodeIds, RelIds)
      /\ related'[t] = Put(m, n1, n2, new)
      /\ \A u \in KnownTypes : u # t => related'[u] = related[u]
  <2>1. Linked(t, n1, n2, shown, props) BY <1>1, LinkEffect
  <2>2. QED BY <2>1 DEF Linked
<1>more. PICK more : more = MapPut(ends, new, n2) OBVIOUS
<1>4. /\ more \in [RelIds' -> NodeIds]
      /\ DOMAIN ends \subseteq DOMAIN more
      /\ \A id \in DOMAIN ends : more[id] = ends[id]
      /\ more[new] = n2
      /\ \A u \in KnownTypes : Covers(NodeIds, related[u], more)
  BY <1>2, <1>3, <1>more, MoreEnds
<1>5. Covers(NodeIds, m, more) /\ BothWays(NodeIds, m)
  BY <1>2, <1>4, NewMapSound DEF RelatedOf, RecordEnds, IndicesSound
<1>6. new \in Nat /\ DOMAIN relationships = 1 .. new /\ DOMAIN relationships' = 1 .. new + 1
  BY <1>3 DEF RelsTyped, ListTyped
<1>7. RelIds \subseteq RelIds' /\ new \in RelIds' BY <1>3, <1>6 DEF RelIds
<1>8. DOMAIN more = RelIds' /\ DOMAIN ends = RelIds BY <1>2, <1>4 DEF RecordEnds
<1> HIDE DEF new, m
<1>9. m \in Index(NodeIds, DOMAIN more) BY <1>3, <1>7, <1>8, IndexMore
<1>10. Covers(NodeIds, Put(m, n1, n2, new), more)
  BY <1>4, <1>5, <1>7, <1>8, <1>9, PutCovers
<1>11. BothWays(NodeIds, Put(m, n1, n2, new)) BY <1>5, <1>9, PutBothWays
<1>12. ASSUME NEW u \in KnownTypes'
       PROVE  Covers(NodeIds, related'[u], more) /\ BothWays(NodeIds, related'[u])
  <2>1. CASE u = t BY <1>3, <1>10, <1>11, <2>1
  <2>2. CASE u # t
    <3>1. u \in KnownTypes /\ related'[u] = related[u] BY <1>3, <2>2
    <3>2. BothWays(NodeIds, related[u]) BY <1>2, <3>1 DEF RecordEnds, IndicesSound
    <3>3. Covers(NodeIds, related[u], more) BY <1>4, <3>1
    <3>4. QED BY <3>1, <3>2, <3>3
  <2>3. QED BY <2>1, <2>2
<1>13. ASSUME KeysAllocated, EndsOfKeys(ends) PROVE EndsOfKeys(more)'
  <2> DEFINE k == NextNumber(t, n1, n2)
  <2>1. relationshipKeys' = PutKey(relationshipKeys, t, k, n1, n2, new)
    BY <1>1 DEF Link, NextRelId, new
  <2> HIDE DEF k
  <2>2. IsPut(relationshipKeys, relationshipKeys', t, k, n1, n2, new) BY <2>1, PutKeyIs
  <2>3. ASSUME NEW key, NEW pair, Has(relationshipKeys', key, pair)
        PROVE  more[relationshipKeys'[key][pair]] = pair[2]
    <3>1. CASE key = <<t, k>> /\ pair = <<n1, n2>>
      <4>1. relationshipKeys'[key][pair] = new BY <2>2, <3>1 DEF IsPut
      <4>2. QED BY <1>4, <3>1, <4>1
    <3>2. CASE ~ (key = <<t, k>> /\ pair = <<n1, n2>>)
      <4>1. /\ Has(relationshipKeys, key, pair)
            /\ relationshipKeys'[key][pair] = relationshipKeys[key][pair]
        BY <2>2, <2>3, <3>2 DEF IsPut
      <4>2. relationshipKeys[key][pair] \in RelIds BY <1>13, <4>1 DEF KeysAllocated, Has
      <4>3. ends[relationshipKeys[key][pair]] = pair[2] BY <1>13, <4>1 DEF EndsOfKeys
      <4>4. QED BY <1>4, <1>8, <4>1, <4>2, <4>3
    <3>3. QED BY <3>1, <3>2
  <2>4. QED BY <2>3 DEF EndsOfKeys
<1>14. EndsOfRecords(more)'
  <2>1. SUFFICES ASSUME "deleteRelationshipProperties" \notin Ops,
                        NEW i \in 1 .. new + 1, relationships'[i] # Null
                 PROVE  relationships'[i].id = i - 1 /\ more[i - 1] = relationships'[i].to
    BY <1>6 DEF EndsOfRecords
  <2>2. CASE i = new + 1 BY <1>3, <1>4, <1>6, <2>2
  <2>3. CASE i # new + 1
    <3>1. i \in DOMAIN relationships /\ i - 1 \in RelIds BY <1>6, <2>3 DEF RelIds, new
    <3>2. relationships[i].id = i - 1 /\ ends[i - 1] = relationships[i].to
      BY <1>2, <1>3, <2>1, <3>1 DEF RecordEnds, EndsOfRecords
    <3>3. QED BY <1>3, <1>4, <1>8, <3>1, <3>2
  <2>4. QED BY <2>2, <2>3
<1>15. RecordEnds(more)' BY <1>4, <1>12, <1>14 DEF RecordEnds, IndicesSound
<1>16. QED BY <1>13, <1>15

LEMMA InsertRelSound ==
  ASSUME RelsInv, IndexInv, InsertRelStep
  PROVE  IndexInv'
<1>1. PICK ends : Ends(ends) BY DEF IndexInv
<1>2. Len(relationships)' = Len(relationships) + 1 BY InsertRelTyped
<1>3. "deleteRelationshipProperties" \in Ops /\ UNCHANGED <<relationshipKeys, related>>
  BY DEF InsertRelStep
<1>4. 0 \in NodeIds BY BoundsAssumption DEF NodeIds
<1>more. PICK more : more = MapPut(ends, Len(relationships), 0) OBVIOUS
<1>5. /\ more \in [RelIds' -> NodeIds]
      /\ \A id \in DOMAIN ends : more[id] = ends[id]
      /\ \A u \in KnownTypes : Covers(NodeIds, related[u], more)
  BY <1>1, <1>2, <1>4, <1>more, RelsInvIs, EndsIs, MoreEnds
<1>6. DOMAIN ends = RelIds BY <1>1 DEF Ends
<1>7. \A key, pair : Has(relationshipKeys, key, pair) => relationshipKeys[key][pair] \in RelIds
  BY DEF RelsInv, KeysAllocated, Has
<1>8. EndsOfKeys(more)' BY <1>1, <1>3, <1>5, <1>6, <1>7 DEF Ends, EndsOfKeys
<1>9. EndsOfRecords(more)' BY <1>3 DEF EndsOfRecords
<1>10. IndicesSound(more)' BY <1>1, <1>3, <1>5 DEF Ends, IndicesSound, KnownTypes
<1>11. Ends(more)' BY <1>5, <1>8, <1>9, <1>10 DEF Ends
<1>12. QED BY <1>11 DEF IndexInv

LEMMA RelPropsShrink ==
  ASSUME RelsTyped, RelPropsStep
  PROVE  Shrinks({})
<1>1. PICK id \in Int, props \in StoredMaps :
        RelUsable(id) /\ relationships' = [relationships EXCEPT ![id + 1].props = props]
  BY DEF RelPropsStep
<1> DEFINE j == id + 1
<1>2. j \in DOMAIN relationships /\ relationships[j] # Null BY <1>1 DEF RelUsable, RelRec
<1>3. relationships[j] \in Relationship /\ relationships \in Seq(Relationship \cup {Null})
  BY <1>2 DEF RelsTyped, ListTyped
<1>4. \/ \E p \in StoredMaps : relationships' = [relationships EXCEPT ![j].props = p]
      \/ \E c \in Int : relationships' = [relationships EXCEPT ![j].count = c]
  BY <1>1
<1> HIDE DEF j
<1>5. /\ relationships' \in Seq(Relationship \cup {Null})
      /\ Len(relationships') = Len(relationships)
      /\ \A i \in DOMAIN relationships : i # j => relationships'[i] = relationships[i]
      /\ j \in DOMAIN relationships =>
           /\ relationships'[j] \in Relationship
           /\ relationships'[j].id = relationships[j].id
           /\ relationships'[j].type = relationships[j].type
           /\ relationships'[j].from = relationships[j].from
           /\ relationships'[j].to = relationships[j].to
  BY <1>3, <1>4, MapReplaced
<1>6. ASSUME NEW i \in DOMAIN relationships
      PROVE  /\ relationships'[i] = Null <=> relationships[i] = Null
             /\ relationships'[i] # Null => SameEnds(relationships[i], relationships'[i])
  <2>1. CASE i = j
    <3>1. relationships'[j] # Null BY <1>2, <1>5, NullIsNoMap
    <3>2. QED BY <1>2, <1>5, <2>1, <3>1 DEF SameEnds
  <2>2. CASE i # j BY <1>5, <2>2 DEF SameEnds
  <2>3. QED BY <2>1, <2>2
<1>7. QED BY <1>5, <1>6 DEF Shrinks, ListTyped

LEMMA IndexInvInit == Init => IndexInv
<1>1. SUFFICES ASSUME Init PROVE IndexInv OBVIOUS
<1>2. relationships = <<>> /\ relationshipKeys = <<>> /\ related = <<>> BY <1>1 DEF Init
<1>3. \A x : x \notin DOMAIN <<>> OBVIOUS
<1>4. RelIds = {} BY <1>2 DEF RelIds
<1> DEFINE ends == [id \in {} |-> 0]
<1>5. ends \in [RelIds -> NodeIds] BY <1>4
<1> HIDE DEF ends
<1>6. Ends(ends)
  BY <1>2, <1>3, <1>5 DEF Ends, EndsOfKeys, EndsOfRecords, IndicesSound, KnownTypes, Has
<1>7. QED BY <1>6 DEF IndexInv

LEMMA IndexInvKeeps ==
  ASSUME TypeInv, IndexInv,
         \/ Nothing \/ AddNodeStep \/ NodePropsStep \/ InsertNodeStep \/ RemoveNodeStep
         \/ LinkStep \/ RemoveNumberStep \/ RelPropsStep \/ InsertRelStep
         \/ RemoveByIdStep /\ StableClient
  PROVE  IndexInv'
<1>2. NodesTyped /\ RelsInv /\ IndexTyped BY TypeInvParts DEF TypeInv
<1>4. PICK ends : Ends(ends) BY DEF IndexInv
<1>5. CASE Nothing \/ AddNodeStep \/ NodePropsStep \/ InsertNodeStep
  <2>1. UNCHANGED relVars
    BY <1>5 DEF Nothing, AddNodeStep, NodePropsStep, InsertNodeStep
  <2>2. UNCHANGED <<relationships, relationshipKeys, related>> BY <2>1 DEF relVars
  <2>3. Ends(ends)'
    BY <1>4, <2>2 DEF Ends, EndsOfKeys, EndsOfRecords, IndicesSound, KnownTypes, RelIds
  <2>4. QED BY <2>3 DEF IndexInv
<1>6. CASE RemoveNodeStep
  <2>c1. PICK name \in Names :
          \E call : RemoveNodeDone(call, name)
    BY <1>2, <1>6, IndexEnds, RemoveNodeIsDone
  <2>1. PICK call : RemoveNodeDone(call, name) BY <2>c1
  <2>2. Ends(ends)' BY <1>2, <1>4, <2>1, RelsInvIs, EndsIs, RemoveNodeSound
  <2>3. QED BY <2>2 DEF IndexInv
<1>7. CASE LinkStep
  <2>1. \E more : Ends(more)' BY <1>2, <1>4, <1>7, RelsInvIs, EndsIs, LinkSound
  <2>2. QED BY <2>1 DEF IndexInv
<1>8. CASE RemoveByIdStep /\ StableClient
  BY <1>2, <1>4, <1>8, RelsInvIs, EndsIs, RemoveByIdSound DEF IndexInv
<1>9. CASE RemoveNumberStep BY <1>2, <1>4, <1>9, RemoveNumberSound DEF IndexInv
<1>10. CASE RelPropsStep
  <2>1. Shrinks({}) BY <1>2, <1>10, RelsInvIs, RelPropsShrink
  <2>2. EndsOfRecords(ends)' BY <1>2, <1>4, <2>1, RelsInvIs, EndsShrink DEF Ends
  <2>3. UNCHANGED <<relationshipKeys, related>> BY <1>10 DEF RelPropsStep
  <2>4. RelIds' = RelIds BY <2>1 DEF Shrinks, RelIds
  <2>5. Ends(ends)'
    BY <1>4, <2>2, <2>3, <2>4 DEF Ends, EndsOfKeys, IndicesSound, KnownTypes
  <2>6. QED BY <2>5 DEF IndexInv
<1>11. CASE InsertRelStep BY <1>2, <1>11, InsertRelSound
<1>12. QED BY <1>5, <1>6, <1>7, <1>8, <1>9, <1>10, <1>11

LEMMA IndexInvStep == StableClient => (TypeInv /\ IndexInv /\ [Next]_vars => IndexInv')
BY StepKinds, IndexInvKeeps DEF GraphStep

LEMMA IndexInvHolds ==
  ASSUME StableClient
  PROVE  Spec => [](TypeInv /\ IndexInv)
<1>1. Init => IndexInv BY IndexInvInit
<1>2. TypeInv /\ IndexInv /\ [Next]_vars => IndexInv' BY IndexInvStep
<1>3. Spec => []TypeInv BY TypeInvHolds
<1>4. QED BY <1>1, <1>2, <1>3, PTL DEF Spec

\* Unless the client mixes removal by id with the insertions of
\* deleteRelationshipProperties, removeAll finds a relationship for every
\* neighbour it unlinks: removeNode never throws half way and leaves a name
\* whose node is gone.
THEOREM RemoveNodeCompletes ==
  ASSUME StableClient
  PROVE  Spec => []RemoveAllNeverOverruns
<1>1. TypeInv /\ IndexInv => RemoveAllNeverOverruns
  BY NeverOverruns, EndsIs DEF TypeInv, IndexInv, RemoveAllNeverOverruns
<1>2. QED BY <1>1, IndexInvHolds, PTL

LEMMA OccurrencesIsTimes == \A s, e : Occurrences(s, e) = Times(s, e)
<1>1. \A s, e : Places(s, {e}) = {i \in DOMAIN s : s[i] = e} BY DEF Places
<1>2. QED BY <1>1 DEF Occurrences, Times, Count

\* For the same clients the two neighbour lists of a type agree, also after
\* relationships that were numbered again, or not found, have been removed.
THEOREM NeighboursMirrored ==
  ASSUME StableClient
  PROVE  Spec => []EndsMirrored
<1>1. \A s, e : Occurrences(s, e) = Times(s, e) BY OccurrencesIsTimes
<1>2. ASSUME IndexInv PROVE EndsMirrored
  <2>1. SUFFICES ASSUME NEW t \in KnownTypes, NEW n1 \in NodeIds, NEW n2 \in NodeIds
                 PROVE  Occurrences(OutgoingNodeIds(t, n1), n2)
                          = Occurrences(IncomingNodeIds(t, n2), n1)
    BY DEF EndsMirrored
  <2>2. BothWays(NodeIds, related[t]) BY <1>2 DEF IndexInv, Ends, IndicesSound
  <2>3. OutgoingNodeIds(t, n1) = related[t].from2to[n1]
        /\ IncomingNodeIds(t, n2) = related[t].to2from[n2]
    BY DEF OutgoingNodeIds, IncomingNodeIds
  <2>4. QED BY <1>1, <2>2, <2>3 DEF BothWays, Mirrored
<1>3. QED BY <1>2, IndexInvHolds, PTL

-----------------------------------------------------------------------------
(* Node ids *)

LEMMA NodeListGrows ==
  ASSUME NodesTyped, NodePropsStep \/ InsertNodeStep
  PROVE  UNCHANGED <<nodeKeys, deletedNodes>> /\ Len(nodes') >= Len(nodes)
<1>1. nodes \in Seq(Node \cup {Null}) /\ Len(nodes) \in Nat BY DEF NodesTyped
<1>2. CASE NodePropsStep
  <2>1. PICK id \in Int, props \in StoredMaps :
          nodes' = [nodes EXCEPT ![id + 1].props = props]
    BY <1>2 DEF NodePropsStep
  <2>2. Len(nodes') = Len(nodes) BY <1>1, <2>1
  <2>3. QED BY <1>1, <1>2, <2>2 DEF NodePropsStep
<1>3. CASE InsertNodeStep
  <2>1. PICK id \in Int :
          /\ NodeUsable(id) /\ id \in NodeIds
          /\ nodes' = InsertAt([nodes EXCEPT ![id + 1].id = id], id + 1,
                               [id |-> -1, name |-> Null, props |-> NoProps])
    BY <1>3 DEF InsertNodeStep
  <2>2. id + 1 \in DOMAIN nodes /\ nodes[id + 1] \in Node
    BY <1>1, <2>1 DEF NodeUsable, NodeRec
  <2> DEFINE S == Node \cup {Null}
  <2> DEFINE j == id + 1
  <2> DEFINE rec == [nodes[j] EXCEPT !.id = id]
  <2> DEFINE fresh == [id |-> -1, name |-> Null, props |-> NoProps]
  <2> DEFINE list == [nodes EXCEPT ![j] = rec]
  <2>3. rec \in S BY <2>1, <2>2 DEF Node
  <2>4. fresh \in S BY NoPropsStored DEF Node
  <2>5. nodes' = InsertAt(list, j, fresh) BY <2>1
  <2>6. nodes \in Seq(S) BY <1>1
  <2> HIDE DEF rec, fresh, S
  <2>7. list \in Seq(S) /\ Len(list) = Len(nodes) BY <2>3, <2>6, Replaced
  <2>8. j \in 1 .. Len(list) + 1 BY <1>1, <2>2, <2>7
  <2> HIDE DEF list, j
  <2>9. Len(InsertAt(list, j, fresh)) = Len(list) + 1 BY <2>4, <2>7, <2>8, InsertedAt
  <2>10. QED BY <1>1, <1>3, <2>5, <2>7, <2>9 DEF InsertNodeStep
<1>4. QED BY <1>2, <1>3

LEMMA AddNodeIds ==
  ASSUME NodesTyped, NodeIdsSound, AddNodeStep
  PROVE  NodeIdsSound'
<1>1. PICK name \in Names, id \in NodeIds, props \in StoredMaps :
        /\ nodeKeys[name] = -1
        /\ nodeKeys' = [nodeKeys EXCEPT ![name] = id]
        /\ \/ /\ deletedNodes = {} /\ id = Len(nodes)
              /\ nodes' = Append(nodes, [id |-> id, name |-> name, props |-> props])
              /\ UNCHANGED deletedNodes
           \/ /\ id \in deletedNodes
              /\ nodes' = [nodes EXCEPT ![id + 1] =
                             [id |-> id, name |-> name, props |-> props]]
              /\ deletedNodes' = deletedNodes \ {id}
  BY DEF AddNodeStep
<1>2. nodes \in Seq(Node \cup {Null}) /\ Len(nodes) \in Nat BY DEF NodesTyped
<1>3. \A n \in Names : /\ nodeKeys[n] \in {-1} \cup NodeIds
                       /\ nodeKeys'[n] = IF n = name THEN id ELSE nodeKeys[n]
  BY <1>1 DEF NodesTyped
<1>4. id # -1 /\ \A i \in NodeIds : i \in Int BY DEF NodeIds
<1>5. \A n \in LiveNames : /\ nodeKeys[n] # id
                           /\ nodeKeys[n] < Len(nodes) /\ nodeKeys[n] \notin deletedNodes
  BY <1>1, <1>2, <1>3, <1>4 DEF NodeIdsSound, LiveNames
<1>6. LiveNames' = LiveNames \cup {name}
  BY <1>1, <1>3, <1>4 DEF LiveNames
<1>7. name \notin LiveNames BY <1>1 DEF LiveNames
<1>8. /\ Len(nodes') >= Len(nodes) /\ Len(nodes') \in Nat /\ id < Len(nodes')
      /\ id \notin deletedNodes' /\ deletedNodes' \subseteq deletedNodes
  <2>1. CASE /\ deletedNodes = {} /\ id = Len(nodes)
             /\ nodes' = Append(nodes, [id |-> id, name |-> name, props |-> props])
             /\ UNCHANGED deletedNodes
    <3>1. Len(nodes') = Len(nodes) + 1 BY <1>2, <2>1
    <3>2. QED BY <1>2, <2>1, <3>1
  <2>2. CASE /\ id \in deletedNodes
             /\ nodes' = [nodes EXCEPT ![id + 1] =
                            [id |-> id, name |-> name, props |-> props]]
             /\ deletedNodes' = deletedNodes \ {id}
    <3>1. Len(nodes') = Len(nodes) BY <1>2, <2>2
    <3>2. id < Len(nodes) BY <2>2 DEF NodeIdsSound
    <3>3. QED BY <1>2, <2>2, <3>1, <3>2
  <2>3. QED BY <1>1, <2>1, <2>2
<1>9. \A n \in LiveNames : n \in Names BY DEF LiveNames
<1>10. \A n, m \in LiveNames' : nodeKeys'[n] = nodeKeys'[m] => n = m
  BY <1>3, <1>5, <1>6, <1>7, <1>9 DEF NodeIdsSound
<1>11. \A n \in LiveNames' : nodeKeys'[n] < Len(nodes') /\ nodeKeys'[n] \notin deletedNodes'
  <2>1. SUFFICES ASSUME NEW n \in LiveNames'
                 PROVE  nodeKeys'[n] < Len(nodes') /\ nodeKeys'[n] \notin deletedNodes'
    OBVIOUS
  <2>2. CASE n = name BY <1>3, <1>8, <2>2
  <2>3. CASE n # name
    <3>1. n \in LiveNames /\ n \in Names /\ nodeKeys'[n] = nodeKeys[n]
      BY <1>3, <1>6, <1>9, <2>3
    <3>2. nodeKeys[n] \in Int BY <1>3, <1>4, <3>1
    <3>3. QED BY <1>2, <1>5, <1>8, <3>1, <3>2
  <2>4. QED BY <2>2, <2>3
<1>12. \A i \in deletedNodes' : i < Len(nodes')
  <2>1. \A i \in deletedNodes : i < Len(nodes) /\ i \in Int
    BY <1>4 DEF NodeIdsSound, NodesTyped
  <2>2. QED BY <1>2, <1>8, <2>1
<1>13. QED BY <1>10, <1>11, <1>12 DEF NodeIdsSound

LEMMA NodeIdsStay ==
  ASSUME NodesTyped, NodeIdsSound, NodePropsStep \/ InsertNodeStep
  PROVE  NodeIdsSound'
<1>1. UNCHANGED <<nodeKeys, deletedNodes>> /\ Len(nodes') >= Len(nodes) BY NodeListGrows
<1>2. nodes' \in Seq(Node \cup {Null}) BY NodesStayTyped DEF NodesTyped
<1>3. Len(nodes) \in Nat /\ Len(nodes') \in Nat BY <1>2 DEF NodesTyped
<1>4. LiveNames' = LiveNames BY <1>1 DEF LiveNames
<1>5. \A i \in NodeIds : i \in Int BY DEF NodeIds
<1>6. \A n \in LiveNames : nodeKeys[n] \in Int BY <1>5 DEF NodesTyped, LiveNames
<1>7. \A i \in deletedNodes : i \in Int BY <1>5 DEF NodesTyped
<1>8. \A n \in LiveNames : nodeKeys[n] < Len(nodes') BY <1>1, <1>3, <1>6 DEF NodeIdsSound
<1>9. \A i \in deletedNodes : i < Len(nodes') BY <1>1, <1>3, <1>7 DEF NodeIdsSound
<1>10. QED BY <1>1, <1>4, <1>8, <1>9 DEF NodeIdsSound

LEMMA RemoveNodeIds ==
  ASSUME NodesTyped, NodeIdsSound, NEW name \in Names, NEW call, RemoveNodeDone(call, name)
  PROVE  NodeIdsSound'
<1> DEFINE id == nodeKeys[name]
<1>1. /\ id # -1
      /\ nodes' = [nodes EXCEPT ![id + 1] = Null]
      /\ deletedNodes' = deletedNodes \cup {id}
      /\ nodeKeys' = [nodeKeys EXCEPT ![name] = -1]
  BY DEF RemoveNodeDone, ForgetKey
<1>2. Len(nodes') = Len(nodes) BY <1>1 DEF NodesTyped
<1>3. name \in LiveNames BY <1>1 DEF LiveNames
<1>4. \A n \in Names : nodeKeys'[n] = IF n = name THEN -1 ELSE nodeKeys[n]
  BY <1>1 DEF NodesTyped
<1>5. LiveNames' = LiveNames \ {name} BY <1>4 DEF LiveNames
<1>6. \A n \in LiveNames : n \in Names BY DEF LiveNames
<1>7. QED BY <1>1, <1>2, <1>3, <1>4, <1>5, <1>6 DEF NodeIdsSound

LEMMA NodeIdsKeep ==
  ASSUME TypeInv, IndexInv, NodeIdsSound, GraphStep
  PROVE  NodeIdsSound'
<1>2. NodesTyped /\ IndexTyped BY TypeInvParts DEF TypeInv
<1>3. \/ Nothing \/ AddNodeStep \/ NodePropsStep \/ InsertNodeStep \/ RemoveNodeStep
      \/ LinkStep \/ RemoveByIdStep \/ RemoveNumberStep \/ RelPropsStep
      \/ InsertRelStep
  BY DEF GraphStep
<1>4. CASE AddNodeStep BY <1>2, <1>4, AddNodeIds
<1>5. CASE NodePropsStep \/ InsertNodeStep BY <1>2, <1>5, NodeIdsStay
<1>6. CASE RemoveNodeStep
  <2>c1. PICK name \in Names :
          \E call : RemoveNodeDone(call, name)
    BY <1>2, <1>6, IndexEnds, RemoveNodeIsDone
  <2>1. PICK call : RemoveNodeDone(call, name) BY <2>c1
  <2>2. QED BY <1>2, <2>1, RemoveNodeIds
<1>7. CASE UNCHANGED nodeVars
  BY <1>7 DEF nodeVars, NodeIdsSound, LiveNames
<1>8. QED BY <1>3, <1>4, <1>5, <1>6, <1>7, NodesUntouched

LEMMA NodeIdsStep ==
  StableClient =>
    (TypeInv /\ IndexInv /\ NodeIdsSound /\ [Next]_vars => NodeIdsSound')
BY StepKinds, NodeIdsKeep

\* For such a client no two names ever share a node id and no id in use is free
\* for reuse, in whatever order nodes are added, removed, added again in freed
\* places and moved by deleteNodeProperties.
THEOREM NodeIdsStaySound ==
  ASSUME StableClient
  PROVE  Spec => []NodeIdsSound
<1>1. Init => NodeIdsSound BY DEF Init, NodeIdsSound, LiveNames
<1>2. TypeInv /\ IndexInv /\ NodeIdsSound /\ [Next]_vars => NodeIdsSound' BY NodeIdsStep
<1>3. Spec => [](TypeInv /\ IndexInv) BY IndexInvHolds
<1>4. QED BY <1>1, <1>2, <1>3, PTL DEF Spec

\* The record at an id in use is that of its name.
LEMMA AddNodeOwn ==
  ASSUME NodesTyped, NodeIdsSound, NodeOwnRecord, AddNodeStep
  PROVE  NodeOwnRecord'
<1>1. PICK name \in Names, id \in NodeIds, props \in StoredMaps :
        LET rec == [id |-> id, name |-> name, props |-> props] IN
        /\ nodeKeys[name] = -1
        /\ nodeKeys' = [nodeKeys EXCEPT ![name] = id]
        /\ \/ /\ id = Len(nodes)
              /\ nodes' = Append(nodes, rec)
           \/ /\ id \in deletedNodes
              /\ nodes' = [nodes EXCEPT ![id + 1] = rec]
  BY DEF AddNodeStep
<1> DEFINE rec == [id |-> id, name |-> name, props |-> props]
<1>2. rec \in Node /\ rec # Null /\ rec.name = name BY NullIsNoMap DEF Node
<1> HIDE DEF rec
<1>3. nodes \in Seq(Node \cup {Null}) /\ Len(nodes) \in Nat BY DEF NodesTyped
<1>4. \A n \in Names : /\ nodeKeys[n] \in {-1} \cup NodeIds
                       /\ nodeKeys'[n] = IF n = name THEN id ELSE nodeKeys[n]
  BY <1>1 DEF NodesTyped
<1>5. nodes'[id + 1] = rec
  <2>1. CASE id = Len(nodes) /\ nodes' = Append(nodes, rec) BY <1>3, <2>1
  <2>2. CASE id \in deletedNodes /\ nodes' = [nodes EXCEPT ![id + 1] = rec]
    <3>1. id < Len(nodes) BY <2>2 DEF NodeIdsSound
    <3>2. id + 1 \in DOMAIN nodes BY <1>3, <3>1 DEF NodeIds
    <3>3. QED BY <2>2, <3>2
  <2>3. QED BY <1>1, <2>1, <2>2 DEF rec
<1>6. ASSUME NEW n \in Names, nodeKeys[n] # -1, n # name
      PROVE  nodes'[nodeKeys[n] + 1] = nodes[nodeKeys[n] + 1]
  <2> DEFINE k == nodeKeys[n]
  <2>1. n \in LiveNames BY <1>6 DEF LiveNames
  <2>2. k < Len(nodes) /\ k \notin deletedNodes BY <2>1 DEF NodeIdsSound
  <2>3. k \in NodeIds BY <1>4, <1>6
  <2> HIDE DEF k
  <2>4. k + 1 \in 1 .. Len(nodes) BY <1>3, <2>2, <2>3 DEF NodeIds
  <2>5. CASE id = Len(nodes) /\ nodes' = Append(nodes, rec) BY <1>3, <2>4, <2>5 DEF k
  <2>6. CASE id \in deletedNodes /\ nodes' = [nodes EXCEPT ![id + 1] = rec]
    <3>1. k + 1 # id + 1 BY <2>2, <2>3, <2>6 DEF NodeIds
    <3>2. QED BY <1>3, <2>4, <2>6, <3>1 DEF k
  <2>7. QED BY <1>1, <2>5, <2>6 DEF rec
<1>7. ASSUME NEW n \in Names, nodeKeys'[n] # -1
      PROVE  nodes'[nodeKeys'[n] + 1] # Null /\ nodes'[nodeKeys'[n] + 1].name \in {n, Null}
  <2>1. CASE n = name BY <1>2, <1>4, <1>5, <2>1
  <2>2. CASE n # name
    <3>1. nodeKeys'[n] = nodeKeys[n] BY <1>4, <2>2
    <3>2. nodes[nodeKeys[n] + 1] # Null /\ nodes[nodeKeys[n] + 1].name \in {n, Null}
      BY <1>7, <3>1 DEF NodeOwnRecord, LiveNames, GetNode, NodeRec
    <3>3. QED BY <1>6, <1>7, <2>2, <3>1, <3>2
  <2>3. QED BY <2>1, <2>2
<1>8. QED BY <1>7 DEF NodeOwnRecord, LiveNames, GetNode, NodeRec

LEMMA NodePropsOwn ==
  ASSUME NodesTyped, NodeOwnRecord, NodePropsStep
  PROVE  NodeOwnRecord'
<1>1. PICK id \in Int, props \in StoredMaps :
        NodeUsable(id) /\ nodes' = [nodes EXCEPT ![id + 1].props = props]
  BY DEF NodePropsStep
<1> DEFINE j == id + 1
<1> DEFINE rec == [nodes[j] EXCEPT !.props = props]
<1>2. j \in DOMAIN nodes /\ nodes[j] # Null BY <1>1 DEF NodeUsable, NodeRec
<1>3. nodes[j] \in Node BY <1>2 DEF NodesTyped
<1>4. rec \in Node /\ rec # Null /\ rec.name = nodes[j].name BY <1>3, NullIsNoMap DEF Node
<1>5. nodes' = [nodes EXCEPT ![j] = rec] BY <1>1
<1> HIDE DEF rec, j
<1>6. UNCHANGED nodeKeys BY DEF NodePropsStep
<1>7. ASSUME NEW i, nodes[i] # Null
      PROVE  nodes'[i] # Null /\ nodes'[i].name = nodes[i].name
  <2>1. CASE i = j BY <1>2, <1>4, <1>5, <2>1
  <2>2. CASE i # j BY <1>5, <1>7, <2>2
  <2>3. QED BY <2>1, <2>2
<1>8. ASSUME NEW n \in Names, nodeKeys[n] # -1
      PROVE  nodes'[nodeKeys[n] + 1] # Null /\ nodes'[nodeKeys[n] + 1].name \in {n, Null}
  <2>1. nodes[nodeKeys[n] + 1] # Null /\ nodes[nodeKeys[n] + 1].name \in {n, Null}
    BY <1>8 DEF NodeOwnRecord, LiveNames, GetNode, NodeRec
  <2>2. QED BY <1>7, <2>1
<1>9. QED BY <1>6, <1>8 DEF NodeOwnRecord, LiveNames, GetNode, NodeRec

LEMMA RemoveNodeOwn ==
  ASSUME NodesTyped, NodeIdsSound, NodeOwnRecord, NEW name \in Names, NEW call,
         RemoveNodeDone(call, name)
  PROVE  NodeOwnRecord'
<1> DEFINE id == nodeKeys[name]
<1>1. /\ id # -1
      /\ nodes' = [nodes EXCEPT ![id + 1] = Null]
      /\ nodeKeys' = [nodeKeys EXCEPT ![name] = -1]
  BY DEF RemoveNodeDone, ForgetKey
<1>2. \A n \in Names : nodeKeys'[n] = IF n = name THEN -1 ELSE nodeKeys[n]
  BY <1>1 DEF NodesTyped
<1>3. ASSUME NEW n \in Names, nodeKeys'[n] # -1
      PROVE  nodes'[nodeKeys'[n] + 1] # Null /\ nodes'[nodeKeys'[n] + 1].name \in {n, Null}
  <2>1. n # name /\ nodeKeys'[n] = nodeKeys[n] BY <1>2, <1>3
  <2>2. nodes[nodeKeys[n] + 1] # Null /\ nodes[nodeKeys[n] + 1].name \in {n, Null}
    BY <1>3, <2>1 DEF NodeOwnRecord, LiveNames, GetNode, NodeRec
  <2>3. nodeKeys[n] # id BY <1>1, <1>3, <2>1 DEF NodeIdsSound, LiveNames
  <2>4. nodeKeys[n] \in {-1} \cup NodeIds /\ id \in {-1} \cup NodeIds BY DEF NodesTyped
  <2> HIDE DEF id
  <2>5. nodeKeys[n] + 1 # id + 1 BY <2>3, <2>4 DEF NodeIds
  <2>6. nodes'[nodeKeys[n] + 1] = nodes[nodeKeys[n] + 1] BY <1>1, <2>5
  <2>7. QED BY <2>1, <2>2, <2>6
<1>4. QED BY <1>3 DEF NodeOwnRecord, LiveNames, GetNode, NodeRec

LEMMA NodeOwnKeeps ==
  ASSUME TypeInv, IndexInv, NodeIdsSound, NodeOwnRecord,
         \/ Nothing \/ AddNodeStep \/ NodePropsStep \/ RemoveNodeStep \/ LinkStep
         \/ RemoveByIdStep \/ RemoveNumberStep \/ RelPropsStep \/ InsertRelStep
  PROVE  NodeOwnRecord'
<1>2. NodesTyped /\ IndexTyped BY TypeInvParts DEF TypeInv
<1>4. CASE AddNodeStep BY <1>2, <1>4, AddNodeOwn
<1>5. CASE NodePropsStep BY <1>2, <1>5, NodePropsOwn
<1>7. CASE RemoveNodeStep
  <2>c1. PICK name \in Names :
          \E call : RemoveNodeDone(call, name)
    BY <1>2, <1>7, IndexEnds, RemoveNodeIsDone
  <2>1. PICK call : RemoveNodeDone(call, name) BY <2>c1
  <2>2. QED BY <1>2, <2>1, RemoveNodeOwn
<1>8. CASE UNCHANGED nodeVars
  BY <1>8 DEF nodeVars, NodeOwnRecord, LiveNames, GetNode, NodeRec
<1>9. QED BY <1>4, <1>5, <1>7, <1>8, NodesUntouched

LEMMA NodeOwnStep ==
  StableClient /\ "deleteNodeProperties" \notin Ops =>
    (TypeInv /\ IndexInv /\ NodeIdsSound /\ NodeOwnRecord /\ [Next]_vars => NodeOwnRecord')
BY StepKinds, NodeOwnKeeps DEF GraphStep, InsertNodeStep

\* Without deleteNodeProperties, which inserts into the node list, the map at
\* the id of a name is that name's own and is never null.
THEOREM NodesKeepTheirRecords ==
  ASSUME StableClient, "deleteNodeProperties" \notin Ops
  PROVE  Spec => []NodeOwnRecord
<1>1. Init => NodeOwnRecord BY DEF Init, NodeOwnRecord, LiveNames
<1>2. TypeInv /\ IndexInv /\ NodeIdsSound /\ NodeOwnRecord /\ [Next]_vars => NodeOwnRecord'
  BY NodeOwnStep
<1>3. Spec => [](TypeInv /\ IndexInv) BY IndexInvHolds
<1>4. Spec => []NodeIdsSound BY NodeIdsStaySound
<1>5. QED BY <1>1, <1>2, <1>3, <1>4, PTL DEF Spec

-----------------------------------------------------------------------------
(* Live relationships *)

\* The index has the id once at either end of the relationship.
PlacedIn(index, r, id) ==
  /\ r.type \in DOMAIN index
  /\ Times(index[r.type].from2rel[r.from], id) = 1
  /\ Times(index[r.type].to2rel[r.to], id) = 1

LiveInv ==
  \A i \in DOMAIN relationships : relationships[i] # Null =>
    relationships[i].id = i - 1 /\ PlacedIn(related, relationships[i], i - 1)

LEMMA ShrinkPlaced ==
  ASSUME RelsTyped, LiveInv, NEW gone, Shrinks(gone),
         \A r \in Relationship, id \in RelIds :
           id \notin gone /\ PlacedIn(related, r, id) => PlacedIn(related', r, id)
  PROVE  LiveInv'
<1>1. /\ DOMAIN relationships' = DOMAIN relationships
      /\ \A i \in DOMAIN relationships : i - 1 \in RelIds
      /\ \A i \in DOMAIN relationships :
           relationships[i] # Null => relationships[i] \in Relationship
  BY DEF RelsTyped, ListTyped, Shrinks, RelIds
<1>2. ASSUME NEW i \in DOMAIN relationships, relationships'[i] # Null
      PROVE  relationships'[i].id = i - 1 /\ PlacedIn(related', relationships'[i], i - 1)
  <2> DEFINE r == relationships[i]
  <2> DEFINE q == relationships'[i]
  <2> DEFINE id == i - 1
  <2>1. id \notin gone /\ r # Null /\ SameEnds(r, q) BY <1>2 DEF Shrinks
  <2>2. r \in Relationship /\ id \in RelIds BY <1>1, <2>1
  <2>3. r.id = id /\ PlacedIn(related, r, id) BY <2>1 DEF LiveInv
  <2> HIDE DEF r, q, id
  <2>4. PlacedIn(related', r, id) BY <2>1, <2>2, <2>3
  <2>5. q.id = id /\ PlacedIn(related', q, id) BY <2>1, <2>3, <2>4 DEF SameEnds, PlacedIn
  <2>6. QED BY <2>5 DEF q, id
<1>3. QED BY <1>1, <1>2 DEF LiveInv

LEMMA OneRemovedPlaced ==
  ASSUME RelsTyped, NEW t, NEW n1, NEW n2, NEW gone,
         related' = [related EXCEPT ![t] = RemoveRel(related[t], n1, n2, gone)],
         NEW r \in Relationship, NEW id, id # gone, PlacedIn(related, r, id)
  PROVE  PlacedIn(related', r, id)
<1> DEFINE m == related[r.type]
<1>1. r.type \in KnownTypes /\ r.from \in NodeIds /\ r.to \in NodeIds
  BY DEF PlacedIn, KnownTypes, Relationship
<1>2. m \in Index(NodeIds, RelIds) BY <1>1 DEF RelsTyped, IndexTyped
<1>3. /\ DOMAIN related' = KnownTypes
      /\ related'[r.type] = IF r.type = t THEN RemoveRel(m, n1, n2, gone) ELSE m
  BY <1>1 DEF KnownTypes
<1>4. Times(m.from2rel[r.from], id) = 1 /\ Times(m.to2rel[r.to], id) = 1 BY DEF PlacedIn
<1> HIDE DEF m
<1>5. \A n \in NodeIds : SameTimes(m, RemoveRel(m, n1, n2, gone), n, id)
  BY <1>2, RemoveRelTimes
<1>6. QED BY <1>1, <1>3, <1>4, <1>5 DEF PlacedIn, SameTimes

LEMMA RemoveNodeDetaches ==
  ASSUME RemoveNodeStep
  PROVE  \E name \in Names, done \in SUBSET KnownTypes :
           nodeKeys[name] # -1 /\ DetachTypes(done, nodeKeys[name])
<1>c1. PICK name \in Names :
        \E call : RemoveNodeDone(call, name) \/ RemoveNodeThrows(call, name)
  BY DEF RemoveNodeStep
<1>1. PICK call : RemoveNodeDone(call, name) \/ RemoveNodeThrows(call, name) BY <1>c1
<1> DEFINE id == nodeKeys[name]
<1>2. CASE RemoveNodeDone(call, name) BY <1>2 DEF RemoveNodeDone
<1>3. CASE RemoveNodeThrows(call, name)
  <2>1. PICK done \in SUBSET KnownTypes, bad \in KnownTypes :
          id # -1 /\ DetachTypes(done \cup {bad}, id)
    BY <1>3 DEF RemoveNodeThrows
  <2>2. done \cup {bad} \in SUBSET KnownTypes OBVIOUS
  <2>3. QED BY <2>1, <2>2
<1>4. QED BY <1>1, <1>2, <1>3

LEMMA RemoveNodeLive ==
  ASSUME NodesTyped, RelsTyped, LiveInv, RemoveNodeStep
  PROVE  LiveInv'
<1>1. PICK name \in Names, done \in SUBSET KnownTypes :
        nodeKeys[name] # -1 /\ DetachTypes(done, nodeKeys[name])
  BY RemoveNodeDetaches
<1>key. PICK key : key = nodeKeys[name] OBVIOUS
<1>gone. PICK gone : gone = UNION {Incident(t, key) : t \in done} OBVIOUS
<1>2. key \in NodeIds BY <1>1, <1>key DEF NodesTyped
<1>3. /\ relationships' = Nulled(gone)
      /\ related' = [t \in KnownTypes |-> IF t \in done THEN RemoveAll(related[t], key)
                                          ELSE related[t]]
  BY <1>1, <1>key, <1>gone DEF DetachTypes
<1>4. Shrinks(gone) BY <1>3, NulledShrinks DEF RelsTyped
<1>5. ASSUME NEW r \in Relationship, NEW id \in RelIds, id \notin gone, PlacedIn(related, r, id)
      PROVE  PlacedIn(related', r, id)
  <2> DEFINE t == r.type
  <2> DEFINE m == related[t]
  <2>1. t \in KnownTypes /\ r.from \in NodeIds /\ r.to \in NodeIds
    BY <1>5 DEF PlacedIn, KnownTypes, Relationship
  <2>2. m \in Index(NodeIds, RelIds) BY <2>1 DEF RelsTyped, IndexTyped
  <2>3. DOMAIN related' = KnownTypes
        /\ related'[t] = IF t \in done THEN RemoveAll(m, key) ELSE m
    BY <1>3, <2>1
  <2>4. Times(m.from2rel[r.from], id) = 1 /\ Times(m.to2rel[r.to], id) = 1
    BY <1>5 DEF PlacedIn
  <2>5. t \in done => ~ Holds(m.from2rel[key], id)
    <3>1. SUFFICES ASSUME t \in done, Holds(m.from2rel[key], id) PROVE FALSE OBVIOUS
    <3>2. m.from2rel[key] \in Seq(RelIds) BY <1>2, <2>2 DEF Index
    <3>3. id \in ToSet(m.from2rel[key]) BY <3>1, <3>2 DEF Holds, ToSet
    <3>4. id \in Incident(t, key) BY <3>3 DEF Incident
    <3>5. QED BY <1>5, <1>gone, <3>1, <3>4
  <2> HIDE DEF m, t
  <2>6. t \in done => \A n \in NodeIds : SameTimes(m, RemoveAll(m, key), n, id)
    BY <1>2, <2>2, <2>5, RemoveAllTimes
  <2>7. QED BY <2>1, <2>3, <2>4, <2>6 DEF PlacedIn, SameTimes, t
<1>6. QED BY <1>4, <1>5, ShrinkPlaced

\* The index holds nothing under an id that was not allocated.
LEMMA UnknownId ==
  ASSUME NEW ids, NEW rels, NEW m \in Index(ids, rels), NEW n \in ids, NEW id, id \notin rels
  PROVE  Times(m.from2rel[n], id) = 0 /\ Times(m.to2rel[n], id) = 0
<1> DEFINE a == m.from2rel[n]
<1> DEFINE b == m.to2rel[n]
<1>1. a \in Seq(rels) /\ b \in Seq(rels) BY DEF Index
<1>2. ~ Holds(a, id) /\ ~ Holds(b, id) BY <1>1 DEF Holds
<1> HIDE DEF a, b
<1>3. Times(a, id) = 0 /\ Times(b, id) = 0 BY <1>1, <1>2, TimesTyped
<1>4. QED BY <1>3 DEF a, b

LEMMA LinkLive ==
  ASSUME RelsTyped, LiveInv, LinkStep
  PROVE  LiveInv'
<1>c1. PICK t \in Types, n1 \in NodeIds, n2 \in NodeIds, shown \in Int, props \in StoredMaps :
        \E call : Link(call, t, n1, n2, shown, props)
  BY DEF LinkStep
<1>1. PICK call : Link(call, t, n1, n2, shown, props) BY <1>c1
<1>new. PICK new : new = Len(relationships) OBVIOUS
<1>m. PICK m : m = RelatedOf(t) OBVIOUS
<1>p. PICK p : p = Put(m, n1, n2, new) OBVIOUS
<1>2. /\ Len(relationships)' = new + 1 /\ ListTyped'
      /\ \A i \in DOMAIN relationships : relationships'[i] = relationships[i]
      /\ relationships'[new + 1] =
           [id |-> new, type |-> t, from |-> n1, to |-> n2, count |-> shown, props |-> props]
      /\ KnownTypes' = KnownTypes \cup {t}
      /\ m \in Index(NodeIds, RelIds)
      /\ related'[t] = p
      /\ \A u \in KnownTypes : u # t => related'[u] = related[u]
  <2>1. Linked(t, n1, n2, shown, props) BY <1>1, LinkEffect
  <2>2. QED BY <1>new, <1>m, <1>p, <2>1 DEF Linked
<1>3. new \in Nat /\ DOMAIN relationships = 1 .. new /\ DOMAIN relationships' = 1 .. new + 1
  BY <1>2, <1>new DEF RelsTyped, ListTyped
<1>4. new \notin RelIds BY <1>3, <1>new DEF RelIds
<1>5. \A n \in NodeIds : \A e : OnceMore(m, p, n1, n2, new, n, e)
  <2>1. m \in Index(NodeIds, RelIds) BY <1>2
  <2>2. \A n \in NodeIds : \A e : OnceMore(m, Put(m, n1, n2, new), n1, n2, new, n, e)
    BY <2>1, PutTimes
  <2>3. QED BY <1>p, <2>2
<1>6. \A n \in NodeIds : Times(m.from2rel[n], new) = 0 /\ Times(m.to2rel[n], new) = 0
  BY <1>2, <1>4, UnknownId
<1>7. ASSUME NEW i \in 1 .. new + 1, relationships'[i] # Null
      PROVE  relationships'[i].id = i - 1 /\ PlacedIn(related', relationships'[i], i - 1)
  <2>1. CASE i = new + 1
    <3> DEFINE r == relationships'[i]
    <3>1. r.id = new /\ r.type = t /\ r.from = n1 /\ r.to = n2 BY <1>2, <2>1
    <3>2. Times(p.from2rel[n1], new) = 1 /\ Times(p.to2rel[n2], new) = 1 BY <1>5, <1>6 DEF OnceMore
    <3>3. i - 1 = new BY <1>3, <2>1
    <3>4. t \in DOMAIN related' BY <1>2 DEF KnownTypes
    <3> HIDE DEF r
    <3>5. r.id = i - 1 /\ PlacedIn(related', r, i - 1) BY <1>2, <3>1, <3>2, <3>3, <3>4 DEF PlacedIn
    <3>6. QED BY <3>5 DEF r
  <2>2. CASE i # new + 1
    <3> DEFINE r == relationships[i]
    <3> DEFINE id == i - 1
    <3>1. i \in DOMAIN relationships /\ relationships'[i] = r BY <1>2, <1>3, <2>2
    <3>2. id # new BY <1>3, <2>2
    <3>3. r.id = id /\ PlacedIn(related, r, id) BY <1>7, <3>1 DEF LiveInv
    <3>4. r \in Relationship BY <1>7, <3>1 DEF RelsTyped, ListTyped
    <3>5. r.from \in NodeIds /\ r.to \in NodeIds BY <3>4 DEF Relationship
    <3> HIDE DEF r, id
    <3>6. r.type \in KnownTypes BY <3>3 DEF PlacedIn, KnownTypes
    <3>7. r.type \in DOMAIN related' BY <1>2, <3>6 DEF KnownTypes
    <3>8. ASSUME r.type # t PROVE PlacedIn(related', r, id)
      <4>1. related'[r.type] = related[r.type] BY <1>2, <3>6, <3>8
      <4>2. QED BY <3>3, <3>7, <4>1 DEF PlacedIn
    <3>9. ASSUME r.type = t PROVE PlacedIn(related', r, id)
      <4>1. m = related[t] BY <1>m, <3>6, <3>9 DEF RelatedOf
      <4>2. Times(m.from2rel[r.from], id) = 1 /\ Times(m.to2rel[r.to], id) = 1
        BY <3>3, <3>9, <4>1 DEF PlacedIn
      <4>3. OnceMore(m, p, n1, n2, new, r.from, id) /\ OnceMore(m, p, n1, n2, new, r.to, id)
        BY <1>5, <3>5
      <4>4. Times(p.from2rel[r.from], id) = 1 /\ Times(p.to2rel[r.to], id) = 1
        BY <3>2, <4>2, <4>3 DEF OnceMore
      <4>5. related'[r.type] = p BY <1>2, <3>9
      <4>6. QED BY <3>7, <4>4, <4>5 DEF PlacedIn
    <3>10. PlacedIn(related', r, id) BY <3>8, <3>9
    <3>11. QED BY <3>1, <3>3, <3>10 DEF id
  <2>3. QED BY <2>1, <2>2
<1>8. QED BY <1>3, <1>7 DEF LiveInv

LEMMA RemovedLive ==
  ASSUME RelsTyped, LiveInv, RemoveByIdStep \/ (RemoveNumberStep /\ RelsInv)
  PROVE  LiveInv'
<1>1. PICK t, n1, n2, id :
        /\ Shrinks({id})
        /\ related' = [related EXCEPT ![t] = RemoveRel(related[t], n1, n2, id)]
  <2>1. CASE RemoveByIdStep
    <3>1. PICK id \in Int : RelUsable(id) /\ RemoveRelationshipById(id)
      BY <2>1 DEF RemoveByIdStep
    <3> DEFINE r == RelRec(id)
    <3>2. /\ related' = [related EXCEPT ![r.type] =
                           RemoveRel(related[r.type], r.from, r.to, id)]
          /\ relationships' = Nulled({id})
      BY <3>1 DEF RemoveRelationshipById
    <3>3. Shrinks({id}) BY <3>2, NulledShrinks DEF RelsTyped
    <3>4. QED BY <3>2, <3>3
  <2>2. CASE RemoveNumberStep /\ RelsInv
    <3>c1. PICK t \in KnownTypes, n1 \in NodeIds, n2 \in NodeIds, k \in Int : \E call :
            RemoveNumber(call, t, n1, n2, k)
      BY <2>2 DEF RemoveNumberStep
    <3>1. PICK call :
            RemoveNumber(call, t, n1, n2, k)
      BY <3>c1
    <3>2. NumberRemoved(t, n1, n2, k) BY <2>2, <3>1, RemoveNumberEffect
    <3>3. QED BY <3>2 DEF NumberRemoved
  <2>3. QED BY <2>1, <2>2
<1>2. \A r \in Relationship, e \in RelIds :
        e \notin {id} /\ PlacedIn(related, r, e) => PlacedIn(related', r, e)
  <2>1. SUFFICES ASSUME NEW r \in Relationship, NEW e \in RelIds, e # id, PlacedIn(related, r, e)
                 PROVE  PlacedIn(related', r, e)
    OBVIOUS
  <2>2. QED BY <1>1, <2>1, OneRemovedPlaced
<1>3. QED BY <1>1, <1>2, ShrinkPlaced

LEMMA LiveInvKeeps ==
  ASSUME TypeInv, LiveInv,
         \/ Nothing \/ AddNodeStep \/ NodePropsStep \/ InsertNodeStep \/ RemoveNodeStep
         \/ LinkStep \/ RemoveByIdStep \/ RemoveNumberStep \/ RelPropsStep
  PROVE  LiveInv'
<1>2. NodesTyped /\ RelsInv /\ RelsTyped BY TypeInvParts, RelsInvIs
<1>4. CASE Nothing \/ AddNodeStep \/ NodePropsStep \/ InsertNodeStep
  <2>1. UNCHANGED relVars
    BY <1>4 DEF Nothing, AddNodeStep, NodePropsStep, InsertNodeStep
  <2>2. UNCHANGED <<relationships, related>> BY <2>1 DEF relVars
  <2>3. QED BY <2>2 DEF LiveInv
<1>5. CASE RemoveNodeStep BY <1>2, <1>5, RemoveNodeLive
<1>6. CASE LinkStep BY <1>2, <1>6, LinkLive
<1>7. CASE RemoveByIdStep \/ RemoveNumberStep BY <1>2, <1>7, RemovedLive
<1>8. CASE RelPropsStep
  <2>1. Shrinks({}) BY <1>2, <1>8, RelPropsShrink
  <2>2. UNCHANGED related BY <1>8 DEF RelPropsStep
  <2>3. QED BY <1>2, <2>1, <2>2, ShrinkPlaced
<1>9. QED BY <1>4, <1>5, <1>6, <1>7, <1>8

LEMMA LiveInvStep ==
  "deleteRelationshipProperties" \notin Ops => (TypeInv /\ LiveInv /\ [Next]_vars => LiveInv')
BY StepKinds, LiveInvKeeps DEF GraphStep, InsertRelStep

LEMMA LiveInvHolds ==
  ASSUME "deleteRelationshipProperties" \notin Ops
  PROVE  Spec => []LiveInv
<1>1. Init => LiveInv
  <2>1. DOMAIN <<>> = {} OBVIOUS
  <2>2. QED BY <2>1 DEF Init, LiveInv
<1>2. TypeInv /\ LiveInv /\ [Next]_vars => LiveInv' BY LiveInvStep
<1>3. Spec => []TypeInv BY TypeInvHolds
<1>4. QED BY <1>1, <1>2, <1>3, PTL DEF Spec

LEMMA LiveInvIndexed ==
  ASSUME ListTyped, LiveInv
  PROVE  LiveIsIndexed
<1>1. SUFFICES ASSUME NEW id \in 0 .. Len(relationships) - 1, RelRec(id) # Null
               PROVE  LET r == RelRec(id) IN
                      /\ r.id = id
                      /\ Occurrences(OutgoingRelationshipIds(r.type, r.from), id) = 1
                      /\ Occurrences(IncomingRelationshipIds(r.type, r.to), id) = 1
  BY DEF LiveIsIndexed, LiveRels
<1> DEFINE i == id + 1
<1> DEFINE r == relationships[i]
<1>2. i \in DOMAIN relationships /\ i - 1 = id BY DEF ListTyped
<1>3. r # Null BY <1>1 DEF RelRec
<1>4. r.id = id /\ PlacedIn(related, r, id) BY <1>2, <1>3 DEF LiveInv
<1> HIDE DEF r
<1>5. /\ r.id = id
      /\ Occurrences(OutgoingRelationshipIds(r.type, r.from), id) = 1
      /\ Occurrences(IncomingRelationshipIds(r.type, r.to), id) = 1
  BY <1>4, OccurrencesIsTimes
     DEF PlacedIn, OutgoingRelationshipIds, IncomingRelationshipIds, KnownTypes
<1>6. QED BY <1>5 DEF r, RelRec

\* Without the insertions of deleteRelationshipProperties a relationship that
\* lives is in the adjacency of both its ends exactly once: no removal, by id,
\* by number or of a node, takes out another one than it sets to null.
THEOREM LiveStayIndexed ==
  ASSUME "deleteRelationshipProperties" \notin Ops
  PROVE  Spec => []LiveIsIndexed
<1>1. TypeInv => ListTyped BY TypeInvParts DEF RelsInv
<1>2. TypeInv /\ LiveInv => LiveIsIndexed BY <1>1, LiveInvIndexed
<1>3. QED BY <1>2, TypeInvHolds, LiveInvHolds, PTL
=============================================================================

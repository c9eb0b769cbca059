----------------------------- MODULE Gremlin_proofs -----------------------------
(***************************************************************************)
(* Proofs about the elements of the TinkerPop adapter, for any number of    *)
(* names, types, vertices and edges, and of closings of the graph.          *)
(***************************************************************************)
EXTENDS Gremlin, FastUtilGraph_proofs

(* The nodes: a map in the list leads to its name and the name back to it *)

RecordsNamed ==
  \A i \in DOMAIN nodes : nodes[i] # Null =>
    nodes[i].name \in Names /\ nodeKeys[nodes[i].name] = i - 1

NodesNamed == NodeIdsSound /\ NodeOwnRecord /\ RecordsNamed

LEMMA RecordLeads ==
  ASSUME NodesTyped, RecordsNamed, NEW id \in Int, NodeUsable(id)
  PROVE  /\ id \in NodeIds /\ NodeRec(id).name \in Names
         /\ nodeKeys[NodeRec(id).name] = id
<1>1. id + 1 \in DOMAIN nodes /\ nodes[id + 1] # Null BY DEF NodeUsable, NodeRec
<1>2. (id + 1) - 1 = id OBVIOUS
<1>3. NodeRec(id).name \in Names /\ nodeKeys[NodeRec(id).name] = id
  BY <1>1, <1>2 DEF RecordsNamed, NodeRec
<1>4. id # -1 BY <1>1 DEF NodesTyped
<1>5. QED BY <1>3, <1>4 DEF NodesTyped

LEMMA NameLeads ==
  ASSUME NodesTyped, NodesNamed, NEW n \in Names, nodeKeys[n] # -1
  PROVE  /\ nodeKeys[n] \in NodeIds /\ NodeUsable(nodeKeys[n])
         /\ NodeRec(nodeKeys[n]).name = n
<1>1. n \in LiveNames BY DEF LiveNames
<1>key. PICK id : id = nodeKeys[n] OBVIOUS
<1>2. id \in NodeIds BY <1>key DEF NodesTyped
<1>3. id < Len(nodes) BY <1>1, <1>key DEF NodesNamed, NodeIdsSound
<1>4. id + 1 \in DOMAIN nodes BY <1>2, <1>3 DEF NodesTyped, NodeIds
<1>5. NodeRec(id) # Null /\ NodeRec(id).name \in {n, Null}
  BY <1>1, <1>key DEF NodesNamed, NodeOwnRecord, GetNode
<1>6. NodeUsable(id) BY <1>4, <1>5 DEF NodeUsable
<1>7. id \in Int BY <1>2 DEF NodeIds
<1>8. NodeRec(id).name \in Names BY <1>6, <1>7, RecordLeads DEF NodesNamed
<1>9. QED BY <1>2, <1>5, <1>6, <1>8, <1>key, NullIsFresh

LEMMA AddNodeNamed ==
  ASSUME NodesTyped, NodeIdsSound, RecordsNamed, AddNodeStep
  PROVE  RecordsNamed'
<1>1. PICK name \in Names, id \in NodeIds, props \in StoredMaps :
        LET rec == [id |-> id, name |-> name, props |-> props] IN
        /\ nodeKeys[name] = -1
        /\ nodeKeys' = [nodeKeys EXCEPT ![name] = id]
        /\ \/ /\ id = Len(nodes)
              /\ nodes' = Append(nodes, rec)
           \/ /\ id \in deletedNodes
              /\ nodes' = [nodes EXCEPT ![id + 1] = rec]
  BY DEF AddNodeStep
<1> DEFINE rec == [id |-> id, name |-> name, props |-> props]
<1>2. rec.name = name OBVIOUS
<1> HIDE DEF rec
<1>3. nodes \in Seq(Node \cup {Null}) /\ Len(nodes) \in Nat BY DEF NodesTyped
<1>4. \A n \in Names : nodeKeys'[n] = IF n = name THEN id ELSE nodeKeys[n]
  BY <1>1 DEF NodesTyped
<1>5. id \in Nat BY DEF NodeIds
<1>6. ASSUME NEW i \in DOMAIN nodes', nodes'[i] # Null
      PROVE  nodes'[i].name \in Names /\ nodeKeys'[nodes'[i].name] = i - 1
  <2>1. i \in Nat /\ i >= 1 /\ (i = id + 1 => nodes'[i] = rec)
        /\ (i # id + 1 => i \in DOMAIN nodes /\ nodes'[i] = nodes[i])
    <3>1. CASE id = Len(nodes) /\ nodes' = Append(nodes, rec)
      BY <1>3, <1>6, <3>1
    <3>2. CASE id \in deletedNodes /\ nodes' = [nodes EXCEPT ![id + 1] = rec]
      <4>1. DOMAIN nodes' = DOMAIN nodes BY <3>2
      <4>2. QED BY <1>3, <1>6, <3>2, <4>1
    <3>3. QED BY <1>1, <3>1, <3>2 DEF rec
  <2>2. CASE i = id + 1 BY <1>2, <1>4, <1>5, <2>1, <2>2
  <2>3. CASE i # id + 1
    <3>1. nodes[i].name \in Names /\ nodeKeys[nodes[i].name] = i - 1
      BY <1>6, <2>1, <2>3 DEF RecordsNamed
    <3>2. nodes[i].name # name BY <1>1, <2>1, <3>1
    <3>3. QED BY <1>4, <2>1, <2>3, <3>1, <3>2
  <2>4. QED BY <2>2, <2>3
<1>7. QED BY <1>6 DEF RecordsNamed

LEMMA NodePropsNamed ==
  ASSUME NodesTyped, RecordsNamed, NodePropsStep
  PROVE  RecordsNamed'
<1>1. PICK id \in Int, props \in StoredMaps :
        NodeUsable(id) /\ nodes' = [nodes EXCEPT ![id + 1].props = props]
  BY DEF NodePropsStep
<1> DEFINE j == id + 1
<1> DEFINE rec == [nodes[j] EXCEPT !.props = props]
<1>2. j \in DOMAIN nodes /\ nodes[j] # Null BY <1>1 DEF NodeUsable, NodeRec
<1>3. nodes[j] \in Node BY <1>2 DEF NodesTyped
<1>4. rec.name = nodes[j].name BY <1>3 DEF Node
<1>5. nodes' = [nodes EXCEPT ![j] = rec] BY <1>1
<1> HIDE DEF rec, j
<1>6. UNCHANGED nodeKeys BY DEF NodePropsStep
<1>7. ASSUME NEW i \in DOMAIN nodes', nodes'[i] # Null
      PROVE  i \in DOMAIN nodes /\ nodes[i] # Null /\ nodes'[i].name = nodes[i].name
  <2>1. CASE i = j BY <1>2, <1>4, <1>5, <2>1
  <2>2. CASE i # j BY <1>5, <1>7, <2>2
  <2>3. QED BY <2>1, <2>2
<1>8. QED BY <1>6, <1>7 DEF RecordsNamed

LEMMA RemoveNodeNamed ==
  ASSUME NodesTyped, RecordsNamed, NEW name \in Names, NEW call, RemoveNodeDone(call, name)
  PROVE  RecordsNamed'
<1>key. PICK id : id = nodeKeys[name] OBVIOUS
<1>1. /\ id # -1
      /\ nodes' = [nodes EXCEPT ![id + 1] = Null]
      /\ nodeKeys' = [nodeKeys EXCEPT ![name] = -1]
  BY <1>key DEF RemoveNodeDone, ForgetKey
<1>2. \A n \in Names : nodeKeys'[n] = IF n = name THEN -1 ELSE nodeKeys[n]
  BY <1>1 DEF NodesTyped
<1>3. id \in Int BY <1>1, <1>key DEF NodesTyped, NodeIds
<1>4. ASSUME NEW i \in DOMAIN nodes', nodes'[i] # Null
      PROVE  nodes'[i].name \in Names /\ nodeKeys'[nodes'[i].name] = i - 1
  <2>1. i \in DOMAIN nodes /\ i # id + 1 /\ nodes'[i] = nodes[i] BY <1>1, <1>4
  <2>2. i \in Int BY <2>1 DEF NodesTyped
  <2>3. nodes[i].name \in Names /\ nodeKeys[nodes[i].name] = i - 1
    BY <1>4, <2>1 DEF RecordsNamed
  <2>4. nodes[i].name # name BY <1>3, <1>key, <2>1, <2>2, <2>3
  <2>5. QED BY <1>2, <2>1, <2>3, <2>4
<1>5. QED BY <1>4 DEF RecordsNamed

LEMMA NodesNamedKeeps ==
  ASSUME NodesTyped, IndexTyped, EndsInv, NodesNamed,
         \/ Nothing \/ AddNodeStep \/ NodePropsStep \/ RemoveNodeStep
         \/ LinkStep \/ RemoveByIdStep \/ RelPropsStep
  PROVE  NodesNamed'
<1> USE DEF NodesNamed
<1>1. CASE AddNodeStep BY <1>1, AddNodeIds, AddNodeOwn, AddNodeNamed
<1>2. CASE NodePropsStep BY <1>2, NodeIdsStay, NodePropsOwn, NodePropsNamed
<1>3. CASE RemoveNodeStep
  <2>1. PICK name \in Names : \E call : RemoveNodeDone(call, name) BY <1>3, RemoveNodeIsDone
  <2>2. PICK call : RemoveNodeDone(call, name) BY <2>1
  <2>3. QED BY <2>2, RemoveNodeIds, RemoveNodeOwn, RemoveNodeNamed
<1>4. CASE UNCHANGED nodeVars
  BY <1>4 DEF nodeVars, NodeIdsSound, NodeOwnRecord, RecordsNamed, LiveNames, GetNode, NodeRec
<1>5. QED BY <1>1, <1>2, <1>3, <1>4, NodesUntouched

-----------------------------------------------------------------------------
(* The numbers: the map of a relationship shows the number its key has, and   *)
(* no number is beyond the count of its pair, which only grows.               *)

ShownNumber(r) == IF r.count = 0 THEN 1 ELSE r.count

HasOwnNumber(keys, counts, r, id) ==
  /\ ShownNumber(r) <= counts[r.type][<<r.from, r.to>>]
  /\ Has(keys, <<r.type, ShownNumber(r)>>, <<r.from, r.to>>)
  /\ keys[<<r.type, ShownNumber(r)>>][<<r.from, r.to>>] = id

LiveNumbered ==
  \A i \in DOMAIN relationships : relationships[i] # Null =>
    HasOwnNumber(relationshipKeys, relatedCounts, relationships[i], i - 1)

SameNumber(r, q) == SameEnds(r, q) /\ q.count = r.count

\* What is left is still where and what it was, its number included.
OnlyShrinks ==
  \A i \in DOMAIN relationships' : relationships'[i] # Null =>
    /\ i \in DOMAIN relationships /\ relationships[i] # Null
    /\ SameNumber(relationships[i], relationships'[i])

LEMMA NumbersUntouched ==
  ASSUME LiveNumbered, OnlyShrinks, UNCHANGED <<relationshipKeys, relatedCounts>>
  PROVE  LiveNumbered'
<1>1. ASSUME NEW i \in DOMAIN relationships', relationships'[i] # Null
      PROVE  HasOwnNumber(relationshipKeys', relatedCounts', relationships'[i], i - 1)
  <2>1. /\ i \in DOMAIN relationships /\ relationships[i] # Null
        /\ SameNumber(relationships[i], relationships'[i])
    BY <1>1 DEF OnlyShrinks
  <2>2. HasOwnNumber(relationshipKeys, relatedCounts, relationships[i], i - 1)
    BY <2>1 DEF LiveNumbered
  <2>3. QED BY <2>1, <2>2 DEF HasOwnNumber, SameNumber, SameEnds, ShownNumber
<1>2. QED BY <1>1 DEF LiveNumbered

LEMMA NulledOnly ==
  ASSUME ListTyped, NEW gone, relationships' = Nulled(gone)
  PROVE  /\ OnlyShrinks
         /\ \A i \in DOMAIN relationships' : relationships'[i] # Null =>
              i - 1 \notin gone /\ relationships'[i] = relationships[i]
<1>1. /\ DOMAIN relationships' = DOMAIN relationships
      /\ \A i \in DOMAIN relationships :
           relationships'[i] = IF i - 1 \in gone THEN Null ELSE relationships[i]
  BY DEF Nulled
<1>2. QED BY <1>1 DEF OnlyShrinks, SameNumber, SameEnds

LEMMA RelPropsOnly ==
  ASSUME ListTyped, RelPropsStep
  PROVE  OnlyShrinks
<1>1. PICK id \in Int, props \in StoredMaps :
        RelUsable(id) /\ relationships' = [relationships EXCEPT ![id + 1].props = props]
  BY DEF RelPropsStep
<1>j. PICK j : j = id + 1 OBVIOUS
<1> DEFINE rec == [relationships[j] EXCEPT !.props = props]
<1>2. j \in DOMAIN relationships /\ relationships[j] # Null BY <1>1, <1>j DEF RelUsable, RelRec
<1>3. relationships[j] \in Relationship BY <1>2 DEF ListTyped
<1>4. SameNumber(relationships[j], rec) BY <1>3 DEF Relationship, SameNumber, SameEnds
<1>5. relationships' = [relationships EXCEPT ![j] = rec] BY <1>1, <1>j
<1> HIDE DEF rec
<1>6. ASSUME NEW i \in DOMAIN relationships', relationships'[i] # Null
      PROVE  /\ i \in DOMAIN relationships /\ relationships[i] # Null
             /\ SameNumber(relationships[i], relationships'[i])
  <2>1. CASE i = j BY <1>2, <1>4, <1>5, <2>1
  <2>2. CASE i # j BY <1>5, <1>6, <2>2 DEF SameNumber, SameEnds
  <2>3. QED BY <2>1, <2>2
<1>7. QED BY <1>6 DEF OnlyShrinks

LEMMA RemoveByIdNumbered ==
  ASSUME ListTyped, LiveNumbered, RemoveByIdStep
  PROVE  LiveNumbered'
<1>1. PICK id \in Int : RelUsable(id) /\ RemoveRelationshipById(id) BY DEF RemoveByIdStep
<1>r. PICK r : r = RelRec(id) OBVIOUS
<1>k. PICK k : k = ShownNumber(r) OBVIOUS
<1>2. /\ relationships' = Nulled({id}) /\ UNCHANGED relatedCounts
      /\ \/ relationshipKeys' = DropKey(relationshipKeys, r.type, k, r.from, r.to)
         \/ UNCHANGED relationshipKeys
  BY <1>1, <1>r, <1>k DEF RemoveRelationshipById, ShownNumber
<1>3. OnlyShrinks BY <1>2, NulledOnly
<1>4. CASE UNCHANGED relationshipKeys BY <1>2, <1>3, <1>4, NumbersUntouched
<1>5. CASE relationshipKeys' = DropKey(relationshipKeys, r.type, k, r.from, r.to)
  <2>1. IsDrop(relationshipKeys, relationshipKeys', r.type, k, r.from, r.to)
    BY <1>5, DropKeyIs
  <2>2. relationshipKeys[<<r.type, k>>][<<r.from, r.to>>] = id
    <3>1. id + 1 \in DOMAIN relationships /\ relationships[id + 1] # Null
          /\ relationships[id + 1] = r
      BY <1>1, <1>r DEF RelUsable, RelRec
    <3>2. (id + 1) - 1 = id OBVIOUS
    <3>3. QED BY <1>k, <3>1, <3>2 DEF LiveNumbered, HasOwnNumber
  <2>3. ASSUME NEW i \in DOMAIN relationships', relationships'[i] # Null
        PROVE  HasOwnNumber(relationshipKeys', relatedCounts', relationships'[i], i - 1)
    <3>q. PICK q : q = relationships[i] OBVIOUS
    <3>key. PICK key : key = <<q.type, ShownNumber(q)>> OBVIOUS
    <3>pair. PICK pair : pair = <<q.from, q.to>> OBVIOUS
    <3>1. /\ i \in DOMAIN relationships /\ q # Null
          /\ relationships'[i] = q /\ i - 1 # id
      BY <1>2, <2>3, <3>q, NulledOnly DEF OnlyShrinks
    <3>2. HasOwnNumber(relationshipKeys, relatedCounts, q, i - 1) BY <3>1, <3>q DEF LiveNumbered
    <3>3. /\ Has(relationshipKeys, key, pair) /\ relationshipKeys[key][pair] = i - 1
          /\ ShownNumber(q) <= relatedCounts[q.type][pair]
      BY <3>2, <3>key, <3>pair DEF HasOwnNumber
    <3>4. ~ (key = <<r.type, k>> /\ pair = <<r.from, r.to>>) BY <2>2, <3>1, <3>3
    <3>5. Has(relationshipKeys', key, pair) /\ relationshipKeys'[key][pair] = i - 1
      BY <2>1, <3>3, <3>4 DEF IsDrop
    <3>6. QED BY <1>2, <3>1, <3>3, <3>5, <3>key, <3>pair DEF HasOwnNumber
  <2>4. QED BY <2>3 DEF LiveNumbered
<1>6. QED BY <1>2, <1>4, <1>5

\* What addRelationshipWithProperties does for a client that sends no "~count":
\* the map shows the number the relationship gets.
ShowingLink(call, t, n1, n2, props) ==
  Link(call, t, n1, n2,
       IF NextNumber(t, n1, n2) > 1 THEN NextNumber(t, n1, n2) ELSE 0, props)

ShowingLinkStep ==
  \E t \in Types, n1 \in NodeIds, n2 \in NodeIds, props \in StoredMaps : \E call :
    ShowingLink(call, t, n1, n2, props)

LEMMA ShowingLinkIs ==
  ASSUME CountsTyped, NEW t \in Types, NEW n1 \in NodeIds, NEW n2 \in NodeIds
  PROVE  /\ NextNumber(t, n1, n2) \in Int /\ NextNumber(t, n1, n2) >= 1
         /\ (IF NextNumber(t, n1, n2) > 1 THEN NextNumber(t, n1, n2) ELSE 0) \in Int
<1>1. PairCounts(t)[<<n1, n2>>] \in Nat BY DEF CountsTyped, PairCounts
<1>2. QED BY <1>1 DEF NextNumber

LEMMA ShowingLinks ==
  ASSUME CountsTyped, ShowingLinkStep
  PROVE  LinkStep
<1>1. PICK t \in Types, n1 \in NodeIds, n2 \in NodeIds, props \in StoredMaps : \E call :
        ShowingLink(call, t, n1, n2, props)
  BY DEF ShowingLinkStep
<1>2. PICK call : ShowingLink(call, t, n1, n2, props) BY <1>1
<1>3. PICK shown \in Int : Link(call, t, n1, n2, shown, props)
  BY <1>2, ShowingLinkIs DEF ShowingLink
<1>4. QED BY <1>3 DEF LinkStep

LEMMA LinkNumbered ==
  ASSUME RelsTyped, LiveInv, LiveNumbered, ShowingLinkStep
  PROVE  LiveNumbered'
<1>1. PICK t \in Types, n1 \in NodeIds, n2 \in NodeIds, props \in StoredMaps : \E call :
        ShowingLink(call, t, n1, n2, props)
  BY DEF ShowingLinkStep
<1>2. PICK call : ShowingLink(call, t, n1, n2, props) BY <1>1
<1>c. PICK c : c = NextNumber(t, n1, n2) OBVIOUS
<1>shown. PICK shown : shown = IF c > 1 THEN c ELSE 0 OBVIOUS
<1>new. PICK new : new = Len(relationships) OBVIOUS
<1>3. c \in Int /\ c >= 1 /\ shown \in Int
  BY <1>c, <1>shown, ShowingLinkIs DEF RelsTyped
<1>4. Link(call, t, n1, n2, shown, props) BY <1>2, <1>c, <1>shown DEF ShowingLink
<1>5. Linked(t, n1, n2, shown, props) BY <1>3, <1>4, LinkEffect
<1>rec. PICK rec : rec = [id |-> new, type |-> t, from |-> n1, to |-> n2,
                          count |-> shown, props |-> props] OBVIOUS
<1>6. /\ \A i \in DOMAIN relationships : relationships'[i] = relationships[i]
      /\ relationships'[new + 1] = rec
      /\ ListTyped' /\ Len(relationships)' = new + 1
      /\ PairCounts(t) \in [NodeIds \X NodeIds -> Nat]
      /\ relatedCounts'[t] = [PairCounts(t) EXCEPT ![<<n1, n2>>] = @ + 1]
      /\ \A u \in KnownTypes : u # t => relatedCounts'[u] = relatedCounts[u]
  BY <1>5, <1>new, <1>rec DEF Linked
<1>7. IsPut(relationshipKeys, relationshipKeys', t, c, n1, n2, new)
  BY <1>4, <1>c, <1>new, PutKeyIs DEF Link, NextRelId
<1>8. new \in Nat /\ DOMAIN relationships = 1 .. new /\ DOMAIN relationships' = 1 .. new + 1
  BY <1>6, <1>new DEF RelsTyped, ListTyped
<1>9. c = PairCounts(t)[<<n1, n2>>] + 1 /\ relatedCounts'[t][<<n1, n2>>] = c
  BY <1>c, <1>6 DEF NextNumber
<1>10. HasOwnNumber(relationshipKeys', relatedCounts', rec, new)
  <2>1. ShownNumber(rec) = c BY <1>3, <1>shown, <1>rec DEF ShownNumber
  <2>2. rec.type = t /\ rec.from = n1 /\ rec.to = n2 BY <1>rec
  <2>3. relationshipKeys'[<<t, c>>][<<n1, n2>>] = new BY <1>7 DEF IsPut
  <2>4. Has(relationshipKeys', <<t, c>>, <<n1, n2>>) BY <1>7 DEF IsPut
  <2>5. c <= relatedCounts'[t][<<n1, n2>>] BY <1>3, <1>9
  <2>6. QED BY <2>1, <2>2, <2>3, <2>4, <2>5 DEF HasOwnNumber
<1>11. ASSUME NEW i \in DOMAIN relationships, relationships[i] # Null
       PROVE  HasOwnNumber(relationshipKeys', relatedCounts', relationships[i], i - 1)
  <2>q. PICK q : q = relationships[i] OBVIOUS
  <2>k. PICK k : k = ShownNumber(q) OBVIOUS
  <2>key. PICK key : key = <<q.type, k>> OBVIOUS
  <2>pair. PICK pair : pair = <<q.from, q.to>> OBVIOUS
  <2>1. q \in Relationship BY <1>11, <2>q DEF RelsTyped, ListTyped
  <2>2. k \in Int /\ pair \in NodeIds \X NodeIds
    BY <2>1, <2>k, <2>pair DEF Relationship, ShownNumber
  <2>3. q.type \in KnownTypes BY <1>11, <2>q DEF LiveInv, PlacedIn, KnownTypes
  <2>4. HasOwnNumber(relationshipKeys, relatedCounts, q, i - 1) BY <1>11, <2>q DEF LiveNumbered
  <2>5. /\ Has(relationshipKeys, key, pair) /\ relationshipKeys[key][pair] = i - 1
        /\ k <= relatedCounts[q.type][pair]
    BY <2>4, <2>k, <2>key, <2>pair DEF HasOwnNumber
  <2>6. relatedCounts[q.type] = PairCounts(q.type) BY <2>3 DEF PairCounts
  <2>7. k <= relatedCounts'[q.type][pair]
    <3>1. CASE q.type # t BY <1>6, <2>3, <2>5, <3>1
    <3>2. CASE q.type = t
      <4>1. k <= PairCounts(t)[pair] /\ PairCounts(t)[pair] \in Nat
        BY <1>6, <2>2, <2>5, <2>6, <3>2
      <4>2. \/ relatedCounts'[t][pair] = PairCounts(t)[pair]
            \/ relatedCounts'[t][pair] = PairCounts(t)[pair] + 1
        BY <1>6, <2>2
      <4>3. QED BY <2>2, <3>2, <4>1, <4>2
    <3>3. QED BY <3>1, <3>2
  <2>8. ~ (key = <<t, c>> /\ pair = <<n1, n2>>)
    <3>1. SUFFICES ASSUME key = <<t, c>>, pair = <<n1, n2>> PROVE FALSE OBVIOUS
    <3>2. q.type = t /\ k = c BY <2>key, <3>1
    <3>3. c <= PairCounts(t)[<<n1, n2>>] /\ PairCounts(t)[<<n1, n2>>] \in Nat
      BY <1>6, <2>5, <2>6, <3>1, <3>2
    <3>4. QED BY <1>3, <1>9, <3>3
  <2>9. Has(relationshipKeys', key, pair) /\ relationshipKeys'[key][pair] = i - 1
    BY <1>7, <2>5, <2>8 DEF IsPut
  <2>10. HasOwnNumber(relationshipKeys', relatedCounts', q, i - 1)
    BY <2>7, <2>9, <2>k, <2>key, <2>pair DEF HasOwnNumber
  <2>11. QED BY <2>10, <2>q
<1>12. ASSUME NEW i \in DOMAIN relationships', relationships'[i] # Null
       PROVE  HasOwnNumber(relationshipKeys', relatedCounts', relationships'[i], i - 1)
  <2>1. CASE i = new + 1
    <3>1. relationships'[i] = rec /\ i - 1 = new BY <1>6, <1>8, <2>1
    <3>2. QED BY <1>10, <3>1
  <2>2. CASE i # new + 1
    <3>1. i \in DOMAIN relationships BY <1>8, <2>2
    <3>2. relationships'[i] = relationships[i] BY <1>6, <3>1
    <3>3. HasOwnNumber(relationshipKeys', relatedCounts', relationships[i], i - 1)
      BY <1>11, <1>12, <3>1, <3>2
    <3>4. QED BY <3>2, <3>3
  <2>3. QED BY <2>1, <2>2
<1>13. QED BY <1>12 DEF LiveNumbered

-----------------------------------------------------------------------------
(* The lists of a type.  What an incoming list holds and still lives comes in *)
(* there.  As long as nothing was removed with edges of others coming in, an  *)
(* outgoing list holds live relationships only, each beside a neighbour that  *)
(* it leads to, and the neighbours are there.                                 *)

InSound(rels, t, m) ==
  \A n \in NodeIds : \A e :
    Holds(m.to2rel[n], e) /\ rels[e + 1] # Null =>
      rels[e + 1].type = t /\ rels[e + 1].to = n

LiveTo(rels, y) == {e \in 0 .. Len(rels) - 1 : rels[e + 1] # Null /\ rels[e + 1].to = y}

\* The outgoing lists of n: s its relationships, r its neighbours.
OutAt(rels, used, t, n, s, r) ==
  /\ \A e : Holds(s, e) =>
       rels[e + 1] # Null /\ rels[e + 1].type = t /\ rels[e + 1].from = n
  /\ \A y \in NodeIds :
       /\ Count(s, LiveTo(rels, y)) <= Times(r, y)
       /\ Holds(r, y) => y \in used

OutSound(rels, used, t, m) ==
  \A n \in NodeIds : OutAt(rels, used, t, n, m.from2rel[n], m.from2to[n])

LEMMA HoldsIn ==
  ASSUME NEW S, NEW s \in Seq(S), NEW e, Holds(s, e)
  PROVE  e \in S
BY DEF Holds

LEMMA HoldsAppend ==
  ASSUME NEW S, NEW s \in Seq(S), NEW x, NEW e
  PROVE  Holds(Append(s, x), e) <=> Holds(s, e) \/ e = x
<1>1. /\ Len(s) \in Nat /\ Len(Append(s, x)) = Len(s) + 1
      /\ Append(s, x)[Len(s) + 1] = x
      /\ \A i \in 1 .. Len(s) : Append(s, x)[i] = s[i]
  OBVIOUS
<1>2. \A i \in 1 .. Len(s) + 1 : i \in 1 .. Len(s) \/ i = Len(s) + 1 BY <1>1
<1>3. Len(s) + 1 \in 1 .. Len(s) + 1 /\ 1 .. Len(s) \subseteq 1 .. Len(s) + 1 BY <1>1
<1>p. PICK p : p = Append(s, x) OBVIOUS
<1>4. Holds(p, e) <=> Holds(s, e) \/ e = x BY <1>1, <1>2, <1>3, <1>p DEF Holds
<1>5. QED BY <1>4, <1>p

LEMMA HoldsRemoveFirst ==
  ASSUME NEW S, NEW s \in Seq(S), NEW x, NEW e, Holds(RemoveFirst(s, x), e)
  PROVE  Holds(s, e)
<1>1. RemoveFirst(s, x) \in Seq(S) BY RemoveFirstTyped
<1>2. Times(RemoveFirst(s, x), e) \in Nat /\ Times(RemoveFirst(s, x), e) # 0
  BY <1>1, TimesTyped
<1>3. Times(RemoveFirst(s, x), e) = Times(s, e) - (IF x \in {e} /\ Holds(s, x) THEN 1 ELSE 0)
  BY CountRemoveFirst DEF Times
<1>4. Times(s, e) \in Nat /\ (Times(s, e) = 0 <=> ~ Holds(s, e)) BY TimesTyped
<1>5. QED BY <1>2, <1>3, <1>4

\* A list of relationships that lost those of gone.
Fewer(rels, less, gone) ==
  /\ Len(less) = Len(rels)
  /\ \A i \in DOMAIN rels :
       /\ less[i] = Null <=> i - 1 \in gone \/ rels[i] = Null
       /\ less[i] # Null => SameEnds(rels[i], less[i])

LEMMA ShrinksIsFewer ==
  ASSUME NEW gone, Shrinks(gone)
  PROVE  Fewer(relationships, relationships', gone)
BY DEF Shrinks, Fewer

Positions(rels) == 0 .. Len(rels) - 1

LEMMA PositionsAre ==
  ASSUME NEW S, NEW rels \in Seq(S)
  PROVE  /\ \A e \in Positions(rels) : e + 1 \in DOMAIN rels /\ (e + 1) - 1 = e /\ e \in Nat
         /\ Len(rels) \in Nat /\ DOMAIN rels = 1 .. Len(rels)
BY DEF Positions

LEMMA LiveToFewer ==
  ASSUME NEW S, NEW rels \in Seq(S), NEW less, NEW gone, Fewer(rels, less, gone), NEW y
  PROVE  LiveTo(less, y) = LiveTo(rels, y) \ gone
<1>1. Len(less) = Len(rels) BY DEF Fewer
<1>2. \A e \in Positions(rels) :
        /\ less[e + 1] = Null <=> e \in gone \/ rels[e + 1] = Null
        /\ less[e + 1] # Null => less[e + 1].to = rels[e + 1].to
  BY PositionsAre DEF Fewer, SameEnds
<1>3. QED BY <1>1, <1>2 DEF LiveTo, Positions

LEMMA InFewer ==
  ASSUME NEW S, NEW rels \in Seq(S), NEW t, NEW m, InSound(rels, t, m),
         NEW less, NEW gone, Fewer(rels, less, gone),
         NEW p \in Index(NodeIds, Positions(rels)),
         \A n \in NodeIds : \A e \in Positions(rels) :
           e \notin gone /\ Holds(p.to2rel[n], e) => Holds(m.to2rel[n], e)
  PROVE  InSound(less, t, p)
<1>1. SUFFICES ASSUME NEW n \in NodeIds, NEW e, Holds(p.to2rel[n], e), less[e + 1] # Null
               PROVE  less[e + 1].type = t /\ less[e + 1].to = n
  BY DEF InSound
<1>2. p.to2rel[n] \in Seq(Positions(rels)) BY DEF Index
<1>3. e \in Positions(rels) BY <1>1, <1>2, HoldsIn
<1>4. e + 1 \in DOMAIN rels /\ (e + 1) - 1 = e BY <1>3, PositionsAre
<1>5. e \notin gone /\ rels[e + 1] # Null /\ SameEnds(rels[e + 1], less[e + 1])
  BY <1>1, <1>4 DEF Fewer
<1>6. Holds(m.to2rel[n], e) BY <1>1, <1>3, <1>5
<1>7. QED BY <1>5, <1>6 DEF InSound, SameEnds

LEMMA OutFewer ==
  ASSUME NEW S, NEW rels \in Seq(S), NEW t, NEW used, NEW n,
         NEW s \in Seq(Positions(rels)), NEW r \in Seq(NodeIds), OutAt(rels, used, t, n, s, r),
         NEW less, NEW gone, Fewer(rels, less, gone), \A e \in gone : ~ Holds(s, e)
  PROVE  OutAt(less, used, t, n, s, r)
<1>1. ASSUME NEW e, Holds(s, e)
      PROVE  less[e + 1] # Null /\ less[e + 1].type = t /\ less[e + 1].from = n
  <2>1. e \in Positions(rels) BY <1>1, HoldsIn
  <2>2. e + 1 \in DOMAIN rels /\ (e + 1) - 1 = e BY <2>1, PositionsAre
  <2>3. rels[e + 1] # Null /\ rels[e + 1].type = t /\ rels[e + 1].from = n BY <1>1 DEF OutAt
  <2>4. QED BY <1>1, <2>2, <2>3 DEF Fewer, SameEnds
<1>2. ASSUME NEW y \in NodeIds PROVE Count(s, LiveTo(less, y)) <= Times(r, y)
  <2>1. LiveTo(less, y) \subseteq LiveTo(rels, y) BY LiveToFewer
  <2>2. Count(s, LiveTo(less, y)) <= Count(s, LiveTo(rels, y)) BY <2>1, CountMore
  <2>3. Count(s, LiveTo(less, y)) \in Nat /\ Count(s, LiveTo(rels, y)) \in Nat BY CountTyped
  <2>4. Times(r, y) \in Nat BY TimesTyped
  <2>5. Count(s, LiveTo(rels, y)) <= Times(r, y) BY DEF OutAt
  <2>6. QED BY <2>2, <2>3, <2>4, <2>5
<1>3. QED BY <1>1, <1>2 DEF OutAt

\* One relationship and its neighbour leave the outgoing lists of its source.
LEMMA OutOneLess ==
  ASSUME NEW S, NEW rels \in Seq(S), NEW t, NEW used, NEW n,
         NEW s \in Seq(Positions(rels)), NEW r \in Seq(NodeIds), OutAt(rels, used, t, n, s, r),
         NEW id \in Positions(rels), rels[id + 1] # Null, rels[id + 1].to \in NodeIds,
         Times(s, id) = 1, NEW less, Fewer(rels, less, {id})
  PROVE  OutAt(less, used, t, n, RemoveFirst(s, id), RemoveFirst(r, rels[id + 1].to))
<1>to. PICK to : to = rels[id + 1].to OBVIOUS
<1>s. PICK p : p = RemoveFirst(s, id) OBVIOUS
<1>r. PICK q : q = RemoveFirst(r, to) OBVIOUS
<1>1. p \in Seq(Positions(rels)) /\ q \in Seq(NodeIds) BY <1>s, <1>r, RemoveFirstTyped
<1>2. Holds(s, id) BY TimesTyped
<1>3. ~ Holds(p, id)
  <2>1. Times(p, id) = Times(s, id) - 1 BY <1>2, <1>s, CountRemoveFirst DEF Times
  <2>2. QED BY <1>1, <2>1, TimesTyped
<1>4. \A e : Holds(p, e) => Holds(s, e) BY <1>s, HoldsRemoveFirst
<1>5. \A y : Holds(q, y) => Holds(r, y) BY <1>r, HoldsRemoveFirst
<1>6. ASSUME NEW e, Holds(p, e)
      PROVE  less[e + 1] # Null /\ less[e + 1].type = t /\ less[e + 1].from = n
  <2>1. e \in Positions(rels) /\ e # id BY <1>1, <1>3, <1>6, HoldsIn
  <2>2. e + 1 \in DOMAIN rels /\ (e + 1) - 1 = e BY <2>1, PositionsAre
  <2>3. rels[e + 1] # Null /\ rels[e + 1].type = t /\ rels[e + 1].from = n
    BY <1>4, <1>6 DEF OutAt
  <2>4. QED BY <2>1, <2>2, <2>3 DEF Fewer, SameEnds
<1>7. ASSUME NEW y \in NodeIds PROVE Count(p, LiveTo(less, y)) <= Times(q, y)
  <2>T. PICK T : T = LiveTo(rels, y) OBVIOUS
  <2>L. PICK L : L = LiveTo(less, y) OBVIOUS
  <2>1. L \subseteq T BY <2>T, <2>L, LiveToFewer
  <2>2. Count(p, L) <= Count(p, T) BY <1>1, <2>1, CountMore
  <2>3. /\ Count(p, L) \in Nat /\ Count(p, T) \in Nat /\ Count(s, T) \in Nat
        /\ Times(q, y) \in Nat /\ Times(r, y) \in Nat
    BY <1>1, CountTyped, TimesTyped
  <2>4. Count(s, T) <= Times(r, y) BY <2>T DEF OutAt
  <2>5. id \in T <=> y = to BY <1>to, <2>T DEF LiveTo, Positions
  <2>6. Count(p, T) = Count(s, T) - (IF y = to THEN 1 ELSE 0)
    BY <1>2, <1>s, <2>5, CountRemoveFirst
  <2>7. Times(q, y) = Times(r, y) - (IF y = to /\ Holds(r, to) THEN 1 ELSE 0)
    BY <1>r, CountRemoveFirst DEF Times
  <2>8. y = to => Holds(r, to)
    <3>1. SUFFICES ASSUME y = to PROVE Times(r, y) # 0 BY <2>3, TimesTyped
    <3>2. QED BY <2>3, <2>4, <2>6, <3>1
  <2>9. Count(p, L) <= Times(q, y) BY <2>2, <2>3, <2>4, <2>6, <2>7, <2>8
  <2>10. QED BY <2>9, <2>L
<1>8. \A y \in NodeIds : Holds(q, y) => y \in used BY <1>5 DEF OutAt
<1>9. OutAt(less, used, t, n, p, q) BY <1>6, <1>7, <1>8 DEF OutAt
<1>10. QED BY <1>9, <1>r, <1>s, <1>to

LEMMA OutRemoveRel ==
  ASSUME NEW S, NEW rels \in Seq(S), NEW t, NEW m \in Index(NodeIds, Positions(rels)), NEW used,
         OutSound(rels, used, t, m), NEW id \in Positions(rels), NEW n1 \in NodeIds,
         NEW n2 \in NodeIds, rels[id + 1] # Null, rels[id + 1].from = n1, rels[id + 1].to = n2,
         Times(m.from2rel[n1], id) = 1, NEW less, Fewer(rels, less, {id})
  PROVE  OutSound(less, used, t, RemoveRel(m, n1, n2, id))
<1>p. PICK p : p = RemoveRel(m, n1, n2, id) OBVIOUS
<1>1. SUFFICES ASSUME NEW n \in NodeIds PROVE OutAt(less, used, t, n, p.from2rel[n], p.from2to[n])
  BY <1>p DEF OutSound
<1>2. /\ p.from2rel = [m.from2rel EXCEPT ![n1] = RemoveFirst(@, id)]
      /\ p.from2to = [m.from2to EXCEPT ![n1] = RemoveFirst(@, n2)]
  BY <1>p DEF RemoveRel
<1>3. /\ m.from2rel[n] \in Seq(Positions(rels)) /\ m.from2to[n] \in Seq(NodeIds)
      /\ DOMAIN m.from2rel = NodeIds /\ DOMAIN m.from2to = NodeIds
  BY DEF Index
<1>4. OutAt(rels, used, t, n, m.from2rel[n], m.from2to[n]) BY DEF OutSound
<1>5. CASE n = n1
  <2>1. OutAt(less, used, t, n, RemoveFirst(m.from2rel[n], id), RemoveFirst(m.from2to[n], n2))
    BY <1>3, <1>4, <1>5, OutOneLess
  <2>2. /\ p.from2rel[n] = RemoveFirst(m.from2rel[n], id)
        /\ p.from2to[n] = RemoveFirst(m.from2to[n], n2)
    BY <1>2, <1>3, <1>5
  <2>3. QED BY <2>1, <2>2
<1>6. CASE n # n1
  <2>1. ~ Holds(m.from2rel[n], id) BY <1>4, <1>6 DEF OutAt
  <2>2. OutAt(less, used, t, n, m.from2rel[n], m.from2to[n]) BY <1>3, <1>4, <2>1, OutFewer
  <2>3. p.from2rel[n] = m.from2rel[n] /\ p.from2to[n] = m.from2to[n] BY <1>2, <1>6
  <2>4. QED BY <2>2, <2>3
<1>7. QED BY <1>5, <1>6

\* Nothing that goes is in the outgoing lists.
LEMMA OutUntouched ==
  ASSUME NEW S, NEW rels \in Seq(S), NEW t, NEW m \in Index(NodeIds, Positions(rels)), NEW used,
         OutSound(rels, used, t, m), NEW less, NEW gone, Fewer(rels, less, gone),
         \A e \in gone : rels[e + 1] # Null => rels[e + 1].type # t
  PROVE  OutSound(less, used, t, m)
<1>1. SUFFICES ASSUME NEW n \in NodeIds PROVE OutAt(less, used, t, n, m.from2rel[n], m.from2to[n])
  BY DEF OutSound
<1>2. m.from2rel[n] \in Seq(Positions(rels)) /\ m.from2to[n] \in Seq(NodeIds) BY DEF Index
<1>3. OutAt(rels, used, t, n, m.from2rel[n], m.from2to[n]) BY DEF OutSound
<1>4. \A e \in gone : ~ Holds(m.from2rel[n], e) BY <1>3 DEF OutAt
<1>5. QED BY <1>2, <1>3, <1>4, OutFewer

\* removeAll of a node that no other one leads to: its own lists are empty, and
\* what goes was in no other outgoing list.
LEMMA OutRemoveAll ==
  ASSUME NEW S, NEW rels \in Seq(S), NEW t, NEW m \in Index(NodeIds, Positions(rels)), NEW used,
         OutSound(rels, used, t, m), NEW key \in NodeIds,
         \A n \in NodeIds : n # key => ~ Holds(m.from2to[n], key),
         NEW p, AllRemoved(NodeIds, Positions(rels), m, key, p),
         NEW less, NEW gone, Fewer(rels, less, gone),
         \A e \in gone : rels[e + 1] # Null => key \in {rels[e + 1].from, rels[e + 1].to}
  PROVE  OutSound(less, used \ {key}, t, p)
<1>1. SUFFICES ASSUME NEW n \in NodeIds
               PROVE  OutAt(less, used \ {key}, t, n, p.from2rel[n], p.from2to[n])
  BY DEF OutSound
<1>2. /\ p.from2to = [m.from2to EXCEPT ![key] = <<>>]
      /\ p.from2rel = [m.from2rel EXCEPT ![key] = <<>>]
  BY DEF AllRemoved
<1>s. PICK s : s = m.from2rel[n] OBVIOUS
<1>r. PICK r : r = m.from2to[n] OBVIOUS
<1>3. /\ s \in Seq(Positions(rels)) /\ r \in Seq(NodeIds)
      /\ DOMAIN m.from2rel = NodeIds /\ DOMAIN m.from2to = NodeIds
  BY <1>r, <1>s DEF Index
<1>4. CASE n = key
  <2>1. p.from2rel[n] = <<>> /\ p.from2to[n] = <<>> BY <1>2, <1>3, <1>4
  <2>2. \A e : ~ Holds(<<>>, e) BY DEF Holds
  <2>3. \A T, y : Count(<<>>, T) <= Times(<<>>, y) BY CountEmpty DEF Times
  <2>4. OutAt(less, used \ {key}, t, n, <<>>, <<>>) BY <2>2, <2>3 DEF OutAt
  <2>5. QED BY <2>1, <2>4
<1>5. CASE n # key
  <2>1. p.from2rel[n] = s /\ p.from2to[n] = r BY <1>2, <1>5, <1>r, <1>s
  <2>2. OutAt(rels, used, t, n, s, r) BY <1>r, <1>s DEF OutSound
  <2>3. ASSUME NEW e \in gone, Holds(s, e) PROVE FALSE
    <3>1. e \in Positions(rels) BY <1>3, <2>3, HoldsIn
    <3>2. rels[e + 1] # Null /\ rels[e + 1].from = n BY <2>2, <2>3 DEF OutAt
    <3>3. rels[e + 1].to = key BY <1>5, <2>3, <3>2
    <3>T. PICK T : T = LiveTo(rels, key) OBVIOUS
    <3>4. e \in T BY <3>1, <3>2, <3>3, <3>T DEF LiveTo, Positions
    <3>5. Count(s, T) # 0 BY <1>3, <2>3, <3>4, CountNone DEF Holds
    <3>6. Times(r, key) = 0 BY <1>3, <1>5, <1>r, TimesTyped
    <3>7. Count(s, T) <= 0 BY <2>2, <3>6, <3>T DEF OutAt
    <3>8. Count(s, T) \in Nat BY <1>3, CountTyped
    <3>9. QED BY <3>5, <3>7, <3>8
  <2>4. OutAt(less, used, t, n, s, r) BY <1>3, <2>2, <2>3, OutFewer
  <2>5. ~ Holds(r, key) BY <1>5, <1>r
  <2>6. OutAt(less, used \ {key}, t, n, s, r) BY <2>4, <2>5 DEF OutAt
  <2>7. QED BY <2>1, <2>6
<1>6. QED BY <1>4, <1>5

LEMMA InRemoveRel ==
  ASSUME NEW S, NEW rels \in Seq(S), NEW t, NEW m \in Index(NodeIds, Positions(rels)),
         InSound(rels, t, m), NEW n1 \in NodeIds, NEW n2 \in NodeIds, NEW id,
         NEW less, NEW gone, Fewer(rels, less, gone)
  PROVE  InSound(less, t, RemoveRel(m, n1, n2, id))
<1>p. PICK p : p = RemoveRel(m, n1, n2, id) OBVIOUS
<1>1. p \in Index(NodeIds, Positions(rels)) BY <1>p, RemoveRelTyped
<1>2. p.to2rel = [m.to2rel EXCEPT ![n2] = RemoveFirst(@, id)] BY <1>p DEF RemoveRel
<1>3. DOMAIN m.to2rel = NodeIds BY DEF Index
<1>4. ASSUME NEW n \in NodeIds, NEW e, Holds(p.to2rel[n], e) PROVE Holds(m.to2rel[n], e)
  <2>1. m.to2rel[n] \in Seq(Positions(rels)) BY DEF Index
  <2>2. CASE n = n2
    <3>1. p.to2rel[n] = RemoveFirst(m.to2rel[n], id) BY <1>2, <1>3, <2>2
    <3>2. QED BY <1>4, <2>1, <3>1, HoldsRemoveFirst
  <2>3. CASE n # n2 BY <1>2, <1>4, <2>3
  <2>4. QED BY <2>2, <2>3
<1>5. QED BY <1>1, <1>4, <1>p, InFewer

LEMMA InRemoveAll ==
  ASSUME NEW S, NEW rels \in Seq(S), NEW t, NEW m \in Index(NodeIds, Positions(rels)),
         InSound(rels, t, m), NEW key \in NodeIds,
         NEW p, AllRemoved(NodeIds, Positions(rels), m, key, p),
         NEW less, NEW gone, Fewer(rels, less, gone), ToSet(m.from2rel[key]) \subseteq gone
  PROVE  InSound(less, t, p)
<1>1. p \in Index(NodeIds, Positions(rels)) BY DEF AllRemoved
<1>2. ASSUME NEW n \in NodeIds, NEW e \in Positions(rels), e \notin gone, Holds(p.to2rel[n], e)
      PROVE  Holds(m.to2rel[n], e)
  <2>1. m.from2rel[key] \in Seq(Positions(rels)) BY DEF Index
  <2>2. ~ Holds(m.from2rel[key], e) BY <1>2, <2>1 DEF Holds, ToSet
  <2>3. Times(p.to2rel[n], e) = Times(m.to2rel[n], e) BY <2>2 DEF AllRemoved
  <2>4. p.to2rel[n] \in Seq(Positions(rels)) /\ m.to2rel[n] \in Seq(Positions(rels))
    BY <1>1 DEF Index
  <2>5. QED BY <1>2, <2>3, <2>4, TimesTyped
<1>3. QED BY <1>1, <1>2, InFewer

\* A list of relationships with one more at the end.
Longer(rels, more) ==
  Len(more) = Len(rels) + 1 /\ \A i \in DOMAIN rels : more[i] = rels[i]

LEMMA LiveToLonger ==
  ASSUME NEW S, NEW rels \in Seq(S), NEW more, Longer(rels, more), NEW y
  PROVE  \A e \in Positions(rels) : e \in LiveTo(more, y) <=> e \in LiveTo(rels, y)
<1>1. \A e \in Positions(rels) : more[e + 1] = rels[e + 1] /\ e \in 0 .. Len(more) - 1
  BY PositionsAre DEF Longer, Positions
<1>2. QED BY <1>1 DEF LiveTo, Positions

LEMMA InLonger ==
  ASSUME NEW S, NEW rels \in Seq(S), NEW t, NEW m \in Index(NodeIds, Positions(rels)),
         InSound(rels, t, m), NEW more, Longer(rels, more)
  PROVE  InSound(more, t, m)
<1>1. SUFFICES ASSUME NEW n \in NodeIds, NEW e, Holds(m.to2rel[n], e), more[e + 1] # Null
               PROVE  more[e + 1].type = t /\ more[e + 1].to = n
  BY DEF InSound
<1>2. m.to2rel[n] \in Seq(Positions(rels)) BY DEF Index
<1>3. e \in Positions(rels) BY <1>1, <1>2, HoldsIn
<1>4. more[e + 1] = rels[e + 1] BY <1>3, PositionsAre DEF Longer
<1>5. QED BY <1>1, <1>4 DEF InSound

LEMMA InPut ==
  ASSUME NEW S, NEW rels \in Seq(S), NEW t, NEW m \in Index(NodeIds, Positions(rels)),
         InSound(rels, t, m), NEW n1 \in NodeIds, NEW n2 \in NodeIds,
         NEW more, Longer(rels, more),
         more[Len(rels) + 1].type = t, more[Len(rels) + 1].to = n2
  PROVE  InSound(more, t, Put(m, n1, n2, Len(rels)))
<1>id. PICK id : id = Len(rels) OBVIOUS
<1>p. PICK p : p = Put(m, n1, n2, id) OBVIOUS
<1>1. p.to2rel = [m.to2rel EXCEPT ![n2] = Append(@, id)] BY <1>p DEF Put
<1>2. SUFFICES ASSUME NEW n \in NodeIds, NEW e, Holds(p.to2rel[n], e), more[e + 1] # Null
               PROVE  more[e + 1].type = t /\ more[e + 1].to = n
  BY <1>id, <1>p DEF InSound
<1>3. m.to2rel[n] \in Seq(Positions(rels)) /\ DOMAIN m.to2rel = NodeIds BY DEF Index
<1>4. InSound(more, t, m) BY InLonger
<1>5. CASE Holds(m.to2rel[n], e) BY <1>2, <1>4, <1>5 DEF InSound
<1>6. CASE ~ Holds(m.to2rel[n], e)
  <2>1. n = n2 BY <1>1, <1>2, <1>6
  <2>2. p.to2rel[n] = Append(m.to2rel[n], id) BY <1>1, <1>3, <2>1
  <2>3. e = id BY <1>2, <1>3, <1>6, <2>2, HoldsAppend
  <2>4. QED BY <1>id, <2>1, <2>3
<1>7. QED BY <1>5, <1>6

LEMMA OutAtLonger ==
  ASSUME NEW S, NEW rels \in Seq(S), NEW t, NEW used, NEW n,
         NEW s \in Seq(Positions(rels)), NEW r, OutAt(rels, used, t, n, s, r),
         NEW more, Longer(rels, more)
  PROVE  OutAt(more, used, t, n, s, r)
<1>1. ASSUME NEW e, Holds(s, e)
      PROVE  more[e + 1] # Null /\ more[e + 1].type = t /\ more[e + 1].from = n
  <2>1. e \in Positions(rels) BY <1>1, HoldsIn
  <2>2. more[e + 1] = rels[e + 1] BY <2>1, PositionsAre DEF Longer
  <2>3. QED BY <1>1, <2>2 DEF OutAt
<1>2. ASSUME NEW y \in NodeIds PROVE Count(s, LiveTo(more, y)) <= Times(r, y)
  <2>1. Count(s, LiveTo(more, y)) = Count(s, LiveTo(rels, y)) BY LiveToLonger, CountAgree
  <2>2. QED BY <2>1 DEF OutAt
<1>3. QED BY <1>1, <1>2 DEF OutAt

LEMMA OutLonger ==
  ASSUME NEW S, NEW rels \in Seq(S), NEW t, NEW m \in Index(NodeIds, Positions(rels)), NEW used,
         OutSound(rels, used, t, m), NEW more, Longer(rels, more)
  PROVE  OutSound(more, used, t, m)
<1>1. SUFFICES ASSUME NEW n \in NodeIds PROVE OutAt(more, used, t, n, m.from2rel[n], m.from2to[n])
  BY DEF OutSound
<1>2. m.from2rel[n] \in Seq(Positions(rels)) BY DEF Index
<1>3. OutAt(rels, used, t, n, m.from2rel[n], m.from2to[n]) BY DEF OutSound
<1>4. QED BY <1>2, <1>3, OutAtLonger

LEMMA OutPut ==
  ASSUME NEW S, NEW rels \in Seq(S), NEW t, NEW m \in Index(NodeIds, Positions(rels)), NEW used,
         OutSound(rels, used, t, m), NEW n1 \in NodeIds, NEW n2 \in NodeIds \cap used,
         NEW more, Longer(rels, more), NEW rec, more[Len(rels) + 1] = rec, rec # Null,
         rec.type = t, rec.from = n1, rec.to = n2
  PROVE  OutSound(more, used, t, Put(m, n1, n2, Len(rels)))
<1>id. PICK id : id = Len(rels) OBVIOUS
<1>p. PICK p : p = Put(m, n1, n2, id) OBVIOUS
<1>1. /\ p.from2rel = [m.from2rel EXCEPT ![n1] = Append(@, id)]
      /\ p.from2to = [m.from2to EXCEPT ![n1] = Append(@, n2)]
  BY <1>p DEF Put
<1>2. SUFFICES ASSUME NEW n \in NodeIds PROVE OutAt(more, used, t, n, p.from2rel[n], p.from2to[n])
  BY <1>id, <1>p DEF OutSound
<1>s. PICK s : s = m.from2rel[n] OBVIOUS
<1>r. PICK r : r = m.from2to[n] OBVIOUS
<1>3. /\ s \in Seq(Positions(rels)) /\ r \in Seq(NodeIds)
      /\ DOMAIN m.from2rel = NodeIds /\ DOMAIN m.from2to = NodeIds
  BY <1>r, <1>s DEF Index
<1>4. OutAt(more, used, t, n, s, r) BY <1>r, <1>s, <1>3, OutAtLonger DEF OutSound
<1>5. CASE n = n1
  <2>1. p.from2rel[n] = Append(s, id) /\ p.from2to[n] = Append(r, n2)
    BY <1>1, <1>3, <1>5, <1>r, <1>s
  <2>2. \A e : Holds(Append(s, id), e) <=> Holds(s, e) \/ e = id BY <1>3, HoldsAppend
  <2>3. \A y : Holds(Append(r, n2), y) <=> Holds(r, y) \/ y = n2 BY <1>3, HoldsAppend
  <2>4. ASSUME NEW y \in NodeIds
        PROVE  Count(Append(s, id), LiveTo(more, y)) <= Times(Append(r, n2), y)
    <3>T. PICK T : T = LiveTo(more, y) OBVIOUS
    <3>1. Count(Append(s, id), T) = Count(s, T) + (IF id \in T THEN 1 ELSE 0)
      BY <1>3, CountAppend
    <3>2. Times(Append(r, n2), y) = Times(r, y) + (IF y = n2 THEN 1 ELSE 0)
      BY <1>3, CountAppend DEF Times
    <3>3. id \in T => y = n2 BY <1>id, <3>T DEF LiveTo
    <3>4. Count(s, T) <= Times(r, y) BY <1>4, <3>T DEF OutAt
    <3>5. Count(s, T) \in Nat /\ Times(r, y) \in Nat BY <1>3, CountTyped, TimesTyped
    <3>6. Count(Append(s, id), T) <= Times(Append(r, n2), y) BY <3>1, <3>2, <3>3, <3>4, <3>5
    <3>7. QED BY <3>6, <3>T
  <2>5. OutAt(more, used, t, n, Append(s, id), Append(r, n2))
    BY <1>4, <1>5, <1>id, <2>2, <2>3, <2>4 DEF OutAt
  <2>6. QED BY <2>1, <2>5
<1>6. CASE n # n1 BY <1>1, <1>4, <1>6, <1>r, <1>s
<1>7. QED BY <1>5, <1>6

\* A new index, and one over nodes that have become more.
LEMMA NewMapLists ==
  ASSUME NEW rels, NEW used, NEW t
  PROVE  InSound(rels, t, NewMap(NodeIds)) /\ OutSound(rels, used, t, NewMap(NodeIds))
<1>1. \A n \in NodeIds : /\ NewMap(NodeIds).to2rel[n] = <<>>
                         /\ NewMap(NodeIds).from2rel[n] = <<>> /\ NewMap(NodeIds).from2to[n] = <<>>
  BY DEF NewMap
<1>2. \A e : ~ Holds(<<>>, e) BY DEF Holds
<1>3. \A T, y : Count(<<>>, T) <= Times(<<>>, y) BY CountEmpty DEF Times
<1>4. \A n : OutAt(rels, used, t, n, <<>>, <<>>) BY <1>2, <1>3 DEF OutAt
<1>5. QED BY <1>1, <1>2, <1>4 DEF InSound, OutSound

LEMMA OutMoreUsed ==
  ASSUME NEW rels, NEW used, NEW t, NEW m, OutSound(rels, used, t, m),
         NEW more, used \subseteq more
  PROVE  OutSound(rels, more, t, m)
BY DEF OutSound, OutAt

-----------------------------------------------------------------------------
(* The lists of all types, step by step *)

UsableNodes == {y \in NodeIds : NodeUsable(y)}

InLists  == \A t \in KnownTypes : InSound(relationships, t, related[t])
OutLists == \A t \in KnownTypes : OutSound(relationships, UsableNodes, t, related[t])

\* Nodes are added or written, and no relationship changes.
LEMMA ListsNodes ==
  ASSUME NodesTyped, AddNodeStep \/ NodePropsStep
  PROVE  (InLists => InLists') /\ (OutLists => OutLists')
<1>1. UNCHANGED <<relationships, related>> BY DEF AddNodeStep, NodePropsStep, relVars
<1>2. UsableNodes \subseteq UsableNodes'
  <2>1. SUFFICES ASSUME NEW y \in NodeIds, y + 1 \in DOMAIN nodes, nodes[y + 1] # Null
                 PROVE  y + 1 \in DOMAIN nodes' /\ nodes'[y + 1] # Null
    BY DEF UsableNodes, NodeUsable, NodeRec
  <2>2. nodes \in Seq(Node \cup {Null}) /\ Len(nodes) \in Nat /\ DOMAIN nodes = 1 .. Len(nodes)
    BY DEF NodesTyped
  <2>3. CASE AddNodeStep
    <3>1. PICK name \in Names, id \in NodeIds, props \in StoredMaps :
            LET rec == [id |-> id, name |-> name, props |-> props] IN
            \/ /\ id = Len(nodes)
               /\ nodes' = Append(nodes, rec)
            \/ /\ id \in deletedNodes
               /\ nodes' = [nodes EXCEPT ![id + 1] = rec]
      BY <2>3 DEF AddNodeStep
    <3>rec. PICK rec : rec = [id |-> id, name |-> name, props |-> props] OBVIOUS
    <3>2. rec \in Node BY <3>rec DEF Node
    <3>3. rec # Null BY <3>2, NullIsNoMap
    <3>4. nodes' = Append(nodes, rec) \/ nodes' = [nodes EXCEPT ![id + 1] = rec]
      BY <3>1, <3>rec
    <3>5. CASE nodes' = Append(nodes, rec) BY <2>1, <2>2, <3>5
    <3>6. CASE nodes' = [nodes EXCEPT ![id + 1] = rec]
      <4>1. DOMAIN nodes' = DOMAIN nodes BY <3>6
      <4>2. CASE y + 1 = id + 1 BY <2>1, <3>3, <3>6, <4>1, <4>2
      <4>3. CASE y + 1 # id + 1 BY <2>1, <3>6, <4>1, <4>3
      <4>4. QED BY <4>2, <4>3
    <3>7. QED BY <3>4, <3>5, <3>6
  <2>4. CASE NodePropsStep
    <3>1. PICK id \in Int, props \in StoredMaps :
            NodeUsable(id) /\ nodes' = [nodes EXCEPT ![id + 1].props = props]
      BY <2>4 DEF NodePropsStep
    <3>2. DOMAIN nodes' = DOMAIN nodes BY <3>1
    <3>3. CASE y + 1 # id + 1 BY <2>1, <3>1, <3>2, <3>3
    <3>4. CASE y + 1 = id + 1
      <4>rec. PICK rec : rec = [nodes[id + 1] EXCEPT !.props = props] OBVIOUS
      <4>1. nodes[id + 1] \in Node BY <2>1, <2>2, <3>4
      <4>2. rec \in Node BY <4>1, <4>rec DEF Node
      <4>3. nodes' = [nodes EXCEPT ![id + 1] = rec] BY <3>1, <4>rec
      <4>4. rec # Null BY <4>2, NullIsNoMap
      <4>5. nodes'[y + 1] = rec BY <2>1, <3>4, <4>3
      <4>6. QED BY <2>1, <3>2, <4>4, <4>5
    <3>5. QED BY <3>3, <3>4
  <2>5. QED BY <2>3, <2>4
<1>3. KnownTypes' = KnownTypes BY <1>1 DEF KnownTypes
<1>more. PICK more : more = UsableNodes' OBVIOUS
<1>4. ASSUME NEW t \in KnownTypes, OutSound(relationships, UsableNodes, t, related[t])
      PROVE  OutSound(relationships, more, t, related[t])
  BY <1>2, <1>4, <1>more, OutMoreUsed
<1>5. InLists => InLists' BY <1>1, <1>3 DEF InLists
<1>6. OutLists => OutLists' BY <1>1, <1>3, <1>4, <1>more DEF OutLists
<1>7. QED BY <1>5, <1>6

LEMMA ListsRelProps ==
  ASSUME RelsTyped, RelPropsStep
  PROVE  (InLists => InLists') /\ (OutLists => OutLists')
<1>less. PICK less : less = relationships' OBVIOUS
<1>1. Fewer(relationships, less, {}) BY <1>less, RelPropsShrink, ShrinksIsFewer
<1>2. UNCHANGED <<related, nodes>> BY DEF RelPropsStep, nodeVars
<1>3. UsableNodes' = UsableNodes /\ KnownTypes' = KnownTypes
  BY <1>2 DEF UsableNodes, NodeUsable, NodeRec, KnownTypes
<1>4. ASSUME NEW t \in KnownTypes
      PROVE  /\ InSound(relationships, t, related[t]) => InSound(less, t, related[t])
             /\ OutSound(relationships, UsableNodes, t, related[t]) =>
                  OutSound(less, UsableNodes, t, related[t])
  <2>m. PICK m : m = related[t] OBVIOUS
  <2>1. m \in Index(NodeIds, Positions(relationships))
    BY <2>m DEF RelsTyped, IndexTyped, RelIds, Positions
  <2>2. relationships \in Seq(Relationship \cup {Null}) BY DEF RelsTyped, ListTyped
  <2>3. InSound(relationships, t, m) => InSound(less, t, m) BY <1>1, <2>1, <2>2, InFewer
  <2>4. OutSound(relationships, UsableNodes, t, m) => OutSound(less, UsableNodes, t, m)
    BY <1>1, <2>1, <2>2, OutUntouched
  <2>5. QED BY <2>3, <2>4, <2>m
<1>5. InLists => InLists' BY <1>2, <1>3, <1>4, <1>less DEF InLists
<1>6. OutLists => OutLists' BY <1>2, <1>3, <1>4, <1>less DEF OutLists
<1>7. QED BY <1>5, <1>6

LEMMA ListsRemoveById ==
  ASSUME RelsTyped, LiveInv, RemoveByIdStep
  PROVE  (InLists => InLists') /\ (OutLists => OutLists')
<1>1. PICK id \in Int : RelUsable(id) /\ RemoveRelationshipById(id) BY DEF RemoveByIdStep
<1>r. PICK r : r = RelRec(id) OBVIOUS
<1>2. /\ related' = [related EXCEPT ![r.type] = RemoveRel(related[r.type], r.from, r.to, id)]
      /\ relationships' = Nulled({id}) /\ UNCHANGED nodes
  BY <1>1, <1>r DEF RemoveRelationshipById, nodeVars
<1>less. PICK less : less = relationships' OBVIOUS
<1>3. Shrinks({id}) BY <1>2, NulledShrinks DEF RelsTyped
<1>4. Fewer(relationships, less, {id}) BY <1>3, <1>less, ShrinksIsFewer
<1>5. relationships \in Seq(Relationship \cup {Null}) BY DEF RelsTyped, ListTyped
<1>6. id + 1 \in DOMAIN relationships /\ relationships[id + 1] = r /\ r # Null
  BY <1>1, <1>r DEF RelUsable, RelRec
<1>7. id \in Positions(relationships) BY <1>5, <1>6 DEF Positions
<1>8. r \in Relationship /\ r.from \in NodeIds /\ r.to \in NodeIds
  BY <1>5, <1>6 DEF Relationship
<1>9. (id + 1) - 1 = id OBVIOUS
<1>10. PlacedIn(related, r, id) BY <1>6, <1>9 DEF LiveInv
<1>11. UsableNodes' = UsableNodes /\ KnownTypes' = KnownTypes
  BY <1>2 DEF UsableNodes, NodeUsable, NodeRec, KnownTypes
<1>12. ASSUME NEW t \in KnownTypes
       PROVE  /\ InSound(relationships, t, related[t]) => InSound(less, t, related'[t])
              /\ OutSound(relationships, UsableNodes, t, related[t]) =>
                   OutSound(less, UsableNodes, t, related'[t])
  <2>m. PICK m : m = related[t] OBVIOUS
  <2>1. m \in Index(NodeIds, Positions(relationships))
    BY <2>m DEF RelsTyped, IndexTyped, RelIds, Positions
  <2>2. CASE t = r.type
    <3>p. PICK p : p = RemoveRel(m, r.from, r.to, id) OBVIOUS
    <3>1. related'[t] = p BY <1>2, <2>2, <2>m, <3>p DEF KnownTypes
    <3>2. Times(m.from2rel[r.from], id) = 1 BY <1>10, <2>2, <2>m DEF PlacedIn
    <3>3. InSound(relationships, t, m) => InSound(less, t, p)
      BY <1>4, <1>5, <1>8, <2>1, <3>p, InRemoveRel
    <3>4. OutSound(relationships, UsableNodes, t, m) => OutSound(less, UsableNodes, t, p)
      BY <1>4, <1>5, <1>6, <1>7, <1>8, <2>1, <3>2, <3>p, OutRemoveRel
    <3>5. QED BY <2>m, <3>1, <3>3, <3>4
  <2>3. CASE t # r.type
    <3>1. related'[t] = m BY <1>2, <2>3, <2>m
    <3>2. InSound(relationships, t, m) => InSound(less, t, m) BY <1>4, <1>5, <2>1, InFewer
    <3>3. OutSound(relationships, UsableNodes, t, m) => OutSound(less, UsableNodes, t, m)
      BY <1>4, <1>5, <1>6, <2>1, <2>3, OutUntouched
    <3>4. QED BY <2>m, <3>1, <3>2, <3>3
  <2>4. QED BY <2>2, <2>3
<1>13. InLists => InLists' BY <1>11, <1>12, <1>less DEF InLists
<1>14. OutLists => OutLists' BY <1>11, <1>12, <1>less DEF OutLists
<1>15. QED BY <1>13, <1>14

LEMMA ListsLink ==
  ASSUME RelsTyped, NEW t \in Types, NEW n1 \in NodeIds, NEW n2 \in NodeIds, NEW shown \in Int,
         NEW props \in StoredMaps, NEW call, Link(call, t, n1, n2, shown, props)
  PROVE  (InLists => InLists') /\ (OutLists /\ NodeUsable(n2) => OutLists')
<1>new. PICK new : new = Len(relationships) OBVIOUS
<1>rec. PICK rec : rec = [id |-> new, type |-> t, from |-> n1, to |-> n2,
                          count |-> shown, props |-> props] OBVIOUS
<1>1. Linked(t, n1, n2, shown, props) BY LinkEffect
<1>more. PICK more : more = relationships' OBVIOUS
<1>old. PICK old : old = RelatedOf(t) OBVIOUS
<1>2. /\ \A i \in DOMAIN relationships : more[i] = relationships[i]
      /\ Len(more) = new + 1 /\ more[new + 1] = rec
      /\ KnownTypes' = KnownTypes \cup {t}
      /\ old \in Index(NodeIds, RelIds)
      /\ related'[t] = Put(old, n1, n2, new)
      /\ \A u \in KnownTypes : u # t => related'[u] = related[u]
  BY <1>1, <1>new, <1>rec, <1>more, <1>old DEF Linked
<1>3. Longer(relationships, more) BY <1>2, <1>new DEF Longer
<1>4. relationships \in Seq(Relationship \cup {Null}) /\ new \in Nat
  BY <1>new DEF RelsTyped, ListTyped
<1>5. rec \in Relationship BY <1>4, <1>rec DEF Relationship
<1>6. rec # Null /\ rec.type = t /\ rec.from = n1 /\ rec.to = n2 BY <1>5, <1>rec, NullIsNoMap
<1>7. UNCHANGED nodes BY DEF Link, nodeVars
<1>8. UsableNodes' = UsableNodes BY <1>7 DEF UsableNodes, NodeUsable, NodeRec
<1>9. InLists => InSound(relationships, t, old)
  BY <1>old, NewMapLists DEF InLists, RelatedOf
<1>10. OutLists => OutSound(relationships, UsableNodes, t, old)
  BY <1>old, NewMapLists DEF OutLists, RelatedOf
<1>p. PICK p : p = Put(old, n1, n2, new) OBVIOUS
<1>11. old \in Index(NodeIds, Positions(relationships)) BY <1>2 DEF RelIds, Positions
<1>12. InLists => InSound(more, t, p)
  BY <1>2, <1>3, <1>4, <1>6, <1>9, <1>11, <1>new, <1>p, InPut
<1>13. OutLists /\ NodeUsable(n2) => OutSound(more, UsableNodes, t, p)
  <2>1. SUFFICES ASSUME OutLists, NodeUsable(n2) PROVE OutSound(more, UsableNodes, t, p) OBVIOUS
  <2>2. n2 \in NodeIds \cap UsableNodes BY <2>1 DEF UsableNodes
  <2>3. QED BY <1>2, <1>3, <1>4, <1>6, <1>10, <1>11, <1>new, <1>p, <2>1, <2>2, OutPut
<1>14. ASSUME NEW u \in KnownTypes, u # t
       PROVE  /\ InSound(relationships, u, related[u]) => InSound(more, u, related'[u])
              /\ OutSound(relationships, UsableNodes, u, related[u]) =>
                   OutSound(more, UsableNodes, u, related'[u])
  <2>m. PICK m : m = related[u] OBVIOUS
  <2>1. m \in Index(NodeIds, Positions(relationships))
    BY <2>m DEF RelsTyped, IndexTyped, RelIds, Positions
  <2>2. related'[u] = m BY <1>2, <1>14, <2>m
  <2>3. QED BY <1>3, <1>4, <2>1, <2>2, <2>m, InLonger, OutLonger
<1>15. InLists => InLists' BY <1>2, <1>12, <1>14, <1>more, <1>p DEF InLists
<1>16. OutLists /\ NodeUsable(n2) => OutLists'
  BY <1>2, <1>8, <1>13, <1>14, <1>more, <1>p DEF OutLists
<1>17. QED BY <1>15, <1>16

\* Every relationship that goes with a node touches it.
LEMMA GoneTouches ==
  ASSUME RelsTyped, InLists, OutLists, NEW key \in NodeIds,
         NEW e \in UNION {Incident(t, key) : t \in KnownTypes}, relationships[e + 1] # Null
  PROVE  key \in {relationships[e + 1].from, relationships[e + 1].to}
<1>1. PICK t \in KnownTypes : e \in Incident(t, key) OBVIOUS
<1>m. PICK m : m = related[t] OBVIOUS
<1>2. m.from2rel[key] \in Seq(RelIds) /\ m.to2rel[key] \in Seq(RelIds)
  BY <1>m DEF RelsTyped, IndexTyped, Index
<1>3. Holds(m.from2rel[key], e) \/ Holds(m.to2rel[key], e)
  BY <1>1, <1>2, <1>m DEF Incident, ToSet, Holds
<1>4. CASE Holds(m.from2rel[key], e)
  BY <1>4, <1>m DEF OutLists, OutSound, OutAt
<1>5. CASE Holds(m.to2rel[key], e)
  BY <1>5, <1>m DEF InLists, InSound
<1>6. QED BY <1>3, <1>4, <1>5

LEMMA ListsRemoveNode ==
  ASSUME NodesTyped, RelsTyped, EndsInv, InLists, NEW name \in Names, NEW call,
         RemoveNodeDone(call, name)
  PROVE  /\ InLists'
         /\ OutLists /\ (\A t \in KnownTypes :
                           ToSet(IncomingNodeIds(t, nodeKeys[name])) \subseteq {nodeKeys[name]})
              => OutLists'
<1>key. PICK key : key = nodeKeys[name] OBVIOUS
<1>gone. PICK gone : gone = UNION {Incident(t, key) : t \in KnownTypes} OBVIOUS
<1>1. /\ key # -1 /\ nodes' = [nodes EXCEPT ![key + 1] = Null]
      /\ relationships' = Nulled(gone)
      /\ related' = [t \in KnownTypes |-> IF t \in KnownTypes THEN RemoveAll(related[t], key)
                                          ELSE related[t]]
  BY <1>key, <1>gone DEF RemoveNodeDone, DetachTypes
<1>2. key \in NodeIds BY <1>1, <1>key DEF NodesTyped
<1>less. PICK less : less = relationships' OBVIOUS
<1>3. Shrinks(gone) BY <1>1, NulledShrinks DEF RelsTyped
<1>4. Fewer(relationships, less, gone) BY <1>3, <1>less, ShrinksIsFewer
<1>5. relationships \in Seq(Relationship \cup {Null}) BY DEF RelsTyped, ListTyped
<1>6. KnownTypes' = KnownTypes BY <1>1 DEF KnownTypes
<1>7. ASSUME NEW t \in KnownTypes PROVE InSound(less, t, related'[t])
  <2>m. PICK m : m = related[t] OBVIOUS
  <2>p. PICK p : p = RemoveAll(m, key) OBVIOUS
  <2>1. m \in Index(NodeIds, Positions(relationships)) /\ related'[t] = p
    BY <1>1, <2>m, <2>p DEF RelsTyped, IndexTyped, RelIds, Positions
  <2>2. AllRemoved(NodeIds, Positions(relationships), m, key, p)
    BY <1>2, <2>1, <2>p, RemoveAllEffect
  <2>3. ToSet(m.from2rel[key]) \subseteq gone BY <1>gone, <2>m DEF Incident
  <2>4. InSound(relationships, t, m) BY <2>m DEF InLists
  <2>5. InSound(less, t, p) BY <1>2, <1>4, <1>5, <2>1, <2>2, <2>3, <2>4, InRemoveAll
  <2>6. QED BY <2>1, <2>5
<1>8. InLists' BY <1>6, <1>7, <1>less DEF InLists
<1>9. ASSUME OutLists, \A t \in KnownTypes : ToSet(IncomingNodeIds(t, key)) \subseteq {key}
      PROVE  OutLists'
  <2>used. PICK used : used = UsableNodes' OBVIOUS
  <2>1. UsableNodes \ {key} \subseteq used
    <3>1. SUFFICES ASSUME NEW y \in NodeIds, y # key, y + 1 \in DOMAIN nodes, nodes[y + 1] # Null
                   PROVE  y + 1 \in DOMAIN nodes' /\ nodes'[y + 1] # Null
      BY <2>used DEF UsableNodes, NodeUsable, NodeRec
    <3>2. y + 1 # key + 1 BY <1>2, <3>1 DEF NodeIds
    <3>3. QED BY <1>1, <3>1, <3>2
  <2>2. \A e \in gone : relationships[e + 1] # Null =>
          key \in {relationships[e + 1].from, relationships[e + 1].to}
    BY <1>2, <1>9, <1>gone, GoneTouches
  <2>3. PICK ends : RecordEnds(ends) BY DEF EndsInv
  <2>4. ASSUME NEW t \in KnownTypes PROVE OutSound(less, used, t, related'[t])
    <3>m. PICK m : m = related[t] OBVIOUS
    <3>p. PICK p : p = RemoveAll(m, key) OBVIOUS
    <3>1. m \in Index(NodeIds, Positions(relationships)) /\ related'[t] = p
      BY <1>1, <3>m, <3>p DEF RelsTyped, IndexTyped, RelIds, Positions
    <3>2. AllRemoved(NodeIds, Positions(relationships), m, key, p)
      BY <1>2, <3>1, <3>p, RemoveAllEffect
    <3>3. BothWays(NodeIds, m) BY <2>3, <3>m DEF RecordEnds, IndicesSound
    <3>4. ASSUME NEW n \in NodeIds, n # key PROVE ~ Holds(m.from2to[n], key)
      <4>1. m.to2from[key] \in Seq(NodeIds) /\ m.from2to[n] \in Seq(NodeIds)
        BY <1>2, <3>1 DEF Index
      <4>2. ToSet(m.to2from[key]) \subseteq {key} BY <1>9, <3>m DEF IncomingNodeIds
      <4>s. PICK s : s = m.to2from[key] OBVIOUS
      <4>3. ~ Holds(s, n)
        <5>1. SUFFICES ASSUME NEW i \in 1 .. Len(s), s[i] = n PROVE FALSE BY DEF Holds
        <5>2. s[i] \in ToSet(s) BY <4>1, <4>s DEF ToSet
        <5>3. QED BY <3>4, <4>2, <4>s, <5>1, <5>2
      <4>4. Times(m.to2from[key], n) = 0 BY <4>1, <4>3, <4>s, TimesTyped
      <4>5. Times(m.to2from[key], n) = Times(m.from2to[n], key)
        BY <1>2, <3>3 DEF BothWays, Mirrored
      <4>6. QED BY <4>1, <4>4, <4>5, TimesTyped
    <3>5. OutSound(relationships, UsableNodes, t, m) BY <1>9, <3>m DEF OutLists
    <3>6. OutSound(less, UsableNodes \ {key}, t, p)
      BY <1>2, <1>4, <1>5, <2>2, <3>1, <3>2, <3>4, <3>5, OutRemoveAll
    <3>7. OutSound(less, used, t, p) BY <2>1, <3>6, OutMoreUsed
    <3>8. QED BY <3>1, <3>7
  <2>5. QED BY <1>6, <1>less, <2>4, <2>used DEF OutLists
<1>10. QED BY <1>8, <1>9, <1>key

-----------------------------------------------------------------------------
(* What holds of the graph under the adapter, which closes it and goes on *)

GraphInv ==
  /\ NodesTyped /\ RelsTyped /\ result.outcome \in Outcomes
  /\ NodesNamed /\ EndsInv
  /\ LiveInv /\ LiveNumbered /\ InLists

AdapterStep ==
  \/ Nothing \/ AddNodeStep \/ NodePropsStep \/ RemoveNodeStep
  \/ ShowingLinkStep \/ RemoveByIdStep \/ RelPropsStep

\* Nothing but the keys, which are of the right types, as clear() leaves it.
Emptied ==
  /\ nodeKeys = [n \in Names |-> -1] /\ nodes = <<>> /\ deletedNodes = {}
  /\ relationships = <<>> /\ related = <<>>
  /\ relationshipCounts = <<>> /\ relatedCounts = <<>>
  /\ KeyTypesTyped /\ result.outcome \in Outcomes

LEMMA EmptiedSound == Emptied => GraphInv /\ OutLists
<1>1. SUFFICES ASSUME Emptied PROVE GraphInv /\ OutLists OBVIOUS
<1>2. /\ nodeKeys = [n \in Names |-> -1] /\ nodes = <<>> /\ deletedNodes = {}
      /\ relationships = <<>> /\ related = <<>>
      /\ relationshipCounts = <<>> /\ relatedCounts = <<>>
      /\ KeyTypesTyped /\ result.outcome \in Outcomes
  BY <1>1 DEF Emptied
<1>3. nodes \in Seq(Node \cup {Null}) /\ relationships \in Seq(Relationship \cup {Null})
  BY <1>2
<1>4. NodesTyped BY <1>2, <1>3 DEF NodesTyped
<1>5. \A x : x \notin DOMAIN <<>> OBVIOUS
<1>6. KnownTypes = {} BY <1>2 DEF KnownTypes
<1>7. RelsTyped
  BY <1>2, <1>3, <1>5, <1>6 DEF RelsTyped, ListTyped, CountsTyped, IndexTyped, KnownTypes
<1>8. LiveNames = {} BY <1>2 DEF LiveNames
<1>9. NodesNamed
  BY <1>2, <1>5, <1>8 DEF NodesNamed, NodeIdsSound, NodeOwnRecord, RecordsNamed
<1>10. EndsInv
  <2>1. RelIds = {} BY <1>2 DEF RelIds
  <2> DEFINE ends == [id \in {} |-> 0]
  <2>2. ends \in [RelIds -> NodeIds] BY <2>1
  <2> HIDE DEF ends
  <2>3. RecordEnds(ends)
    BY <1>2, <1>5, <1>6, <2>2 DEF RecordEnds, EndsOfRecords, IndicesSound
  <2>4. QED BY <2>3 DEF EndsInv
<1>11. LiveInv /\ LiveNumbered BY <1>2, <1>5 DEF LiveInv, LiveNumbered
<1>12. InLists /\ OutLists BY <1>6 DEF InLists, OutLists
<1>13. QED BY <1>2, <1>4, <1>7, <1>9, <1>10, <1>11, <1>12 DEF GraphInv

LEMMA EmptiedSoundNext == Emptied' => GraphInv' /\ OutLists'
BY EmptiedSound, PTL

LEMMA EndsInvKeeps ==
  ASSUME "deleteRelationshipProperties" \notin Ops, NodesTyped, RelsTyped, EndsInv, AdapterStep
  PROVE  EndsInv'
<1>1. PICK ends : RecordEnds(ends) BY DEF EndsInv
<1>2. CASE Nothing \/ AddNodeStep \/ NodePropsStep
  <2>1. UNCHANGED relVars BY <1>2 DEF Nothing, AddNodeStep, NodePropsStep
  <2>2. UNCHANGED <<relationships, related>> BY <2>1 DEF relVars
  <2>3. RecordEnds(ends)'
    BY <1>1, <2>2 DEF RecordEnds, EndsOfRecords, IndicesSound, KnownTypes, RelIds
  <2>4. QED BY <2>3 DEF EndsInv
<1>3. CASE RemoveNodeStep
  <2>1. IndexTyped BY DEF RelsTyped
  <2>2. PICK name \in Names : \E call : RemoveNodeDone(call, name)
    BY <1>3, <2>1, RemoveNodeIsDone
  <2>3. PICK call : RemoveNodeDone(call, name) BY <2>2
  <2>4. RecordEnds(ends)' BY <1>1, <2>3, RemoveNodeSound
  <2>5. QED BY <2>4 DEF EndsInv
<1>4. CASE ShowingLinkStep
  <2>1. LinkStep BY <1>4, ShowingLinks DEF RelsTyped
  <2>2. \E more : RecordEnds(more)' BY <1>1, <2>1, LinkSound
  <2>3. QED BY <2>2 DEF EndsInv
<1>5. CASE RemoveByIdStep
  <2>1. StableClient BY DEF StableClient
  <2>2. RecordEnds(ends)' BY <1>1, <1>5, <2>1, RemoveByIdSound
  <2>3. QED BY <2>2 DEF EndsInv
<1>6. CASE RelPropsStep
  <2>1. Shrinks({}) BY <1>6, RelPropsShrink
  <2>2. EndsOfRecords(ends)' BY <1>1, <2>1, EndsShrink DEF RecordEnds
  <2>3. UNCHANGED related BY <1>6 DEF RelPropsStep
  <2>4. RelIds' = RelIds BY <2>1 DEF Shrinks, RelIds
  <2>5. RecordEnds(ends)' BY <1>1, <2>2, <2>3, <2>4 DEF RecordEnds, IndicesSound, KnownTypes
  <2>6. QED BY <2>5 DEF EndsInv
<1>7. QED BY <1>2, <1>3, <1>4, <1>5, <1>6 DEF AdapterStep

LEMMA GraphInvNext ==
  GraphInv' <=> /\ NodesTyped' /\ RelsTyped' /\ (result.outcome \in Outcomes)'
                /\ NodesNamed' /\ EndsInv'
                /\ LiveInv' /\ LiveNumbered' /\ InLists'
BY DEF GraphInv

LEMMA GraphInvKeeps ==
  ASSUME "deleteRelationshipProperties" \notin Ops, GraphInv, AdapterStep, Said
  PROVE  GraphInv'
<1>1. /\ NodesTyped /\ RelsTyped /\ NodesNamed /\ EndsInv
      /\ LiveInv /\ LiveNumbered /\ InLists
  BY DEF GraphInv
<1>2. ListTyped /\ CountsTyped /\ IndexTyped BY <1>1 DEF RelsTyped
<1>3. \/ Nothing \/ AddNodeStep \/ NodePropsStep \/ RemoveNodeStep
      \/ ShowingLinkStep \/ RemoveByIdStep \/ RelPropsStep
  BY DEF AdapterStep
<1>4. ShowingLinkStep => LinkStep BY <1>2, ShowingLinks
<1>5. EndsInv' BY <1>1, EndsInvKeeps
<1>6. NodesNamed' BY <1>1, <1>2, <1>3, <1>4, NodesNamedKeeps
<1>7. NodesTyped'
  <2>1. CASE AddNodeStep \/ NodePropsStep \/ RemoveNodeStep BY <1>1, <2>1, NodesStayTyped
  <2>2. CASE UNCHANGED nodeVars BY <1>1, <2>2 DEF nodeVars, NodesTyped
  <2>3. QED BY <1>3, <1>4, <2>1, <2>2, NodesUntouched
<1>8. Said => (result.outcome \in Outcomes)' BY DEF Said, Outcomes
<1>9. RelsTyped' /\ LiveInv' /\ LiveNumbered' /\ InLists'
  <2>1. CASE UNCHANGED relVars
    <3>1. UNCHANGED <<relationshipKeys, relationships, related, relationshipCounts, relatedCounts>>
      BY <2>1 DEF relVars
    <3>2. RelsTyped'
      BY <1>1, <3>1 DEF RelsTyped, ListTyped, CountsTyped, KeyTypesTyped, IndexTyped,
                        KnownTypes, RelIds
    <3>3. LiveInv' BY <1>1, <3>1 DEF LiveInv
    <3>4. LiveNumbered' BY <1>1, <3>1 DEF LiveNumbered
    <3>5. InLists' BY <1>1, <3>1 DEF InLists, KnownTypes
    <3>6. QED BY <3>2, <3>3, <3>4, <3>5
  <2>2. CASE Nothing \/ AddNodeStep \/ NodePropsStep
    BY <2>1, <2>2 DEF Nothing, AddNodeStep, NodePropsStep
  <2>3. CASE RemoveNodeStep
    <3>1. PICK name \in Names : \E call : RemoveNodeDone(call, name)
      BY <1>1, <1>2, <2>3, RemoveNodeIsDone
    <3>2. PICK call : RemoveNodeDone(call, name) BY <3>1
    <3>3. PICK gone : relationships' = Nulled(gone) BY <3>2 DEF RemoveNodeDone, DetachTypes
    <3>4. UNCHANGED <<relationshipKeys, relatedCounts>> BY <3>2 DEF RemoveNodeDone
    <3>5. LiveNumbered' BY <1>1, <1>2, <3>3, <3>4, NulledOnly, NumbersUntouched
    <3>6. InLists' BY <1>1, <3>2, ListsRemoveNode
    <3>7. QED BY <1>1, <2>3, <3>5, <3>6, RemoveNodeTyped, RemoveNodeLive
  <2>4. CASE ShowingLinkStep
    <3>1. PICK t \in Types, n1 \in NodeIds, n2 \in NodeIds, props \in StoredMaps : \E call :
            ShowingLink(call, t, n1, n2, props)
      BY <2>4 DEF ShowingLinkStep
    <3>2. PICK call : ShowingLink(call, t, n1, n2, props) BY <3>1
    <3>3. PICK shown \in Int : Link(call, t, n1, n2, shown, props)
      BY <1>2, <3>2, ShowingLinkIs DEF ShowingLink
    <3>4. InLists' BY <1>1, <3>3, ListsLink
    <3>5. QED BY <1>1, <1>4, <2>4, <3>4, LinkTyped, LinkLive, LinkNumbered
  <2>5. CASE RemoveByIdStep
    BY <1>1, <1>2, <2>5, RemoveByIdTyped, RemovedLive, RemoveByIdNumbered, ListsRemoveById
  <2>6. CASE RelPropsStep
    <3>1. LiveInv'
      <4>1. Shrinks({}) /\ UNCHANGED related BY <1>1, <2>6, RelPropsShrink DEF RelPropsStep
      <4>2. QED BY <1>1, <4>1, ShrinkPlaced
    <3>2. LiveNumbered'
      <4>1. UNCHANGED <<relationshipKeys, relatedCounts>> BY <2>6 DEF RelPropsStep
      <4>2. QED BY <1>1, <1>2, <2>6, <4>1, RelPropsOnly, NumbersUntouched
    <3>3. QED BY <1>1, <2>6, <3>1, <3>2, RelPropsTyped, ListsRelProps
  <2>7. QED BY <1>3, <2>2, <2>3, <2>4, <2>5, <2>6
<1>10. QED BY <1>5, <1>6, <1>7, <1>8, <1>9, GraphInvNext

-----------------------------------------------------------------------------
(* The elements of the adapter.  A live relationship joins the nodes that the  *)
(* names of its edge lead to, its target being one the edge may have reached.  *)

VertexRecord == [id : {-1} \cup NodeIds, name : Names \cup {Null}]
EdgeRecord   ==
  [id : Nat, type : Types, out : Names, in : Names, stale : BOOLEAN]

EdgesTyped ==
  /\ edges \in Seq(EdgeRecord) /\ Len(edges) = Len(relationships)
  /\ \A i \in DOMAIN edges : edges[i].id = i - 1
  /\ spent \in Nat /\ spent + Len(edges) <= MaxEdges

ElementsTyped == vertices \subseteq VertexRecord /\ EdgesTyped /\ tidy \in BOOLEAN

Joins(keys, edge, r) == keys[edge.out] = r.from /\ \E n \in Reached(edge) : keys[n] = r.to

EdgeEnds ==
  \A i \in DOMAIN relationships : relationships[i] # Null =>
    Joins(nodeKeys, edges[i], relationships[i])

TidyLists == tidy => OutLists

GremlinInv == GraphInv /\ ElementsTyped /\ EdgeEnds /\ TidyLists

LEMMA GremlinInvNext ==
  GremlinInv' <=> GraphInv' /\ ElementsTyped' /\ EdgeEnds' /\ TidyLists'
BY DEF GremlinInv

LEMMA GraphIsTyped == GraphInv => TypeOK
BY TypeOKParts DEF GraphInv, RelsTyped

LEMMA EdgesAre ==
  ASSUME ListTyped, EdgesTyped, NEW i \in DOMAIN relationships
  PROVE  /\ i \in DOMAIN edges /\ edges[i].out \in Names /\ edges[i].in \in Names
         /\ relationships[i] # Null =>
              relationships[i].from \in NodeIds /\ relationships[i].to \in NodeIds
<1>1. i \in DOMAIN edges BY DEF ListTyped, EdgesTyped
<1>2. edges[i] \in EdgeRecord BY <1>1 DEF EdgesTyped
<1>3. relationships[i] # Null => relationships[i] \in Relationship BY DEF ListTyped
<1>4. QED BY <1>1, <1>2, <1>3 DEF EdgeRecord, Relationship

LEMMA ReachedNames ==
  ASSUME NEW edge, edge.in \in Names
  PROVE  Reached(edge) \subseteq Names
BY DEF Reached

\* A name that leads to neither end of a relationship may change.
LEMMA JoinsStay ==
  ASSUME NEW S, NEW keys \in [Names -> S], NEW edge, edge.out \in Names, edge.in \in Names,
         NEW r, Joins(keys, edge, r), NEW name \in Names,
         keys[name] # r.from, keys[name] # r.to, NEW id
  PROVE  Joins([keys EXCEPT ![name] = id], edge, r)
<1>1. PICK n \in Reached(edge) : keys[n] = r.to BY DEF Joins
<1>2. n \in Names /\ n # name /\ edge.out # name BY <1>1, ReachedNames DEF Joins
<1>k. PICK after : after = [keys EXCEPT ![name] = id] OBVIOUS
<1>3. after[edge.out] = r.from /\ after[n] = r.to BY <1>1, <1>2, <1>k DEF Joins
<1>4. QED BY <1>1, <1>3, <1>k DEF Joins

\* Steps that leave the elements and the names alone and add no relationship.
QuietStep == Nothing \/ NodePropsStep \/ RemoveByIdStep \/ RelPropsStep

LEMMA QuietShrinks ==
  ASSUME RelsTyped, QuietStep
  PROVE  OnlyShrinks /\ UNCHANGED nodeKeys /\ Len(relationships)' = Len(relationships)
<1>1. CASE Nothing \/ NodePropsStep
  <2>1. UNCHANGED <<relationships, nodeKeys>>
    BY <1>1 DEF Nothing, NodePropsStep, relVars, nodeVars
  <2>2. OnlyShrinks BY <2>1 DEF OnlyShrinks, SameNumber, SameEnds
  <2>3. QED BY <2>1, <2>2
<1>2. CASE RemoveByIdStep
  <2>1. PICK id : relationships' = Nulled({id})
    BY <1>2 DEF RemoveByIdStep, RemoveRelationshipById
  <2>2. OnlyShrinks BY <2>1, NulledOnly DEF RelsTyped
  <2>3. Len(relationships)' = Len(relationships) BY <2>1, NulledShrinks DEF Shrinks, RelsTyped
  <2>4. UNCHANGED nodeKeys BY <1>2, NodesUntouched DEF nodeVars
  <2>5. QED BY <2>2, <2>3, <2>4
<1>3. CASE RelPropsStep
  <2>1. OnlyShrinks BY <1>3, RelPropsOnly DEF RelsTyped
  <2>2. Len(relationships)' = Len(relationships) BY <1>3, RelPropsShrink DEF Shrinks
  <2>3. UNCHANGED nodeKeys BY <1>3, NodesUntouched DEF nodeVars
  <2>4. QED BY <2>1, <2>2, <2>3
<1>4. QED BY <1>1, <1>2, <1>3 DEF QuietStep

LEMMA EdgeEndsStay ==
  ASSUME EdgeEnds, OnlyShrinks, UNCHANGED <<nodeKeys, edges>>
  PROVE  EdgeEnds'
<1>1. ASSUME NEW i \in DOMAIN relationships', relationships'[i] # Null
      PROVE  Joins(nodeKeys', edges'[i], relationships'[i])
  <2>1. /\ i \in DOMAIN relationships /\ relationships[i] # Null
        /\ SameNumber(relationships[i], relationships'[i])
    BY <1>1 DEF OnlyShrinks
  <2>2. Joins(nodeKeys, edges[i], relationships[i]) BY <2>1 DEF EdgeEnds
  <2>3. QED BY <2>1, <2>2 DEF Joins, SameNumber, SameEnds
<1>2. QED BY <1>1 DEF EdgeEnds

LEMMA QuietKeeps ==
  ASSUME "deleteRelationshipProperties" \notin Ops, GremlinInv, QuietStep, Said, Elements
  PROVE  GremlinInv'
<1>1. GraphInv /\ ElementsTyped /\ EdgeEnds /\ TidyLists BY DEF GremlinInv
<1>2. NodesTyped /\ RelsTyped /\ ListTyped /\ LiveInv BY <1>1 DEF GraphInv, RelsTyped
<1>3. AdapterStep BY DEF QuietStep, AdapterStep
<1>4. GraphInv' BY <1>1, <1>3, GraphInvKeeps
<1>5. OnlyShrinks /\ UNCHANGED nodeKeys /\ Len(relationships)' = Len(relationships)
  BY <1>2, QuietShrinks
<1>6. UNCHANGED <<vertices, edges, tidy, spent>> BY DEF Elements
<1>7. ElementsTyped' BY <1>1, <1>5, <1>6 DEF ElementsTyped, EdgesTyped
<1>8. EdgeEnds' BY <1>1, <1>5, <1>6, EdgeEndsStay
<1>9. OutLists => OutLists'
  <2>1. CASE Nothing
    <3>1. UNCHANGED <<nodes, relationships, related>> BY <2>1 DEF Nothing, nodeVars, relVars
    <3>2. QED BY <3>1 DEF OutLists, UsableNodes, NodeUsable, NodeRec, KnownTypes
  <2>2. CASE NodePropsStep BY <1>2, <2>2, ListsNodes
  <2>3. CASE RemoveByIdStep BY <1>2, <2>3, ListsRemoveById
  <2>4. CASE RelPropsStep BY <1>2, <2>4, ListsRelProps
  <2>5. QED BY <2>1, <2>2, <2>3, <2>4 DEF QuietStep
<1>10. TidyLists' BY <1>1, <1>6, <1>9 DEF TidyLists
<1>11. QED BY <1>4, <1>7, <1>8, <1>10, GremlinInvNext

\* What addNode returns.
LEMMA AddNodeReturns ==
  ASSUME NodesTyped, NEW name \in Names, NEW props, AddNode(name, props)
  PROVE  result'.id \in {-1} \cup NodeIds
<1>1. CASE nodeKeys[name] # -1 /\ Unchanged(<<"addNode", nodeKeys[name]>>, "refused")
  BY <1>1 DEF Unchanged, Return
<1>2. CASE /\ Len(nodes) < MaxNodes
           /\ Return(<<"addNode", nodeKeys[name]>>, "done", Len(nodes))
  <2>1. Len(nodes) \in Nat BY DEF NodesTyped
  <2>2. Len(nodes) \in NodeIds BY <1>2, <2>1, BoundsAssumption DEF NodeIds
  <2>3. QED BY <1>2, <2>2 DEF Return
<1>3. CASE \E id \in deletedNodes : Return(<<"addNode", nodeKeys[name]>>, "done", id)
  <2>1. PICK id \in deletedNodes : Return(<<"addNode", nodeKeys[name]>>, "done", id) BY <1>3
  <2>2. id \in NodeIds BY DEF NodesTyped
  <2>3. QED BY <2>1, <2>2 DEF Return
<1>4. QED BY <1>1, <1>2, <1>3 DEF AddNode

LEMMA VertexTyped ==
  ASSUME NodesTyped, NEW id \in {-1} \cup NodeIds
  PROVE  VertexOf(id) \in VertexRecord
<1>1. NodeUsable(id) => NodeRec(id).name \in Names \cup {Null}
  <2>1. SUFFICES ASSUME id + 1 \in DOMAIN nodes, nodes[id + 1] # Null
                 PROVE  nodes[id + 1].name \in Names \cup {Null}
    BY DEF NodeUsable, NodeRec
  <2>2. nodes[id + 1] \in Node BY <2>1 DEF NodesTyped
  <2>3. QED BY <2>2 DEF Node
<1>2. QED BY <1>1 DEF VertexOf, VertexRecord

LEMMA ReturnedVertex ==
  NodesTyped /\ result.id \in {-1} \cup NodeIds => VertexOf(result.id) \in VertexRecord
BY VertexTyped

LEMMA ReturnedVertexNext ==
  NodesTyped' /\ result'.id \in {-1} \cup NodeIds => VertexOf(result.id)' \in VertexRecord
<1>1. (NodesTyped /\ result.id \in {-1} \cup NodeIds => VertexOf(result.id) \in VertexRecord)'
  BY ReturnedVertex, PTL
<1>2. QED BY <1>1 DEF VertexRecord, NodeIds

LEMMA AddVertexKeeps ==
  ASSUME "deleteRelationshipProperties" \notin Ops, GremlinInv,
         NEW n \in Names, NEW props \in UserMaps, AddVertex(n, props)
  PROVE  GremlinInv'
<1>1. GraphInv /\ ElementsTyped /\ EdgeEnds /\ TidyLists BY DEF GremlinInv
<1>2. NodesTyped /\ RelsTyped /\ ListTyped BY <1>1 DEF GraphInv, RelsTyped
<1>3. AddNode(n, props) /\ vertices' = vertices \cup {VertexOf(result.id)'}
      /\ UNCHANGED <<edges, tidy, spent>>
  BY DEF AddVertex
<1>4. (Nothing \/ AddNodeStep) /\ Said BY <1>1, <1>3, GraphIsTyped, AddNodeKind
<1>5. AdapterStep BY <1>4 DEF AdapterStep
<1>6. GraphInv' BY <1>1, <1>4, <1>5, GraphInvKeeps
<1>7. UNCHANGED relVars BY <1>4 DEF Nothing, AddNodeStep
<1>8. UNCHANGED <<relationships, related>> BY <1>7 DEF relVars
<1>9. ElementsTyped'
  <2>1. NodesTyped' BY <1>6 DEF GraphInv
  <2>2. VertexOf(result.id)' \in VertexRecord
    BY <1>2, <1>3, <2>1, AddNodeReturns, ReturnedVertexNext
  <2>3. VertexRecord' = VertexRecord BY DEF VertexRecord, NodeIds
  <2>4. vertices' \subseteq VertexRecord BY <1>1, <1>3, <2>2 DEF ElementsTyped
  <2>5. EdgesTyped' BY <1>1, <1>3, <1>8 DEF ElementsTyped, EdgesTyped
  <2>6. QED BY <1>1, <1>3, <2>3, <2>4, <2>5 DEF ElementsTyped
<1>10. EdgeEnds'
  <2>1. CASE Nothing
    <3>1. UNCHANGED nodeKeys BY <2>1 DEF Nothing, nodeVars
    <3>2. OnlyShrinks BY <1>8 DEF OnlyShrinks, SameNumber, SameEnds
    <3>3. QED BY <1>1, <1>3, <3>1, <3>2, EdgeEndsStay
  <2>2. CASE AddNodeStep
    <3>1. PICK name \in Names, id \in NodeIds :
            nodeKeys[name] = -1 /\ nodeKeys' = [nodeKeys EXCEPT ![name] = id]
      BY <2>2 DEF AddNodeStep
    <3>2. ASSUME NEW i \in DOMAIN relationships, relationships[i] # Null
          PROVE  Joins(nodeKeys', edges[i], relationships[i])
      <4>1. Joins(nodeKeys, edges[i], relationships[i]) BY <1>1, <3>2 DEF EdgeEnds
      <4>2. /\ edges[i].out \in Names /\ edges[i].in \in Names
            /\ relationships[i].from \in NodeIds /\ relationships[i].to \in NodeIds
        BY <1>1, <1>2, <3>2, EdgesAre DEF ElementsTyped
      <4>3. nodeKeys[name] # relationships[i].from /\ nodeKeys[name] # relationships[i].to
        BY <3>1, <4>2 DEF NodeIds
      <4>4. nodeKeys \in [Names -> {-1} \cup NodeIds] BY <1>2 DEF NodesTyped
      <4>5. QED BY <3>1, <4>1, <4>2, <4>3, <4>4, JoinsStay
    <3>3. QED BY <1>3, <1>8, <3>2 DEF EdgeEnds
  <2>3. QED BY <1>4, <2>1, <2>2
<1>11. OutLists => OutLists'
  <2>1. CASE Nothing
    <3>1. UNCHANGED nodes BY <2>1 DEF Nothing, nodeVars
    <3>2. QED BY <1>8, <3>1 DEF OutLists, UsableNodes, NodeUsable, NodeRec, KnownTypes
  <2>2. CASE AddNodeStep BY <1>2, <2>2, ListsNodes
  <2>3. QED BY <1>4, <2>1, <2>2
<1>12. TidyLists' BY <1>1, <1>3, <1>11 DEF TidyLists
<1>13. QED BY <1>6, <1>9, <1>10, <1>12, GremlinInvNext

\* What goes with a node is every relationship that joins it.
LEMMA RemoveNodeEdges ==
  ASSUME NodesTyped, RelsTyped, LiveInv, EdgesTyped, EdgeEnds, NEW name \in Names, NEW call,
         RemoveNodeDone(call, name), UNCHANGED edges
  PROVE  EdgeEnds' /\ Len(relationships)' = Len(relationships)
<1>key. PICK key : key = nodeKeys[name] OBVIOUS
<1>gone. PICK gone : gone = UNION {Incident(t, key) : t \in KnownTypes} OBVIOUS
<1>1. /\ key # -1 /\ relationships' = Nulled(gone)
      /\ nodeKeys' = [nodeKeys EXCEPT ![name] = -1]
  BY <1>key, <1>gone DEF RemoveNodeDone, DetachTypes, ForgetKey
<1>2. key \in NodeIds /\ ListTyped BY <1>1, <1>key DEF NodesTyped, RelsTyped
<1>3. ASSUME NEW i \in DOMAIN relationships', relationships'[i] # Null
      PROVE  Joins(nodeKeys', edges'[i], relationships'[i])
  <2>r. PICK r : r = relationships[i] OBVIOUS
  <2>1. /\ i \in DOMAIN relationships /\ r # Null
        /\ relationships'[i] = r /\ i - 1 \notin gone
    BY <1>1, <1>2, <1>3, <2>r, NulledOnly DEF OnlyShrinks
  <2>2. PlacedIn(related, r, i - 1) BY <2>1, <2>r DEF LiveInv
  <2>3. r.from \in NodeIds /\ r.to \in NodeIds
        /\ edges[i].out \in Names /\ edges[i].in \in Names
    BY <1>2, <2>1, <2>r, EdgesAre
  <2>4. r.from # key /\ r.to # key
    <3>t. PICK t : t = r.type OBVIOUS
    <3>m. PICK m : m = related[t] OBVIOUS
    <3>1. t \in KnownTypes BY <2>2, <3>t DEF PlacedIn, KnownTypes
    <3>2. m.from2rel[r.from] \in Seq(RelIds) /\ m.to2rel[r.to] \in Seq(RelIds)
      BY <2>3, <3>1, <3>m DEF RelsTyped, IndexTyped, Index
    <3>3. Times(m.from2rel[r.from], i - 1) = 1 /\ Times(m.to2rel[r.to], i - 1) = 1
      BY <2>2, <3>m, <3>t DEF PlacedIn
    <3>4. Holds(m.from2rel[r.from], i - 1) /\ Holds(m.to2rel[r.to], i - 1)
      BY <3>2, <3>3, TimesTyped
    <3>5. i - 1 \in ToSet(m.from2rel[r.from]) /\ i - 1 \in ToSet(m.to2rel[r.to])
      BY <3>2, <3>4 DEF Holds, ToSet
    <3>6. r.from = key \/ r.to = key => i - 1 \in Incident(t, key)
      BY <3>5, <3>m DEF Incident
    <3>7. QED BY <1>gone, <2>1, <3>1, <3>6
  <2>5. Joins(nodeKeys, edges[i], r) BY <2>1, <2>r DEF EdgeEnds
  <2>6. nodeKeys \in [Names -> {-1} \cup NodeIds] BY DEF NodesTyped
  <2>7. Joins(nodeKeys', edges[i], r) BY <1>1, <1>key, <2>3, <2>4, <2>5, <2>6, JoinsStay
  <2>8. QED BY <2>1, <2>7
<1>4. EdgeEnds' BY <1>3 DEF EdgeEnds
<1>5. Len(relationships)' = Len(relationships) BY <1>1, <1>2, NulledShrinks DEF Shrinks
<1>6. QED BY <1>4, <1>5

LEMMA RemoveVertexKeeps ==
  ASSUME "deleteRelationshipProperties" \notin Ops, GremlinInv,
         NEW v \in vertices, RemoveVertex(v)
  PROVE  GremlinInv'
<1>1. GraphInv /\ ElementsTyped /\ EdgeEnds /\ TidyLists BY DEF GremlinInv
<1>2. /\ NodesTyped /\ RelsTyped /\ ListTyped /\ IndexTyped /\ EndsInv /\ LiveInv /\ InLists
      /\ EdgesTyped
  BY <1>1 DEF GraphInv, RelsTyped, ElementsTyped
<1>3. v.name \in Names \cup {Null} BY <1>1 DEF ElementsTyped, VertexRecord
<1>4. UNCHANGED <<vertices, edges, spent>> BY DEF RemoveVertex
<1>5. tidy' \in BOOLEAN /\ (tidy' => tidy) BY <1>1 DEF RemoveVertex, ElementsTyped
<1>6. CASE Nothing /\ Said
  <2>1. AdapterStep BY <1>6 DEF AdapterStep
  <2>2. GraphInv' BY <1>1, <1>6, <2>1, GraphInvKeeps
  <2>3. UNCHANGED <<nodeKeys, nodes, relationships, related>>
    BY <1>6 DEF Nothing, nodeVars, relVars
  <2>4. ElementsTyped' BY <1>1, <1>4, <1>5, <2>3 DEF ElementsTyped, EdgesTyped
  <2>5. OnlyShrinks BY <2>3 DEF OnlyShrinks, SameNumber, SameEnds
  <2>6. EdgeEnds' BY <1>1, <1>4, <2>3, <2>5, EdgeEndsStay
  <2>7. OutLists => OutLists'
    BY <2>3 DEF OutLists, UsableNodes, NodeUsable, NodeRec, KnownTypes
  <2>8. TidyLists' BY <1>1, <1>5, <2>7 DEF TidyLists
  <2>9. QED BY <2>2, <2>4, <2>6, <2>8, GremlinInvNext
<1>7. ASSUME v.name \in Names, IdByName(v) = nodeKeys[v.name],
             NEW call, RemoveNodeDone(call, v.name), RemoveNodeStep, Said
      PROVE  GremlinInv'
  <2>1. AdapterStep BY <1>7 DEF AdapterStep
  <2>2. GraphInv' BY <1>1, <1>7, <2>1, GraphInvKeeps
  <2>3. EdgeEnds' /\ Len(relationships)' = Len(relationships)
    BY <1>1, <1>2, <1>4, <1>7, RemoveNodeEdges
  <2>4. ElementsTyped' BY <1>1, <1>4, <1>5, <2>3 DEF ElementsTyped, EdgesTyped
  <2>5. TidyLists'
    <3>1. SUFFICES ASSUME tidy' PROVE OutLists' BY DEF TidyLists
    <3>2. result'.outcome = "done" BY <1>7 DEF RemoveNodeDone, Return
    <3>3. \A t \in KnownTypes :
            ToSet(IncomingNodeIds(t, nodeKeys[v.name])) \subseteq {nodeKeys[v.name]}
      BY <1>7, <3>1, <3>2 DEF RemoveVertex
    <3>4. OutLists BY <1>1, <1>5, <3>1 DEF TidyLists
    <3>5. QED BY <1>2, <1>7, <3>3, <3>4, ListsRemoveNode
  <2>6. QED BY <2>2, <2>3, <2>4, <2>5, GremlinInvNext
<1>8. CASE IdByName(v) = -1 /\ Unchanged(<<"removeNode", -1>>, "refused")
  BY <1>6, <1>8, UnchangedIsNothing DEF Outcomes
<1>9. CASE IdByName(v) # -1 /\ RemoveNode(<<"removeNode", nodeKeys[v.name]>>, v.name)
  <2>1. v.name \in Names /\ IdByName(v) = nodeKeys[v.name] BY <1>3, <1>9 DEF IdByName
  <2>call. PICK call : call = <<"removeNode", nodeKeys[v.name]>> OBVIOUS
  <2>2. RemoveNode(call, v.name) /\ "removeNode" \in Ops BY <1>9, <2>call DEF RemoveNode
  <2>3. (Nothing \/ RemoveNodeStep) /\ Said BY <2>1, <2>2, RemoveNodeKind
  <2>4. CASE RemoveNodeDone(call, v.name)
    <3>1. RemoveNodeStep BY <2>1, <2>2, <2>4 DEF RemoveNodeStep
    <3>2. QED BY <1>7, <2>1, <2>3, <2>4, <3>1
  <2>5. ~ RemoveNodeThrows(call, v.name)
    <3>key. PICK key : key = nodeKeys[v.name] OBVIOUS
    <3>1. key \in NodeIds BY <1>2, <1>9, <2>1, <3>key DEF NodesTyped
    <3>2. PICK ends : RecordEnds(ends) BY <1>2 DEF EndsInv
    <3>3. \A t \in KnownTypes : ~ RemoveAllOverruns(related[t], key)
      BY <1>2, <3>1, <3>2, NeverOverruns
    <3>4. QED BY <3>3, <3>key DEF RemoveNodeThrows
  <2>6. CASE Unchanged(call, "refused")
    <3>1. Nothing BY <2>6, UnchangedIsNothing DEF Outcomes
    <3>2. QED BY <1>6, <2>3, <3>1
  <2>7. QED BY <2>2, <2>4, <2>5, <2>6 DEF RemoveNode
<1>10. QED BY <1>8, <1>9 DEF RemoveVertex

\* The target of a new edge is found by a name the edge may reach.
LEMMA TargetIs ==
  ASSUME NEW w, w.name \in Names \cup {Null}, NodeUsable(w.id), TargetId(w) # -1,
         NEW edge, edge.in = w.name, edge.stale = (VertexOf(w.id) # w)
  PROVE  w.name \in Names /\ \E n \in Reached(edge) : n \in Names /\ TargetId(w) = nodeKeys[n]
<1>there. PICK there :
            there = {n \in Names : /\ w.name # Null /\ LabelOf[n] = LabelOf[w.name]
                                   /\ KeyOf[n] = KeyOf[NodeRec(w.id).name]}
  OBVIOUS
<1>1. there # {} /\ TargetId(w) = nodeKeys[CHOOSE n \in there : TRUE]
  BY <1>there DEF TargetId
<1>n. PICK n : n = CHOOSE m \in there : TRUE OBVIOUS
<1>2. n \in there /\ TargetId(w) = nodeKeys[n] BY <1>1, <1>n
<1>3. /\ n \in Names /\ w.name \in Names /\ LabelOf[n] = LabelOf[w.name]
      /\ KeyOf[n] = KeyOf[NodeRec(w.id).name]
  BY <1>2, <1>there
<1>4. n \in Reached(edge)
  <2>1. CASE edge.stale BY <1>3, <2>1 DEF Reached
  <2>2. CASE ~ edge.stale
    <3>1. VertexOf(w.id) = w BY <2>2
    <3>2. VertexOf(w.id).name = NodeRec(w.id).name BY DEF VertexOf
    <3>3. n = w.name BY <1>3, <3>1, <3>2, NamesAssumption
    <3>4. QED BY <2>2, <3>3 DEF Reached
  <2>3. QED BY <2>1, <2>2
<1>5. QED BY <1>2, <1>3, <1>4

LEMMA AddEdgeKeeps ==
  ASSUME "deleteRelationshipProperties" \notin Ops, GremlinInv,
         NEW v \in vertices, NEW w \in vertices, NEW t \in Types, NEW props \in UserMaps,
         AddEdge(v, w, t, props)
  PROVE  GremlinInv'
<1>1. GraphInv /\ ElementsTyped /\ EdgeEnds /\ TidyLists BY DEF GremlinInv
<1>2. /\ NodesTyped /\ NodesNamed /\ RelsTyped /\ ListTyped /\ CountsTyped /\ EdgesTyped
  BY <1>1 DEF GraphInv, RelsTyped, ElementsTyped
<1>3. v.name \in Names \cup {Null} /\ w.name \in Names \cup {Null}
  BY <1>1 DEF ElementsTyped, VertexRecord
<1>4. ASSUME NEW call, NEW outcome \in Outcomes, Unchanged(call, outcome), Elements
      PROVE  GremlinInv'
  <2>1. Nothing /\ Said BY <1>4, UnchangedIsNothing
  <2>2. QED BY <1>4, <2>1, QuietKeeps DEF QuietStep
<1>5. CASE Unchanged(<<"getNodeKey", w.id>>, "threw") /\ Elements
  BY <1>4, <1>5 DEF Outcomes
<1>6. CASE /\ NodeUsable(w.id) /\ spent + Len(edges) < MaxEdges
           /\ AddRelationshipWithProperties(t, IdByName(v), TargetId(w), props, 0)
           /\ edges' = IF result'.outcome = "done"
                       THEN Append(edges, [id |-> result'.id, type |-> t, out |-> v.name,
                                           in |-> w.name, stale |-> VertexOf(w.id) # w])
                       ELSE edges
           /\ UNCHANGED <<vertices, tidy, spent>>
  <2>n1. PICK n1 : n1 = IdByName(v) OBVIOUS
  <2>n2. PICK n2 : n2 = TargetId(w) OBVIOUS
  <2>call. PICK call : call = <<"addRelationshipWithProperties", t, n1, n2, props>> OBVIOUS
  <2>3. CASE Unchanged(call, "refused")
    <3>1. result'.outcome = "refused" BY <2>3 DEF Unchanged, Return
    <3>2. Elements BY <1>6, <3>1 DEF Elements
    <3>3. QED BY <1>4, <2>3, <3>2 DEF Outcomes
  <2>4. CASE n1 # -1 /\ n2 # -1 /\ ShowingLink(call, t, n1, n2, props)
    <3>new. PICK new : new = Len(relationships) OBVIOUS
    <3>stale. PICK stale : stale = (VertexOf(w.id) # w) OBVIOUS
    <3>edge. PICK edge : edge = [id |-> new, type |-> t, out |-> v.name, in |-> w.name,
                                 stale |-> stale] OBVIOUS
    <3>a. edge.in = w.name /\ edge.stale = (VertexOf(w.id) # w) BY <3>stale, <3>edge
    <3>b. w.name \in Names /\ \E n \in Reached(edge) : n \in Names /\ n2 = nodeKeys[n]
      BY <1>3, <1>6, <2>4, <2>n2, <3>a, TargetIs
    <3>c. n2 \in NodeIds /\ NodeUsable(n2)
      <4>1. PICK n \in Names : n2 = nodeKeys[n] BY <3>b
      <4>2. QED BY <1>2, <2>4, <4>1, NameLeads DEF NodesTyped
    <3>1. v.name \in Names /\ n1 = nodeKeys[v.name] BY <1>3, <2>4, <2>n1 DEF IdByName
    <3>2. n1 \in NodeIds BY <1>2, <2>4, <3>1 DEF NodesTyped
    <3>3. props \in StoredMaps BY UserMapsStored
    <3>shown. PICK shown : shown = IF NextNumber(t, n1, n2) > 1 THEN NextNumber(t, n1, n2) ELSE 0
      OBVIOUS
    <3>4. shown \in Int BY <1>2, <3>c, <3>2, <3>shown, ShowingLinkIs
    <3>5. Link(call, t, n1, n2, shown, props) BY <2>4, <3>shown DEF ShowingLink
    <3>6. ShowingLinkStep BY <3>c, <2>4, <3>2, <3>3 DEF ShowingLinkStep
    <3>7. AdapterStep BY <3>6 DEF AdapterStep
    <3>8. result'.outcome = "done" /\ result'.id = Len(relationships)
      BY <3>5 DEF Link, Return, NextRelId
    <3>9. Said BY <3>8 DEF Said, Outcomes
    <3>10. GraphInv' BY <1>1, <3>7, <3>9, GraphInvKeeps
    <3>11. edges' = Append(edges, edge) BY <1>6, <3>8, <3>edge, <3>new, <3>stale
    <3>12. new \in Nat /\ Len(edges) = new /\ DOMAIN relationships = 1 .. new
           /\ edges \in Seq(EdgeRecord) /\ DOMAIN edges = 1 .. new
      BY <1>2, <3>new DEF ListTyped, EdgesTyped
    <3>13. edge \in EdgeRecord /\ edge.id = new /\ edge.out = v.name
      BY <3>b, <3>1, <3>12, <3>edge, <3>stale DEF EdgeRecord
    <3>14. edges' \in Seq(EdgeRecord) /\ Len(edges') = new + 1 /\ edges'[new + 1] = edge
           /\ DOMAIN edges' = 1 .. new + 1
           /\ \A i \in 1 .. new : edges'[i] = edges[i]
      BY <3>11, <3>12, <3>13
    <3>15. Linked(t, n1, n2, shown, props) BY <1>2, <3>c, <3>2, <3>3, <3>4, <3>5, LinkEffect
    <3>rec. PICK rec : rec = [id |-> new, type |-> t, from |-> n1, to |-> n2,
                              count |-> shown, props |-> props] OBVIOUS
    <3>16. /\ ListTyped' /\ Len(relationships)' = new + 1 /\ relationships'[new + 1] = rec
           /\ \A i \in 1 .. new : relationships'[i] = relationships[i]
      BY <3>12, <3>15, <3>new, <3>rec DEF Linked
    <3>17. DOMAIN relationships' = 1 .. new + 1 BY <3>12, <3>16 DEF ListTyped
    <3>18. UNCHANGED <<nodeKeys, nodes>> BY <3>5 DEF Link, nodeVars
    <3>19. EdgeEnds'
      <4>1. ASSUME NEW i \in 1 .. new + 1, relationships'[i] # Null
            PROVE  Joins(nodeKeys', edges'[i], relationships'[i])
        <5>1. CASE i = new + 1
          <6>1. rec.from = n1 /\ rec.to = n2 BY <3>rec
          <6>2. Joins(nodeKeys, edge, rec) BY <3>b, <3>1, <3>13, <6>1 DEF Joins
          <6>3. QED BY <3>14, <3>16, <3>18, <5>1, <6>2
        <5>2. CASE i # new + 1
          <6>1. i \in 1 .. new BY <3>12, <5>2
          <6>2. edges'[i] = edges[i] /\ relationships'[i] = relationships[i]
            BY <3>14, <3>16, <6>1
          <6>3. Joins(nodeKeys, edges[i], relationships[i])
            BY <1>1, <3>12, <4>1, <6>1, <6>2 DEF EdgeEnds
          <6>4. QED BY <3>18, <6>2, <6>3
        <5>3. QED BY <5>1, <5>2
      <4>2. QED BY <3>17, <4>1 DEF EdgeEnds
    <3>20. EdgesTyped'
      <4>1. spent' \in Nat /\ spent' + Len(edges') <= MaxEdges
        <5>1. spent \in Nat /\ spent' = spent BY <1>2, <1>6 DEF EdgesTyped
        <5>2. spent + new < MaxEdges BY <1>6, <3>12
        <5>3. QED BY <3>12, <3>14, <5>1, <5>2, EdgesAssumption
      <4>2. \A i \in DOMAIN edges' : edges'[i].id = i - 1
        <5>1. \A i \in 1 .. new : edges'[i].id = i - 1 BY <1>2, <3>12, <3>14 DEF EdgesTyped
        <5>2. edges'[new + 1].id = (new + 1) - 1 BY <3>12, <3>13, <3>14
        <5>3. \A i \in 1 .. new + 1 : i \in 1 .. new \/ i = new + 1 BY <3>12
        <5>4. QED BY <3>14, <5>1, <5>2, <5>3
      <4>3. EdgeRecord' = EdgeRecord BY DEF EdgeRecord
      <4>4. QED BY <3>14, <3>16, <4>1, <4>2, <4>3 DEF EdgesTyped
    <3>21. ElementsTyped' BY <1>1, <1>6, <3>20 DEF ElementsTyped, VertexRecord
    <3>22. TidyLists'
      <4>1. NodeUsable(n2) BY <3>c
      <4>2. OutLists => OutLists' BY <1>2, <3>c, <3>2, <3>3, <3>4, <3>5, <4>1, ListsLink
      <4>3. QED BY <1>1, <1>6, <4>2 DEF TidyLists
    <3>23. QED BY <3>10, <3>19, <3>21, <3>22, GremlinInvNext
  <2>5. QED
    <3>1. AddRelationshipWithProperties(t, n1, n2, props, 0) BY <1>6, <2>n1, <2>n2
    <3>2. \/ Unchanged(call, "refused")
          \/ n1 # -1 /\ n2 # -1 /\ ShowingLink(call, t, n1, n2, props)
      BY <2>call, <3>1 DEF AddRelationshipWithProperties, ShowingLink
    <3>3. QED BY <2>3, <2>4, <3>2
<1>7. QED BY <1>5, <1>6 DEF AddEdge

LEMMA CloseKeeps ==
  ASSUME GremlinInv, Close
  PROVE  GremlinInv'
<1>1. KeyTypesTyped /\ EdgesTyped
  BY DEF GremlinInv, GraphInv, RelsTyped, ElementsTyped
<1>2. /\ nodeKeys' = [n \in Names |-> -1] /\ nodes' = <<>> /\ deletedNodes' = {}
      /\ relationships' = <<>> /\ related' = <<>>
      /\ relationshipCounts' = <<>> /\ relatedCounts' = <<>>
      /\ UNCHANGED relationshipKeys /\ result'.outcome = "done"
      /\ spent' = spent + Len(edges) /\ vertices' = {} /\ edges' = <<>> /\ tidy' = TRUE
  BY DEF Close, Clear, Return
<1>3. Emptied' BY <1>1, <1>2 DEF Emptied, KeyTypesTyped, Outcomes
<1>4. GraphInv' /\ OutLists' BY <1>3, EmptiedSoundNext
<1>5. \A x : x \notin DOMAIN <<>> OBVIOUS
<1>6. ElementsTyped'
  <2>1. Len(edges) \in Nat /\ spent \in Nat /\ spent + Len(edges) <= MaxEdges
    BY <1>1 DEF EdgesTyped
  <2>2. edges' \in Seq(EdgeRecord) /\ Len(edges') = 0 BY <1>2
  <2>3. EdgeRecord' = EdgeRecord BY DEF EdgeRecord
  <2>4. EdgesTyped' BY <1>2, <1>5, <2>1, <2>2, <2>3, EdgesAssumption DEF EdgesTyped
  <2>5. QED BY <1>2, <2>4 DEF ElementsTyped
<1>7. EdgeEnds' BY <1>2, <1>5 DEF EdgeEnds
<1>8. TidyLists' BY <1>4 DEF TidyLists
<1>9. QED BY <1>4, <1>6, <1>7, <1>8, GremlinInvNext

LEMMA GremlinInvInit == GremlinInit => GremlinInv
<1>1. SUFFICES ASSUME GremlinInit PROVE GremlinInv OBVIOUS
<1>2. Init /\ vertices = {} /\ edges = <<>> /\ tidy = TRUE /\ spent = 0 BY <1>1 DEF GremlinInit
<1>3. \A x : x \notin DOMAIN <<>> OBVIOUS
<1>4. Emptied BY <1>2, <1>3 DEF Init, Emptied, KeyTypesTyped, Outcomes
<1>5. GraphInv /\ OutLists BY <1>4, EmptiedSound
<1>6. relationships = <<>> BY <1>2 DEF Init
<1>7. EdgesTyped
  <2>1. edges \in Seq(EdgeRecord) /\ Len(edges) = 0 /\ Len(relationships) = 0 BY <1>2, <1>6
  <2>2. QED BY <1>2, <1>3, <2>1, EdgesAssumption DEF EdgesTyped
<1>8. ElementsTyped BY <1>2, <1>7 DEF ElementsTyped
<1>9. EdgeEnds BY <1>3, <1>6 DEF EdgeEnds
<1>10. QED BY <1>5, <1>8, <1>9 DEF GremlinInv, TidyLists

\* What an edge, a property of an edge or of a vertex does.
LEMMA QuietKinds ==
  ASSUME TypeOK,
         \/ \E v \in vertices, p \in PropNames, value \in Values : PutVertexProperty(v, p, value)
         \/ \E v \in vertices, p \in PropNames : RemoveVertexProperty(v, p)
         \/ EdgeStep,
         ElementsTyped
  PROVE  QuietStep /\ Said /\ Elements
<1>1. CASE \E v \in vertices, p \in PropNames, value \in Values : PutVertexProperty(v, p, value)
  <2>1. PICK v \in vertices, p \in PropNames, value \in Values : PutVertexProperty(v, p, value)
    BY <1>1
  <2>id. PICK id : id = IdByName(v) OBVIOUS
  <2>2. id \in Int
    <3>1. v.name \in Names \cup {Null} BY DEF ElementsTyped, VertexRecord
    <3>2. QED BY <2>id, <3>1 DEF IdByName, TypeOK, NodeIds
  <2>3. UpdateNodeProperty(id, p, value) /\ Elements BY <2>1, <2>id DEF PutVertexProperty
  <2>4. (Nothing \/ NodePropsStep) /\ Said BY <2>2, <2>3, NodePropertyKinds
  <2>5. QED BY <2>3, <2>4 DEF QuietStep
<1>2. CASE \E v \in vertices, p \in PropNames : RemoveVertexProperty(v, p)
  <2>1. PICK v \in vertices, p \in PropNames : RemoveVertexProperty(v, p) BY <1>2
  <2>2. v.id \in Int BY DEF ElementsTyped, VertexRecord, NodeIds
  <2>3. DeleteNodeProperty(v.id, p) /\ Elements BY <2>1 DEF RemoveVertexProperty
  <2>4. (Nothing \/ NodePropsStep) /\ Said BY <2>2, <2>3, NodePropertyKinds
  <2>5. QED BY <2>3, <2>4 DEF QuietStep
<1>3. CASE EdgeStep
  <2>1. PICK e \in ToSet(edges) :
          \/ RemoveEdge(e)
          \/ \E p \in PropNames : \/ \E v \in Values : PutEdgeProperty(e, p, v)
                                  \/ RemoveEdgeProperty(e, p)
    BY <1>3 DEF EdgeStep
  <2>2. e.id \in Int BY DEF ElementsTyped, EdgesTyped, EdgeRecord, ToSet
  <2>3. CASE RemoveEdge(e)
    <3>1. RemoveRelationshipById(e.id) /\ Elements BY <2>3 DEF RemoveEdge
    <3>2. (Nothing \/ RemoveByIdStep) /\ Said BY <2>2, <3>1, RemoveByIdKind
    <3>3. QED BY <3>1, <3>2 DEF QuietStep
  <2>4. CASE \E p \in PropNames : \E v \in Values : PutEdgeProperty(e, p, v)
    <3>1. (\E p \in PropNames, v \in Values : UpdateRelationshipPropertyById(e.id, p, v))
          /\ Elements
      BY <2>4 DEF PutEdgeProperty
    <3>2. (Nothing \/ RelPropsStep) /\ Said BY <2>2, <3>1, IdPropertyKinds
    <3>3. QED BY <3>1, <3>2 DEF QuietStep
  <2>5. CASE \E p \in PropNames : RemoveEdgeProperty(e, p)
    <3>1. (\E p \in PropNames : DeleteRelationshipPropertyById(e.id, p)) /\ Elements
      BY <2>5 DEF RemoveEdgeProperty
    <3>2. (Nothing \/ RelPropsStep) /\ Said BY <2>2, <3>1, IdPropertyKinds
    <3>3. QED BY <3>1, <3>2 DEF QuietStep
  <2>6. QED BY <2>1, <2>3, <2>4, <2>5
<1>4. QED BY <1>1, <1>2, <1>3

LEMMA GremlinInvStep ==
  "deleteRelationshipProperties" \notin Ops =>
    (GremlinInv /\ [GremlinNext]_gremlinVars => GremlinInv')
<1>1. SUFFICES ASSUME "deleteRelationshipProperties" \notin Ops, GremlinInv,
                      [GremlinNext]_gremlinVars
               PROVE  GremlinInv'
  OBVIOUS
<1>2. GraphInv /\ ElementsTyped /\ TypeOK BY <1>1, GraphIsTyped DEF GremlinInv
<1>3. ASSUME QuietStep, Said, Elements PROVE GremlinInv' BY <1>1, <1>3, QuietKeeps
<1>4. CASE UNCHANGED gremlinVars
  <2>1. UNCHANGED <<vars, vertices, edges, tidy, spent>> BY <1>4 DEF gremlinVars
  <2>2. UNCHANGED vars BY <2>1
  <2>3. Nothing BY <2>2 DEF vars, Nothing, nodeVars, relVars
  <2>4. Said BY <1>2, <2>2 DEF vars, Said, TypeOK
  <2>5. Elements BY <2>1 DEF Elements
  <2>6. QED BY <1>3, <2>3, <2>4, <2>5 DEF QuietStep
<1>5. CASE Close BY <1>1, <1>5, CloseKeeps
<1>6. CASE EdgeStep
  <2>1. QuietStep /\ Said /\ Elements BY <1>2, <1>6, QuietKinds
  <2>2. QED BY <1>3, <2>1
<1>7. CASE VertexStep
  <2>1. CASE \E n \in Names, m \in UserMaps : AddVertex(n, m) BY <1>1, <2>1, AddVertexKeeps
  <2>2. ASSUME NEW v \in vertices, RemoveVertex(v) PROVE GremlinInv'
    BY <1>1, <2>2, RemoveVertexKeeps
  <2>3. ASSUME NEW v \in vertices, NEW p \in PropNames,
               \/ \E value \in Values : PutVertexProperty(v, p, value)
               \/ RemoveVertexProperty(v, p)
        PROVE  GremlinInv'
    <3>1. QuietStep /\ Said /\ Elements BY <1>2, <2>3, QuietKinds
    <3>2. QED BY <1>3, <3>1
  <2>4. ASSUME NEW v \in vertices, NEW w \in vertices, NEW t \in Types, NEW m \in UserMaps,
               AddEdge(v, w, t, m)
        PROVE  GremlinInv'
    BY <1>1, <2>4, AddEdgeKeeps
  <2>5. QED BY <1>7, <2>1, <2>2, <2>3, <2>4 DEF VertexStep
<1>8. QED BY <1>1, <1>4, <1>5, <1>6, <1>7 DEF GremlinNext

LEMMA GremlinInvHolds ==
  ASSUME "deleteRelationshipProperties" \notin Ops
  PROVE  GremlinSpec => []GremlinInv
<1>1. "deleteRelationshipProperties" \notin Ops OBVIOUS
<1>2. GremlinInit => GremlinInv BY GremlinInvInit
<1>3. GremlinInv /\ [GremlinNext]_gremlinVars => GremlinInv' BY <1>1, GremlinInvStep
<1>4. QED BY <1>2, <1>3, PTL DEF GremlinSpec

-----------------------------------------------------------------------------
(* What the client of the adapter sees *)

\* The elements and the graph keep their types, however often the graph is
\* closed and whichever stale elements the client goes on using.
THEOREM ElementsKeepTypes ==
  ASSUME "deleteRelationshipProperties" \notin Ops
  PROVE  GremlinSpec => []GremlinTypeOK
<1>1. ASSUME GremlinInv PROVE GremlinTypeOK
  <2>1. GraphInv /\ ElementsTyped /\ EdgesTyped /\ TypeOK
    BY <1>1, GraphIsTyped DEF GremlinInv, ElementsTyped
  <2>2. \A i \in DOMAIN edges : edges[i] \in EdgeRecord BY <2>1 DEF EdgesTyped
  <2>3. \A i \in DOMAIN edges :
          /\ edges[i].type \in Types /\ {edges[i].out, edges[i].in} \subseteq Names
          /\ edges[i].stale \in BOOLEAN
    BY <2>2 DEF EdgeRecord
  <2>4. spent + Len(edges) \in 0 .. MaxEdges
    BY <2>1, EdgesAssumption DEF EdgesTyped
  <2>5. QED BY <2>1, <2>3, <2>4 DEF GremlinTypeOK, ElementsTyped, EdgesTyped, VertexRecord
<1>2. QED BY <1>1, GremlinInvHolds, PTL

\* An edge that was not removed leads from the vertex addEdge was called on to the
\* one it was called with, found anew from the ids in its map; if the id of the
\* second had passed to another vertex before the call, it leads to one of the
\* label of the second.  No id that is reused after the call, and none of a graph
\* closed since, leads it elsewhere.
THEOREM EdgesKeepTheirEnds ==
  ASSUME "deleteRelationshipProperties" \notin Ops
  PROVE  GremlinSpec => []EdgeKeepsEnds
<1>1. ASSUME GremlinInv PROVE EdgeKeepsEnds
  <2>1. /\ NodesTyped /\ NodesNamed /\ ListTyped /\ EdgesTyped /\ EdgeEnds
    BY <1>1 DEF GremlinInv, GraphInv, RelsTyped, ElementsTyped
  <2>2. SUFFICES ASSUME NEW e \in ToSet(edges), EdgeReadable(e.id)
                 PROVE  OutVertex(e).name = e.out /\ InVertex(e).name \in Reached(e)
    BY DEF EdgeKeepsEnds
  <2>3. PICK i \in DOMAIN edges : e = edges[i] BY <2>2 DEF ToSet
  <2>4. e.id = i - 1 /\ i \in DOMAIN relationships /\ i \in Int
    BY <2>1, <2>3 DEF EdgesTyped, ListTyped
  <2>5. e.id + 1 = i BY <2>4
  <2>r. PICK r : r = RelRec(e.id) OBVIOUS
  <2>6. r = relationships[i] /\ r # Null BY <2>2, <2>5, <2>r DEF EdgeReadable, RelUsable, RelRec
  <2>7. nodeKeys[e.out] = r.from /\ \E n \in Reached(e) : nodeKeys[n] = r.to
    BY <2>1, <2>3, <2>4, <2>6 DEF EdgeEnds, Joins
  <2>n. PICK n \in Reached(e) : nodeKeys[n] = r.to BY <2>7
  <2>8. e.out \in Names /\ e.in \in Names /\ r.from \in NodeIds /\ r.to \in NodeIds
    BY <2>1, <2>3, <2>4, <2>6, EdgesAre
  <2>9. n \in Names /\ r.from # -1 /\ r.to # -1 BY <2>n, <2>8, ReachedNames DEF NodeIds
  <2>10. /\ NodeUsable(r.from) /\ NodeRec(r.from).name = e.out
         /\ NodeUsable(r.to) /\ NodeRec(r.to).name = n
    BY <2>1, <2>7, <2>n, <2>8, <2>9, NameLeads
  <2>11. OutVertex(e).name = NodeRec(r.from).name /\ InVertex(e).name = NodeRec(r.to).name
    BY <2>10, <2>r DEF OutVertex, InVertex, VertexOf
  <2>12. QED BY <2>10, <2>11, <2>n
<1>2. QED BY <1>1, GremlinInvHolds, PTL

\* Every relationship that lives has a number in the map of keys that leads back
\* to it, the one its own map shows, although clear() leaves the keys of the old
\* graph and a node is removed without its keys.
THEOREM RemovalFindsTheNumber ==
  ASSUME "deleteRelationshipProperties" \notin Ops
  PROVE  GremlinSpec => []RemoveFindsOwnNumber
<1>1. ASSUME GremlinInv PROVE RemoveFindsOwnNumber
  <2>1. ListTyped /\ LiveNumbered BY <1>1 DEF GremlinInv, GraphInv, RelsTyped
  <2>2. SUFFICES ASSUME NEW id \in 0 .. Len(relationships) - 1, RelRec(id) # Null
                 PROVE  PropertySource(id) = id
    BY DEF RemoveFindsOwnNumber, LiveRels
  <2>i. PICK i : i = id + 1 OBVIOUS
  <2>r. PICK r : r = relationships[i] OBVIOUS
  <2>k. PICK k : k = ShownNumber(r) OBVIOUS
  <2>3. i \in DOMAIN relationships /\ i - 1 = id /\ r # Null /\ RelRec(id) = r
    BY <2>1, <2>2, <2>i, <2>r DEF ListTyped, RelRec
  <2>4. HasOwnNumber(relationshipKeys, relatedCounts, r, id)
    BY <2>1, <2>3, <2>r DEF LiveNumbered
  <2>5. RelationshipKeyId(r.type, k, r.from, r.to) = id
    BY <2>4, <2>k, KeyIdIs DEF HasOwnNumber
  <2>6. QED BY <2>3, <2>5, <2>k DEF PropertySource, ShownNumber
<1>2. QED BY <1>1, GremlinInvHolds, PTL

\* A relationship that lives is in the adjacency of both its ends exactly once,
\* also in a graph that was closed and filled again.
THEOREM EdgesStayIndexed ==
  ASSUME "deleteRelationshipProperties" \notin Ops
  PROVE  GremlinSpec => []LiveIsIndexed
<1>1. GremlinInv => ListTyped /\ LiveInv BY DEF GremlinInv, GraphInv, RelsTyped
<1>2. GremlinInv => LiveIsIndexed BY <1>1, LiveInvIndexed
<1>3. QED BY <1>2, GremlinInvHolds, PTL

\* g.E() meets every edge there is.  As long as no vertex went while others had
\* edges to it, it meets no other, and the neighbours of a vertex are there.
THEOREM EdgesStayIterable ==
  ASSUME "deleteRelationshipProperties" \notin Ops
  PROVE  GremlinSpec => []EdgesIterable
<1>1. ASSUME GremlinInv PROVE EdgesIterable
  <2>1. /\ NodesTyped /\ NodesNamed /\ RelsTyped /\ ListTyped /\ IndexTyped /\ LiveInv
        /\ TidyLists
    BY <1>1 DEF GremlinInv, GraphInv, RelsTyped
  <2>2. LiveRels \subseteq EdgeIds
    <3>1. SUFFICES ASSUME NEW id \in 0 .. Len(relationships) - 1, RelRec(id) # Null
                   PROVE  id \in EdgeIds
      BY DEF LiveRels
    <3>i. PICK i : i = id + 1 OBVIOUS
    <3>r. PICK r : r = relationships[i] OBVIOUS
    <3>2. i \in DOMAIN relationships /\ i - 1 = id /\ r # Null
      BY <2>1, <3>1, <3>i, <3>r DEF ListTyped, RelRec
    <3>3. PlacedIn(related, r, id) BY <2>1, <3>2, <3>r DEF LiveInv
    <3>t. PICK t : t = r.type OBVIOUS
    <3>m. PICK m : m = related[t] OBVIOUS
    <3>4. t \in KnownTypes /\ Times(m.from2rel[r.from], id) = 1
      BY <3>3, <3>m, <3>t DEF PlacedIn, KnownTypes
    <3>5. r.from \in NodeIds BY <2>1, <3>2, <3>r DEF ListTyped, Relationship
    <3>6. m.from2rel[r.from] \in Seq(RelIds) /\ DOMAIN m.from2rel = NodeIds
      BY <2>1, <3>4, <3>5, <3>m DEF IndexTyped, Index
    <3>7. Holds(m.from2rel[r.from], id) BY <3>4, <3>6, TimesTyped
    <3>8. id \in ToSet(m.from2rel[r.from]) BY <3>6, <3>7 DEF Holds, ToSet
    <3>9. id \in AllRels(m) BY <3>5, <3>6, <3>8 DEF AllRels
    <3>10. QED BY <3>4, <3>9, <3>m DEF EdgeIds, AllRelationshipIds
  <2>3. ASSUME tidy, NEW id \in EdgeIds PROVE EdgeReadable(id)
    <3>1. PICK t \in KnownTypes : id \in AllRels(related[t])
      BY <2>3 DEF EdgeIds, AllRelationshipIds
    <3>m. PICK m : m = related[t] OBVIOUS
    <3>2. DOMAIN m.from2rel = NodeIds BY <2>1, <3>1, <3>m DEF IndexTyped, Index
    <3>3. PICK n \in NodeIds : id \in ToSet(m.from2rel[n]) BY <3>1, <3>2, <3>m DEF AllRels
    <3>s. PICK s : s = m.from2rel[n] OBVIOUS
    <3>4. s \in Seq(RelIds) BY <2>1, <3>1, <3>m, <3>s DEF IndexTyped, Index
    <3>5. Holds(s, id) BY <3>3, <3>4, <3>s DEF Holds, ToSet
    <3>6. OutSound(relationships, UsableNodes, t, m) BY <2>1, <2>3, <3>m DEF TidyLists, OutLists
    <3>7. OutAt(relationships, UsableNodes, t, n, s, m.from2to[n]) BY <3>6, <3>s DEF OutSound
    <3>8. relationships[id + 1] # Null BY <3>5, <3>7 DEF OutAt
    <3>9. id \in RelIds BY <3>4, <3>5, HoldsIn
    <3>10. id + 1 \in DOMAIN relationships BY <2>1, <3>9 DEF RelIds, ListTyped
    <3>11. QED BY <3>8, <3>10 DEF EdgeReadable, RelUsable, RelRec
  <2>4. ASSUME tidy, NEW n \in NodeIds, NEW v \in OutVertices(n) PROVE v.name # Null
    <3>k. PICK t \in KnownTypes : \E to \in ToSet(OutgoingNodeIds(t, n)) : v = VertexOf(to)
      BY <2>4 DEF OutVertices
    <3>1. PICK to \in ToSet(OutgoingNodeIds(t, n)) : v = VertexOf(to) BY <3>k
    <3>m. PICK m : m = related[t] OBVIOUS
    <3>s. PICK s : s = m.from2to[n] OBVIOUS
    <3>2. s \in Seq(NodeIds) /\ OutgoingNodeIds(t, n) = s
      BY <2>1, <3>m, <3>s DEF IndexTyped, Index, OutgoingNodeIds
    <3>3. Holds(s, to) BY <3>1, <3>2 DEF Holds, ToSet
    <3>4. OutSound(relationships, UsableNodes, t, m) BY <2>1, <2>4, <3>m DEF TidyLists, OutLists
    <3>5. OutAt(relationships, UsableNodes, t, n, m.from2rel[n], s) BY <3>4, <3>s DEF OutSound
    <3>6. to \in NodeIds BY <3>2, <3>3, HoldsIn
    <3>7. NodeUsable(to) BY <3>3, <3>5, <3>6 DEF OutAt, UsableNodes
    <3>8. to \in Int BY <3>6 DEF NodeIds
    <3>9. NodeRec(to).name \in Names BY <2>1, <3>7, <3>8, RecordLeads DEF NodesNamed
    <3>10. v.name = NodeRec(to).name BY <3>1, <3>7 DEF VertexOf
    <3>11. QED BY <3>9, <3>10, NullIsFresh
  <2>5. QED BY <2>2, <2>3, <2>4 DEF EdgesIterable
<1>2. QED BY <1>1, GremlinInvHolds, PTL
=============================================================================

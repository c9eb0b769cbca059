--------------------------- MODULE Numbering_proofs ---------------------------
(***************************************************************************)
(* Proofs about the numbers of parallel relationships: relationshipKeys,    *)
(* relatedCounts and the list of relationships, for any number of each.     *)
(***************************************************************************)
EXTENDS FastUtilGraph_proofs

Pairs == NodeIds \X NodeIds

(* No number is taken away from a relationship that lives.                   *)

\* The client removes no relationship by id, which drops a key by the "~count"
\* its map shows, inserts none, and passes no number below 1: removing number
\* 0 lowers the count before it throws, and the last relationship would be
\* beyond it.
NumberingClient ==
  /\ "removeRelationshipById" \notin Ops /\ "deleteRelationshipProperties" \notin Ops
  /\ \A k \in Numbers : k >= 1

KeysShaped ==
  \A key, pair : Has(relationshipKeys, key, pair) =>
    pair \in Pairs /\ \E t \in KnownTypes, k \in 1 .. Len(relationships) : key = <<t, k>>

\* Removed nodes leave their pair counts behind, so a number up to the count
\* need not lead to a relationship that lives; but beyond the count none does.
SpareKeysDead ==
  \A t \in KnownTypes, pair \in Pairs, k \in Nat : \A id :
    Has(relationshipKeys, <<t, k>>, pair) /\ relationshipKeys[<<t, k>>][pair] = id
      /\ k > relatedCounts[t][pair] => ~ RelUsable(id)

CountsKeyed ==
  \A t \in KnownTypes, pair \in Pairs :
    /\ relatedCounts[t][pair] \in 0 .. Len(relationships)
    /\ \A k \in 1 .. relatedCounts[t][pair] : Has(relationshipKeys, <<t, k>>, pair)

ListBounded == Len(relationships) <= MaxRelationships

NumberInv == KeysShaped /\ SpareKeysDead /\ CountsKeyed /\ ListBounded

\* What a step does to the keys of relationships that live.
NumbersKept ==
  \A t \in KnownTypes, k \in Nat, pair \in Pairs : \A id :
    Has(relationshipKeys, <<t, k>>, pair) /\ relationshipKeys[<<t, k>>][pair] = id /\ RelUsable(id)
      => \/ ~ RelUsable(id)'
         \/ \E j \in 1 .. MaxRelationships :
              Has(relationshipKeys', <<t, j>>, pair) /\ relationshipKeys'[<<t, j>>][pair] = id

LEMMA ShrinksUsable ==
  ASSUME ListTyped, NEW gone, Shrinks(gone)
  PROVE  \A id \in Int : RelUsable(id)' => id \notin gone /\ RelUsable(id)
<1>1. SUFFICES ASSUME NEW id \in Int, RelUsable(id)'
               PROVE  id \notin gone /\ RelUsable(id)
  OBVIOUS
<1>2. id + 1 \in DOMAIN relationships' /\ relationships'[id + 1] # Null
  BY <1>1 DEF RelUsable, RelRec
<1>3. DOMAIN relationships' = DOMAIN relationships BY DEF Shrinks, ListTyped
<1>4. (id + 1) - 1 = id OBVIOUS
<1> DEFINE i == id + 1
<1>5. i - 1 \notin gone /\ relationships[i] # Null BY <1>2, <1>3 DEF Shrinks
<1>6. QED BY <1>2, <1>3, <1>4, <1>5 DEF RelUsable, RelRec

\* A step that leaves keys and counts alone and brings no relationship back.
LEMMA KeysStay ==
  ASSUME RelsInv, NumberInv, UNCHANGED <<relationshipKeys, relatedCounts>>,
         KnownTypes' = KnownTypes, Len(relationships)' = Len(relationships),
         \A id \in Int : RelUsable(id)' => RelUsable(id)
  PROVE  NumberInv' /\ NumbersKept
<1>1. ASSUME NEW key, NEW pair, Has(relationshipKeys, key, pair)
      PROVE  relationshipKeys[key][pair] \in Int
  BY <1>1 DEF RelsInv, KeysAllocated, Has, RelIds
<1>2. KeysShaped' BY DEF NumberInv, KeysShaped, Pairs
<1>3. SpareKeysDead' BY <1>1 DEF NumberInv, SpareKeysDead, Pairs
<1>4. CountsKeyed' BY DEF NumberInv, CountsKeyed, Pairs
<1>5. NumbersKept
  <2>1. SUFFICES ASSUME NEW t \in KnownTypes, NEW k \in Nat, NEW pair \in Pairs,
                        Has(relationshipKeys, <<t, k>>, pair)
                 PROVE  k \in 1 .. MaxRelationships
    BY DEF NumbersKept
  <2>2. PICK u \in KnownTypes, j \in 1 .. Len(relationships) : <<t, k>> = <<u, j>>
    BY <2>1 DEF NumberInv, KeysShaped
  <2>3. k = j BY <2>2
  <2>4. Len(relationships) \in Nat BY DEF RelsInv, ListTyped
  <2>5. QED BY <2>3, <2>4, BoundsAssumption DEF NumberInv, ListBounded
<1>6. QED BY <1>2, <1>3, <1>4, <1>5 DEF NumberInv, ListBounded

\* What a new relationship does to keys and counts.
NumberAdded(t, pair, k, id) ==
  /\ id = Len(relationships) /\ id \in Nat
  /\ Len(relationships)' = id + 1 /\ id + 1 <= MaxRelationships
  /\ \A i \in RelIds : RelUsable(i)' => RelUsable(i)
  /\ t \in Types /\ KnownTypes' = KnownTypes \cup {t} /\ pair \in Pairs
  /\ DOMAIN relatedCounts = KnownTypes /\ DOMAIN relatedCounts' = KnownTypes'
  /\ k \in 1 .. id + 1
  /\ k = (IF t \in KnownTypes THEN relatedCounts[t][pair] ELSE 0) + 1
  /\ \A u \in KnownTypes', q \in Pairs :
       relatedCounts'[u][q] = IF u = t /\ q = pair THEN k
                              ELSE IF u \in KnownTypes THEN relatedCounts[u][q] ELSE 0
  /\ \A u, j, q :
       /\ Has(relationshipKeys', <<u, j>>, q) <=>
            Has(relationshipKeys, <<u, j>>, q) \/ (u = t /\ j = k /\ q = pair)
       /\ Has(relationshipKeys', <<u, j>>, q) =>
            relationshipKeys'[<<u, j>>][q] =
              IF u = t /\ j = k /\ q = pair THEN id ELSE relationshipKeys[<<u, j>>][q]
  /\ \A key, q : Has(relationshipKeys', key, q) => Has(relationshipKeys, key, q) \/ key = <<t, k>>

LEMMA LinkAdds ==
  ASSUME RelsInv, CountsKeyed, NEW t \in Types, NEW n1 \in NodeIds, NEW n2 \in NodeIds,
         NEW shown \in Int, NEW props \in StoredMaps, NEW call, Link(call, t, n1, n2, shown, props)
  PROVE  NumberAdded(t, <<n1, n2>>, NextNumber(t, n1, n2), Len(relationships))
<1>pair. PICK pair : pair = <<n1, n2>> OBVIOUS
<1>id. PICK id : id = Len(relationships) OBVIOUS
<1>k. PICK k : k = NextNumber(t, n1, n2) OBVIOUS
<1>1. id \in Nat /\ DOMAIN relationships = 1 .. id BY <1>id DEF RelsInv, ListTyped
<1>2. /\ Len(relationships)' = id + 1
      /\ \A i \in DOMAIN relationships : relationships'[i] = relationships[i]
      /\ KnownTypes' = KnownTypes \cup {t}
      /\ PairCounts(t) \in [NodeIds \X NodeIds -> Nat]
      /\ DOMAIN relatedCounts' = KnownTypes \cup {t}
      /\ relatedCounts'[t] = [PairCounts(t) EXCEPT ![pair] = @ + 1]
      /\ \A u \in KnownTypes : u # t => relatedCounts'[u] = relatedCounts[u]
  <2>1. Linked(t, n1, n2, shown, props) BY RelsInvIs, LinkEffect
  <2>2. QED BY <1>id, <1>pair, <2>1 DEF Linked
<1>3. pair \in Pairs BY <1>pair DEF Pairs
<1>4. k = PairCounts(t)[pair] + 1 BY <1>k, <1>pair DEF NextNumber
<1>5. PairCounts(t) = IF t \in KnownTypes THEN relatedCounts[t]
                      ELSE [q \in NodeIds \X NodeIds |-> 0]
  BY DEF PairCounts
<1>6. id + 1 <= MaxRelationships
  BY <1>1, <1>id, BoundsAssumption DEF Link
<1>7. \A i \in RelIds : RelUsable(i)' => RelUsable(i)
  <2>1. SUFFICES ASSUME NEW i \in RelIds, RelUsable(i)' PROVE RelUsable(i) OBVIOUS
  <2>2. i + 1 \in DOMAIN relationships BY <1>1, <1>id DEF RelIds
  <2>3. relationships'[i + 1] # Null BY <2>1 DEF RelUsable, RelRec
  <2>4. QED BY <1>2, <2>2, <2>3 DEF RelUsable, RelRec
<1>8. k = (IF t \in KnownTypes THEN relatedCounts[t][pair] ELSE 0) + 1
  BY <1>3, <1>4, <1>5 DEF Pairs
<1>9. k \in 1 .. id + 1
  <2>1. CASE t \in KnownTypes
    <3>1. relatedCounts[t][pair] \in 0 .. id BY <1>3, <1>id, <2>1 DEF CountsKeyed
    <3>2. QED BY <1>1, <1>8, <2>1, <3>1
  <2>2. CASE t \notin KnownTypes BY <1>1, <1>8, <2>2
  <2>3. QED BY <2>1, <2>2
<1>10. ASSUME NEW u \in KnownTypes', NEW q \in Pairs
       PROVE  relatedCounts'[u][q] = IF u = t /\ q = pair THEN k
                                     ELSE IF u \in KnownTypes THEN relatedCounts[u][q] ELSE 0
  <2>1. CASE u = t BY <1>2, <1>3, <1>4, <1>5, <2>1 DEF Pairs
  <2>2. CASE u # t BY <1>2, <2>2
  <2>3. QED BY <2>1, <2>2
<1>11. IsPut(relationshipKeys, relationshipKeys', t, k, n1, n2, id)
  <2>1. relationshipKeys' = PutKey(relationshipKeys, t, k, n1, n2, id)
    BY <1>k, <1>id DEF Link, NextRelId
  <2>2. QED BY <2>1, PutKeyIs
<1>12. DOMAIN relatedCounts = KnownTypes BY DEF RelsInv, CountsTyped
<1>13. ASSUME NEW u, NEW j, NEW q
       PROVE  /\ Has(relationshipKeys', <<u, j>>, q) <=>
                   Has(relationshipKeys, <<u, j>>, q) \/ (u = t /\ j = k /\ q = pair)
              /\ Has(relationshipKeys', <<u, j>>, q) =>
                   relationshipKeys'[<<u, j>>][q] =
                     IF u = t /\ j = k /\ q = pair THEN id ELSE relationshipKeys[<<u, j>>][q]
  <2>1. <<u, j>> = <<t, k>> <=> u = t /\ j = k OBVIOUS
  <2>2. QED BY <1>11, <1>pair, <2>1 DEF IsPut
<1>14. \A key, q : Has(relationshipKeys', key, q) => Has(relationshipKeys, key, q) \/ key = <<t, k>>
  BY <1>11 DEF IsPut
<1>15. NumberAdded(t, pair, k, id)
  BY <1>1, <1>2, <1>3, <1>6, <1>7, <1>8, <1>9, <1>10, <1>12, <1>13, <1>14, <1>id DEF NumberAdded
<1>16. QED BY <1>15, <1>pair, <1>id, <1>k

LEMMA AddedCounts ==
  ASSUME RelsInv, KeysShaped, CountsKeyed,
         NEW t, NEW pair, NEW k, NEW id, NumberAdded(t, pair, k, id)
  PROVE  KeysShaped' /\ CountsKeyed'
<1> USE DEF NumberAdded
<1>1. \A u \in KnownTypes, q \in Pairs : relatedCounts[u][q] \in 0 .. id
  BY DEF CountsKeyed
<1>2. \A u, j, q : Has(relationshipKeys, <<u, j>>, q) =>
        /\ u \in KnownTypes /\ j \in 1 .. id /\ q \in Pairs
        /\ relationshipKeys[<<u, j>>][q] \in RelIds
  <2>1. SUFFICES ASSUME NEW u, NEW j, NEW q, Has(relationshipKeys, <<u, j>>, q)
                 PROVE  /\ u \in KnownTypes /\ j \in 1 .. id /\ q \in Pairs
                        /\ relationshipKeys[<<u, j>>][q] \in RelIds
    OBVIOUS
  <2>2. PICK v \in KnownTypes, i \in 1 .. Len(relationships) : <<u, j>> = <<v, i>>
    BY <2>1 DEF KeysShaped
  <2>3. u = v /\ j = i BY <2>2
  <2>4. q \in Pairs BY <2>1 DEF KeysShaped
  <2>5. relationshipKeys[<<u, j>>][q] \in RelIds BY <2>1 DEF RelsInv, KeysAllocated, Has
  <2>6. QED BY <2>2, <2>3, <2>4, <2>5
<1>3. KeysShaped'
  <2>1. SUFFICES ASSUME NEW key, NEW q, Has(relationshipKeys', key, q)
                 PROVE  q \in Pairs /\ \E u \in KnownTypes', j \in 1 .. id + 1 : key = <<u, j>>
    BY DEF KeysShaped, Pairs
  <2>2. CASE key = <<t, k>>
    <3>1. q \in Pairs BY <1>2, <2>1, <2>2
    <3>2. QED BY <2>2, <3>1
  <2>3. CASE Has(relationshipKeys, key, q)
    <3>1. PICK u \in KnownTypes, j \in 1 .. Len(relationships) : key = <<u, j>>
      BY <2>3 DEF KeysShaped
    <3>2. q \in Pairs BY <2>3 DEF KeysShaped
    <3>3. QED BY <3>1, <3>2
  <2>4. QED BY <2>1, <2>2, <2>3
<1>4. CountsKeyed'
  <2>1. SUFFICES ASSUME NEW u \in KnownTypes', NEW q \in Pairs
                 PROVE  /\ relatedCounts'[u][q] \in 0 .. id + 1
                        /\ \A j \in 1 .. relatedCounts'[u][q] : Has(relationshipKeys', <<u, j>>, q)
    BY DEF CountsKeyed, Pairs
  <2>2. relatedCounts'[u][q] \in 0 .. id + 1 BY <1>1
  <2>3. ASSUME NEW j \in 1 .. relatedCounts'[u][q] PROVE Has(relationshipKeys', <<u, j>>, q)
    <3>1. CASE u = t /\ q = pair /\ j = k BY <3>1
    <3>2. CASE ~ (u = t /\ q = pair /\ j = k)
      <4>1. u \in KnownTypes /\ j \in 1 .. relatedCounts[u][q] BY <1>1, <2>2, <2>3, <3>2
      <4>2. Has(relationshipKeys, <<u, j>>, q) BY <4>1 DEF CountsKeyed
      <4>3. QED BY <4>2
    <3>3. QED BY <3>1, <3>2
  <2>4. QED BY <2>2, <2>3
<1>5. QED BY <1>3, <1>4

LEMMA AddedKeeps ==
  ASSUME RelsInv, NumberInv, NEW t, NEW pair, NEW k, NEW id, NumberAdded(t, pair, k, id)
  PROVE  NumberInv' /\ NumbersKept
<1>0. KeysShaped /\ CountsKeyed BY DEF NumberInv
<1>3. KeysShaped' /\ CountsKeyed' BY <1>0, AddedCounts
<1> USE DEF NumberAdded
<1>1. \A u \in KnownTypes, q \in Pairs : relatedCounts[u][q] \in 0 .. id
  BY DEF NumberInv, CountsKeyed
<1>2. \A u, j, q : Has(relationshipKeys, <<u, j>>, q) =>
        /\ u \in KnownTypes /\ j \in 1 .. id /\ q \in Pairs
        /\ relationshipKeys[<<u, j>>][q] \in RelIds
  <2>1. SUFFICES ASSUME NEW u, NEW j, NEW q, Has(relationshipKeys, <<u, j>>, q)
                 PROVE  /\ u \in KnownTypes /\ j \in 1 .. id /\ q \in Pairs
                        /\ relationshipKeys[<<u, j>>][q] \in RelIds
    OBVIOUS
  <2>2. PICK v \in KnownTypes, i \in 1 .. Len(relationships) : <<u, j>> = <<v, i>>
    BY <2>1 DEF NumberInv, KeysShaped
  <2>3. u = v /\ j = i BY <2>2
  <2>4. q \in Pairs BY <2>1 DEF NumberInv, KeysShaped
  <2>5. relationshipKeys[<<u, j>>][q] \in RelIds BY <2>1 DEF RelsInv, KeysAllocated, Has
  <2>6. QED BY <2>2, <2>3, <2>4, <2>5
<1>4. SpareKeysDead'
  <2>1. SUFFICES ASSUME NEW u \in KnownTypes', NEW q \in Pairs, NEW j \in Nat, NEW i,
                        Has(relationshipKeys', <<u, j>>, q), relationshipKeys'[<<u, j>>][q] = i,
                        j > relatedCounts'[u][q]
                 PROVE  ~ RelUsable(i)'
    BY DEF SpareKeysDead, Pairs
  <2>2. ~ (u = t /\ j = k /\ q = pair) BY <2>1
  <2>3. Has(relationshipKeys, <<u, j>>, q) /\ relationshipKeys[<<u, j>>][q] = i BY <2>1, <2>2
  <2>4. u \in KnownTypes /\ i \in RelIds BY <1>2, <2>3
  <2>5. j > relatedCounts[u][q] BY <1>1, <2>1, <2>4
  <2>6. ~ RelUsable(i) BY <2>3, <2>4, <2>5 DEF NumberInv, SpareKeysDead
  <2>7. QED BY <2>4, <2>6
<1>5. NumbersKept
  <2>1. SUFFICES ASSUME NEW u \in KnownTypes, NEW j \in Nat, NEW q \in Pairs, NEW i,
                        Has(relationshipKeys, <<u, j>>, q), relationshipKeys[<<u, j>>][q] = i,
                        RelUsable(i)
                 PROVE  /\ j \in 1 .. MaxRelationships
                        /\ Has(relationshipKeys', <<u, j>>, q) /\ relationshipKeys'[<<u, j>>][q] = i
    BY DEF NumbersKept
  <2>2. ~ (u = t /\ j = k /\ q = pair)
    <3>1. SUFFICES ASSUME u = t, j = k, q = pair PROVE FALSE OBVIOUS
    <3>2. k > relatedCounts[t][pair] BY <1>1, <3>1
    <3>3. QED BY <2>1, <3>1, <3>2 DEF NumberInv, SpareKeysDead
  <2>3. Has(relationshipKeys', <<u, j>>, q) BY <2>1
  <2>4. relationshipKeys'[<<u, j>>][q] = i BY <2>1, <2>2, <2>3
  <2>5. j \in 1 .. MaxRelationships BY <1>2, <2>1, BoundsAssumption
  <2>6. QED BY <2>3, <2>4, <2>5
<1>6. QED BY <1>3, <1>4, <1>5 DEF NumberInv, ListBounded

\* What removing number k of a pair, with count relationships and id under
\* number k, does to keys and counts: the last number is dropped, or the last
\* relationship takes number k, or the last is null and the removal throws.
NumberFreed(t, pair, k, count, id) ==
  /\ t \in KnownTypes /\ pair \in Pairs /\ k \in 1 .. count /\ count \in Nat
  /\ relatedCounts[t][pair] = count
  /\ Has(relationshipKeys, <<t, k>>, pair) /\ relationshipKeys[<<t, k>>][pair] = id
  /\ Shrinks({id}) /\ KnownTypes' = KnownTypes
  /\ \A u \in KnownTypes, q \in Pairs :
       relatedCounts'[u][q] = IF u = t /\ q = pair THEN count - 1 ELSE relatedCounts[u][q]
  /\ \/ /\ k = count
        /\ \A u, j, q :
             /\ Has(relationshipKeys', <<u, j>>, q) <=>
                  Has(relationshipKeys, <<u, j>>, q) /\ ~ (u = t /\ j = k /\ q = pair)
             /\ Has(relationshipKeys', <<u, j>>, q) =>
                  relationshipKeys'[<<u, j>>][q] = relationshipKeys[<<u, j>>][q]
     \/ /\ k # count
        /\ \A u, j, q :
             /\ Has(relationshipKeys', <<u, j>>, q) <=>
                  Has(relationshipKeys, <<u, j>>, q) /\ ~ (u = t /\ j = count /\ q = pair)
             /\ Has(relationshipKeys', <<u, j>>, q) =>
                  relationshipKeys'[<<u, j>>][q] =
                    IF u = t /\ j = k /\ q = pair THEN relationshipKeys[<<t, count>>][pair]
                    ELSE relationshipKeys[<<u, j>>][q]
     \/ /\ k # count
        /\ UNCHANGED relationshipKeys
        /\ relationshipKeys[<<t, count>>][pair] = id
           \/ ~ RelUsable(relationshipKeys[<<t, count>>][pair])
  /\ \A key, q : Has(relationshipKeys', key, q) => Has(relationshipKeys, key, q)

LEMMA RemoveNumberFrees ==
  ASSUME RelsInv, CountsKeyed, NEW t \in KnownTypes, NEW n1 \in NodeIds, NEW n2 \in NodeIds,
         NEW k \in Int, k >= 1, k <= relatedCounts[t][<<n1, n2>>],
         NEW call, RemoveNumber(call, t, n1, n2, k)
  PROVE  NumberFreed(t, <<n1, n2>>, k, relatedCounts[t][<<n1, n2>>],
                     RelationshipKeyId(t, k, n1, n2))
<1>pair. PICK pair : pair = <<n1, n2>> OBVIOUS
<1>count. PICK count : count = relatedCounts[t][pair] OBVIOUS
<1>id. PICK id : id = RelationshipKeyId(t, k, n1, n2) OBVIOUS
<1>last. PICK last : last = RelationshipKeyId(t, count, n1, n2) OBVIOUS
<1>1. pair \in Pairs BY <1>pair DEF Pairs
<1>2. count \in Nat /\ k \in 1 .. count
  BY <1>1, <1>pair, <1>count DEF RelsInv, CountsTyped, Pairs
<1>3. Has(relationshipKeys, <<t, k>>, pair) /\ Has(relationshipKeys, <<t, count>>, pair)
  BY <1>1, <1>2, <1>count DEF CountsKeyed
<1>4. id = relationshipKeys[<<t, k>>][pair] /\ last = relationshipKeys[<<t, count>>][pair]
  BY <1>3, <1>id, <1>last, <1>pair, KeyIdIs
<1>5. id \in RelIds /\ last \in RelIds BY <1>3, <1>4 DEF RelsInv, KeysAllocated, Has
<1>6. id + 1 \in DOMAIN relationships BY <1>5 DEF RelsInv, ListTyped, RelIds
<1>7. /\ relatedCounts' = [relatedCounts EXCEPT ![t][pair] = count - 1]
      /\ \/ /\ count = 1 \/ count = k
            /\ relationshipKeys' = DropKey(relationshipKeys, t, k, n1, n2)
         \/ /\ count # k
            /\ relationshipKeys' =
                 DropKey(PutKey(relationshipKeys, t, k, n1, n2, last), t, count, n1, n2)
         \/ /\ count # k
            /\ last = id \/ ~ RelUsable(last)
            /\ UNCHANGED relationshipKeys
  BY <1>6, <1>pair, <1>count, <1>id, <1>last DEF RemoveNumber, Moves
<1>8. \A u \in KnownTypes, q \in Pairs :
        relatedCounts'[u][q] = IF u = t /\ q = pair THEN count - 1 ELSE relatedCounts[u][q]
  BY <1>1, <1>7 DEF RelsInv, CountsTyped, Pairs
<1>9. Shrinks({id}) /\ KnownTypes' = KnownTypes
  <2>1. NumberRemoved(t, n1, n2, k) BY RemoveNumberEffect
  <2>2. QED BY <2>1, <1>id DEF NumberRemoved, KnownTypes
<1>10. ASSUME NEW u, NEW j PROVE <<u, j>> = <<t, k>> <=> u = t /\ j = k OBVIOUS
<1>11. ASSUME NEW u, NEW j PROVE <<u, j>> = <<t, count>> <=> u = t /\ j = count OBVIOUS
<1>12. CASE /\ count = 1 \/ count = k
            /\ relationshipKeys' = DropKey(relationshipKeys, t, k, n1, n2)
  <2>1. k = count BY <1>2, <1>12
  <2>2. IsDrop(relationshipKeys, relationshipKeys', t, k, n1, n2) BY <1>12, DropKeyIs
  <2>3. ASSUME NEW u, NEW j, NEW q
        PROVE  /\ Has(relationshipKeys', <<u, j>>, q) <=>
                    Has(relationshipKeys, <<u, j>>, q) /\ ~ (u = t /\ j = k /\ q = pair)
               /\ Has(relationshipKeys', <<u, j>>, q) =>
                    relationshipKeys'[<<u, j>>][q] = relationshipKeys[<<u, j>>][q]
    BY <1>10, <1>pair, <2>2 DEF IsDrop
  <2>4. \A key, q : Has(relationshipKeys', key, q) => Has(relationshipKeys, key, q)
    BY <2>2 DEF IsDrop
  <2>5. NumberFreed(t, pair, k, count, id)
    BY <1>1, <1>2, <1>3, <1>4, <1>8, <1>9, <1>count, <2>1, <2>3, <2>4 DEF NumberFreed
  <2>6. QED BY <1>pair, <1>count, <1>id, <2>5
<1>13. CASE /\ count # k
            /\ relationshipKeys' =
                 DropKey(PutKey(relationshipKeys, t, k, n1, n2, last), t, count, n1, n2)
  <2>1. PICK keys : keys = PutKey(relationshipKeys, t, k, n1, n2, last) OBVIOUS
  <2>2. IsPut(relationshipKeys, keys, t, k, n1, n2, last) BY <2>1, PutKeyIs
  <2>3. IsDrop(keys, relationshipKeys', t, count, n1, n2) BY <1>13, <2>1, DropKeyIs
  <2>4. ASSUME NEW u, NEW j, NEW q
        PROVE  /\ Has(relationshipKeys', <<u, j>>, q) <=>
                    Has(relationshipKeys, <<u, j>>, q) /\ ~ (u = t /\ j = count /\ q = pair)
               /\ Has(relationshipKeys', <<u, j>>, q) =>
                    relationshipKeys'[<<u, j>>][q] =
                      IF u = t /\ j = k /\ q = pair THEN last ELSE relationshipKeys[<<u, j>>][q]
    <3>1. /\ Has(relationshipKeys', <<u, j>>, q) <=>
               Has(keys, <<u, j>>, q) /\ ~ (u = t /\ j = count /\ q = pair)
          /\ Has(relationshipKeys', <<u, j>>, q) =>
               relationshipKeys'[<<u, j>>][q] = keys[<<u, j>>][q]
      BY <1>11, <1>pair, <2>3 DEF IsDrop
    <3>2. /\ Has(keys, <<u, j>>, q) <=>
               Has(relationshipKeys, <<u, j>>, q) \/ (u = t /\ j = k /\ q = pair)
          /\ u = t /\ j = k /\ q = pair => keys[<<u, j>>][q] = last
          /\ Has(relationshipKeys, <<u, j>>, q) /\ ~ (u = t /\ j = k /\ q = pair) =>
               keys[<<u, j>>][q] = relationshipKeys[<<u, j>>][q]
      BY <1>10, <1>pair, <2>2 DEF IsPut
    <3>3. u = t /\ j = k /\ q = pair => Has(relationshipKeys, <<u, j>>, q) BY <1>3
    <3>4. QED BY <3>1, <3>2, <3>3
  <2>5. \A key, q : Has(relationshipKeys', key, q) => Has(relationshipKeys, key, q)
    <3>1. SUFFICES ASSUME NEW key, NEW q, Has(relationshipKeys', key, q)
                   PROVE  Has(relationshipKeys, key, q)
      OBVIOUS
    <3>2. Has(keys, key, q) BY <2>3, <3>1 DEF IsDrop
    <3>3. Has(relationshipKeys, key, q) \/ (key = <<t, k>> /\ q = pair)
      BY <1>pair, <2>2, <3>2 DEF IsPut
    <3>4. QED BY <1>3, <3>3
  <2>6. NumberFreed(t, pair, k, count, id)
    <3>1. k # count BY <1>13
    <3>2. QED BY <1>1, <1>2, <1>3, <1>4, <1>8, <1>9, <1>count, <2>4, <2>5, <3>1 DEF NumberFreed
  <2>7. QED BY <1>pair, <1>count, <1>id, <2>6
<1>14. CASE count # k /\ (last = id \/ ~ RelUsable(last)) /\ UNCHANGED relationshipKeys
  <2>1. NumberFreed(t, pair, k, count, id)
    BY <1>1, <1>2, <1>3, <1>4, <1>8, <1>9, <1>14, <1>count DEF NumberFreed
  <2>2. QED BY <1>pair, <1>count, <1>id, <2>1
<1>15. QED BY <1>7, <1>12, <1>13, <1>14

LEMMA FreedCounts ==
  ASSUME RelsInv, KeysShaped, CountsKeyed,
         NEW t, NEW pair, NEW k, NEW count, NEW id, NumberFreed(t, pair, k, count, id)
  PROVE  KeysShaped' /\ CountsKeyed'
<1>1. /\ t \in KnownTypes /\ pair \in Pairs /\ k \in 1 .. count /\ count \in Nat
      /\ relatedCounts[t][pair] = count
      /\ Has(relationshipKeys, <<t, k>>, pair) /\ relationshipKeys[<<t, k>>][pair] = id
      /\ KnownTypes' = KnownTypes
      /\ \A u \in KnownTypes, q \in Pairs :
           relatedCounts'[u][q] = IF u = t /\ q = pair THEN count - 1 ELSE relatedCounts[u][q]
      /\ \A key, q : Has(relationshipKeys', key, q) => Has(relationshipKeys, key, q)
  BY DEF NumberFreed
<1>2. Len(relationships)' = Len(relationships) /\ Len(relationships) \in Nat
  BY DEF NumberFreed, Shrinks, RelsInv, ListTyped
<1>7. KeysShaped' BY <1>1, <1>2 DEF KeysShaped, Pairs
<1>8. \A u \in KnownTypes, q \in Pairs : relatedCounts[u][q] \in 0 .. Len(relationships)
  BY DEF CountsKeyed
<1>10. \A u, j, q : Has(relationshipKeys, <<u, j>>, q) =>
         Has(relationshipKeys', <<u, j>>, q) \/ (u = t /\ j = count /\ q = pair)
  BY DEF NumberFreed
<1>13. CountsKeyed'
  <2>1. SUFFICES ASSUME NEW u \in KnownTypes', NEW q \in Pairs
                 PROVE  /\ relatedCounts'[u][q] \in 0 .. Len(relationships)
                        /\ \A j \in 1 .. relatedCounts'[u][q] : Has(relationshipKeys', <<u, j>>, q)
    BY <1>2 DEF CountsKeyed, Pairs
  <2>2. relatedCounts'[u][q] \in 0 .. relatedCounts[u][q]
        /\ (u = t /\ q = pair => relatedCounts'[u][q] = count - 1)
    BY <1>1, <1>8, <2>1
  <2>3. u \in KnownTypes /\ relatedCounts[u][q] \in 0 .. Len(relationships) BY <1>1, <1>8
  <2>4. ASSUME NEW j \in 1 .. relatedCounts'[u][q] PROVE Has(relationshipKeys', <<u, j>>, q)
    <3>1. j \in 1 .. relatedCounts[u][q] BY <1>2, <2>2, <2>3
    <3>2. Has(relationshipKeys, <<u, j>>, q) BY <2>3, <3>1 DEF CountsKeyed
    <3>3. ~ (u = t /\ j = count /\ q = pair) BY <1>1, <2>2, <2>4
    <3>4. QED BY <1>10, <3>2, <3>3
  <2>5. QED BY <1>2, <2>2, <2>3, <2>4
<1>14. QED BY <1>7, <1>13

LEMMA FreedKeeps ==
  ASSUME RelsInv, NumberInv, NEW t, NEW pair, NEW k, NEW count, NEW id,
         NumberFreed(t, pair, k, count, id)
  PROVE  NumberInv' /\ NumbersKept
<1>last. PICK last : last = relationshipKeys[<<t, count>>][pair] OBVIOUS
<1>1. /\ t \in KnownTypes /\ pair \in Pairs /\ k \in 1 .. count /\ count \in Nat
      /\ relatedCounts[t][pair] = count
      /\ Has(relationshipKeys, <<t, k>>, pair) /\ relationshipKeys[<<t, k>>][pair] = id
      /\ KnownTypes' = KnownTypes
      /\ \A u \in KnownTypes, q \in Pairs :
           relatedCounts'[u][q] = IF u = t /\ q = pair THEN count - 1 ELSE relatedCounts[u][q]
      /\ \A key, q : Has(relationshipKeys', key, q) => Has(relationshipKeys, key, q)
  BY DEF NumberFreed
<1>2. Len(relationships)' = Len(relationships) /\ Len(relationships) \in Nat
  BY DEF NumberFreed, Shrinks, RelsInv, ListTyped
<1>3. \A u, j, q : Has(relationshipKeys, <<u, j>>, q) =>
        /\ u \in KnownTypes /\ j \in 1 .. Len(relationships) /\ q \in Pairs
        /\ relationshipKeys[<<u, j>>][q] \in Int
  <2>1. SUFFICES ASSUME NEW u, NEW j, NEW q, Has(relationshipKeys, <<u, j>>, q)
                 PROVE  /\ u \in KnownTypes /\ j \in 1 .. Len(relationships) /\ q \in Pairs
                        /\ relationshipKeys[<<u, j>>][q] \in Int
    OBVIOUS
  <2>2. PICK v \in KnownTypes, i \in 1 .. Len(relationships) : <<u, j>> = <<v, i>>
    BY <2>1 DEF NumberInv, KeysShaped
  <2>3. u = v /\ j = i BY <2>2
  <2>4. q \in Pairs BY <2>1 DEF NumberInv, KeysShaped
  <2>5. relationshipKeys[<<u, j>>][q] \in Int BY <2>1 DEF RelsInv, KeysAllocated, Has, RelIds
  <2>6. QED BY <2>2, <2>3, <2>4, <2>5
<1>4. \A i \in Int : RelUsable(i)' => i # id /\ RelUsable(i)
  <2>1. \A i \in Int : RelUsable(i)' => i \notin {id} /\ RelUsable(i)
    BY ShrinksUsable DEF NumberFreed, RelsInv
  <2>2. QED BY <2>1
<1>5. Has(relationshipKeys, <<t, count>>, pair)
  BY <1>1 DEF NumberInv, CountsKeyed
<1>6. last \in Int /\ id \in Int BY <1>1, <1>3, <1>5, <1>last
<1>7. KeysShaped' /\ CountsKeyed' BY FreedCounts DEF NumberInv
<1>8. \A u \in KnownTypes, q \in Pairs : relatedCounts[u][q] \in 0 .. Len(relationships)
  BY DEF NumberInv, CountsKeyed
<1>9. \A u, j, q : Has(relationshipKeys', <<u, j>>, q) =>
        \/ relationshipKeys'[<<u, j>>][q] = relationshipKeys[<<u, j>>][q]
        \/ u = t /\ j = k /\ q = pair /\ k # count
  BY DEF NumberFreed
<1>10. \A u, j, q : Has(relationshipKeys, <<u, j>>, q) =>
         Has(relationshipKeys', <<u, j>>, q) \/ (u = t /\ j = count /\ q = pair)
  BY DEF NumberFreed
<1>11. Has(relationshipKeys', <<t, count>>, pair) => ~ RelUsable(last)'
  <2>1. SUFFICES ASSUME Has(relationshipKeys', <<t, count>>, pair) PROVE ~ RelUsable(last)'
    OBVIOUS
  <2>2. last = id \/ ~ RelUsable(last) BY <1>last, <2>1 DEF NumberFreed
  <2>3. QED BY <1>4, <1>6, <2>2
<1>12. SpareKeysDead'
  <2>1. SUFFICES ASSUME NEW u \in KnownTypes', NEW q \in Pairs, NEW j \in Nat, NEW i,
                        Has(relationshipKeys', <<u, j>>, q), relationshipKeys'[<<u, j>>][q] = i,
                        j > relatedCounts'[u][q]
                 PROVE  ~ RelUsable(i)'
    BY DEF SpareKeysDead, Pairs
  <2>2. Has(relationshipKeys, <<u, j>>, q) BY <1>1, <2>1
  <2>3. u \in KnownTypes BY <1>3, <2>2
  <2>4. CASE u = t /\ j = k /\ q = pair /\ k # count
    <3>1. k > count - 1 BY <1>1, <2>1, <2>4
    <3>2. QED BY <1>1, <2>4, <3>1
  <2>5. CASE relationshipKeys'[<<u, j>>][q] = relationshipKeys[<<u, j>>][q]
    <3>1. i \in Int BY <1>3, <2>1, <2>2, <2>5
    <3>2. CASE u = t /\ q = pair /\ j = count BY <1>11, <1>last, <2>1, <2>5, <3>2
    <3>3. CASE ~ (u = t /\ q = pair /\ j = count)
      <4>1. j > relatedCounts[u][q] BY <1>1, <1>8, <2>1, <2>3, <3>3
      <4>2. ~ RelUsable(i) BY <2>1, <2>2, <2>3, <2>5, <4>1 DEF NumberInv, SpareKeysDead
      <4>3. QED BY <1>4, <3>1, <4>2
    <3>4. QED BY <3>2, <3>3
  <2>6. QED BY <1>9, <2>1, <2>4, <2>5
<1>14. NumbersKept
  <2>1. SUFFICES ASSUME NEW u \in KnownTypes, NEW j \in Nat, NEW q \in Pairs, NEW i,
                        Has(relationshipKeys, <<u, j>>, q), relationshipKeys[<<u, j>>][q] = i,
                        RelUsable(i), RelUsable(i)'
                 PROVE  \E h \in 1 .. MaxRelationships :
                          /\ Has(relationshipKeys', <<u, h>>, q)
                          /\ relationshipKeys'[<<u, h>>][q] = i
    BY DEF NumbersKept
  <2>2. i # id BY <1>3, <1>4, <2>1
  <2>3. j \in 1 .. MaxRelationships
    BY <1>2, <1>3, <2>1, BoundsAssumption DEF NumberInv, ListBounded
  <2>4. k \in 1 .. MaxRelationships
    BY <1>1, <1>2, <1>3, BoundsAssumption DEF NumberInv, ListBounded
  <2>5. ~ (u = t /\ j = k /\ q = pair) BY <1>1, <2>1, <2>2
  <2>6. CASE Has(relationshipKeys', <<u, j>>, q)
    <3>1. relationshipKeys'[<<u, j>>][q] = i BY <1>9, <2>1, <2>5, <2>6
    <3>2. QED BY <2>3, <2>6, <3>1
  <2>7. CASE ~ Has(relationshipKeys', <<u, j>>, q)
    <3>1. u = t /\ j = count /\ q = pair BY <1>10, <2>1, <2>7
    <3>2. k # count BY <2>5, <3>1
    <3>3. /\ Has(relationshipKeys', <<t, k>>, pair)
          /\ relationshipKeys'[<<t, k>>][pair] = relationshipKeys[<<t, count>>][pair]
      BY <1>1, <2>1, <2>7, <3>1, <3>2 DEF NumberFreed
    <3>4. QED BY <2>1, <2>4, <3>1, <3>3
  <2>8. QED BY <2>6, <2>7
<1>15. QED BY <1>2, <1>7, <1>12, <1>14 DEF NumberInv, ListBounded

\* A removal by a number from 1 on.
RemoveOneStep ==
  \E t \in KnownTypes, n1 \in NodeIds, n2 \in NodeIds, k \in Int : \E call :
    /\ relatedCounts[t][<<n1, n2>>] # 0 /\ k >= 1 /\ k <= relatedCounts[t][<<n1, n2>>]
    /\ k \in Numbers \cup {relatedCounts[t][<<n1, n2>>]}
    /\ RemoveNumber(call, t, n1, n2, k)

\* The kinds of steps a client of the numbers takes.
NumberingStep ==
  \/ Nothing \/ AddNodeStep \/ NodePropsStep \/ InsertNodeStep \/ RemoveNodeStep
  \/ LinkStep \/ RemoveOneStep \/ RelPropsStep

LEMMA NumberingKinds ==
  ASSUME TypeInv
  PROVE  /\ NumberingStep => GraphStep
         /\ NumberingClient /\ GraphStep => NumberingStep
         /\ NumberingClient => ~ InsertRelStep /\ ~ RemoveByIdStep
<1>1. RemoveOneStep => RemoveNumberStep BY DEF RemoveOneStep, RemoveNumberStep
<1>2. NumberingClient => ~ InsertRelStep /\ ~ RemoveByIdStep
  <2>1. NumberingClient => ~ InsertRelStep BY DEF InsertRelStep, NumberingClient
  <2>2. NumberingClient => ~ RemoveByIdStep
    BY DEF RemoveByIdStep, RemoveRelationshipById, NumberingClient
  <2>3. QED BY <2>1, <2>2
<1>3. NumberingClient /\ RemoveNumberStep => RemoveOneStep
  <2>1. SUFFICES ASSUME NumberingClient, RemoveNumberStep PROVE RemoveOneStep OBVIOUS
  <2>c1. PICK t \in KnownTypes, n1 \in NodeIds, n2 \in NodeIds, k \in Int : \E call :
          /\ relatedCounts[t][<<n1, n2>>] # 0 /\ k <= relatedCounts[t][<<n1, n2>>]
          /\ k \in Numbers \cup {relatedCounts[t][<<n1, n2>>]}
          /\ RemoveNumber(call, t, n1, n2, k)
    BY <2>1 DEF RemoveNumberStep
  <2>2. PICK call :
          /\ relatedCounts[t][<<n1, n2>>] # 0 /\ k <= relatedCounts[t][<<n1, n2>>]
          /\ k \in Numbers \cup {relatedCounts[t][<<n1, n2>>]}
          /\ RemoveNumber(call, t, n1, n2, k)
    BY <2>c1
  <2>3. <<n1, n2>> \in NodeIds \X NodeIds OBVIOUS
  <2>4. relatedCounts[t][<<n1, n2>>] \in Nat BY <2>3, TypeInvParts DEF RelsInv, CountsTyped
  <2>5. k >= 1 BY <2>1, <2>2, <2>4 DEF NumberingClient
  <2>6. QED BY <2>2, <2>5 DEF RemoveOneStep
<1>4. NumberingStep => GraphStep BY <1>1 DEF NumberingStep, GraphStep
<1>5. NumberingClient /\ GraphStep => NumberingStep
  BY <1>2, <1>3 DEF NumberingStep, GraphStep
<1>6. QED BY <1>2, <1>4, <1>5

LEMMA NumberInvKeeps ==
  ASSUME TypeInv, NumberInv, NumberingStep
  PROVE  NumberInv' /\ NumbersKept
<1>2. NodesTyped /\ RelsInv BY TypeInvParts
<1>3. \/ Nothing \/ AddNodeStep \/ NodePropsStep \/ InsertNodeStep \/ RemoveNodeStep
      \/ LinkStep \/ RemoveOneStep \/ RelPropsStep
  BY DEF NumberingStep
<1>4. ListTyped BY <1>2 DEF RelsInv
<1>5. CASE Nothing \/ AddNodeStep \/ NodePropsStep \/ InsertNodeStep
  <2>1. UNCHANGED relVars
    BY <1>5 DEF Nothing, AddNodeStep, NodePropsStep, InsertNodeStep
  <2>2. /\ UNCHANGED <<relationshipKeys, relatedCounts>> /\ KnownTypes' = KnownTypes
        /\ Len(relationships)' = Len(relationships)
        /\ \A id \in Int : RelUsable(id)' => RelUsable(id)
    BY <2>1 DEF relVars, KnownTypes, RelUsable, RelRec
  <2>3. QED BY <1>2, <2>2, KeysStay
<1>6. CASE RemoveNodeStep
  <2>c1. PICK name \in Names :
          \E call : RemoveNodeDone(call, name) \/ RemoveNodeThrows(call, name)
    BY <1>6 DEF RemoveNodeStep
  <2>1. PICK call : RemoveNodeDone(call, name) \/ RemoveNodeThrows(call, name) BY <2>c1
  <2>2. /\ UNCHANGED <<relationshipKeys, relatedCounts>> /\ KnownTypes' = KnownTypes
        /\ \E ids : relationships' = Nulled(ids)
    BY <2>1 DEF RemoveNodeDone, RemoveNodeThrows, DetachTypes, KnownTypes
  <2>3. PICK gone : Shrinks(gone) BY <1>4, <2>2, NulledShrinks
  <2>4. \A id \in Int : RelUsable(id)' => RelUsable(id) BY <1>4, <2>3, ShrinksUsable
  <2>5. Len(relationships)' = Len(relationships) BY <2>3 DEF Shrinks
  <2>6. QED BY <1>2, <2>2, <2>4, <2>5, KeysStay
<1>7. CASE RelPropsStep
  <2>1. Shrinks({}) BY <1>2, <1>7, RelsInvIs, RelPropsShrink
  <2>2. \A id \in Int : RelUsable(id)' => RelUsable(id) BY <1>4, <2>1, ShrinksUsable
  <2>3. /\ UNCHANGED <<relationshipKeys, relatedCounts>> /\ KnownTypes' = KnownTypes
        /\ Len(relationships)' = Len(relationships)
    BY <1>7, <2>1 DEF RelPropsStep, KnownTypes, Shrinks
  <2>4. QED BY <1>2, <2>2, <2>3, KeysStay
<1>8. CASE LinkStep
  <2>c1. PICK t \in Types, n1 \in NodeIds, n2 \in NodeIds, shown \in Int, props \in StoredMaps :
          \E call : Link(call, t, n1, n2, shown, props)
    BY <1>8 DEF LinkStep
  <2>1. PICK call : Link(call, t, n1, n2, shown, props) BY <2>c1
  <2>2. NumberAdded(t, <<n1, n2>>, NextNumber(t, n1, n2), Len(relationships))
    BY <1>2, <2>1, LinkAdds DEF NumberInv
  <2>3. QED BY <1>2, <2>2, AddedKeeps
<1>9. CASE RemoveOneStep
  <2>c1. PICK t \in KnownTypes, n1 \in NodeIds, n2 \in NodeIds, k \in Int : \E call :
          /\ k >= 1 /\ k <= relatedCounts[t][<<n1, n2>>]
          /\ RemoveNumber(call, t, n1, n2, k)
    BY <1>9 DEF RemoveOneStep
  <2>1. PICK call :
          /\ k >= 1 /\ k <= relatedCounts[t][<<n1, n2>>]
          /\ RemoveNumber(call, t, n1, n2, k)
    BY <2>c1
  <2>5. NumberFreed(t, <<n1, n2>>, k, relatedCounts[t][<<n1, n2>>],
                    RelationshipKeyId(t, k, n1, n2))
    BY <1>2, <2>1, RemoveNumberFrees DEF NumberInv
  <2>6. QED BY <1>2, <2>5, FreedKeeps
<1>10. QED BY <1>3, <1>5, <1>6, <1>7, <1>8, <1>9

LEMMA NumberInvStep ==
  NumberingClient => (TypeInv /\ NumberInv /\ [Next]_vars => NumberInv' /\ NumbersKept)
BY StepKinds, NumberingKinds, NumberInvKeeps

LEMMA NumberInvHolds ==
  ASSUME NumberingClient
  PROVE  Spec => []NumberInv
<1>1. Init => NumberInv
  <2>1. SUFFICES ASSUME Init PROVE NumberInv OBVIOUS
  <2>2. relationships = <<>> /\ relationshipKeys = <<>> /\ related = <<>> BY <2>1 DEF Init
  <2>3. \A x : x \notin DOMAIN <<>> OBVIOUS
  <2>4. QED
    BY <2>2, <2>3, BoundsAssumption
    DEF NumberInv, KeysShaped, SpareKeysDead, CountsKeyed, ListBounded, KnownTypes, Has
<1>2. TypeInv /\ NumberInv /\ [Next]_vars => NumberInv' BY NumberInvStep
<1>3. Spec => []TypeInv BY TypeInvHolds
<1>4. QED BY <1>1, <1>2, <1>3, PTL DEF Spec

\* For a client that removes by number or by node, and inserts no relationship,
\* an operation never takes a number away from a relationship that lives on,
\* also when pairs keep counts and keys of relationships removed with a node.
THEOREM NumbersStay ==
  ASSUME NumberingClient
  PROVE  Spec => NumberNeverStolen
<1> DEFINE Kept ==
      \A key \in DOMAIN relationshipKeys :
        \A pair \in DOMAIN relationshipKeys[key] :
          \A id \in {relationshipKeys[key][pair]} :
            RelUsable(id) =>
              \/ ~ RelUsable(id)'
              \/ \E k \in 1 .. MaxRelationships :
                   RelationshipKeyId(key[1], k, pair[1], pair[2])' = id
<1>1. ASSUME TypeInv, NumberInv, [Next]_vars PROVE Kept
  <2>1. SUFFICES ASSUME NEW key \in DOMAIN relationshipKeys,
                        NEW pair \in DOMAIN relationshipKeys[key],
                        NEW id, id = relationshipKeys[key][pair], RelUsable(id), RelUsable(id)'
                 PROVE  \E k \in 1 .. MaxRelationships :
                          RelationshipKeyId(key[1], k, pair[1], pair[2])' = id
    OBVIOUS
  <2>2. NumbersKept BY <1>1, NumberInvStep
  <2>3. Has(relationshipKeys, key, pair) BY DEF Has
  <2>4. PICK t \in KnownTypes, j \in 1 .. Len(relationships) : key = <<t, j>>
    BY <1>1, <2>3 DEF NumberInv, KeysShaped
  <2>5. pair \in Pairs BY <1>1, <2>3 DEF NumberInv, KeysShaped
  <2>6. PICK k \in 1 .. MaxRelationships :
          Has(relationshipKeys', <<t, k>>, pair) /\ relationshipKeys'[<<t, k>>][pair] = id
    BY <2>1, <2>2, <2>3, <2>4, <2>5 DEF NumbersKept
  <2>7. key[1] = t /\ pair = <<pair[1], pair[2]>> BY <2>4, <2>5 DEF Pairs
  <2>8. RelationshipKeyId(t, k, pair[1], pair[2])' = id
    BY <2>6, <2>7 DEF RelationshipKeyId, KeyMap, Has
  <2>9. QED BY <2>7, <2>8
<1>2. QED BY <1>1, TypeInvHolds, NumberInvHolds, PTL DEF Spec, NumberNeverStolen
=============================================================================

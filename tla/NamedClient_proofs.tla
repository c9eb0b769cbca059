-------------------------- MODULE NamedClient_proofs --------------------------
(***************************************************************************)
(* Proofs about the client of the by-name operations, which removes the     *)
(* relationships of a node before the node: what its numbers, its counts    *)
(* and its lists say of the relationships that live, for any number of them.*)
(***************************************************************************)
EXTENDS Numbering_proofs

\* A node that goes has no relationship left, so no key and no count of a
\* relationship outlives it.
NamedClient == NumberingClient /\ "removeNode" \notin Ops

\* The relationship id lives and is one of this type between this pair.
IsOf(id, t, pair) ==
  /\ RelUsable(id) /\ RelRec(id).type = t
  /\ RelRec(id).from = pair[1] /\ RelRec(id).to = pair[2]

LEMMA IsOfOne ==
  ASSUME NEW id, NEW t, NEW u, NEW p \in Pairs, NEW q \in Pairs, IsOf(id, t, p), IsOf(id, u, q)
  PROVE  t = u /\ p = q
<1>1. p = <<p[1], p[2]>> /\ q = <<q[1], q[2]>> BY DEF Pairs
<1>2. QED BY <1>1 DEF IsOf

LEMMA IsOfTyped ==
  ASSUME ListTyped, NEW id \in Int, RelUsable(id)
  PROVE  /\ id \in RelIds /\ RelRec(id) \in Relationship
         /\ <<RelRec(id).from, RelRec(id).to>> \in Pairs
         /\ IsOf(id, RelRec(id).type, <<RelRec(id).from, RelRec(id).to>>)
<1> DEFINE i == id + 1
<1> DEFINE r == relationships[i]
<1>1. i \in DOMAIN relationships /\ r # Null /\ RelRec(id) = r BY DEF RelUsable, RelRec
<1>2. r \in Relationship /\ id \in RelIds
  <2> HIDE DEF i
  <2>1. relationships \in Seq(Relationship \cup {Null}) BY DEF ListTyped
  <2>2. r \in Relationship BY <1>1, <2>1
  <2>3. i \in 1 .. Len(relationships) /\ Len(relationships) \in Nat BY <1>1, <2>1
  <2>4. id \in RelIds BY <2>3 DEF i, RelIds
  <2>5. QED BY <2>2, <2>4
<1> HIDE DEF r
<1>3. r.from \in NodeIds /\ r.to \in NodeIds BY <1>2 DEF Relationship
<1>4. QED BY <1>1, <1>2, <1>3 DEF IsOf, Pairs

\* Nothing but the ids of gone stops being what it was.
LEMMA ShrinksIs ==
  ASSUME ListTyped, NEW gone, Shrinks(gone)
  PROVE  /\ RelIds' = RelIds
         /\ \A id \in Int : \A t, pair : IsOf(id, t, pair)' <=> IsOf(id, t, pair) /\ id \notin gone
<1>1. RelIds' = RelIds BY DEF Shrinks, RelIds
<1>2. DOMAIN relationships' = DOMAIN relationships BY DEF Shrinks, ListTyped
<1>3. ASSUME NEW id \in Int, NEW t, NEW pair
      PROVE  IsOf(id, t, pair)' <=> IsOf(id, t, pair) /\ id \notin gone
  <2> DEFINE i == id + 1
  <2>1. i - 1 = id OBVIOUS
  <2> HIDE DEF i
  <2>2. CASE i \in DOMAIN relationships
    <3> DEFINE r == relationships[i]
    <3> DEFINE q == relationships'[i]
    <3>1. (q = Null <=> id \in gone \/ r = Null) /\ (q # Null => SameEnds(r, q))
      BY <2>1, <2>2 DEF Shrinks
    <3>2. IsOf(id, t, pair) <=> r # Null /\ r.type = t /\ r.from = pair[1] /\ r.to = pair[2]
      BY <2>2 DEF IsOf, RelUsable, RelRec, i
    <3>3. IsOf(id, t, pair)' <=> q # Null /\ q.type = t /\ q.from = pair[1] /\ q.to = pair[2]
      BY <1>2, <2>2 DEF IsOf, RelUsable, RelRec, i
    <3> HIDE DEF r, q
    <3>4. QED BY <3>1, <3>2, <3>3 DEF SameEnds
  <2>3. CASE i \notin DOMAIN relationships BY <1>2, <2>3 DEF IsOf, RelUsable, i
  <2>4. QED BY <2>2, <2>3
<1>4. QED BY <1>1, <1>3

\* The new relationship is what it was added as, and the others what they were.
LEMMA LinkedIs ==
  ASSUME ListTyped, NEW t \in Types, NEW n1 \in NodeIds, NEW n2 \in NodeIds,
         NEW shown \in Int, NEW props \in StoredMaps, Linked(t, n1, n2, shown, props),
         NEW pair, pair = <<n1, n2>>, NEW new, new = Len(relationships)
  PROVE  /\ RelIds' = RelIds \cup {new} /\ new \notin RelIds
         /\ \A id \in RelIds : \A u, q : IsOf(id, u, q)' <=> IsOf(id, u, q)
         /\ \A u, q : q \in Pairs => (IsOf(new, u, q)' <=> u = t /\ q = pair)
<1>1. new \in Nat /\ DOMAIN relationships = 1 .. new BY DEF ListTyped
<1>2. /\ Len(relationships)' = new + 1 /\ ListTyped'
      /\ \A i \in DOMAIN relationships : relationships'[i] = relationships[i]
      /\ relationships'[new + 1] =
           [id |-> new, type |-> t, from |-> n1, to |-> n2, count |-> shown, props |-> props]
  BY DEF Linked
<1>3. DOMAIN relationships' = 1 .. new + 1 BY <1>2 DEF ListTyped
<1>4. RelIds = 0 .. new - 1 /\ RelIds' = 0 .. new BY <1>1, <1>2 DEF RelIds
<1>5. RelIds' = RelIds \cup {new} /\ new \notin RelIds BY <1>1, <1>4
<1>6. ASSUME NEW id \in RelIds, NEW u, NEW q PROVE IsOf(id, u, q)' <=> IsOf(id, u, q)
  <2>1. id + 1 \in DOMAIN relationships /\ id + 1 \in DOMAIN relationships'
    BY <1>1, <1>3, <1>4
  <2>2. RelRec(id)' = RelRec(id) BY <1>2, <2>1 DEF RelRec
  <2>3. QED BY <2>1, <2>2 DEF IsOf, RelUsable
<1>7. ASSUME NEW u, NEW q \in Pairs PROVE IsOf(new, u, q)' <=> u = t /\ q = pair
  <2>1. new + 1 \in DOMAIN relationships' BY <1>1, <1>3
  <2> DEFINE r == relationships'[new + 1]
  <2>2. r \in Relationship BY <1>1, <1>2 DEF Relationship
  <2>3. r.type = t /\ r.from = n1 /\ r.to = n2 BY <1>2
  <2>4. r # Null BY <2>2, NullIsNoMap
  <2>5. IsOf(new, u, q)' <=> r.type = u /\ r.from = q[1] /\ r.to = q[2]
    BY <2>1, <2>4 DEF IsOf, RelUsable, RelRec
  <2> HIDE DEF r
  <2>6. q = <<q[1], q[2]>> BY DEF Pairs
  <2>7. QED BY <2>3, <2>5, <2>6
<1>8. QED BY <1>5, <1>6, <1>7

-----------------------------------------------------------------------------
(* The keys *)

\* A number leads to a living relationship of its type and pair, and there is
\* none above the count.
KeysLead ==
  \A t, k, pair, id : Has(relationshipKeys, <<t, k>>, pair) /\ relationshipKeys[<<t, k>>][pair] = id =>
    /\ t \in KnownTypes /\ pair \in Pairs /\ k \in 1 .. relatedCounts[t][pair]
    /\ IsOf(id, t, pair)

KeysDistinct ==
  \A t, k, j, pair :
    /\ Has(relationshipKeys, <<t, k>>, pair) /\ Has(relationshipKeys, <<t, j>>, pair)
    /\ relationshipKeys[<<t, k>>][pair] = relationshipKeys[<<t, j>>][pair]
    => k = j

HasNumber(id, t, pair) ==
  \E k : Has(relationshipKeys, <<t, k>>, pair) /\ relationshipKeys[<<t, k>>][pair] = id

LiveKeyed ==
  \A id \in RelIds : \A t, pair : IsOf(id, t, pair) /\ pair \in Pairs => HasNumber(id, t, pair)

KeyInv == KeysLead /\ KeysDistinct /\ LiveKeyed

\* The relationships and all that leads to them stay what they were.
Stays ==
  /\ UNCHANGED relationshipKeys
  /\ KnownTypes' = KnownTypes /\ RelIds' = RelIds
  /\ \A t \in KnownTypes :
       /\ related'[t] = related[t] /\ relationshipCounts'[t] = relationshipCounts[t]
       /\ relatedCounts'[t] = relatedCounts[t]
  /\ \A id \in RelIds : \A t, pair : IsOf(id, t, pair)' <=> IsOf(id, t, pair)

LEMMA StaysKeyed ==
  ASSUME RelsInv, KeyInv, Stays
  PROVE  KeyInv'
<1>1. \A key, pair : Has(relationshipKeys, key, pair) => relationshipKeys[key][pair] \in RelIds
  BY DEF RelsInv, KeysAllocated, Has
<1>2. KeysLead' BY <1>1 DEF KeyInv, KeysLead, Stays, Pairs
<1>3. KeysDistinct' BY DEF KeyInv, KeysDistinct, Stays
<1>4. LiveKeyed'
  <2>1. \A id, t, pair : HasNumber(id, t, pair) => HasNumber(id, t, pair)'
    BY DEF HasNumber, Stays
  <2>2. QED BY <2>1 DEF KeyInv, LiveKeyed, Stays, Pairs
<1>5. QED BY <1>2, <1>3, <1>4 DEF KeyInv

LEMMA AddedKeyed ==
  ASSUME RelsInv, KeyInv, NEW t, NEW pair, NEW k, NEW id, NumberAdded(t, pair, k, id),
         RelIds' = RelIds \cup {id}, id \notin RelIds,
         \A i \in RelIds : \A u, q : IsOf(i, u, q)' <=> IsOf(i, u, q),
         \A u, q : q \in Pairs => (IsOf(id, u, q)' <=> u = t /\ q = pair)
  PROVE  KeyInv'
<1>1. /\ t \in KnownTypes' /\ KnownTypes \subseteq KnownTypes' /\ pair \in Pairs
      /\ k \in Nat /\ k # 0
      /\ k = (IF t \in KnownTypes THEN relatedCounts[t][pair] ELSE 0) + 1
      /\ \A u \in KnownTypes', q \in Pairs :
           relatedCounts'[u][q] = IF u = t /\ q = pair THEN k
                                  ELSE IF u \in KnownTypes THEN relatedCounts[u][q] ELSE 0
      /\ \A u, j, q :
           /\ Has(relationshipKeys', <<u, j>>, q) <=>
                Has(relationshipKeys, <<u, j>>, q) \/ (u = t /\ j = k /\ q = pair)
           /\ Has(relationshipKeys', <<u, j>>, q) =>
                relationshipKeys'[<<u, j>>][q] =
                  IF u = t /\ j = k /\ q = pair THEN id ELSE relationshipKeys[<<u, j>>][q]
  BY DEF NumberAdded
<1>2. \A u \in KnownTypes, q \in Pairs : relatedCounts[u][q] \in Nat
  BY DEF RelsInv, CountsTyped, Pairs
<1>3. \A u, j, q : Has(relationshipKeys, <<u, j>>, q) =>
        /\ u \in KnownTypes /\ q \in Pairs /\ j \in 1 .. relatedCounts[u][q]
        /\ IsOf(relationshipKeys[<<u, j>>][q], u, q)
        /\ relationshipKeys[<<u, j>>][q] \in RelIds
  BY DEF KeyInv, KeysLead, RelsInv, KeysAllocated, Has
<1>4. ~ Has(relationshipKeys, <<t, k>>, pair)
  <2>1. SUFFICES ASSUME Has(relationshipKeys, <<t, k>>, pair) PROVE FALSE OBVIOUS
  <2>2. t \in KnownTypes /\ k \in 1 .. relatedCounts[t][pair] BY <1>3, <2>1
  <2>3. QED BY <1>1, <1>2, <2>2
<1>5. KeysLead'
  <2>1. SUFFICES ASSUME NEW u, NEW j, NEW q, NEW i,
                        Has(relationshipKeys', <<u, j>>, q), relationshipKeys'[<<u, j>>][q] = i
                 PROVE  /\ u \in KnownTypes' /\ q \in Pairs /\ j \in 1 .. relatedCounts'[u][q]
                        /\ IsOf(i, u, q)'
    BY DEF KeysLead, Pairs
  <2>2. CASE u = t /\ j = k /\ q = pair
    <3>1. i = id BY <1>1, <2>1, <2>2
    <3>2. IsOf(id, u, q)' BY <1>1, <2>2
    <3>3. relatedCounts'[u][q] = k BY <1>1, <2>2
    <3>4. QED BY <1>1, <2>2, <3>1, <3>2, <3>3
  <2>3. CASE ~ (u = t /\ j = k /\ q = pair)
    <3>1. Has(relationshipKeys, <<u, j>>, q)
          /\ relationshipKeys'[<<u, j>>][q] = relationshipKeys[<<u, j>>][q]
      BY <1>1, <2>1, <2>3
    <3>2. /\ u \in KnownTypes /\ q \in Pairs /\ j \in 1 .. relatedCounts[u][q]
          /\ IsOf(relationshipKeys[<<u, j>>][q], u, q)
          /\ relationshipKeys[<<u, j>>][q] \in RelIds
      BY <1>3, <3>1
    <3>3. IsOf(i, u, q)' BY <2>1, <3>1, <3>2
    <3>4. j \in 1 .. relatedCounts'[u][q] BY <1>1, <1>2, <3>2
    <3>5. QED BY <1>1, <3>1, <3>2, <3>3, <3>4
  <2>4. QED BY <2>2, <2>3
<1>6. KeysDistinct'
  <2>1. SUFFICES ASSUME NEW u, NEW j, NEW h, NEW q,
                        Has(relationshipKeys', <<u, j>>, q), Has(relationshipKeys', <<u, h>>, q),
                        relationshipKeys'[<<u, j>>][q] = relationshipKeys'[<<u, h>>][q]
                 PROVE  j = h
    BY DEF KeysDistinct
  <2>2. CASE u = t /\ q = pair /\ (j = k \/ h = k) BY <1>1, <1>3, <2>1, <2>2
  <2>3. CASE ~ (u = t /\ q = pair /\ (j = k \/ h = k))
    <3>1. /\ Has(relationshipKeys, <<u, j>>, q) /\ Has(relationshipKeys, <<u, h>>, q)
          /\ relationshipKeys[<<u, j>>][q] = relationshipKeys[<<u, h>>][q]
      BY <1>1, <2>1, <2>3
    <3>2. QED BY <3>1 DEF KeyInv, KeysDistinct
  <2>4. QED BY <2>2, <2>3
<1>7. LiveKeyed'
  <2>1. SUFFICES ASSUME NEW i \in RelIds', NEW u, NEW q \in Pairs, IsOf(i, u, q)'
                 PROVE  HasNumber(i, u, q)'
    BY DEF LiveKeyed, Pairs
  <2>2. CASE i = id
    <3>1. u = t /\ q = pair BY <2>1, <2>2
    <3>2. Has(relationshipKeys', <<t, k>>, pair) /\ relationshipKeys'[<<t, k>>][pair] = id
      BY <1>1
    <3>3. QED BY <2>2, <3>1, <3>2 DEF HasNumber
  <2>3. CASE i \in RelIds
    <3>1. PICK j : Has(relationshipKeys, <<u, j>>, q) /\ relationshipKeys[<<u, j>>][q] = i
      BY <2>1, <2>3 DEF KeyInv, LiveKeyed, HasNumber
    <3>2. ~ (u = t /\ j = k /\ q = pair) BY <1>4, <3>1
    <3>3. Has(relationshipKeys', <<u, j>>, q) /\ relationshipKeys'[<<u, j>>][q] = i
      BY <1>1, <3>1, <3>2
    <3>4. QED BY <3>3 DEF HasNumber
  <2>4. QED BY <2>2, <2>3
<1>8. QED BY <1>5, <1>6, <1>7 DEF KeyInv

LEMMA FreedKeyed ==
  ASSUME RelsInv, NumberInv, KeyInv, NEW t, NEW pair, NEW k, NEW count, NEW id,
         NumberFreed(t, pair, k, count, id)
  PROVE  KeyInv'
<1>1. /\ t \in KnownTypes /\ pair \in Pairs /\ k \in 1 .. count /\ count \in Nat
      /\ relatedCounts[t][pair] = count
      /\ Has(relationshipKeys, <<t, k>>, pair) /\ relationshipKeys[<<t, k>>][pair] = id
      /\ KnownTypes' = KnownTypes
      /\ \A u \in KnownTypes, q \in Pairs :
           relatedCounts'[u][q] = IF u = t /\ q = pair THEN count - 1 ELSE relatedCounts[u][q]
  BY DEF NumberFreed
<1>2. \A u \in KnownTypes, q \in Pairs : relatedCounts[u][q] \in Nat
  BY DEF RelsInv, CountsTyped, Pairs
<1>3. \A u, j, q : Has(relationshipKeys, <<u, j>>, q) =>
        /\ u \in KnownTypes /\ q \in Pairs /\ j \in 1 .. relatedCounts[u][q]
        /\ IsOf(relationshipKeys[<<u, j>>][q], u, q)
        /\ relationshipKeys[<<u, j>>][q] \in Int
  BY DEF KeyInv, KeysLead, RelsInv, KeysAllocated, Has, RelIds
<1>4. RelIds' = RelIds
      /\ \A i \in Int : \A u, q : IsOf(i, u, q)' <=> IsOf(i, u, q) /\ i # id
  <2>1. Shrinks({id}) /\ ListTyped BY DEF NumberFreed, RelsInv
  <2>2. RelIds' = RelIds
        /\ \A i \in Int : \A u, q : IsOf(i, u, q)' <=> IsOf(i, u, q) /\ i \notin {id}
    BY <2>1, ShrinksIs
  <2>3. QED BY <2>2
<1>last. PICK last : last = relationshipKeys[<<t, count>>][pair] OBVIOUS
<1>5. Has(relationshipKeys, <<t, count>>, pair)
  BY <1>1 DEF NumberInv, CountsKeyed
\* The last number is taken from its relationship, which takes k.
<1>6. \A u, j, q :
        /\ Has(relationshipKeys', <<u, j>>, q) <=>
             Has(relationshipKeys, <<u, j>>, q) /\ ~ (u = t /\ j = count /\ q = pair)
        /\ Has(relationshipKeys', <<u, j>>, q) =>
             relationshipKeys'[<<u, j>>][q] =
               IF u = t /\ j = k /\ q = pair THEN last ELSE relationshipKeys[<<u, j>>][q]
  <2>1. ~ (k # count /\ (last = id \/ ~ RelUsable(last)))
    <3>1. RelUsable(last) BY <1>3, <1>5, <1>last DEF IsOf
    <3>2. last = id => k = count BY <1>1, <1>5, <1>last DEF KeyInv, KeysDistinct
    <3>3. QED BY <3>1, <3>2
  <2>2. \/ /\ k = count
           /\ \A u, j, q :
                /\ Has(relationshipKeys', <<u, j>>, q) <=>
                     Has(relationshipKeys, <<u, j>>, q) /\ ~ (u = t /\ j = k /\ q = pair)
                /\ Has(relationshipKeys', <<u, j>>, q) =>
                     relationshipKeys'[<<u, j>>][q] = relationshipKeys[<<u, j>>][q]
        \/ /\ k # count
           /\ \A u, j, q :
                /\ Has(relationshipKeys', <<u, j>>, q) <=>
                     Has(relationshipKeys, <<u, j>>, q) /\ ~ (u = t /\ j = count /\ q = pair)
                /\ Has(relationshipKeys', <<u, j>>, q) =>
                     relationshipKeys'[<<u, j>>][q] =
                       IF u = t /\ j = k /\ q = pair THEN last
                       ELSE relationshipKeys[<<u, j>>][q]
    BY <1>last, <2>1 DEF NumberFreed
  <2>3. ASSUME NEW u, NEW j, NEW q
        PROVE  /\ Has(relationshipKeys', <<u, j>>, q) <=>
                    Has(relationshipKeys, <<u, j>>, q) /\ ~ (u = t /\ j = count /\ q = pair)
               /\ Has(relationshipKeys', <<u, j>>, q) =>
                    relationshipKeys'[<<u, j>>][q] =
                      IF u = t /\ j = k /\ q = pair THEN last
                      ELSE relationshipKeys[<<u, j>>][q]
    BY <2>2
  <2>4. QED BY <2>3
\* What a number leads to afterwards has led from a number before, and is not id.
<1>8. \A u, j, q, old :
        Has(relationshipKeys', <<u, j>>, q) /\ old = (IF u = t /\ j = k /\ q = pair THEN count ELSE j)
        => /\ Has(relationshipKeys, <<u, old>>, q)
           /\ relationshipKeys'[<<u, j>>][q] = relationshipKeys[<<u, old>>][q]
           /\ relationshipKeys[<<u, old>>][q] # id
  <2>1. SUFFICES ASSUME NEW u, NEW j, NEW q, NEW old, Has(relationshipKeys', <<u, j>>, q),
                        old = IF u = t /\ j = k /\ q = pair THEN count ELSE j
                 PROVE  /\ Has(relationshipKeys, <<u, old>>, q)
                        /\ relationshipKeys'[<<u, j>>][q] = relationshipKeys[<<u, old>>][q]
                        /\ relationshipKeys[<<u, old>>][q] # id
    OBVIOUS
  <2>3. Has(relationshipKeys, <<u, old>>, q) BY <1>5, <1>6, <2>1
  <2>4. relationshipKeys'[<<u, j>>][q] = relationshipKeys[<<u, old>>][q]
    BY <1>6, <1>last, <2>1
  <2>5. relationshipKeys[<<u, old>>][q] # id
    <3>1. SUFFICES ASSUME relationshipKeys[<<u, old>>][q] = id PROVE FALSE OBVIOUS
    <3>2. IsOf(id, u, q) /\ IsOf(id, t, pair) /\ q \in Pairs BY <1>1, <1>3, <2>3, <3>1
    <3>3. u = t /\ q = pair BY <1>1, <3>2, IsOfOne
    <3>4. old = k BY <1>1, <2>3, <3>1, <3>3 DEF KeyInv, KeysDistinct
    <3>5. QED BY <1>6, <2>1, <3>3, <3>4
  <2>6. QED BY <2>3, <2>4, <2>5
<1>9. KeysLead'
  <2>1. SUFFICES ASSUME NEW u, NEW j, NEW q, NEW i,
                        Has(relationshipKeys', <<u, j>>, q), relationshipKeys'[<<u, j>>][q] = i
                 PROVE  /\ u \in KnownTypes' /\ q \in Pairs /\ j \in 1 .. relatedCounts'[u][q]
                        /\ IsOf(i, u, q)'
    BY DEF KeysLead, Pairs
  <2>old. PICK old : old = IF u = t /\ j = k /\ q = pair THEN count ELSE j OBVIOUS
  <2>2. /\ Has(relationshipKeys, <<u, old>>, q)
        /\ relationshipKeys'[<<u, j>>][q] = relationshipKeys[<<u, old>>][q]
        /\ relationshipKeys[<<u, old>>][q] # id
    BY <1>8, <2>1, <2>old
  <2>3. /\ u \in KnownTypes /\ q \in Pairs
        /\ IsOf(relationshipKeys[<<u, old>>][q], u, q)
        /\ relationshipKeys[<<u, old>>][q] \in Int
    BY <1>3, <2>2
  <2>4. IsOf(i, u, q)' BY <1>4, <2>1, <2>2, <2>3
  <2>5. j \in 1 .. relatedCounts[u][q] BY <1>3, <1>6, <2>1
  <2>6. j \in 1 .. relatedCounts'[u][q]
    <3>1. CASE u = t /\ q = pair
      <4>1. j # count BY <1>6, <2>1, <3>1
      <4>2. QED BY <1>1, <2>5, <3>1, <4>1
    <3>2. CASE ~ (u = t /\ q = pair) BY <1>1, <2>3, <2>5, <3>2
    <3>3. QED BY <3>1, <3>2
  <2>7. QED BY <1>1, <2>3, <2>4, <2>6
<1>10. KeysDistinct'
  <2>1. SUFFICES ASSUME NEW u, NEW j, NEW h, NEW q,
                        Has(relationshipKeys', <<u, j>>, q), Has(relationshipKeys', <<u, h>>, q),
                        relationshipKeys'[<<u, j>>][q] = relationshipKeys'[<<u, h>>][q]
                 PROVE  j = h
    BY DEF KeysDistinct
  <2>a. PICK a : a = IF u = t /\ j = k /\ q = pair THEN count ELSE j OBVIOUS
  <2>2. /\ Has(relationshipKeys, <<u, a>>, q)
        /\ relationshipKeys'[<<u, j>>][q] = relationshipKeys[<<u, a>>][q]
    BY <1>8, <2>1, <2>a
  <2>b. PICK b : b = IF u = t /\ h = k /\ q = pair THEN count ELSE h OBVIOUS
  <2>3. /\ Has(relationshipKeys, <<u, b>>, q)
        /\ relationshipKeys'[<<u, h>>][q] = relationshipKeys[<<u, b>>][q]
    BY <1>8, <2>1, <2>b
  <2>4. a = b BY <2>1, <2>2, <2>3 DEF KeyInv, KeysDistinct
  <2>5. ~ (u = t /\ j = count /\ q = pair) /\ ~ (u = t /\ h = count /\ q = pair) BY <1>6, <2>1
  <2>6. QED BY <2>a, <2>b, <2>4, <2>5
<1>11. LiveKeyed'
  <2>1. SUFFICES ASSUME NEW i \in RelIds', NEW u, NEW q \in Pairs, IsOf(i, u, q)'
                 PROVE  HasNumber(i, u, q)'
    BY DEF LiveKeyed, Pairs
  <2>2. i \in RelIds /\ i \in Int BY <1>4 DEF RelIds
  <2>3. IsOf(i, u, q) /\ i # id BY <1>4, <2>1, <2>2
  <2>4. PICK j : Has(relationshipKeys, <<u, j>>, q) /\ relationshipKeys[<<u, j>>][q] = i
    BY <2>2, <2>3 DEF KeyInv, LiveKeyed, HasNumber
  <2>5. CASE u = t /\ j = count /\ q = pair
    <3>1. last = i BY <1>last, <2>4, <2>5
    <3>2. k # count BY <1>1, <2>3, <2>4, <2>5
    <3>3. Has(relationshipKeys', <<t, k>>, pair) /\ relationshipKeys'[<<t, k>>][pair] = i
      BY <1>1, <1>6, <3>1, <3>2
    <3>4. QED BY <2>5, <3>3 DEF HasNumber
  <2>6. CASE ~ (u = t /\ j = count /\ q = pair)
    <3>1. ~ (u = t /\ j = k /\ q = pair) BY <1>1, <2>3, <2>4
    <3>2. Has(relationshipKeys', <<u, j>>, q) /\ relationshipKeys'[<<u, j>>][q] = i
      BY <1>6, <2>4, <2>6, <3>1
    <3>3. QED BY <3>2 DEF HasNumber
  <2>7. QED BY <2>5, <2>6
<1>12. QED BY <1>9, <1>10, <1>11 DEF KeyInv

-----------------------------------------------------------------------------
(* The lists and the counts *)

StartsAt(id, t, n) == \E x \in NodeIds : IsOf(id, t, <<n, x>>)
EndsAt(id, t, n)   == \E x \in NodeIds : IsOf(id, t, <<x, n>>)
OfType(id, t)      == \E pair \in Pairs : IsOf(id, t, pair)

LiveOf(t) == {id \in RelIds : OfType(id, t)}

ListsPaired == \A t \in KnownTypes : Paired(NodeIds, related[t], relatedCounts[t])

\* The lists of an index hold living relationships of that type and that end.
HoldsLive(m, t) ==
  \A n \in NodeIds : \A id :
    /\ Holds(m.from2rel[n], id) => StartsAt(id, t, n)
    /\ Holds(m.to2rel[n], id) => EndsAt(id, t, n)

ListsLive == \A t \in KnownTypes : HoldsLive(related[t], t)

TypesCounted == \A t \in KnownTypes : relationshipCounts[t] = Cardinality(LiveOf(t))

ListInv == ListsPaired /\ ListsLive /\ TypesCounted

\* The ids of a set that are what they were.
SameIs(ids) == \A id \in ids : \A t, pair : IsOf(id, t, pair)' <=> IsOf(id, t, pair)

LEMMA SameParts ==
  ASSUME NEW ids, SameIs(ids)
  PROVE  \A id \in ids : \A t, n :
           /\ StartsAt(id, t, n)' <=> StartsAt(id, t, n)
           /\ EndsAt(id, t, n)' <=> EndsAt(id, t, n)
           /\ OfType(id, t)' <=> OfType(id, t)
<1>1. SUFFICES ASSUME NEW id \in ids, NEW t, NEW n
               PROVE  /\ StartsAt(id, t, n)' <=> StartsAt(id, t, n)
                      /\ EndsAt(id, t, n)' <=> EndsAt(id, t, n)
                      /\ OfType(id, t)' <=> OfType(id, t)
  OBVIOUS
<1>2. \A pair : IsOf(id, t, pair)' <=> IsOf(id, t, pair) BY DEF SameIs
<1>3. StartsAt(id, t, n)' <=> StartsAt(id, t, n) BY <1>2 DEF StartsAt, NodeIds
<1>4. EndsAt(id, t, n)' <=> EndsAt(id, t, n) BY <1>2 DEF EndsAt, NodeIds
<1>5. OfType(id, t)' <=> OfType(id, t) BY <1>2 DEF OfType, Pairs, NodeIds
<1>6. QED BY <1>3, <1>4, <1>5

\* The lists of an index hold ids that have been allocated.
LEMMA HeldAllocated ==
  ASSUME IndexTyped, NEW t \in KnownTypes, NEW n \in NodeIds, NEW id,
         Holds(related[t].from2rel[n], id) \/ Holds(related[t].to2rel[n], id)
  PROVE  id \in RelIds
<1>1. related[t] \in Index(NodeIds, RelIds) BY DEF IndexTyped
<1>2. related[t].from2rel[n] \in Seq(RelIds) /\ related[t].to2rel[n] \in Seq(RelIds)
  BY <1>1 DEF Index
<1>3. QED BY <1>2 DEF Holds

LEMMA LiveOfFinite == RelsInv => \A t : IsFiniteSet(LiveOf(t))
<1>1. SUFFICES ASSUME RelsInv, NEW t PROVE IsFiniteSet(LiveOf(t)) OBVIOUS
<1>2. Len(relationships) \in Nat BY <1>1 DEF RelsInv, ListTyped
<1>3. IsFiniteSet(0 .. Len(relationships) - 1) BY <1>2, FS_Interval
<1>4. QED BY <1>3, FS_Subset DEF LiveOf, RelIds

LEMMA StaysListed ==
  ASSUME RelsInv, ListInv, Stays
  PROVE  ListInv'
<1>1. /\ KnownTypes' = KnownTypes /\ RelIds' = RelIds /\ SameIs(RelIds)
      /\ \A t \in KnownTypes :
           /\ related'[t] = related[t] /\ relationshipCounts'[t] = relationshipCounts[t]
           /\ relatedCounts'[t] = relatedCounts[t]
  BY DEF Stays, SameIs
<1>2. IndexTyped BY DEF RelsInv
<1>3. ListsPaired' BY <1>1 DEF ListInv, ListsPaired, NodeIds
<1>4. ListsLive'
  <2>1. SUFFICES ASSUME NEW t \in KnownTypes, NEW n \in NodeIds, NEW id
                 PROVE  /\ Holds(related[t].from2rel[n], id) => StartsAt(id, t, n)'
                        /\ Holds(related[t].to2rel[n], id) => EndsAt(id, t, n)'
    BY <1>1 DEF ListsLive, HoldsLive, NodeIds
  <2>2. /\ Holds(related[t].from2rel[n], id) => StartsAt(id, t, n)
        /\ Holds(related[t].to2rel[n], id) => EndsAt(id, t, n)
    BY DEF ListInv, ListsLive, HoldsLive
  <2>3. Holds(related[t].from2rel[n], id) \/ Holds(related[t].to2rel[n], id) => id \in RelIds
    BY <1>2, HeldAllocated
  <2>4. QED BY <1>1, <2>2, <2>3, SameParts
<1>5. TypesCounted'
  <2>1. \A t : LiveOf(t)' = LiveOf(t) BY <1>1, SameParts DEF LiveOf
  <2>2. QED BY <1>1, <2>1 DEF ListInv, TypesCounted
<1>6. QED BY <1>3, <1>4, <1>5 DEF ListInv

\* A type nobody has used yet has no relationship.
LEMMA TypeKnown ==
  ASSUME RelsInv, LiveInv, NEW id \in RelIds, NEW t, OfType(id, t)
  PROVE  t \in KnownTypes
<1>1. PICK pair \in Pairs : IsOf(id, t, pair) BY DEF OfType
<1>i. PICK i : i = id + 1 OBVIOUS
<1>2. i \in DOMAIN relationships /\ relationships[i] # Null /\ relationships[i].type = t
  BY <1>1, <1>i DEF IsOf, RelUsable, RelRec
<1>3. QED BY <1>2 DEF LiveInv, PlacedIn, KnownTypes

\* What the lists of p hold beyond those of m is the relationship put in.
HoldsMore(m, p, from, to, rel, n, e) ==
  /\ Holds(p.from2rel[n], e) => Holds(m.from2rel[n], e) \/ (n = from /\ e = rel)
  /\ Holds(p.to2rel[n], e) => Holds(m.to2rel[n], e) \/ (n = to /\ e = rel)

LEMMA PutHolds ==
  ASSUME NEW ids, NEW rels, NEW m \in Index(ids, rels), NEW from \in ids, NEW to \in ids,
         NEW rel, NEW n \in ids, NEW e
  PROVE  HoldsMore(m, Put(m, from, to, rel), from, to, rel, n, e)
<1>p. PICK p : p = Put(m, from, to, rel) OBVIOUS
<1> DEFINE a == m.from2rel[n]
<1> DEFINE b == m.to2rel[n]
<1>1. a \in Seq(rels) /\ b \in Seq(rels) BY DEF Index
<1>2. p.from2rel[n] = IF n = from THEN Append(a, rel) ELSE a BY <1>p DEF Put, Index
<1>3. p.to2rel[n] = IF n = to THEN Append(b, rel) ELSE b BY <1>p DEF Put, Index
<1> HIDE DEF a, b
<1>4. \A s \in Seq(rels) : Holds(Append(s, rel), e) => Holds(s, e) \/ e = rel BY DEF Holds
<1>5. HoldsMore(m, p, from, to, rel, n, e)
  BY <1>1, <1>2, <1>3, <1>4 DEF a, b, HoldsMore
<1>6. QED BY <1>p, <1>5

LEMMA RelatedOfListed ==
  ASSUME RelsInv, ListInv, NEW t
  PROVE  Paired(NodeIds, RelatedOf(t), PairCounts(t)) /\ HoldsLive(RelatedOf(t), t)
<1>1. CASE t \in KnownTypes
  BY <1>1 DEF RelatedOf, PairCounts, ListInv, ListsPaired, ListsLive
<1>2. CASE t \notin KnownTypes
  <2>1. RelatedOf(t) = NewMap(NodeIds) /\ PairCounts(t) = [pair \in NodeIds \X NodeIds |-> 0]
    BY <1>2 DEF RelatedOf, PairCounts
  <2>2. Paired(NodeIds, NewMap(NodeIds), [pair \in NodeIds \X NodeIds |-> 0]) BY NewMapPaired
  <2>3. \A n \in NodeIds : NewMap(NodeIds).from2rel[n] = <<>> /\ NewMap(NodeIds).to2rel[n] = <<>>
    BY DEF NewMap
  <2>4. \A n \in NodeIds : \A id :
          ~ Holds(NewMap(NodeIds).from2rel[n], id) /\ ~ Holds(NewMap(NodeIds).to2rel[n], id)
    BY <2>3 DEF Holds
  <2>5. QED BY <2>1, <2>2, <2>4 DEF HoldsLive
<1>3. QED BY <1>1, <1>2

LEMMA AddedListed ==
  ASSUME RelsInv, LiveInv, ListInv, NEW t \in Types, NEW n1 \in NodeIds, NEW n2 \in NodeIds,
         NEW shown \in Int, NEW props \in StoredMaps, NEW call, Link(call, t, n1, n2, shown, props)
  PROVE  ListInv'
<1>pair. PICK pair : pair = <<n1, n2>> OBVIOUS
<1>new. PICK new : new = Len(relationships) OBVIOUS
<1>m. PICK m : m = RelatedOf(t) OBVIOUS
<1>1. Linked(t, n1, n2, shown, props) BY RelsInvIs, LinkEffect
<1>2. /\ KnownTypes' = KnownTypes \cup {t}
      /\ m \in Index(NodeIds, RelIds)
      /\ related'[t] = Put(m, n1, n2, new)
      /\ \A u \in KnownTypes : u # t => related'[u] = related[u]
      /\ PairCounts(t) \in [NodeIds \X NodeIds -> Nat]
      /\ relatedCounts'[t] = [PairCounts(t) EXCEPT ![<<n1, n2>>] = @ + 1]
      /\ \A u \in KnownTypes : u # t => relatedCounts'[u] = relatedCounts[u]
  BY <1>1, <1>new, <1>m DEF Linked
<1>3. /\ RelIds' = RelIds \cup {new} /\ new \notin RelIds
      /\ SameIs(RelIds)
      /\ \A u, q : q \in Pairs => (IsOf(new, u, q)' <=> u = t /\ q = pair)
  <2>1. ListTyped BY DEF RelsInv
  <2>2. QED BY <1>1, <1>new, <1>pair, <2>1, LinkedIs DEF SameIs
<1>4. Paired(NodeIds, m, PairCounts(t)) /\ HoldsLive(m, t) BY <1>m, RelatedOfListed
<1>5. ListsPaired'
  <2>1. Paired(NodeIds, Put(m, n1, n2, new), [PairCounts(t) EXCEPT ![<<n1, n2>>] = @ + 1])
    BY <1>2, <1>4, PutPaired
  <2>2. Paired(NodeIds, related'[t], relatedCounts'[t]) BY <1>2, <2>1
  <2>3. \A u \in KnownTypes : u # t => Paired(NodeIds, related'[u], relatedCounts'[u])
    BY <1>2 DEF ListInv, ListsPaired
  <2>4. QED BY <1>2, <2>2, <2>3 DEF ListsPaired, NodeIds
\* The new relationship starts at n1, ends at n2 and is of type t.
<1>6. /\ StartsAt(new, t, n1)' /\ EndsAt(new, t, n2)'
      /\ \A u : OfType(new, u)' <=> u = t
  <2>1. pair \in Pairs BY <1>pair DEF Pairs
  <2>2. IsOf(new, t, <<n1, n2>>)' BY <1>3, <1>pair, <2>1
  <2>3. StartsAt(new, t, n1)' BY <2>2 DEF StartsAt, NodeIds
  <2>4. EndsAt(new, t, n2)' BY <2>2 DEF EndsAt, NodeIds
  <2>5. \A u : OfType(new, u)' <=> u = t BY <1>3, <2>1 DEF OfType, Pairs, NodeIds
  <2>6. QED BY <2>3, <2>4, <2>5
<1>7. ListsLive'
  <2>1. SUFFICES ASSUME NEW u \in KnownTypes', NEW n \in NodeIds, NEW id
                 PROVE  /\ Holds(related'[u].from2rel[n], id) => StartsAt(id, u, n)'
                        /\ Holds(related'[u].to2rel[n], id) => EndsAt(id, u, n)'
    BY DEF ListsLive, HoldsLive, NodeIds
  <2>2. CASE u = t
    <3>1. /\ Holds(related'[t].from2rel[n], id) =>
               Holds(m.from2rel[n], id) \/ (n = n1 /\ id = new)
          /\ Holds(related'[t].to2rel[n], id) =>
               Holds(m.to2rel[n], id) \/ (n = n2 /\ id = new)
      <4>p. PICK p : p = Put(m, n1, n2, new) OBVIOUS
      <4>1. HoldsMore(m, p, n1, n2, new, n, id) BY <1>2, <4>p, PutHolds
      <4>2. QED BY <1>2, <4>p, <4>1 DEF HoldsMore
    <3>2. /\ Holds(m.from2rel[n], id) => StartsAt(id, t, n) /\ id \in RelIds
          /\ Holds(m.to2rel[n], id) => EndsAt(id, t, n) /\ id \in RelIds
      <4>1. m.from2rel[n] \in Seq(RelIds) /\ m.to2rel[n] \in Seq(RelIds) BY <1>2 DEF Index
      <4>2. Holds(m.from2rel[n], id) \/ Holds(m.to2rel[n], id) => id \in RelIds
        BY <4>1 DEF Holds
      <4>3. QED BY <1>4, <4>2 DEF HoldsLive
    <3>3. id \in RelIds => (StartsAt(id, t, n)' <=> StartsAt(id, t, n))
                           /\ (EndsAt(id, t, n)' <=> EndsAt(id, t, n))
      BY <1>3, SameParts
    <3>4. QED BY <1>6, <2>2, <3>1, <3>2, <3>3
  <2>3. CASE u # t
    <3>1. u \in KnownTypes /\ related'[u] = related[u] BY <1>2, <2>3
    <3>2. /\ Holds(related[u].from2rel[n], id) => StartsAt(id, u, n)
          /\ Holds(related[u].to2rel[n], id) => EndsAt(id, u, n)
      BY <3>1 DEF ListInv, ListsLive, HoldsLive
    <3>3. Holds(related[u].from2rel[n], id) \/ Holds(related[u].to2rel[n], id) => id \in RelIds
      BY <3>1, HeldAllocated DEF RelsInv
    <3>4. id \in RelIds => (StartsAt(id, u, n)' <=> StartsAt(id, u, n))
                           /\ (EndsAt(id, u, n)' <=> EndsAt(id, u, n))
      BY <1>3, SameParts
    <3>5. QED BY <3>1, <3>2, <3>3, <3>4
  <2>4. QED BY <2>2, <2>3
<1>8. TypesCounted'
  <2>1. \A u : LiveOf(u)' = IF u = t THEN LiveOf(u) \cup {new} ELSE LiveOf(u)
    <3>1. \A id \in RelIds : \A u : OfType(id, u)' <=> OfType(id, u) BY <1>3, SameParts
    <3>2. QED BY <1>3, <1>6, <3>1 DEF LiveOf
  <2>2. /\ relationshipCounts'[t] = TypeCount(t) + 1
        /\ \A u \in KnownTypes : u # t => relationshipCounts'[u] = relationshipCounts[u]
    <3>1. relationshipCounts' = MapPut(relationshipCounts, t, TypeCount(t) + 1) BY DEF Link
    <3>2. DOMAIN relationshipCounts = KnownTypes BY DEF RelsInv, CountsTyped
    <3>c. PICK c : c = TypeCount(t) + 1 OBVIOUS
    <3>3. /\ MapPut(relationshipCounts, t, c)[t] = c
          /\ \A u \in DOMAIN relationshipCounts :
               u # t => MapPut(relationshipCounts, t, c)[u] = relationshipCounts[u]
      BY DEF MapPut
    <3>4. QED BY <3>1, <3>2, <3>3, <3>c
  <2>3. TypeCount(t) = Cardinality(LiveOf(t))
    <3>1. CASE t \in KnownTypes BY <3>1 DEF TypeCount, ListInv, TypesCounted
    <3>2. CASE t \notin KnownTypes
      <4>1. LiveOf(t) = {} BY <3>2, TypeKnown DEF LiveOf
      <4>2. QED BY <3>2, <4>1, FS_EmptySet DEF TypeCount
    <3>3. QED BY <3>1, <3>2
  <2>4. Cardinality(LiveOf(t) \cup {new}) = Cardinality(LiveOf(t)) + 1
    <3>1. IsFiniteSet(LiveOf(t)) BY LiveOfFinite
    <3>2. new \notin LiveOf(t) BY <1>3 DEF LiveOf
    <3>3. QED BY <3>1, <3>2, FS_AddElement
  <2>5. \A u \in KnownTypes : relationshipCounts[u] = Cardinality(LiveOf(u))
    BY DEF ListInv, TypesCounted
  <2>6. SUFFICES ASSUME NEW u \in KnownTypes' PROVE relationshipCounts'[u] = Cardinality(LiveOf(u)')
    BY DEF TypesCounted
  <2>7. CASE u = t BY <2>1, <2>2, <2>3, <2>4, <2>7
  <2>8. CASE u # t BY <1>2, <2>1, <2>2, <2>5, <2>8
  <2>9. QED BY <2>7, <2>8
<1>9. QED BY <1>5, <1>7, <1>8 DEF ListInv

\* The lists of p hold what those of m held, but for the relationship taken out.
HoldsLess(m, p, from, to, rel, n, e) ==
  /\ Holds(p.from2rel[n], e) => Holds(m.from2rel[n], e) /\ ~ (n = from /\ e = rel)
  /\ Holds(p.to2rel[n], e) => Holds(m.to2rel[n], e) /\ ~ (n = to /\ e = rel)

LEMMA RemoveFirstLeaves ==
  ASSUME NEW S, NEW s \in Seq(S), NEW x, NEW e, Holds(RemoveFirst(s, x), e)
  PROVE  Holds(s, e) /\ (e = x => Times(s, x) # 1)
<1> DEFINE r == RemoveFirst(s, x)
<1>1. r \in Seq(S) BY RemoveFirstTyped
<1> DEFINE c == Times(s, e)
<1> DEFINE d == Times(r, e)
<1>2. c \in Nat /\ d \in Nat /\ (c = 0 <=> ~ Holds(s, e)) /\ d # 0 BY <1>1, TimesTyped
<1>3. d = c - (IF x \in {e} /\ Holds(s, x) THEN 1 ELSE 0) BY CountRemoveFirst DEF Times
<1>4. (e = x => Times(s, x) = c) /\ (x \in {e} <=> e = x) OBVIOUS
<1> HIDE DEF r, c, d
<1>5. c # 0 BY <1>2, <1>3
<1>6. e = x => c # 1 BY <1>2, <1>3, <1>4, <1>5
<1>7. QED BY <1>2, <1>4, <1>5, <1>6

LEMMA RemoveHolds ==
  ASSUME NEW ids, NEW rels, NEW m \in Index(ids, rels), NEW from \in ids, NEW to \in ids,
         NEW rel, Times(m.from2rel[from], rel) = 1, Times(m.to2rel[to], rel) = 1,
         NEW n \in ids, NEW e
  PROVE  HoldsLess(m, RemoveRel(m, from, to, rel), from, to, rel, n, e)
<1>p. PICK p : p = RemoveRel(m, from, to, rel) OBVIOUS
<1>a. PICK a : a = m.from2rel[n] OBVIOUS
<1>b. PICK b : b = m.to2rel[n] OBVIOUS
<1>1. a \in Seq(rels) /\ b \in Seq(rels) BY <1>a, <1>b DEF Index
<1>2. p.from2rel[n] = IF n = from THEN RemoveFirst(a, rel) ELSE a
  BY <1>p, <1>a DEF RemoveRel, Index
<1>3. p.to2rel[n] = IF n = to THEN RemoveFirst(b, rel) ELSE b BY <1>p, <1>b DEF RemoveRel, Index
<1>4. Holds(RemoveFirst(a, rel), e) => Holds(a, e) /\ (e = rel => Times(a, rel) # 1)
  BY <1>1, RemoveFirstLeaves
<1>5. Holds(RemoveFirst(b, rel), e) => Holds(b, e) /\ (e = rel => Times(b, rel) # 1)
  BY <1>1, RemoveFirstLeaves
<1>6. HoldsLess(m, p, from, to, rel, n, e)
  BY <1>a, <1>b, <1>2, <1>3, <1>4, <1>5 DEF HoldsLess
<1>7. QED BY <1>p, <1>6

\* What a number leads to is in all the lists of its type.
LEMMA KeyedPresent ==
  ASSUME RelsInv, IndexInv, LiveInv, ListInv, NEW t \in KnownTypes,
         NEW n1 \in NodeIds, NEW n2 \in NodeIds, NEW id \in RelIds, IsOf(id, t, <<n1, n2>>),
         relatedCounts[t][<<n1, n2>>] # 0
  PROVE  /\ Present(related[t], n1, n2, id)
         /\ Times(related[t].from2rel[n1], id) = 1 /\ Times(related[t].to2rel[n2], id) = 1
<1>m. PICK m : m = related[t] OBVIOUS
<1>1. m \in Index(NodeIds, RelIds) BY <1>m DEF RelsInv, IndexTyped
<1>2. /\ m.from2to[n1] \in Seq(NodeIds) /\ m.from2rel[n1] \in Seq(RelIds)
      /\ m.to2from[n2] \in Seq(NodeIds) /\ m.to2rel[n2] \in Seq(RelIds)
  BY <1>1 DEF Index
<1>3. Times(m.from2rel[n1], id) = 1 /\ Times(m.to2rel[n2], id) = 1
  <2>i. PICK i : i = id + 1 OBVIOUS
  <2>1. i \in DOMAIN relationships /\ relationships[i] # Null
        /\ relationships[i].type = t /\ relationships[i].from = n1 /\ relationships[i].to = n2
    BY <2>i DEF IsOf, RelUsable, RelRec
  <2>2. i - 1 = id BY <2>i DEF RelIds
  <2>3. QED BY <1>m, <2>1, <2>2 DEF LiveInv, PlacedIn
<1>4. Times(m.from2to[n1], n2) # 0 BY <1>m DEF ListInv, ListsPaired, Paired
<1>5. Times(m.to2from[n2], n1) # 0
  <2>1. BothWays(NodeIds, m) BY <1>m DEF IndexInv, Ends, IndicesSound
  <2>2. QED BY <1>4, <2>1 DEF BothWays, Mirrored
<1>6. Present(m, n1, n2, id) BY <1>2, <1>3, <1>4, <1>5, TimesTyped DEF Present
<1>7. QED BY <1>m, <1>3, <1>6

LEMMA FreedListed ==
  ASSUME RelsInv, IndexInv, LiveInv, NumberInv, KeyInv, ListInv, NEW t \in KnownTypes,
         NEW n1 \in NodeIds, NEW n2 \in NodeIds, NEW k \in Int, k >= 1,
         k <= relatedCounts[t][<<n1, n2>>], NEW call, RemoveNumber(call, t, n1, n2, k)
  PROVE  ListInv'
<1>pair. PICK pair : pair = <<n1, n2>> OBVIOUS
<1>id. PICK id : id = RelationshipKeyId(t, k, n1, n2) OBVIOUS
<1>m. PICK m : m = related[t] OBVIOUS
<1>p. PICK p : p = RemoveRel(m, n1, n2, id) OBVIOUS
<1>less. PICK less : less = [relatedCounts[t] EXCEPT ![<<n1, n2>>] = @ - 1] OBVIOUS
<1>1. /\ pair \in Pairs /\ relatedCounts[t][pair] # 0
      /\ Has(relationshipKeys, <<t, k>>, pair) /\ relationshipKeys[<<t, k>>][pair] = id
      /\ Shrinks({id}) /\ KnownTypes' = KnownTypes
      /\ \A u \in KnownTypes, q \in Pairs :
           relatedCounts'[u][q] = IF u = t /\ q = pair THEN relatedCounts[t][pair] - 1
                                  ELSE relatedCounts[u][q]
  <2>1. NumberFreed(t, <<n1, n2>>, k, relatedCounts[t][<<n1, n2>>], id)
    BY <1>id, RemoveNumberFrees DEF NumberInv
  <2>2. NumberFreed(t, pair, k, relatedCounts[t][pair], id) BY <1>pair, <2>1
  <2>3. QED BY <2>2 DEF NumberFreed
<1>2. id \in RelIds /\ IsOf(id, t, pair)
  BY <1>1 DEF RelsInv, KeysAllocated, KeyInv, KeysLead, Has
<1>3. /\ RelIds' = RelIds
      /\ \A i \in RelIds : \A u, q : IsOf(i, u, q)' <=> IsOf(i, u, q) /\ i # id
  <2>1. ListTyped BY DEF RelsInv
  <2>2. RelIds' = RelIds
        /\ \A i \in Int : \A u, q : IsOf(i, u, q)' <=> IsOf(i, u, q) /\ i \notin {id}
    BY <1>1, <2>1, ShrinksIs
  <2>3. QED BY <2>2 DEF RelIds
<1>4. related' = [related EXCEPT ![t] = p]
  <2>1. NumberRemoved(t, n1, n2, k) BY RemoveNumberEffect
  <2>2. QED BY <1>id, <1>m, <1>p, <2>1 DEF NumberRemoved
<1>5. related'[t] = p /\ \A u \in KnownTypes : u # t => related'[u] = related[u]
  BY <1>4 DEF KnownTypes
<1>6. m \in Index(NodeIds, RelIds) BY <1>m DEF RelsInv, IndexTyped
<1>7. /\ Present(m, n1, n2, id)
      /\ Times(m.from2rel[n1], id) = 1 /\ Times(m.to2rel[n2], id) = 1
  BY <1>pair, <1>m, <1>1, <1>2, KeyedPresent
<1>8. ListsPaired'
  <2>1. relatedCounts[t] \in [NodeIds \X NodeIds -> Nat] BY DEF RelsInv, CountsTyped
  <2>2. Paired(NodeIds, m, relatedCounts[t]) BY <1>m DEF ListInv, ListsPaired
  <2>3. Paired(NodeIds, p, less) BY <1>p, <1>less, <1>6, <1>7, <2>1, <2>2, RemoveRelPaired
  <2>4. \A n, x \in NodeIds : less[<<n, x>>] = relatedCounts'[t][<<n, x>>]
    <3>1. SUFFICES ASSUME NEW n \in NodeIds, NEW x \in NodeIds
                   PROVE  less[<<n, x>>] = relatedCounts'[t][<<n, x>>]
      OBVIOUS
    <3>q. PICK q : q = <<n, x>> OBVIOUS
    <3>2. q \in Pairs BY <3>q DEF Pairs
    <3>3. less[q] = IF q = pair THEN relatedCounts[t][pair] - 1 ELSE relatedCounts[t][q]
      BY <1>less, <1>pair, <2>1, <3>2 DEF Pairs
    <3>4. QED BY <1>1, <3>q, <3>2, <3>3
  <2>5. Paired(NodeIds, p, relatedCounts'[t]) BY <2>3, <2>4 DEF Paired
  <2>6. \A u \in KnownTypes : u # t => Paired(NodeIds, related[u], relatedCounts[u])
    BY DEF ListInv, ListsPaired
  <2>7. ASSUME NEW u \in KnownTypes, u # t PROVE Paired(NodeIds, related[u], relatedCounts'[u])
    <3>1. \A q \in Pairs : relatedCounts'[u][q] = relatedCounts[u][q] BY <1>1, <2>7
    <3>2. \A n, x \in NodeIds : relatedCounts'[u][<<n, x>>] = relatedCounts[u][<<n, x>>]
      BY <3>1 DEF Pairs
    <3>3. QED BY <2>6, <2>7, <3>2 DEF Paired
  <2>8. QED BY <1>1, <1>5, <2>5, <2>7 DEF ListsPaired, NodeIds
<1>9. \A i \in RelIds : i # id => \A u, n :
        /\ StartsAt(i, u, n)' <=> StartsAt(i, u, n)
        /\ EndsAt(i, u, n)' <=> EndsAt(i, u, n)
        /\ OfType(i, u)' <=> OfType(i, u)
  <2>1. SameIs(RelIds \ {id}) BY <1>3 DEF SameIs
  <2>2. QED BY <2>1, SameParts
\* The lists held id only where it was taken from.
<1>10. /\ \A n : StartsAt(id, t, n) => n = n1
       /\ \A n : EndsAt(id, t, n) => n = n2
       /\ \A u : OfType(id, u) <=> u = t
       /\ \A u : ~ OfType(id, u)'
  <2>1. \A u, q : IsOf(id, u, q) => u = t /\ q[1] = n1 /\ q[2] = n2
    <3>1. pair[1] = n1 /\ pair[2] = n2 BY <1>pair
    <3>2. QED BY <1>2, <3>1 DEF IsOf
  <2>2. \A n, x : <<n, x>>[1] = n /\ <<n, x>>[2] = x OBVIOUS
  <2>3. \A n : StartsAt(id, t, n) => n = n1 BY <2>1, <2>2 DEF StartsAt
  <2>4. \A n : EndsAt(id, t, n) => n = n2 BY <2>1, <2>2 DEF EndsAt
  <2>5. \A u : OfType(id, u) <=> u = t BY <1>1, <1>2, <2>1 DEF OfType
  <2>6. \A u, q : ~ IsOf(id, u, q)' BY <1>2, <1>3
  <2>7. \A u : ~ OfType(id, u)' BY <2>6 DEF OfType, Pairs, NodeIds
  <2>8. QED BY <2>3, <2>4, <2>5, <2>7
<1>11. ListsLive'
  <2>1. SUFFICES ASSUME NEW u \in KnownTypes, NEW n \in NodeIds, NEW i
                 PROVE  /\ Holds(related'[u].from2rel[n], i) => StartsAt(i, u, n)'
                        /\ Holds(related'[u].to2rel[n], i) => EndsAt(i, u, n)'
    BY <1>1 DEF ListsLive, HoldsLive, NodeIds
  <2>2. /\ Holds(related[u].from2rel[n], i) => StartsAt(i, u, n) /\ i \in RelIds
        /\ Holds(related[u].to2rel[n], i) => EndsAt(i, u, n) /\ i \in RelIds
    <3>1. Holds(related[u].from2rel[n], i) \/ Holds(related[u].to2rel[n], i) => i \in RelIds
      BY HeldAllocated DEF RelsInv
    <3>2. QED BY <3>1 DEF ListInv, ListsLive, HoldsLive
  <2>3. CASE u = t
    <3>1. HoldsLess(m, p, n1, n2, id, n, i) BY <1>p, <1>6, <1>7, RemoveHolds
    <3>2. /\ Holds(p.from2rel[n], i) => Holds(related[u].from2rel[n], i) /\ i # id
          /\ Holds(p.to2rel[n], i) => Holds(related[u].to2rel[n], i) /\ i # id
      BY <1>m, <1>10, <2>2, <2>3, <3>1 DEF HoldsLess
    <3>3. QED BY <1>5, <1>9, <2>2, <2>3, <3>2
  <2>4. CASE u # t
    <3>1. /\ Holds(related[u].from2rel[n], i) => i # id
          /\ Holds(related[u].to2rel[n], i) => i # id
      <4>1. \A x : ~ StartsAt(id, u, x) /\ ~ EndsAt(id, u, x)
        <5>1. \A q : ~ IsOf(id, u, q) BY <1>2, <2>4 DEF IsOf
        <5>2. QED BY <5>1 DEF StartsAt, EndsAt
      <4>2. QED BY <2>2, <4>1
    <3>2. QED BY <1>5, <1>9, <2>2, <2>4, <3>1
  <2>5. QED BY <2>3, <2>4
<1>12. TypesCounted'
  <2>1. \A u : LiveOf(u)' = IF u = t THEN LiveOf(u) \ {id} ELSE LiveOf(u)
    <3>1. \A i \in RelIds : \A u : OfType(i, u)' <=> OfType(i, u) /\ ~ (u = t /\ i = id)
      BY <1>9, <1>10
    <3>2. \A u : LiveOf(u)' = {i \in RelIds : OfType(i, u)'} BY <1>3 DEF LiveOf
    <3>3. QED BY <3>1, <3>2 DEF LiveOf
  <2>2. /\ relationshipCounts'[t] = relationshipCounts[t] - 1
        /\ \A u \in KnownTypes : u # t => relationshipCounts'[u] = relationshipCounts[u]
    <3>1. relationshipCounts' = [relationshipCounts EXCEPT ![t] = @ - 1]
      BY DEF RemoveNumber, OneLess
    <3>2. DOMAIN relationshipCounts = KnownTypes BY DEF RelsInv, CountsTyped
    <3>3. QED BY <3>1, <3>2
  <2>3. Cardinality(LiveOf(t) \ {id}) = Cardinality(LiveOf(t)) - 1
    <3>1. IsFiniteSet(LiveOf(t)) BY LiveOfFinite
    <3>2. id \in LiveOf(t) BY <1>2, <1>10 DEF LiveOf
    <3>3. QED BY <3>1, <3>2, FS_RemoveElement
  <2>4. \A u \in KnownTypes : relationshipCounts[u] = Cardinality(LiveOf(u))
    BY DEF ListInv, TypesCounted
  <2>5. SUFFICES ASSUME NEW u \in KnownTypes PROVE relationshipCounts'[u] = Cardinality(LiveOf(u)')
    BY <1>1 DEF TypesCounted
  <2>6. CASE u = t BY <2>1, <2>2, <2>3, <2>4, <2>6
  <2>7. CASE u # t BY <2>1, <2>2, <2>4, <2>7
  <2>8. QED BY <2>6, <2>7
<1>13. QED BY <1>8, <1>11, <1>12 DEF ListInv

-----------------------------------------------------------------------------
(* Every step *)

LEMMA SameRelationships ==
  ASSUME RelsInv, Shrinks({}), UNCHANGED <<relationshipKeys, relatedCounts>>,
         KnownTypes' = KnownTypes,
         \A t \in KnownTypes :
           related'[t] = related[t] /\ relationshipCounts'[t] = relationshipCounts[t]
  PROVE  Stays
<1>1. ListTyped BY DEF RelsInv
<1>2. RelIds' = RelIds
      /\ \A id \in Int : \A t, pair : IsOf(id, t, pair)' <=> IsOf(id, t, pair) /\ id \notin {}
  BY <1>1, ShrinksIs
<1>3. QED BY <1>2 DEF Stays, RelIds

\* Removing a node without neighbours is done, and leaves every relationship and
\* all that leads to it as they are.
Idle ==
  /\ UNCHANGED <<relationshipKeys, relationships, relatedCounts>>
  /\ KnownTypes' = KnownTypes
  /\ \A t \in KnownTypes :
       related'[t] = related[t] /\ relationshipCounts'[t] = relationshipCounts[t]

LEMMA DetachedIdle ==
  ASSUME NodesTyped, RelsInv, IndexInv, ListInv, NEW name \in Names, NEW call, Detached(name),
         RemoveNodeDone(call, name) \/ RemoveNodeThrows(call, name)
  PROVE  RemoveNodeDone(call, name) /\ Idle
<1>key. PICK key : key = nodeKeys[name] OBVIOUS
<1>1. key \in NodeIds
  <2>1. key # -1 BY <1>key DEF RemoveNodeDone, RemoveNodeThrows
  <2>2. QED BY <1>key, <2>1 DEF NodesTyped
<1>2. RemoveNodeDone(call, name)
  <2>1. PICK ends : Ends(ends) BY DEF IndexInv
  <2>2. \A t \in KnownTypes : ~ RemoveAllOverruns(related[t], key)
    BY <1>1, <2>1, RelsInvIs, EndsIs, NeverOverruns DEF RelsInv
  <2>3. QED BY <1>key, <2>2 DEF RemoveNodeThrows
<1>3. /\ related' = [t \in KnownTypes |-> IF t \in KnownTypes THEN RemoveAll(related[t], key)
                                          ELSE related[t]]
      /\ relationships' = Nulled(UNION {Incident(t, key) : t \in KnownTypes})
      /\ relationshipCounts' =
           [t \in KnownTypes |->
              IF t \in KnownTypes
              THEN relationshipCounts[t]
                   - (Len(related[t].from2rel[key]) + Len(related[t].to2rel[key]))
              ELSE relationshipCounts[t]]
      /\ UNCHANGED <<relationshipKeys, relatedCounts>>
  BY <1>2, <1>key DEF RemoveNodeDone, DetachTypes, Discount
<1>4. ASSUME NEW t \in KnownTypes
      PROVE  /\ RemoveAll(related[t], key) = related[t] /\ Incident(t, key) = {}
             /\ Len(related[t].from2rel[key]) = 0 /\ Len(related[t].to2rel[key]) = 0
  <2>m. PICK m : m = related[t] OBVIOUS
  <2>1. m \in Index(NodeIds, RelIds) BY <2>m DEF RelsInv, IndexTyped
  <2>2. Len(m.from2to[key]) = 0 /\ Len(m.to2from[key]) = 0
    BY <1>1, <1>key, <2>m DEF Detached, FromSize, ToSize, NodeIds
  <2>3. Len(m.from2rel[key]) = 0 /\ Len(m.to2rel[key]) = 0
    BY <1>1, <2>m, <2>2 DEF ListInv, ListsPaired, Paired
  <2>4. RemoveAll(m, key) = m BY <1>1, <2>1, <2>2, <2>3, RemoveAllNothing
  <2>5. m.from2rel[key] \in Seq(RelIds) /\ m.to2rel[key] \in Seq(RelIds)
    BY <1>1, <2>1 DEF Index
  <2>6. DOMAIN m.from2rel[key] = {} /\ DOMAIN m.to2rel[key] = {} BY <2>3, <2>5
  <2>7. Incident(t, key) = {} BY <2>m, <2>6 DEF Incident, ToSet
  <2>8. QED BY <2>m, <2>3, <2>4, <2>7
<1>5. KnownTypes' = KnownTypes BY <1>3 DEF KnownTypes
<1>6. \A t \in KnownTypes :
        related'[t] = related[t] /\ relationshipCounts'[t] = relationshipCounts[t]
  <2>1. SUFFICES ASSUME NEW t \in KnownTypes
                 PROVE  related'[t] = related[t] /\ relationshipCounts'[t] = relationshipCounts[t]
    OBVIOUS
  <2>2. related'[t] = related[t]
    <3>1. related'[t] = RemoveAll(related[t], key) BY <1>3
    <3>2. QED BY <1>4, <3>1
  <2>3. relationshipCounts'[t]
          = relationshipCounts[t] - (Len(related[t].from2rel[key]) + Len(related[t].to2rel[key]))
    BY <1>3
  <2>4. relationshipCounts[t] \in Int BY DEF RelsInv, CountsTyped
  <2>5. Len(related[t].from2rel[key]) = 0 /\ Len(related[t].to2rel[key]) = 0 BY <1>4
  <2>6. relationshipCounts'[t] = relationshipCounts[t] BY <2>3, <2>4, <2>5
  <2>7. QED BY <2>2, <2>6
<1>7. relationships' = relationships
  <2>1. UNION {Incident(t, key) : t \in KnownTypes} = {} BY <1>4
  <2>2. relationships' = Nulled({}) BY <1>3, <2>1
  <2>3. Nulled({}) = [i \in DOMAIN relationships |-> relationships[i]] BY DEF Nulled
  <2>4. relationships = [i \in DOMAIN relationships |-> relationships[i]]
    BY DEF RelsInv, ListTyped
  <2>5. QED BY <2>2, <2>3, <2>4
<1>8. QED BY <1>2, <1>3, <1>5, <1>6, <1>7 DEF Idle

\* A removal of a node without relationships.
RemoveDetachedStep ==
  \E name \in Names : \E call :
    Detached(name) /\ (RemoveNodeDone(call, name) \/ RemoveNodeThrows(call, name))

LEMMA DetachedStays ==
  ASSUME NodesTyped, RelsInv, IndexInv, ListInv, RemoveDetachedStep
  PROVE  Stays
<1>c1. PICK name \in Names : \E call :
         Detached(name) /\ (RemoveNodeDone(call, name) \/ RemoveNodeThrows(call, name))
  BY DEF RemoveDetachedStep
<1>1. Idle BY <1>c1, DetachedIdle
<1>2. Shrinks({})
  <2>1. \A i \in DOMAIN relationships : i - 1 \notin {} OBVIOUS
  <2>2. QED BY <1>1, <2>1 DEF Idle, Shrinks, SameEnds, RelsInv, ListTyped
<1>3. QED BY <1>1, <1>2, SameRelationships DEF Idle

LEMMA OthersStay ==
  ASSUME RelsInv, Nothing \/ AddNodeStep \/ NodePropsStep \/ InsertNodeStep \/ RelPropsStep
  PROVE  Stays
<1>1. CASE Nothing \/ AddNodeStep \/ NodePropsStep \/ InsertNodeStep
  <2>1. UNCHANGED relVars
    BY <1>1 DEF Nothing, AddNodeStep, NodePropsStep, InsertNodeStep
  <2>2. \A id, t, pair : IsOf(id, t, pair)' <=> IsOf(id, t, pair)
    BY <2>1 DEF relVars, IsOf, RelUsable, RelRec
  <2>3. QED BY <2>1, <2>2 DEF relVars, Stays, KnownTypes, RelIds
<1>2. CASE RelPropsStep
  <2>1. Shrinks({}) BY <1>2, RelsInvIs, RelPropsShrink
  <2>2. UNCHANGED <<relationshipKeys, related, relationshipCounts, relatedCounts>>
    BY <1>2 DEF RelPropsStep
  <2>3. KnownTypes' = KnownTypes BY <2>2 DEF KnownTypes
  <2>4. QED BY <2>1, <2>2, <2>3, SameRelationships
<1>3. QED BY <1>1, <1>2

NamedInv == IndexInv /\ LiveInv /\ NumberInv /\ KeyInv /\ ListInv

LEMMA NamedInvInit == Init => KeyInv /\ ListInv
<1>1. SUFFICES ASSUME Init PROVE KeyInv /\ ListInv OBVIOUS
<1>2. relationships = <<>> /\ relationshipKeys = <<>> /\ related = <<>> BY <1>1 DEF Init
<1>3. \A x : x \notin DOMAIN <<>> OBVIOUS
<1>4. KnownTypes = {} BY <1>2 DEF KnownTypes
<1>5. \A key, pair : ~ Has(relationshipKeys, key, pair) BY <1>2, <1>3 DEF Has
<1>6. \A id, t, pair : ~ IsOf(id, t, pair) BY <1>2, <1>3 DEF IsOf, RelUsable
<1>7. KeyInv BY <1>5, <1>6 DEF KeyInv, KeysLead, KeysDistinct, LiveKeyed
<1>8. ListInv BY <1>4 DEF ListInv, ListsPaired, ListsLive, TypesCounted
<1>9. QED BY <1>7, <1>8

\* The kinds of steps a client takes that removes the relationships of a node
\* before the node.
NamedStep ==
  \/ Nothing \/ AddNodeStep \/ NodePropsStep \/ InsertNodeStep \/ RemoveDetachedStep
  \/ LinkStep \/ RemoveOneStep \/ RelPropsStep

LEMMA NamedKinds ==
  /\ NamedStep => NumberingStep
  /\ "removeNode" \notin Ops /\ NumberingStep => NamedStep
BY DEF NamedStep, NumberingStep, RemoveDetachedStep, RemoveNodeStep

LEMMA NamedInvKeeps ==
  ASSUME TypeInv, NamedInv, NamedStep
  PROVE  KeyInv' /\ ListInv'
<1>2. NodesTyped /\ RelsInv BY TypeInvParts
<1>3. IndexInv /\ LiveInv /\ NumberInv /\ KeyInv /\ ListInv BY DEF NamedInv
<1>4. \/ Nothing \/ AddNodeStep \/ NodePropsStep \/ InsertNodeStep \/ RemoveDetachedStep
      \/ LinkStep \/ RemoveOneStep \/ RelPropsStep
  BY DEF NamedStep
<1>5. CASE Nothing \/ AddNodeStep \/ NodePropsStep \/ InsertNodeStep \/ RelPropsStep
  BY <1>2, <1>3, <1>5, OthersStay, StaysKeyed, StaysListed
<1>6. CASE RemoveDetachedStep
  BY <1>2, <1>3, <1>6, DetachedStays, StaysKeyed, StaysListed
<1>7. CASE LinkStep
  <2>c1. PICK t \in Types, n1 \in NodeIds, n2 \in NodeIds, shown \in Int, props \in StoredMaps :
          \E call : Link(call, t, n1, n2, shown, props)
    BY <1>7 DEF LinkStep
  <2>1. PICK call : Link(call, t, n1, n2, shown, props) BY <2>c1
  <2>pair. PICK pair : pair = <<n1, n2>> OBVIOUS
  <2>new. PICK new : new = Len(relationships) OBVIOUS
  <2>k. PICK k : k = NextNumber(t, n1, n2) OBVIOUS
  <2>2. NumberAdded(t, pair, k, new)
    BY <1>2, <1>3, <2>1, <2>pair, <2>new, <2>k, LinkAdds DEF NumberInv
  <2>3. ListTyped /\ Linked(t, n1, n2, shown, props) BY <1>2, <2>1, RelsInvIs, LinkEffect DEF RelsInv
  <2>4. /\ RelIds' = RelIds \cup {new} /\ new \notin RelIds
        /\ \A id \in RelIds : \A u, q : IsOf(id, u, q)' <=> IsOf(id, u, q)
        /\ \A u, q : q \in Pairs => (IsOf(new, u, q)' <=> u = t /\ q = pair)
    BY <2>3, <2>pair, <2>new, LinkedIs
  <2>5. KeyInv' BY <1>2, <1>3, <2>2, <2>4, AddedKeyed
  <2>6. ListInv' BY <1>2, <1>3, <2>1, AddedListed
  <2>7. QED BY <2>5, <2>6
<1>8. CASE RemoveOneStep
  <2>c1. PICK t \in KnownTypes, n1 \in NodeIds, n2 \in NodeIds, k \in Int : \E call :
          k >= 1 /\ k <= relatedCounts[t][<<n1, n2>>] /\ RemoveNumber(call, t, n1, n2, k)
    BY <1>8 DEF RemoveOneStep
  <2>1. PICK call :
          k >= 1 /\ k <= relatedCounts[t][<<n1, n2>>] /\ RemoveNumber(call, t, n1, n2, k)
    BY <2>c1
  <2>5. NumberFreed(t, <<n1, n2>>, k, relatedCounts[t][<<n1, n2>>],
                    RelationshipKeyId(t, k, n1, n2))
    BY <1>2, <1>3, <2>1, RemoveNumberFrees DEF NumberInv
  <2>6. KeyInv' BY <1>2, <1>3, <2>5, FreedKeyed
  <2>7. ListInv' BY <1>2, <1>3, <2>1, FreedListed
  <2>8. QED BY <2>6, <2>7
<1>9. QED BY <1>4, <1>5, <1>6, <1>7, <1>8

LEMMA NamedInvStep ==
  NamedClient => (TypeInv /\ NamedInv /\ [Next]_vars => KeyInv' /\ ListInv')
BY StepKinds, NumberingKinds, NamedKinds, NamedInvKeeps DEF NamedClient

LEMMA NamedInvHolds ==
  ASSUME NamedClient
  PROVE  Spec => [](TypeInv /\ NamedInv)
<1>1. NumberingClient /\ StableClient /\ "deleteRelationshipProperties" \notin Ops
  BY DEF NamedClient, NumberingClient, StableClient
<1>2. Spec => [](TypeInv /\ IndexInv) BY <1>1, IndexInvHolds
<1>3. Spec => []LiveInv BY <1>1, LiveInvHolds
<1>4. Spec => []NumberInv BY <1>1, NumberInvHolds
<1>5. Init => KeyInv /\ ListInv BY NamedInvInit
<1>6. TypeInv /\ IndexInv /\ LiveInv /\ NumberInv /\ KeyInv /\ ListInv /\ [Next]_vars
        => KeyInv' /\ ListInv'
  BY NamedInvStep DEF NamedInv
<1>7. Spec => [](TypeInv /\ IndexInv /\ LiveInv /\ NumberInv /\ KeyInv /\ ListInv)
  BY <1>2, <1>3, <1>4, <1>5, <1>6, PTL DEF Spec
<1>8. TypeInv /\ IndexInv /\ LiveInv /\ NumberInv /\ KeyInv /\ ListInv => TypeInv /\ NamedInv
  BY DEF NamedInv
<1>9. QED BY <1>7, <1>8, PTL

-----------------------------------------------------------------------------
(* What the queries say *)

LEMMA LiveRelsAre ==
  ASSUME RelsInv
  PROVE  /\ LiveRels = {id \in RelIds : RelUsable(id)}
         /\ \A t \in KnownTypes, n1, n2 \in NodeIds :
              Parallel(t, n1, n2) = {id \in RelIds : IsOf(id, t, <<n1, n2>>)}
<1>1. \A id \in RelIds : id + 1 \in DOMAIN relationships BY DEF RelsInv, ListTyped, RelIds
<1>2. LiveRels = {id \in RelIds : RelUsable(id)} BY <1>1 DEF LiveRels, RelIds, RelUsable
<1>3. QED BY <1>2 DEF Parallel, IsOf

\* related() asks for number 1, and a pair with relationships has it.
LEMMA RelatedIs ==
  ASSUME TypeInv, NamedInv
  PROVE  RelatedExact
<1>1. RelsInv BY TypeInvParts
<1>2. SUFFICES ASSUME NEW n \in LiveNames, NEW m \in LiveNames, NEW t \in KnownTypes
               PROVE  Related(nodeKeys[n], nodeKeys[m], "OUT", {t})
                        <=> Parallel(t, nodeKeys[n], nodeKeys[m]) # {}
  BY DEF RelatedExact
<1>n1. PICK n1 : n1 = nodeKeys[n] OBVIOUS
<1>n2. PICK n2 : n2 = nodeKeys[m] OBVIOUS
<1>pair. PICK pair : pair = <<n1, n2>> OBVIOUS
<1>3. n1 \in NodeIds /\ n2 \in NodeIds /\ n1 # -1 /\ n2 # -1
  BY <1>n1, <1>n2 DEF TypeInv, TypeOK, LiveNames
<1>4. pair \in Pairs BY <1>3, <1>pair DEF Pairs
<1>5. Related(n1, n2, "OUT", {t}) <=> Has(relationshipKeys, <<t, 1>>, pair)
  <2>1. ChosenTypes({t}) = {t} BY DEF ChosenTypes
  <2>2. pair \in DOMAIN KeyMap(t, 1) <=> Has(relationshipKeys, <<t, 1>>, pair)
    BY DEF KeyMap, Has
  <2>3. Related(n1, n2, "OUT", {t}) <=> <<n1, n2>> \in DOMAIN KeyMap(t, 1)
    BY <1>3, <2>1 DEF Related
  <2>4. QED BY <1>pair, <2>2, <2>3
<1>6. Parallel(t, n1, n2) = {id \in RelIds : IsOf(id, t, pair)} BY <1>1, <1>3, <1>pair, LiveRelsAre
<1>7. ASSUME Has(relationshipKeys, <<t, 1>>, pair) PROVE Parallel(t, n1, n2) # {}
  <2>id. PICK id : id = relationshipKeys[<<t, 1>>][pair] OBVIOUS
  <2>1. id \in RelIds BY <1>1, <1>7, <2>id DEF RelsInv, KeysAllocated, Has
  <2>2. IsOf(id, t, pair) BY <1>7, <2>id DEF NamedInv, KeyInv, KeysLead
  <2>3. QED BY <1>6, <2>1, <2>2
<1>8. ASSUME NEW id \in RelIds, IsOf(id, t, pair) PROVE Has(relationshipKeys, <<t, 1>>, pair)
  <2>1. PICK k : Has(relationshipKeys, <<t, k>>, pair)
    BY <1>4, <1>8 DEF NamedInv, KeyInv, LiveKeyed, HasNumber
  <2>2. k \in 1 .. relatedCounts[t][pair] BY <2>1 DEF NamedInv, KeyInv, KeysLead
  <2>3. relatedCounts[t][pair] \in Nat BY <1>1, <1>4 DEF RelsInv, CountsTyped, Pairs
  <2>4. 1 \in 1 .. relatedCounts[t][pair] BY <2>2, <2>3
  <2>5. QED BY <1>4, <2>4 DEF NamedInv, NumberInv, CountsKeyed
<1>9. QED BY <1>n1, <1>n2, <1>5, <1>6, <1>7, <1>8

\* For a client that removes the relationships of a node before the node,
\* related() answers yes exactly when there is a relationship.
THEOREM RelatedIsExact ==
  ASSUME NamedClient
  PROVE  Spec => []RelatedExact
<1>1. TypeInv /\ NamedInv => RelatedExact BY RelatedIs
<1>2. QED BY <1>1, NamedInvHolds, PTL

Starting(t, n) == {id \in LiveRels : RelRec(id).type = t /\ RelRec(id).from = n}
Ending(t, n)   == {id \in LiveRels : RelRec(id).type = t /\ RelRec(id).to = n}

\* Where the index has a relationship that lives.
LEMMA LivePlaced ==
  ASSUME RelsInv, LiveInv, NEW id \in LiveRels
  PROVE  /\ id \in RelIds /\ RelRec(id) \in Relationship
         /\ PlacedIn(related, RelRec(id), id)
<1>i. PICK i : i = id + 1 OBVIOUS
<1>1. id \in RelIds /\ RelUsable(id) BY LiveRelsAre
<1>2. id \in Int /\ i - 1 = id BY <1>1, <1>i DEF RelIds
<1>3. i \in DOMAIN relationships /\ relationships[i] # Null /\ RelRec(id) = relationships[i]
  BY <1>1, <1>i DEF RelUsable, RelRec
<1>4. PlacedIn(related, relationships[i], id) BY <1>2, <1>3 DEF LiveInv
<1>5. RelRec(id) \in Relationship BY <1>1, <1>2, IsOfTyped DEF RelsInv
<1>6. QED BY <1>1, <1>3, <1>4, <1>5

LEMMA DegreesAre ==
  ASSUME RelsInv, LiveInv, ListInv, NEW t \in KnownTypes, NEW n \in NodeIds
  PROVE  /\ Cardinality(Starting(t, n)) = FromSize(related[t], n)
         /\ Cardinality(Ending(t, n)) = ToSize(related[t], n)
<1>m. PICK m : m = related[t] OBVIOUS
<1>1. m \in Index(NodeIds, RelIds) BY <1>m DEF RelsInv, IndexTyped
<1>2. m.from2rel[n] \in Seq(RelIds) /\ m.to2rel[n] \in Seq(RelIds) BY <1>1 DEF Index
<1>3. \A id \in Starting(t, n) : Times(m.from2rel[n], id) = 1
  BY <1>m, LivePlaced DEF Starting, PlacedIn
<1>4. \A id \in Ending(t, n) : Times(m.to2rel[n], id) = 1
  BY <1>m, LivePlaced DEF Ending, PlacedIn
<1>5. ASSUME NEW id PROVE /\ Holds(m.from2rel[n], id) => id \in Starting(t, n)
                          /\ Holds(m.to2rel[n], id) => id \in Ending(t, n)
  <2>1. Holds(m.from2rel[n], id) \/ Holds(m.to2rel[n], id) => id \in RelIds
    BY <1>m, HeldAllocated DEF RelsInv
  <2>2. Holds(m.from2rel[n], id) => StartsAt(id, t, n) BY <1>m DEF ListInv, ListsLive, HoldsLive
  <2>3. Holds(m.to2rel[n], id) => EndsAt(id, t, n) BY <1>m DEF ListInv, ListsLive, HoldsLive
  <2>4. \A x : <<n, x>>[1] = n /\ <<x, n>>[2] = n OBVIOUS
  <2>5. StartsAt(id, t, n) => RelUsable(id) /\ RelRec(id).type = t /\ RelRec(id).from = n
    BY <2>4 DEF StartsAt, IsOf
  <2>6. EndsAt(id, t, n) => RelUsable(id) /\ RelRec(id).type = t /\ RelRec(id).to = n
    BY <2>4 DEF EndsAt, IsOf
  <2>7. id \in RelIds /\ RelUsable(id) => id \in LiveRels BY LiveRelsAre
  <2>8. QED BY <2>1, <2>2, <2>3, <2>5, <2>6, <2>7 DEF Starting, Ending
<1>6. Cardinality(Starting(t, n)) = Len(m.from2rel[n]) BY <1>2, <1>3, <1>5, ListCardinality
<1>7. Cardinality(Ending(t, n)) = Len(m.to2rel[n]) BY <1>2, <1>4, <1>5, ListCardinality
<1>8. Len(m.from2rel[n]) = FromSize(m, n) /\ Len(m.to2rel[n]) = ToSize(m, n)
  BY <1>m DEF ListInv, ListsPaired, Paired, FromSize, ToSize
<1>9. QED BY <1>m, <1>6, <1>7, <1>8

LEMMA OneTypeDegree ==
  ASSUME RelsInv, NEW n \in Names, nodeKeys[n] \in NodeIds, NEW t \in KnownTypes
  PROVE  /\ NodeDegree(n, "OUT", {t}) = FromSize(related[t], nodeKeys[n])
         /\ NodeDegree(n, "ALL", {t}) =
              FromSize(related[t], nodeKeys[n]) + ToSize(related[t], nodeKeys[n])
<1>m. PICK m : m = related[t] OBVIOUS
<1>id. PICK id : id = nodeKeys[n] OBVIOUS
<1>1. m \in Index(NodeIds, RelIds) BY <1>m DEF RelsInv, IndexTyped
<1>2. m.from2to[id] \in Seq(NodeIds) /\ m.to2from[id] \in Seq(NodeIds) BY <1>id, <1>1 DEF Index
<1>3. FromSize(m, id) \in Int /\ ToSize(m, id) \in Int BY <1>2 DEF FromSize, ToSize
<1>4. ChosenTypes({t}) = {t} /\ id # -1 BY <1>id DEF ChosenTypes, NodeIds
<1>5. NodeDegree(n, "OUT", {t}) = FromSize(m, id)
  <2>f. PICK f : f = [u \in {t} |-> FromSize(related[u], id) + 0] OBVIOUS
  <2>1. NodeDegree(n, "OUT", {t}) = SumFunction(f) BY <1>id, <1>4, <2>f DEF NodeDegree
  <2>2. DOMAIN f = {t} /\ f[t] = FromSize(m, id) BY <1>m, <1>3, <2>f
  <2>3. QED BY <1>3, <2>1, <2>2, SumOfOne
<1>6. NodeDegree(n, "ALL", {t}) = FromSize(m, id) + ToSize(m, id)
  <2>f. PICK f : f = [u \in {t} |-> FromSize(related[u], id) + ToSize(related[u], id)] OBVIOUS
  <2>1. NodeDegree(n, "ALL", {t}) = SumFunction(f) BY <1>id, <1>4, <2>f DEF NodeDegree
  <2>2. DOMAIN f = {t} /\ f[t] = FromSize(m, id) + ToSize(m, id) BY <1>m, <2>f
  <2>3. f[t] \in Int BY <1>3, <2>2
  <2>4. QED BY <2>1, <2>2, <2>3, SumOfOne
<1>7. QED BY <1>m, <1>id, <1>5, <1>6

LEMMA CountsAre ==
  ASSUME TypeInv, NamedInv
  PROVE  CountsExact
<1>1. RelsInv /\ LiveInv /\ ListInv BY TypeInvParts DEF NamedInv
<1>2. AllRelationshipIds = LiveRels
  <2>1. ASSUME NEW t \in KnownTypes, NEW n \in NodeIds
        PROVE  \A id : id \in ToSet(related[t].from2rel[n]) <=> Holds(related[t].from2rel[n], id)
    <3>1. related[t].from2rel[n] \in Seq(RelIds) BY <1>1 DEF RelsInv, IndexTyped, Index
    <3>2. QED BY <3>1 DEF ToSet, Holds
  <2>2. \A t \in KnownTypes : DOMAIN related[t].from2rel = NodeIds
    BY <1>1 DEF RelsInv, IndexTyped, Index
  <2>3. \A id : id \in AllRelationshipIds <=>
          \E t \in KnownTypes : \E n \in NodeIds : Holds(related[t].from2rel[n], id)
    <3>1. \A id : id \in AllRelationshipIds <=>
            \E t \in KnownTypes : \E n \in NodeIds : id \in ToSet(related[t].from2rel[n])
      BY <2>2 DEF AllRelationshipIds, AllRels
    <3>2. QED BY <2>1, <3>1
  <2>4. ASSUME NEW id \in AllRelationshipIds PROVE id \in LiveRels
    <3>1. PICK t \in KnownTypes : \E n \in NodeIds : Holds(related[t].from2rel[n], id) BY <2>3
    <3>2. PICK n \in NodeIds : Holds(related[t].from2rel[n], id) BY <3>1
    <3>3. id \in RelIds BY <1>1, <3>2, HeldAllocated DEF RelsInv
    <3>4. StartsAt(id, t, n) BY <1>1, <3>2 DEF ListInv, ListsLive, HoldsLive
    <3>5. RelUsable(id) BY <3>4 DEF StartsAt, IsOf
    <3>6. QED BY <1>1, <3>3, <3>5, LiveRelsAre
  <2>5. ASSUME NEW id \in LiveRels PROVE id \in AllRelationshipIds
    <3>r. PICK r : r = RelRec(id) OBVIOUS
    <3>1. r \in Relationship /\ PlacedIn(related, r, id) BY <1>1, <3>r, LivePlaced
    <3>2. r.type \in KnownTypes /\ r.from \in NodeIds
          /\ Times(related[r.type].from2rel[r.from], id) = 1
      BY <3>1 DEF Relationship, PlacedIn, KnownTypes
    <3>3. related[r.type].from2rel[r.from] \in Seq(RelIds)
      BY <1>1, <3>2 DEF RelsInv, IndexTyped, Index
    <3>4. Holds(related[r.type].from2rel[r.from], id) BY <3>2, <3>3, TimesTyped
    <3>5. QED BY <2>3, <3>2, <3>4
  <2>6. QED BY <2>4, <2>5
<1>3. ASSUME NEW t \in KnownTypes
      PROVE  GetRelationshipTypeCount(t) = Cardinality({id \in LiveRels : RelRec(id).type = t})
  <2>1. \A id \in LiveRels : OfType(id, t) <=> RelRec(id).type = t
    <3>1. SUFFICES ASSUME NEW id \in LiveRels PROVE OfType(id, t) <=> RelRec(id).type = t
      OBVIOUS
    <3>2. id \in Int /\ RelUsable(id) BY <1>1, LiveRelsAre DEF RelIds
    <3>pair. PICK pair : pair = <<RelRec(id).from, RelRec(id).to>> OBVIOUS
    <3>3. pair \in Pairs /\ IsOf(id, RelRec(id).type, pair)
      BY <1>1, <3>2, <3>pair, IsOfTyped DEF RelsInv
    <3>4. QED BY <3>3 DEF OfType, IsOf
  <2>2. \A id \in RelIds : OfType(id, t) => id \in LiveRels
    BY <1>1, LiveRelsAre DEF OfType, IsOf
  <2>3. LiveRels \subseteq RelIds BY <1>1, LiveRelsAre
  <2>4. LiveOf(t) = {id \in LiveRels : RelRec(id).type = t} BY <2>1, <2>2, <2>3 DEF LiveOf
  <2>5. QED BY <1>1, <2>4 DEF GetRelationshipTypeCount, TypeCount, ListInv, TypesCounted
<1>4. ASSUME NEW t \in KnownTypes, NEW n \in LiveNames
      PROVE  /\ NodeDegree(n, "OUT", {t}) = Cardinality(Starting(t, nodeKeys[n]))
             /\ NodeDegree(n, "ALL", {t}) =
                  Cardinality(Starting(t, nodeKeys[n])) + Cardinality(Ending(t, nodeKeys[n]))
  <2>1. n \in Names /\ nodeKeys[n] \in NodeIds BY DEF LiveNames, TypeInv, TypeOK
  <2>2. QED BY <1>1, <2>1, DegreesAre, OneTypeDegree
<1>5. QED BY <1>2, <1>3, <1>4 DEF CountsExact, Starting, Ending

\* For the same client the count of a type, the degrees of a node and the list
\* of all relationships are those of the relationships that exist.
THEOREM CountsAreExact ==
  ASSUME NamedClient
  PROVE  Spec => []CountsExact
<1>1. TypeInv /\ NamedInv => CountsExact BY CountsAre
<1>2. QED BY <1>1, NamedInvHolds, PTL

\* The numbers of a pair lead one to one to its relationships.
LEMMA NumbersCount ==
  ASSUME RelsInv, NumberInv, KeyInv, NEW t \in KnownTypes, NEW pair \in Pairs
  PROVE  LET ids == {id \in RelIds : IsOf(id, t, pair)} IN
         /\ ids = {relationshipKeys[<<t, k>>][pair] : k \in 1 .. relatedCounts[t][pair]}
         /\ Cardinality(ids) = relatedCounts[t][pair]
<1>count. PICK count : count = relatedCounts[t][pair] OBVIOUS
<1> DEFINE ids == {id \in RelIds : IsOf(id, t, pair)}
<1> DEFINE f == [k \in 1 .. count |-> relationshipKeys[<<t, k>>][pair]]
<1>1. count \in Nat BY <1>count DEF RelsInv, CountsTyped, Pairs
<1>2. \A k \in 1 .. count : Has(relationshipKeys, <<t, k>>, pair)
  BY <1>count DEF NumberInv, CountsKeyed
<1>3. \A k \in 1 .. count : f[k] \in ids
  <2>1. SUFFICES ASSUME NEW k \in 1 .. count PROVE relationshipKeys[<<t, k>>][pair] \in ids
    OBVIOUS
  <2>id. PICK id : id = relationshipKeys[<<t, k>>][pair] OBVIOUS
  <2>2. id \in RelIds BY <1>2, <2>id DEF RelsInv, KeysAllocated, Has
  <2>3. IsOf(id, t, pair) BY <1>2, <2>id DEF KeyInv, KeysLead
  <2>4. QED BY <2>id, <2>2, <2>3
<1>4. \A k, j \in 1 .. count : f[k] = f[j] => k = j BY <1>2 DEF KeyInv, KeysDistinct
<1>5. \A id \in ids : \E k \in 1 .. count : f[k] = id
  <2>1. SUFFICES ASSUME NEW id \in ids PROVE \E k \in 1 .. count : f[k] = id OBVIOUS
  <2>2. PICK k : Has(relationshipKeys, <<t, k>>, pair) /\ relationshipKeys[<<t, k>>][pair] = id
    BY DEF KeyInv, LiveKeyed, HasNumber
  <2>3. k \in 1 .. count BY <1>count, <2>2 DEF KeyInv, KeysLead
  <2>4. QED BY <2>2, <2>3
<1>6. DOMAIN f = 1 .. count OBVIOUS
<1>7. ids = {relationshipKeys[<<t, k>>][pair] : k \in 1 .. count}
  <2>1. \A k \in 1 .. count : f[k] = relationshipKeys[<<t, k>>][pair] OBVIOUS
  <2> HIDE DEF f, ids
  <2>2. QED BY <1>3, <1>5, <2>1
<1>8. f \in [1 .. count -> ids]
  <2> HIDE DEF ids
  <2>1. QED BY <1>3
<1> HIDE DEF f, ids
<1>9. f \in Bijection(1 .. count, ids)
  BY <1>4, <1>5, <1>6, <1>8 DEF Bijection, Injection, Surjection, IsInjective
<1>10. ExistsBijection(1 .. count, ids) BY <1>9 DEF ExistsBijection
<1>11. Cardinality(ids) = count BY <1>1, <1>10, FS_CountingElements
<1>12. QED BY <1>count, <1>7, <1>11 DEF ids

DenseAt(t, n1, n2, count) ==
  /\ \A k \in 1 .. count : GetRelationshipNumber(t, n1, n2, k).map # Null
  /\ {GetRelationshipNumber(t, n1, n2, k).map : k \in 1 .. count}
       = {RelRec(id) : id \in Parallel(t, n1, n2)}
  /\ Cardinality(Parallel(t, n1, n2)) = count
  /\ GetRelationship(t, n1, n2).map =
       IF count = 0 THEN Null ELSE GetRelationshipNumber(t, n1, n2, 1).map
  /\ \A k \in count + 1 .. MaxRelationships : RelationshipKeyId(t, k, n1, n2) = -1

LEMMA NumbersAre ==
  ASSUME TypeInv, NamedInv
  PROVE  NumbersDense
<1>1. RelsInv /\ NumberInv /\ KeyInv BY TypeInvParts DEF NamedInv
<1>s. SUFFICES ASSUME NEW t \in KnownTypes, NEW n1 \in NodeIds, NEW n2 \in NodeIds
               PROVE  DenseAt(t, n1, n2, relatedCounts[t][<<n1, n2>>])
  BY DEF NumbersDense, DenseAt
<1>2. PICK count : count = relatedCounts[t][<<n1, n2>>] OBVIOUS
<1>pair. PICK pair : pair = <<n1, n2>> OBVIOUS
<1>ids. PICK ids : ids = Parallel(t, n1, n2) OBVIOUS
<1>3. pair \in Pairs /\ n1 # -1 /\ n2 # -1 BY <1>pair DEF Pairs, NodeIds
<1>4. count \in Nat BY <1>1, <1>2, <1>3, <1>pair DEF RelsInv, CountsTyped, Pairs
<1>5. ids = {id \in RelIds : IsOf(id, t, pair)} BY <1>1, <1>ids, <1>pair, LiveRelsAre
<1>6. /\ ids = {relationshipKeys[<<t, k>>][pair] : k \in 1 .. count}
      /\ Cardinality(ids) = count
  BY <1>1, <1>2, <1>3, <1>5, <1>pair, NumbersCount
<1>7. ASSUME NEW k \in 1 .. count
      PROVE  /\ RelationshipKeyId(t, k, n1, n2) = relationshipKeys[<<t, k>>][pair]
             /\ FetchRel(RelationshipKeyId(t, k, n1, n2))
                  = Found(RelRec(relationshipKeys[<<t, k>>][pair]))
             /\ GetRelationshipNumber(t, n1, n2, k).map
                  = RelRec(relationshipKeys[<<t, k>>][pair])
             /\ RelRec(relationshipKeys[<<t, k>>][pair]) # Null
  <2>id. PICK id : id = relationshipKeys[<<t, k>>][pair] OBVIOUS
  <2>1. Has(relationshipKeys, <<t, k>>, pair)
    BY <1>1, <1>2, <1>3, <1>pair DEF NumberInv, CountsKeyed
  <2>2. RelationshipKeyId(t, k, n1, n2) = id BY <1>pair, <2>id, <2>1, KeyIdIs
  <2>3. IsOf(id, t, pair) BY <1>1, <2>id, <2>1 DEF KeyInv, KeysLead
  <2>4. id + 1 \in DOMAIN relationships /\ RelRec(id) # Null BY <2>3 DEF IsOf, RelUsable
  <2>5. FetchRel(id) = Found(RelRec(id)) BY <2>4 DEF FetchRel
  <2>6. GetRelationshipNumber(t, n1, n2, k).map = RelRec(id)
    BY <1>3, <2>2, <2>5 DEF GetRelationshipNumber, Found
  <2>7. QED BY <2>id, <2>2, <2>4, <2>5, <2>6
<1>8. {GetRelationshipNumber(t, n1, n2, k).map : k \in 1 .. count}
        = {RelRec(id) : id \in ids}
  <2>1. {RelRec(id) : id \in ids}
          = {RelRec(relationshipKeys[<<t, k>>][pair]) : k \in 1 .. count}
    BY <1>6
  <2>2. QED BY <1>7, <2>1
<1>9. GetRelationship(t, n1, n2).map =
        IF count = 0 THEN Null ELSE GetRelationshipNumber(t, n1, n2, 1).map
  <2>1. CASE count = 0
    <3>1. Checked(t, n1, n2, 1) = "refused" BY <1>2, <1>3, <2>1 DEF Checked
    <3>2. GetRelationship(t, n1, n2) = Found(Null) BY <3>1 DEF GetRelationship
    <3>3. QED BY <2>1, <3>2 DEF Found
  <2>2. CASE count # 0
    <3>1. Checked(t, n1, n2, 1) = "found" BY <1>2, <1>3, <1>4, <2>2 DEF Checked
    <3>2. GetRelationship(t, n1, n2) = FetchRel(RelationshipKeyId(t, 1, n1, n2))
      BY <3>1 DEF GetRelationship
    <3>3. GetRelationshipNumber(t, n1, n2, 1) = FetchRel(RelationshipKeyId(t, 1, n1, n2))
      BY <1>3 DEF GetRelationshipNumber
    <3>4. QED BY <2>2, <3>2, <3>3
  <2>3. QED BY <2>1, <2>2
<1>10. ASSUME NEW k \in count + 1 .. MaxRelationships PROVE RelationshipKeyId(t, k, n1, n2) = -1
  <2>1. ~ Has(relationshipKeys, <<t, k>>, pair)
    BY <1>1, <1>2, <1>4, <1>pair DEF KeyInv, KeysLead
  <2>2. QED BY <1>pair, <2>1, KeyIdIs
<1>11. \A k \in 1 .. count : GetRelationshipNumber(t, n1, n2, k).map # Null BY <1>7
<1>12. DenseAt(t, n1, n2, count) BY <1>ids, <1>6, <1>8, <1>9, <1>10, <1>11 DEF DenseAt
<1>13. QED BY <1>2, <1>12

\* For the same client the numbers of a pair are dense: 1 up to the count lead
\* one to one to its relationships, and nothing lies beyond, whatever number
\* is removed and however the last one moves into its place.
THEOREM NumbersAreDense ==
  ASSUME NamedClient
  PROVE  Spec => []NumbersDense
<1>1. TypeInv /\ NamedInv => NumbersDense BY NumbersAre
<1>2. QED BY <1>1, NamedInvHolds, PTL
-----------------------------------------------------------------------------
(* A pair with relationships is a pair of nodes that have names. *)

Used(id) == \E n \in Names : nodeKeys[n] = id

Homed ==
  \A t \in KnownTypes : \A n1, n2 \in NodeIds :
    relatedCounts[t][<<n1, n2>>] # 0 => Used(n1) /\ Used(n2)

CountAt(t, pair) == IF t \in KnownTypes THEN relatedCounts[t][pair] ELSE 0

LEMMA DetachedCounts ==
  ASSUME RelsInv, IndexInv, ListInv, NEW id \in NodeIds,
         \A t \in KnownTypes : FromSize(related[t], id) = 0 /\ ToSize(related[t], id) = 0,
         NEW t \in KnownTypes, NEW x \in NodeIds
  PROVE  relatedCounts[t][<<id, x>>] = 0 /\ relatedCounts[t][<<x, id>>] = 0
<1>m. PICK m : m = related[t] OBVIOUS
<1>1. m \in Index(NodeIds, RelIds) BY <1>m DEF RelsInv, IndexTyped
<1>2. Len(m.from2to[id]) = 0 /\ Len(m.to2from[id]) = 0 BY <1>m DEF FromSize, ToSize
<1>3. Paired(NodeIds, m, relatedCounts[t]) BY <1>m DEF ListInv, ListsPaired
<1>4. BothWays(NodeIds, m) BY <1>m DEF IndexInv, Ends, IndicesSound
<1>5. m.from2to[id] = <<>> /\ m.to2from[id] = <<>>
  <2>1. m.from2to[id] \in Seq(NodeIds) /\ m.to2from[id] \in Seq(NodeIds) BY <1>1 DEF Index
  <2>2. QED BY <1>2, <2>1
<1>6. Times(m.from2to[id], x) = 0 /\ Times(m.to2from[id], x) = 0
  BY <1>5, CountEmpty DEF Times
<1>7. Times(m.from2to[x], id) = 0 BY <1>4, <1>6 DEF BothWays, Mirrored
<1>8. /\ Times(m.from2to[id], x) = relatedCounts[t][<<id, x>>]
      /\ Times(m.from2to[x], id) = relatedCounts[t][<<x, id>>]
  BY <1>3 DEF Paired
<1>9. QED BY <1>6, <1>7, <1>8

\* Removing a number up to the count never throws.
LEMMA RemoveNumberDone ==
  ASSUME RelsInv, NumberInv, KeyInv, NEW t \in KnownTypes,
         NEW n1 \in NodeIds, NEW n2 \in NodeIds,
         NEW k \in Int, k >= 1, k <= relatedCounts[t][<<n1, n2>>],
         NEW call, RemoveNumber(call, t, n1, n2, k)
  PROVE  Return(call, "done", -1) /\ UNCHANGED nodeKeys /\ KnownTypes' = KnownTypes
<1>pair. PICK pair : pair = <<n1, n2>> OBVIOUS
<1>count. PICK count : count = relatedCounts[t][pair] OBVIOUS
<1>id. PICK id : id = RelationshipKeyId(t, k, n1, n2) OBVIOUS
<1>last. PICK last : last = RelationshipKeyId(t, count, n1, n2) OBVIOUS
<1>1. pair \in Pairs BY <1>pair DEF Pairs
<1>2. count \in Nat /\ k \in 1 .. count
  BY <1>1, <1>pair, <1>count DEF RelsInv, CountsTyped, Pairs
<1>3. Has(relationshipKeys, <<t, k>>, pair) /\ Has(relationshipKeys, <<t, count>>, pair)
  BY <1>1, <1>2, <1>count DEF NumberInv, CountsKeyed
<1>4. id = relationshipKeys[<<t, k>>][pair] /\ last = relationshipKeys[<<t, count>>][pair]
  BY <1>3, <1>id, <1>last, <1>pair, KeyIdIs
<1>5. id + 1 \in DOMAIN relationships /\ RelUsable(last)
  BY <1>3, <1>4 DEF KeyInv, KeysLead, IsOf, RelUsable
<1>6. count # k => last # id BY <1>3, <1>4 DEF KeyInv, KeysDistinct
<1>7. Return(call, "done", -1) /\ UNCHANGED nodeKeys
  BY <1>5, <1>6, <1>id, <1>last, <1>count, <1>pair DEF RemoveNumber, Moves, nodeVars
<1>8. KnownTypes' = KnownTypes BY RemoveNumberEffect DEF NumberRemoved, KnownTypes
<1>9. QED BY <1>7, <1>8

\* The pairs with relationships stay pairs with names.
LEMMA HomedStays ==
  ASSUME Homed, UNCHANGED relatedCounts, KnownTypes' = KnownTypes,
         \A id \in NodeIds : Used(id) => Used(id)'
  PROVE  Homed'
BY DEF Homed

LEMMA HomedAdded ==
  ASSUME NodesTyped, Homed, AddNodeStep
  PROVE  Homed'
<1>1. PICK n \in Names, id \in NodeIds :
        nodeKeys[n] = -1 /\ nodeKeys' = [nodeKeys EXCEPT ![n] = id]
  BY DEF AddNodeStep
<1>2. \A x \in Names : nodeKeys[x] # -1 => nodeKeys'[x] = nodeKeys[x]
  BY <1>1 DEF NodesTyped
<1>3. \A i \in NodeIds : Used(i) => Used(i)'
  <2>1. SUFFICES ASSUME NEW i \in NodeIds, NEW x \in Names, nodeKeys[x] = i
                 PROVE  nodeKeys'[x] = i
    BY DEF Used
  <2>2. i # -1 BY DEF NodeIds
  <2>3. QED BY <1>2, <2>1, <2>2
<1>4. UNCHANGED relatedCounts /\ KnownTypes' = KnownTypes
  BY DEF AddNodeStep, relVars, KnownTypes
<1>5. QED BY <1>3, <1>4, HomedStays

LEMMA HomedDetached ==
  ASSUME NodesTyped, RelsInv, IndexInv, ListInv, Homed, NEW n \in Names, NEW call, Detached(n),
         RemoveNodeDone(call, n) \/ RemoveNodeThrows(call, n)
  PROVE  Homed'
<1>1. RemoveNodeDone(call, n) /\ Idle BY DetachedIdle
<1>id. PICK id : id = nodeKeys[n] OBVIOUS
<1>2. id # -1 /\ nodeKeys' = [nodeKeys EXCEPT ![n] = -1]
  BY <1>1, <1>id DEF RemoveNodeDone, ForgetKey
<1>3. id \in NodeIds BY <1>2, <1>id DEF NodesTyped
<1>4. UNCHANGED relatedCounts /\ KnownTypes' = KnownTypes BY <1>1 DEF Idle
<1>5. ASSUME NEW t \in KnownTypes, NEW x \in NodeIds
      PROVE  relatedCounts[t][<<id, x>>] = 0 /\ relatedCounts[t][<<x, id>>] = 0
  <2>1. \A u \in KnownTypes : FromSize(related[u], id) = 0 /\ ToSize(related[u], id) = 0
    BY <1>2, <1>id DEF Detached
  <2>2. QED BY <1>3, <2>1, DetachedCounts
<1>6. ASSUME NEW x \in NodeIds, x # id, Used(x) PROVE Used(x)'
  <2>1. PICK y \in Names : nodeKeys[y] = x BY <1>6 DEF Used
  <2>2. nodeKeys'[y] = x BY <1>2, <1>6, <1>id, <2>1 DEF NodesTyped
  <2>3. QED BY <2>2 DEF Used
<1>7. SUFFICES ASSUME NEW t \in KnownTypes, NEW n1 \in NodeIds, NEW n2 \in NodeIds,
                      relatedCounts[t][<<n1, n2>>] # 0
               PROVE  Used(n1)' /\ Used(n2)'
  BY <1>4 DEF Homed
<1>8. n1 # id /\ n2 # id BY <1>5, <1>7
<1>9. Used(n1) /\ Used(n2) BY <1>7 DEF Homed
<1>10. QED BY <1>6, <1>8, <1>9

LEMMA HomedLink ==
  ASSUME RelsInv, Homed, NEW t \in Types, NEW n1 \in NodeIds, NEW n2 \in NodeIds,
         Used(n1), Used(n2), NEW shown, NEW props, NEW call, Link(call, t, n1, n2, shown, props)
  PROVE  Homed'
<1>pair. PICK pair : pair = <<n1, n2>> OBVIOUS
<1>1. /\ related' = MapPut(related, t, Put(RelatedOf(t), n1, n2, NextRelId))
      /\ relatedCounts' =
           MapPut(relatedCounts, t, [PairCounts(t) EXCEPT ![pair] = NextNumber(t, n1, n2)])
      /\ UNCHANGED nodeKeys
  BY <1>pair DEF Link, nodeVars
<1>2. KnownTypes' = KnownTypes \cup {t} /\ DOMAIN relatedCounts = KnownTypes
  BY <1>1 DEF KnownTypes, MapPut, RelsInv, CountsTyped
<1>3. \A id : Used(id)' <=> Used(id) BY <1>1 DEF Used
<1>4. SUFFICES ASSUME NEW u \in KnownTypes', NEW m1 \in NodeIds, NEW m2 \in NodeIds,
                      relatedCounts'[u][<<m1, m2>>] # 0
               PROVE  Used(m1) /\ Used(m2)
  BY <1>3 DEF Homed
<1>q. PICK q : q = <<m1, m2>> OBVIOUS
<1>5. CASE q = pair BY <1>5, <1>pair, <1>q
<1>6. CASE q # pair
  <2>1. u \in KnownTypes /\ relatedCounts'[u][q] = relatedCounts[u][q]
    <3>1. CASE u # t BY <1>1, <1>2, <3>1 DEF MapPut
    <3>2. CASE u = t
      <4>1. relatedCounts'[t] = [PairCounts(t) EXCEPT ![pair] = NextNumber(t, n1, n2)]
        BY <1>1 DEF MapPut
      <4>2. q \in Pairs BY <1>q DEF Pairs
      <4>3. PairCounts(t) \in [Pairs -> Nat] BY DEF PairCounts, RelsInv, CountsTyped, Pairs
      <4>4. relatedCounts'[t][q] = PairCounts(t)[q] BY <1>6, <4>1, <4>2, <4>3
      <4>5. PairCounts(t)[q] # 0 BY <1>4, <1>q, <3>2, <4>4
      <4>6. t \notin KnownTypes => PairCounts(t)[q] = 0 BY <4>2 DEF PairCounts, Pairs
      <4>7. t \in KnownTypes => PairCounts(t) = relatedCounts[t] BY DEF PairCounts
      <4>8. QED BY <3>2, <4>4, <4>5, <4>6, <4>7
    <3>3. QED BY <3>1, <3>2
  <2>2. QED BY <1>4, <1>q, <2>1 DEF Homed
<1>7. QED BY <1>5, <1>6

LEMMA HomedRemove ==
  ASSUME RelsInv, Homed, RemoveNumberStep
  PROVE  Homed'
<1>1. PICK t \in KnownTypes, n1 \in NodeIds, n2 \in NodeIds, k \in Int : \E call :
        relatedCounts[t][<<n1, n2>>] # 0 /\ RemoveNumber(call, t, n1, n2, k)
  BY DEF RemoveNumberStep
<1>pair. PICK pair : pair = <<n1, n2>> OBVIOUS
<1>2. /\ \E c : relatedCounts' = [relatedCounts EXCEPT ![t][pair] = c]
      /\ \E m : related' = [related EXCEPT ![t] = m]
      /\ UNCHANGED nodeKeys
  BY <1>1, <1>pair DEF RemoveNumber, nodeVars
<1>3. KnownTypes' = KnownTypes /\ DOMAIN relatedCounts = KnownTypes
  BY <1>2 DEF KnownTypes, RelsInv, CountsTyped
<1>4. \A id : Used(id)' <=> Used(id) BY <1>2 DEF Used
<1>5. SUFFICES ASSUME NEW u \in KnownTypes, NEW m1 \in NodeIds, NEW m2 \in NodeIds,
                      relatedCounts'[u][<<m1, m2>>] # 0
               PROVE  Used(m1) /\ Used(m2)
  BY <1>3, <1>4 DEF Homed
<1>q. PICK q : q = <<m1, m2>> OBVIOUS
<1>6. CASE u = t /\ q = pair BY <1>1, <1>6, <1>pair, <1>q DEF Homed
<1>7. CASE ~ (u = t /\ q = pair)
  <2>1. q \in Pairs /\ relatedCounts[t] \in [Pairs -> Nat]
    BY <1>q DEF RelsInv, CountsTyped, Pairs
  <2>2. relatedCounts'[u][q] = relatedCounts[u][q] BY <1>2, <1>3, <1>7, <2>1
  <2>3. QED BY <1>5, <1>q, <2>2 DEF Homed
<1>8. QED BY <1>6, <1>7

\* A relationship between nodes that have names.
LinkUsedStep ==
  \E t \in Types, n1 \in NodeIds, n2 \in NodeIds, shown \in Int, props \in StoredMaps :
    \E call : Used(n1) /\ Used(n2) /\ Link(call, t, n1, n2, shown, props)

LEMMA HomedKeeps ==
  ASSUME TypeInv, NamedInv, Homed,
         \/ Nothing \/ AddNodeStep \/ NodePropsStep \/ InsertNodeStep \/ RemoveDetachedStep
         \/ LinkUsedStep \/ RemoveOneStep \/ RelPropsStep
  PROVE  Homed'
<1>1. NodesTyped /\ RelsInv /\ IndexInv /\ ListInv BY TypeInvParts DEF NamedInv
<1>3. CASE Nothing \/ NodePropsStep \/ InsertNodeStep \/ RelPropsStep
  <2>1. UNCHANGED <<relatedCounts, nodeKeys>> /\ KnownTypes' = KnownTypes
    BY <1>3 DEF Nothing, NodePropsStep, InsertNodeStep, RelPropsStep, nodeVars, relVars, KnownTypes
  <2>2. QED BY <2>1, HomedStays DEF Used
<1>4. CASE AddNodeStep BY <1>1, <1>4, HomedAdded
<1>5. CASE RemoveDetachedStep
  <2>1. PICK n \in Names : \E call :
          Detached(n) /\ (RemoveNodeDone(call, n) \/ RemoveNodeThrows(call, n))
    BY <1>5 DEF RemoveDetachedStep
  <2>2. QED BY <1>1, <2>1, HomedDetached
<1>6. CASE LinkUsedStep
  <2>1. PICK t \in Types, n1 \in NodeIds, n2 \in NodeIds, shown \in Int, props \in StoredMaps :
          \E call : Used(n1) /\ Used(n2) /\ Link(call, t, n1, n2, shown, props)
    BY <1>6 DEF LinkUsedStep
  <2>2. QED BY <1>1, <2>1, HomedLink
<1>7. CASE RemoveOneStep
  <2>1. RemoveNumberStep BY <1>7 DEF RemoveOneStep, RemoveNumberStep
  <2>2. QED BY <1>1, <2>1, HomedRemove
<1>8. QED BY <1>3, <1>4, <1>5, <1>6, <1>7
=============================================================================

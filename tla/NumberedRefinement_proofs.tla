----------------------- MODULE NumberedRefinement_proofs -----------------------
(***************************************************************************)
(* FastUtilGraph implements NumberedGraph: for the client of the by-name    *)
(* operations the keys, counts and maps of a pair are a list of parallel    *)
(* relationships, and every operation returns what that list says.          *)
(***************************************************************************)
EXTENDS NamedClient_proofs, MCFastUtilGraph

\* The client of NumberedGraph: it removes the relationships of a node before
\* the node, and numbers start at 1.
ListClient == Ops \subseteq NamedPropertyOps /\ \A k \in Numbers : k >= 1

LEMMA ListClientIs ==
  ASSUME ListClient
  PROVE  /\ NamedClient /\ StableClient
         /\ \A op \in {"removeNode", "updateNodeProperties", "updateNodeProperty",
                       "deleteNodeProperty", "deleteNodeProperties",
                       "removeRelationshipById", "deleteRelationshipProperties",
                       "updateRelationshipPropertiesById", "updateRelationshipPropertyById",
                       "deleteRelationshipPropertyById", "deleteRelationshipPropertiesById"} :
              op \notin Ops
BY DEF ListClient, NamedPropertyOps, NamedOps, NamedClient, NumberingClient, StableClient

ListInvariant == TypeInv /\ NamedInv /\ NodeIdsSound /\ Homed

-----------------------------------------------------------------------------
(* The lists *)

EntryOf(list, id) == [id |-> id, props |-> list[id + 1].props]

\* The list of a pair is what the numbers 1 up to its count lead to.
ListRead(t, n1, n2, pair) ==
  /\ ListOf(t, n1, n2) =
       [k \in 1 .. CountAt(t, pair) |-> EntryOf(relationships, relationshipKeys[<<t, k>>][pair])]
  /\ CountAt(t, pair) \in Nat
  /\ \A k \in 1 .. CountAt(t, pair) :
       /\ Has(relationshipKeys, <<t, k>>, pair)
       /\ relationshipKeys[<<t, k>>][pair] \in RelIds

ListsRead ==
  \A t : \A n1, n2 \in NodeIds : \A pair : pair = <<n1, n2>> => ListRead(t, n1, n2, pair)

LEMMA ListsAre == RelsInv /\ NumberInv => ListsRead
<1>1. SUFFICES ASSUME RelsInv, NumberInv, NEW t, NEW n1 \in NodeIds, NEW n2 \in NodeIds,
                      NEW pair, pair = <<n1, n2>>
               PROVE  ListRead(t, n1, n2, pair)
  BY DEF ListsRead
<1>2. pair \in Pairs BY <1>1 DEF Pairs
<1>count. PICK count : count = CountAt(t, pair) OBVIOUS
<1>3. count \in Nat BY <1>1, <1>2, <1>count DEF CountAt, RelsInv, CountsTyped, Pairs
<1>4. ASSUME NEW k \in 1 .. count
      PROVE  /\ Has(relationshipKeys, <<t, k>>, pair)
             /\ relationshipKeys[<<t, k>>][pair] \in RelIds
  <2>1. t \in KnownTypes /\ count = relatedCounts[t][pair] BY <1>3, <1>4, <1>count DEF CountAt
  <2>2. Has(relationshipKeys, <<t, k>>, pair) BY <1>1, <1>2, <2>1 DEF NumberInv, CountsKeyed
  <2>3. QED BY <1>1, <2>2 DEF RelsInv, KeysAllocated, Has
<1>5. \A k \in 1 .. count :
        RelationshipKeyId(t, k, n1, n2) = relationshipKeys[<<t, k>>][pair]
  BY <1>1, <1>4, KeyIdIs
<1>6. count = IF t \in KnownTypes THEN relatedCounts[t][<<n1, n2>>] ELSE 0
  BY <1>1, <1>count DEF CountAt
<1>7. ListOf(t, n1, n2) =
        [k \in 1 .. count |->
           [id    |-> RelationshipKeyId(t, k, n1, n2),
            props |-> RelRec(RelationshipKeyId(t, k, n1, n2)).props]]
  BY <1>6 DEF ListOf
<1>8. ListOf(t, n1, n2) = [k \in 1 .. count |-> EntryOf(relationships, relationshipKeys[<<t, k>>][pair])]
  BY <1>5, <1>7 DEF EntryOf, RelRec
<1>9. QED BY <1>3, <1>4, <1>8, <1>count DEF ListRead

LEMMA ListsAreNext == RelsInv' /\ NumberInv' => ListsRead'
BY ListsAre, PTL

\* What a step does to the lists: nothing, or it replaces one of them.
SameLists == \A t : \A n1, n2 \in NodeIds : ListOf(t, n1, n2)' = ListOf(t, n1, n2)

OneList(t, n1, n2, list) ==
  \A u : \A m1, m2 \in NodeIds :
    ListOf(u, m1, m2)' = IF u = t /\ m1 = n1 /\ m2 = n2 THEN list ELSE ListOf(u, m1, m2)

LEMMA ListsStay ==
  ASSUME UNCHANGED <<relationshipKeys, relationships, relatedCounts>>, KnownTypes' = KnownTypes
  PROVE  SameLists
<1>1. \A t, k, n1, n2 : RelationshipKeyId(t, k, n1, n2)' = RelationshipKeyId(t, k, n1, n2)
  BY DEF RelationshipKeyId, KeyMap
<1>2. \A id : RelRec(id)' = RelRec(id) BY DEF RelRec
<1>3. QED BY <1>1, <1>2 DEF SameLists, ListOf

\* The lists of Sequences and SequencesExt, entry by entry.
LEMMA AppendIs ==
  ASSUME NEW n \in Nat, NEW s, s = [j \in 1 .. n |-> s[j]], NEW x
  PROVE  Append(s, x) = [j \in 1 .. n + 1 |-> IF j = n + 1 THEN x ELSE s[j]]
<1>S. PICK S : S = {s[j] : j \in 1 .. n} \cup {x} OBVIOUS
<1>1. s \in Seq(S) /\ Len(s) = n BY <1>S
<1>2. x \in S BY <1>S
<1>3. QED BY <1>1, <1>2

LEMMA FrontIs ==
  ASSUME NEW n \in Nat, n # 0, NEW s, s = [j \in 1 .. n |-> s[j]]
  PROVE  Front(s) = [j \in 1 .. n - 1 |-> s[j]] /\ Last(s) = s[n]
<1>S. PICK S : S = {s[j] : j \in 1 .. n} OBVIOUS
<1>1. s \in Seq(S) /\ Len(s) = n BY <1>S
<1>2. Front(s) = SubSeq(s, 1, n - 1) BY <1>1 DEF Front
<1>3. SubSeq(s, 1, n - 1) = [j \in 1 .. n - 1 |-> s[j]] BY <1>1
<1>4. Last(s) = s[n] BY <1>1 DEF Last
<1>5. QED BY <1>2, <1>3, <1>4

LEMMA WithoutIs ==
  ASSUME NEW n \in Nat, NEW s, s = [j \in 1 .. n |-> s[j]], NEW k \in 1 .. n
  PROVE  Front(ReplaceAt(s, k, Last(s))) = [j \in 1 .. n - 1 |-> IF j = k THEN s[n] ELSE s[j]]
<1>1. Last(s) = s[n] BY FrontIs
<1>r. PICK r : r = ReplaceAt(s, k, Last(s)) OBVIOUS
<1>2. r = [j \in 1 .. n |-> IF j = k THEN s[n] ELSE s[j]] BY <1>1, <1>r DEF ReplaceAt
<1>3. r = [j \in 1 .. n |-> r[j]] BY <1>2
<1>4. n # 0 BY n \in Nat
<1>5. Front(r) = [j \in 1 .. n - 1 |-> r[j]] BY <1>3, <1>4, FrontIs
<1>6. \A j \in 1 .. n - 1 : r[j] = IF j = k THEN s[n] ELSE s[j] BY <1>2
<1>7. Front(r) = [j \in 1 .. n - 1 |-> IF j = k THEN s[n] ELSE s[j]] BY <1>5, <1>6
<1>8. QED BY <1>7, <1>r

\* The properties of the relationships in ids are what they were.
SameProps(ids) == \A id \in ids : EntryOf(relationships', id) = EntryOf(relationships, id)

LEMMA LinkLists ==
  ASSUME RelsInv, NumberInv, RelsInv', NumberInv',
         NEW t \in Types, NEW n1 \in NodeIds, NEW n2 \in NodeIds,
         NEW shown \in Int, NEW props \in StoredMaps, NEW call, Link(call, t, n1, n2, shown, props)
  PROVE  OneList(t, n1, n2,
                 Append(ListOf(t, n1, n2), [id |-> Len(relationships), props |-> props]))
<1>pair. PICK pair : pair = <<n1, n2>> OBVIOUS
<1>new. PICK new : new = Len(relationships) OBVIOUS
<1>k. PICK k : k = NextNumber(t, n1, n2) OBVIOUS
<1>old. PICK old : old = ListOf(t, n1, n2) OBVIOUS
<1>x. PICK x : x = [id |-> new, props |-> props] OBVIOUS
<1>0. NumberAdded(t, pair, k, new) BY <1>pair, <1>new, <1>k, LinkAdds DEF NumberInv
<1>1. /\ new \in Nat /\ pair \in Pairs /\ KnownTypes' = KnownTypes \cup {t}
      /\ k = CountAt(t, pair) + 1
      /\ \A u \in KnownTypes', q \in Pairs :
           relatedCounts'[u][q] = IF u = t /\ q = pair THEN k
                                  ELSE IF u \in KnownTypes THEN relatedCounts[u][q] ELSE 0
      /\ \A u, j, q :
           /\ Has(relationshipKeys', <<u, j>>, q) <=>
                Has(relationshipKeys, <<u, j>>, q) \/ (u = t /\ j = k /\ q = pair)
           /\ Has(relationshipKeys', <<u, j>>, q) =>
                relationshipKeys'[<<u, j>>][q] =
                  IF u = t /\ j = k /\ q = pair THEN new ELSE relationshipKeys[<<u, j>>][q]
  BY <1>0 DEF NumberAdded, CountAt
<1>2. /\ \A i \in DOMAIN relationships : relationships'[i] = relationships[i]
      /\ relationships'[new + 1].props = props
  <2>1. Linked(t, n1, n2, shown, props) BY RelsInvIs, LinkEffect
  <2>2. QED BY <1>new, <2>1 DEF Linked
<1>3. SameProps(RelIds) /\ EntryOf(relationships', new) = x
  <2>1. \A id \in RelIds : id + 1 \in DOMAIN relationships BY DEF RelsInv, ListTyped, RelIds
  <2>2. QED BY <1>2, <1>x, <2>1 DEF SameProps, EntryOf
<1>4. ListsRead /\ ListsRead' BY ListsAre, ListsAreNext
<1>s. SUFFICES ASSUME NEW u, NEW m1 \in NodeIds, NEW m2 \in NodeIds
               PROVE  ListOf(u, m1, m2)' = IF u = t /\ m1 = n1 /\ m2 = n2 THEN Append(old, x)
                                           ELSE ListOf(u, m1, m2)
  BY <1>old, <1>x, <1>new DEF OneList, NodeIds
<1>q. PICK q : q = <<m1, m2>> OBVIOUS
<1>5. q \in Pairs /\ (q = pair <=> m1 = n1 /\ m2 = n2) BY <1>q, <1>pair DEF Pairs
<1>c. PICK c : c = CountAt(u, q) OBVIOUS
<1>6. /\ ListOf(u, m1, m2) =
           [j \in 1 .. c |-> EntryOf(relationships, relationshipKeys[<<u, j>>][q])]
      /\ c \in Nat
      /\ \A j \in 1 .. c :
           /\ Has(relationshipKeys, <<u, j>>, q)
           /\ relationshipKeys[<<u, j>>][q] \in RelIds
  <2>1. /\ ListOf(u, m1, m2) =
             [j \in 1 .. CountAt(u, q) |->
                EntryOf(relationships, relationshipKeys[<<u, j>>][q])]
        /\ CountAt(u, q) \in Nat
        /\ \A j \in 1 .. CountAt(u, q) :
             /\ Has(relationshipKeys, <<u, j>>, q)
             /\ relationshipKeys[<<u, j>>][q] \in RelIds
    <3>1. ListRead(u, m1, m2, q) BY <1>4, <1>q DEF ListsRead
    <3>2. QED BY <3>1 DEF ListRead
  <2>2. QED BY <2>1, <1>c
<1>d. PICK d : d = CountAt(u, q)' OBVIOUS
<1>7. /\ ListOf(u, m1, m2)' =
           [j \in 1 .. d |-> EntryOf(relationships', relationshipKeys'[<<u, j>>][q])]
      /\ \A j \in 1 .. d : Has(relationshipKeys', <<u, j>>, q)
  <2>1. /\ ListOf(u, m1, m2)' =
             [j \in 1 .. CountAt(u, q)' |->
                EntryOf(relationships', relationshipKeys'[<<u, j>>][q])]
        /\ \A j \in 1 .. CountAt(u, q)' : Has(relationshipKeys', <<u, j>>, q)
    <3>1. ListRead(u, m1, m2, q)' BY <1>4, <1>q DEF ListsRead, NodeIds
    <3>2. QED BY <3>1 DEF ListRead
  <2>2. QED BY <2>1, <1>d
<1>8. d = IF u = t /\ q = pair THEN k ELSE c
  BY <1>1, <1>5, <1>c, <1>d DEF CountAt
<1>9. ASSUME NEW j \in 1 .. d, ~ (u = t /\ j = k /\ q = pair), j \in 1 .. c
      PROVE  EntryOf(relationships', relationshipKeys'[<<u, j>>][q])
               = EntryOf(relationships, relationshipKeys[<<u, j>>][q])
  BY <1>1, <1>3, <1>6, <1>7, <1>9 DEF SameProps
<1>10. CASE u = t /\ q = pair
  <2>1. d = c + 1 /\ k = c + 1 BY <1>1, <1>8, <1>10, <1>c
  <2>2. EntryOf(relationships', relationshipKeys'[<<u, k>>][q]) = x
    BY <1>1, <1>3, <1>7, <1>6, <1>10, <2>1
  <2>3. \A j \in 1 .. c : j # k BY <1>6, <2>1
  <2>4. old = ListOf(u, m1, m2) BY <1>5, <1>10, <1>old
  <2>5. \A j \in 1 .. d : EntryOf(relationships', relationshipKeys'[<<u, j>>][q])
                            = IF j = c + 1 THEN x ELSE old[j]
    <3>1. SUFFICES ASSUME NEW j \in 1 .. d
                   PROVE  EntryOf(relationships', relationshipKeys'[<<u, j>>][q])
                            = IF j = c + 1 THEN x ELSE old[j]
      OBVIOUS
    <3>2. CASE j = c + 1 BY <2>1, <2>2, <3>2
    <3>3. CASE j # c + 1
      <4>1. j \in 1 .. c BY <1>6, <2>1, <3>3
      <4>2. old[j] = EntryOf(relationships, relationshipKeys[<<u, j>>][q])
        BY <1>6, <2>4, <4>1
      <4>3. QED BY <1>9, <2>3, <3>3, <4>1, <4>2
    <3>4. QED BY <3>2, <3>3
  <2>6. old = [j \in 1 .. c |-> old[j]] BY <1>6, <2>4
  <2>7. Append(old, x) = [j \in 1 .. c + 1 |-> IF j = c + 1 THEN x ELSE old[j]]
    BY <1>6, <2>6, AppendIs
  <2>8. ListOf(u, m1, m2)' = Append(old, x) BY <1>7, <2>1, <2>5, <2>7
  <2>9. QED BY <1>5, <1>10, <2>8
<1>11. CASE ~ (u = t /\ q = pair)
  <2>1. d = c BY <1>8, <1>11
  <2>2. \A j \in 1 .. c : EntryOf(relationships', relationshipKeys'[<<u, j>>][q])
                            = EntryOf(relationships, relationshipKeys[<<u, j>>][q])
    BY <1>9, <1>11, <2>1
  <2>3. ListOf(u, m1, m2)' = ListOf(u, m1, m2) BY <1>6, <1>7, <2>1, <2>2
  <2>4. QED BY <1>5, <1>11, <2>3
<1>12. QED BY <1>10, <1>11

\* Nulling one relationship, and numbering the last one anew, touches the
\* properties of no other.
LEMMA RemovedProps ==
  ASSUME RelsInv, NEW t, NEW n1, NEW n2, NEW k \in Int, NEW call, RemoveNumber(call, t, n1, n2, k)
  PROVE  SameProps(RelIds \ {RelationshipKeyId(t, k, n1, n2)})
<1>id. PICK id : id = RelationshipKeyId(t, k, n1, n2) OBVIOUS
<1>last. PICK last : last = RelationshipKeyId(t, relatedCounts[t][<<n1, n2>>], n1, n2) OBVIOUS
<1>list. PICK list : list = Nulled({id}) OBVIOUS
<1>1. relationships \in Seq(Relationship \cup {Null}) BY DEF RelsInv, ListTyped
<1>2. \/ relationships' = relationships
      \/ relationships' = list
      \/ /\ last # id /\ RelUsable(last)
         /\ \E c \in Int : relationships' = [list EXCEPT ![last + 1].count = c]
  <2>c. PICK c : c = IF k > 1 THEN k ELSE 0 OBVIOUS
  <2>1. c \in Int BY <2>c
  <2>2. \/ UNCHANGED <<relationships, relationshipKeys>>
        \/ relationships' = list
        \/ /\ last # id /\ RelUsable(last)
           /\ relationships' = [list EXCEPT ![last + 1].count = c]
    BY <1>id, <1>last, <1>list, <2>c DEF RemoveNumber
  <2>3. QED BY <2>1, <2>2
<1>3. /\ DOMAIN list = DOMAIN relationships
      /\ \A i \in DOMAIN relationships : i - 1 # id => list[i] = relationships[i]
  BY <1>list DEF Nulled
<1>s. SUFFICES ASSUME NEW e \in RelIds, e # id
               PROVE  EntryOf(relationships', e) = EntryOf(relationships, e)
  BY <1>id DEF SameProps
<1>4. e + 1 \in DOMAIN relationships /\ (e + 1) - 1 = e BY <1>1 DEF RelIds
<1>i. PICK i : i = e + 1 OBVIOUS
<1>5. list[i] = relationships[i] BY <1>3, <1>4, <1>i, <1>s
<1>6. CASE relationships' = relationships BY <1>6 DEF EntryOf
<1>7. CASE relationships' = list BY <1>5, <1>7, <1>i DEF EntryOf
<1>8. ASSUME last # id, RelUsable(last), NEW c \in Int,
             relationships' = [list EXCEPT ![last + 1].count = c]
      PROVE  EntryOf(relationships', e) = EntryOf(relationships, e)
  <2>j. PICK j : j = last + 1 OBVIOUS
  <2>1. relationships' = [list EXCEPT ![j].count = c] BY <1>8, <2>j
  <2>2. relationships'[i] = IF i = j THEN [list[j] EXCEPT !.count = c] ELSE list[i]
    BY <1>3, <1>4, <1>i, <2>1
  <2>3. relationships'[i].props = relationships[i].props
    <3>1. CASE i = j
      <4>1. relationships[i] \in Relationship
        BY <1>1, <1>4, <1>8, <1>i, <2>j, <3>1 DEF RelUsable, RelRec
      <4>2. list[j] \in Relationship BY <1>5, <3>1, <4>1
      <4>3. [list[j] EXCEPT !.count = c].props = list[j].props BY <4>2 DEF Relationship
      <4>4. QED BY <1>5, <2>2, <3>1, <4>3
    <3>2. CASE i # j BY <1>5, <2>2, <3>2
    <3>3. QED BY <3>1, <3>2
  <2>4. QED BY <1>i, <2>3 DEF EntryOf
<1>9. QED BY <1>2, <1>6, <1>7, <1>8

\* What the list of a pair with n relationships is without number k: the last
\* one takes its place.
LeftWithout(list, n, k) == [j \in 1 .. n - 1 |-> IF j = k THEN list[n] ELSE list[j]]

LEMMA FreedLists ==
  ASSUME RelsInv, NumberInv, KeyInv, RelsInv', NumberInv',
         NEW t \in KnownTypes, NEW n1 \in NodeIds, NEW n2 \in NodeIds,
         NEW k \in Int, k >= 1, k <= relatedCounts[t][<<n1, n2>>],
         NEW call, RemoveNumber(call, t, n1, n2, k)
  PROVE  OneList(t, n1, n2, LeftWithout(ListOf(t, n1, n2), relatedCounts[t][<<n1, n2>>], k))
<1>pair. PICK pair : pair = <<n1, n2>> OBVIOUS
<1>count. PICK count : count = relatedCounts[t][pair] OBVIOUS
<1>id. PICK id : id = RelationshipKeyId(t, k, n1, n2) OBVIOUS
<1>old. PICK old : old = ListOf(t, n1, n2) OBVIOUS
<1>last. PICK last : last = relationshipKeys[<<t, count>>][pair] OBVIOUS
<1>0. NumberFreed(t, pair, k, count, id) BY <1>pair, <1>count, <1>id, RemoveNumberFrees DEF NumberInv
<1>1. /\ pair \in Pairs /\ k \in 1 .. count /\ count \in Nat
      /\ Has(relationshipKeys, <<t, k>>, pair) /\ relationshipKeys[<<t, k>>][pair] = id
      /\ KnownTypes' = KnownTypes
      /\ \A u \in KnownTypes, q \in Pairs :
           relatedCounts'[u][q] = IF u = t /\ q = pair THEN count - 1 ELSE relatedCounts[u][q]
  BY <1>0 DEF NumberFreed
<1>2. \A u, j, q : Has(relationshipKeys, <<u, j>>, q) =>
        q \in Pairs /\ IsOf(relationshipKeys[<<u, j>>][q], u, q)
  BY DEF KeyInv, KeysLead
<1>3. Has(relationshipKeys, <<t, count>>, pair) BY <1>1, <1>count DEF NumberInv, CountsKeyed
<1>4. \A u, j, q : Has(relationshipKeys', <<u, j>>, q) =>
        relationshipKeys'[<<u, j>>][q] =
          IF u = t /\ j = k /\ q = pair THEN last ELSE relationshipKeys[<<u, j>>][q]
  <2>1. ~ (k # count /\ (last = id \/ ~ RelUsable(last)))
    <3>1. RelUsable(last) BY <1>2, <1>3, <1>last DEF IsOf
    <3>2. last = id => k = count BY <1>1, <1>3, <1>last DEF KeyInv, KeysDistinct
    <3>3. QED BY <3>1, <3>2
  <2>2. \/ /\ k = count
           /\ \A u, j, q :
                /\ Has(relationshipKeys', <<u, j>>, q) <=>
                     Has(relationshipKeys, <<u, j>>, q) /\ ~ (u = t /\ j = k /\ q = pair)
                /\ Has(relationshipKeys', <<u, j>>, q) =>
                     relationshipKeys'[<<u, j>>][q] = relationshipKeys[<<u, j>>][q]
        \/ /\ k # count
           /\ \A u, j, q :
                /\ Has(relationshipKeys', <<u, j>>, q) <=>
                     Has(relationshipKeys, <<u, j>>, q) /\ ~ (u = t /\ j = count /\ q = pair)
                /\ Has(relationshipKeys', <<u, j>>, q) =>
                     relationshipKeys'[<<u, j>>][q] =
                       IF u = t /\ j = k /\ q = pair THEN last
                       ELSE relationshipKeys[<<u, j>>][q]
    BY <1>0, <1>last, <2>1 DEF NumberFreed
  <2>3. ASSUME NEW u, NEW j, NEW q, Has(relationshipKeys', <<u, j>>, q)
        PROVE  relationshipKeys'[<<u, j>>][q] =
                 IF u = t /\ j = k /\ q = pair THEN last ELSE relationshipKeys[<<u, j>>][q]
    BY <2>2, <2>3
  <2>4. QED BY <2>3
<1>5. SameProps(RelIds \ {id}) BY <1>id, RemovedProps
<1>6. ListsRead /\ ListsRead' BY ListsAre, ListsAreNext
<1>s. SUFFICES ASSUME NEW u, NEW m1 \in NodeIds, NEW m2 \in NodeIds
               PROVE  ListOf(u, m1, m2)' =
                        IF u = t /\ m1 = n1 /\ m2 = n2 THEN LeftWithout(old, count, k)
                        ELSE ListOf(u, m1, m2)
  BY <1>old, <1>count, <1>pair DEF OneList, NodeIds
<1>q. PICK q : q = <<m1, m2>> OBVIOUS
<1>7. q \in Pairs /\ (q = pair <=> m1 = n1 /\ m2 = n2) BY <1>q, <1>pair DEF Pairs
<1>c. PICK c : c = CountAt(u, q) OBVIOUS
<1>8. /\ ListOf(u, m1, m2) =
           [j \in 1 .. c |-> EntryOf(relationships, relationshipKeys[<<u, j>>][q])]
      /\ c \in Nat
      /\ \A j \in 1 .. c :
           /\ Has(relationshipKeys, <<u, j>>, q)
           /\ relationshipKeys[<<u, j>>][q] \in RelIds
  <2>1. ListRead(u, m1, m2, q) BY <1>6, <1>q DEF ListsRead
  <2>2. QED BY <2>1, <1>c DEF ListRead
<1>d. PICK d : d = CountAt(u, q)' OBVIOUS
<1>9. /\ ListOf(u, m1, m2)' =
           [j \in 1 .. d |-> EntryOf(relationships', relationshipKeys'[<<u, j>>][q])]
      /\ \A j \in 1 .. d : Has(relationshipKeys', <<u, j>>, q)
  <2>1. ListRead(u, m1, m2, q)' BY <1>6, <1>q DEF ListsRead, NodeIds
  <2>2. QED BY <2>1, <1>d DEF ListRead
<1>10. d = IF u = t /\ q = pair THEN count - 1 ELSE c
  BY <1>1, <1>7, <1>c, <1>d DEF CountAt
<1>11. u = t /\ q = pair => c = count BY <1>c, <1>count DEF CountAt
\* Entry j comes from the entry at place, which is not the removed one.
<1>12. ASSUME NEW j \in 1 .. d, NEW place,
              place = (IF u = t /\ j = k /\ q = pair THEN count ELSE j)
       PROVE  /\ place \in 1 .. c
              /\ EntryOf(relationships', relationshipKeys'[<<u, j>>][q])
                   = EntryOf(relationships, relationshipKeys[<<u, place>>][q])
  <2>1. place \in 1 .. c /\ (u = t /\ q = pair => place # k)
    BY <1>1, <1>8, <1>10, <1>11, <1>12
  <2>e. PICK e : e = relationshipKeys[<<u, place>>][q] OBVIOUS
  <2>2. e \in RelIds /\ Has(relationshipKeys, <<u, place>>, q) BY <1>8, <2>1, <2>e
  <2>3. relationshipKeys'[<<u, j>>][q] = e BY <1>4, <1>9, <1>12, <1>last, <2>e
  <2>4. e # id
    <3>1. SUFFICES ASSUME e = id PROVE FALSE OBVIOUS
    <3>2. IsOf(id, u, q) /\ IsOf(id, t, pair) BY <1>1, <1>2, <2>2, <2>e, <3>1
    <3>3. u = t /\ q = pair BY <1>1, <1>7, <3>2, IsOfOne
    <3>4. place = k BY <1>1, <2>2, <2>e, <3>1, <3>3 DEF KeyInv, KeysDistinct
    <3>5. QED BY <2>1, <3>3, <3>4
  <2>5. EntryOf(relationships', e) = EntryOf(relationships, e)
    BY <1>5, <2>2, <2>4 DEF SameProps
  <2>6. QED BY <2>1, <2>3, <2>5, <2>e
<1>13. CASE u = t /\ q = pair
  <2>1. d = count - 1 /\ c = count BY <1>10, <1>11, <1>13
  <2>2. old = ListOf(u, m1, m2) BY <1>7, <1>13, <1>old
  <2>3. \A j \in 1 .. d : EntryOf(relationships', relationshipKeys'[<<u, j>>][q])
                            = IF j = k THEN old[count] ELSE old[j]
    <3>1. SUFFICES ASSUME NEW j \in 1 .. d
                   PROVE  EntryOf(relationships', relationshipKeys'[<<u, j>>][q])
                            = IF j = k THEN old[count] ELSE old[j]
      OBVIOUS
    <3>2. PICK place : place = (IF u = t /\ j = k /\ q = pair THEN count ELSE j) OBVIOUS
    <3>3. /\ place \in 1 .. c
          /\ EntryOf(relationships', relationshipKeys'[<<u, j>>][q])
               = EntryOf(relationships, relationshipKeys[<<u, place>>][q])
      BY <1>12, <3>2
    <3>4. old[place] = EntryOf(relationships, relationshipKeys[<<u, place>>][q])
      BY <1>8, <2>2, <3>3
    <3>5. old[place] = IF j = k THEN old[count] ELSE old[j] BY <1>13, <3>2
    <3>6. QED BY <3>3, <3>4, <3>5
  <2>4. ListOf(u, m1, m2)' = LeftWithout(old, count, k) BY <1>9, <2>1, <2>3 DEF LeftWithout
  <2>5. QED BY <1>7, <1>13, <2>4
<1>14. CASE ~ (u = t /\ q = pair)
  <2>1. d = c BY <1>10, <1>14
  <2>2. \A j \in 1 .. c : EntryOf(relationships', relationshipKeys'[<<u, j>>][q])
                            = EntryOf(relationships, relationshipKeys[<<u, j>>][q])
    BY <1>12, <1>14, <2>1
  <2>3. ListOf(u, m1, m2)' = ListOf(u, m1, m2) BY <1>8, <1>9, <2>1, <2>2
  <2>4. QED BY <1>7, <1>14, <2>3
<1>15. QED BY <1>13, <1>14

LEMMA PropsLists ==
  ASSUME RelsInv, NumberInv, KeyInv, RelsInv', NumberInv',
         NEW t \in KnownTypes, NEW n1 \in NodeIds, NEW n2 \in NodeIds,
         NEW k \in 1 .. relatedCounts[t][<<n1, n2>>], NEW id,
         id = RelationshipKeyId(t, k, n1, n2), NEW call, NEW outcome, NEW props,
         SetRelProps(call, id, outcome, props)
  PROVE  OneList(t, n1, n2, [ListOf(t, n1, n2) EXCEPT ![k].props = props])
<1>pair. PICK pair : pair = <<n1, n2>> OBVIOUS
<1>count. PICK count : count = relatedCounts[t][pair] OBVIOUS
<1>old. PICK old : old = ListOf(t, n1, n2) OBVIOUS
<1>0. pair \in Pairs BY <1>pair DEF Pairs
<1>1. k \in 1 .. count /\ Has(relationshipKeys, <<t, k>>, pair)
  BY <1>0, <1>pair, <1>count DEF NumberInv, CountsKeyed
<1>2. id = relationshipKeys[<<t, k>>][pair] BY <1>1, <1>pair, KeyIdIs
<1>3. id \in RelIds /\ IsOf(id, t, pair)
  BY <1>1, <1>2 DEF KeyInv, KeysLead, RelsInv, KeysAllocated, Has
<1>4. /\ relationships' = [relationships EXCEPT ![id + 1].props = props]
      /\ UNCHANGED <<relationshipKeys, relatedCounts>> /\ KnownTypes' = KnownTypes
  BY DEF SetRelProps, KnownTypes
<1>5. /\ EntryOf(relationships', id) = [id |-> id, props |-> props]
      /\ SameProps(RelIds \ {id})
  <2>1. relationships \in Seq(Relationship \cup {Null}) BY DEF RelsInv, ListTyped
  <2>2. \A e \in RelIds : e + 1 \in DOMAIN relationships /\ (e # id => e + 1 # id + 1)
    BY <1>3, <2>1 DEF RelIds
  <2>3. relationships[id + 1] \in Relationship
    BY <1>3, <2>1, <2>2 DEF IsOf, RelUsable, RelRec
  <2>4. [relationships[id + 1] EXCEPT !.props = props].props = props BY <2>3 DEF Relationship
  <2>5. relationships'[id + 1].props = props BY <1>3, <1>4, <2>2, <2>4
  <2>6. \A e \in RelIds : e # id => relationships'[e + 1] = relationships[e + 1]
    BY <1>4, <2>2
  <2>7. QED BY <2>5, <2>6 DEF EntryOf, SameProps
<1>6. ListsRead /\ ListsRead' BY ListsAre, ListsAreNext
<1>s. SUFFICES ASSUME NEW u, NEW m1 \in NodeIds, NEW m2 \in NodeIds
               PROVE  ListOf(u, m1, m2)' =
                        IF u = t /\ m1 = n1 /\ m2 = n2 THEN [old EXCEPT ![k].props = props]
                        ELSE ListOf(u, m1, m2)
  BY <1>old DEF OneList, NodeIds
<1>q. PICK q : q = <<m1, m2>> OBVIOUS
<1>7. q \in Pairs /\ (q = pair <=> m1 = n1 /\ m2 = n2) BY <1>q, <1>pair DEF Pairs
<1>c. PICK c : c = CountAt(u, q) OBVIOUS
<1>8. /\ ListOf(u, m1, m2) =
           [j \in 1 .. c |-> EntryOf(relationships, relationshipKeys[<<u, j>>][q])]
      /\ c \in Nat
      /\ \A j \in 1 .. c :
           /\ Has(relationshipKeys, <<u, j>>, q)
           /\ relationshipKeys[<<u, j>>][q] \in RelIds
  <2>1. ListRead(u, m1, m2, q) BY <1>6, <1>q DEF ListsRead
  <2>2. QED BY <2>1, <1>c DEF ListRead
<1>9. CountAt(u, q)' = c BY <1>4, <1>c DEF CountAt
<1>10. ListOf(u, m1, m2)' =
         [j \in 1 .. c |-> EntryOf(relationships', relationshipKeys[<<u, j>>][q])]
  <2>1. ListRead(u, m1, m2, q)' BY <1>6, <1>q DEF ListsRead, NodeIds
  <2>2. QED BY <2>1, <1>4, <1>9 DEF ListRead
<1>11. u = t /\ q = pair => c = count BY <1>c, <1>count DEF CountAt
<1>12. \A j \in 1 .. c :
         relationshipKeys[<<u, j>>][q] = id <=> u = t /\ q = pair /\ j = k
  <2>1. SUFFICES ASSUME NEW j \in 1 .. c, relationshipKeys[<<u, j>>][q] = id
                 PROVE  u = t /\ q = pair /\ j = k
    BY <1>2
  <2>2. IsOf(id, u, q) BY <1>8, <2>1 DEF KeyInv, KeysLead
  <2>3. u = t /\ q = pair BY <1>0, <1>3, <1>7, <2>2, IsOfOne
  <2>4. j = k BY <1>1, <1>2, <1>8, <2>1, <2>3 DEF KeyInv, KeysDistinct
  <2>5. QED BY <2>3, <2>4
<1>13. \A j \in 1 .. c : EntryOf(relationships', relationshipKeys[<<u, j>>][q]) =
         IF u = t /\ q = pair /\ j = k THEN [id |-> id, props |-> props]
         ELSE EntryOf(relationships, relationshipKeys[<<u, j>>][q])
  BY <1>5, <1>8, <1>12 DEF SameProps
<1>14. CASE u = t /\ q = pair
  <2>1. c = count BY <1>11, <1>14
  <2>2. old = ListOf(u, m1, m2) BY <1>7, <1>14, <1>old
  <2>3. old = [j \in 1 .. c |-> EntryOf(relationships, relationshipKeys[<<u, j>>][q])]
    BY <1>8, <2>2
  <2>4. old[k] = [id |-> id, props |-> RelRec(id).props]
    BY <1>1, <1>2, <1>14, <2>1, <2>3 DEF EntryOf, RelRec
  <2>5. [old[k] EXCEPT !.props = props] = [id |-> id, props |-> props] BY <2>4
  <2>6. \A j \in 1 .. c : [old EXCEPT ![k].props = props][j] =
          IF j = k THEN [id |-> id, props |-> props]
          ELSE EntryOf(relationships, relationshipKeys[<<u, j>>][q])
    BY <2>3, <2>5
  <2>7. ListOf(u, m1, m2)' = [old EXCEPT ![k].props = props]
    <3>new. PICK new : new = [old EXCEPT ![k].props = props] OBVIOUS
    <3>1. new = [j \in 1 .. c |-> new[j]] BY <2>3, <3>new
    <3>2. \A j \in 1 .. c : new[j] = EntryOf(relationships', relationshipKeys[<<u, j>>][q])
      BY <1>13, <1>14, <2>6, <3>new
    <3>3. ListOf(u, m1, m2)' = new BY <1>10, <3>1, <3>2
    <3>4. QED BY <3>new, <3>3
  <2>8. QED BY <1>7, <1>14, <2>7
<1>15. CASE ~ (u = t /\ q = pair)
  <2>1. ListOf(u, m1, m2)' = ListOf(u, m1, m2) BY <1>8, <1>10, <1>13, <1>15
  <2>2. QED BY <1>7, <1>15, <2>1
<1>16. QED BY <1>14, <1>15

-----------------------------------------------------------------------------
(* The mapped state *)

Triples == Types \X Names \X Names

ParallelsRead ==
  /\ Parallels = [e \in Triples |-> Parallels[e]]
  /\ \A t \in Types, f, g \in Names : \A n1, n2 : n1 = nodeKeys[f] /\ n2 = nodeKeys[g] =>
       Parallels[<<t, f, g>>] = IF n1 = -1 \/ n2 = -1 THEN <<>> ELSE ListOf(t, n1, n2)

LEMMA ParallelsAre == ParallelsRead
<1>1. Parallels = [e \in Triples |-> Parallels[e]] BY DEF Parallels, Triples
<1>2. ASSUME NEW t \in Types, NEW f \in Names, NEW g \in Names,
             NEW n1, NEW n2, n1 = nodeKeys[f], n2 = nodeKeys[g]
      PROVE  Parallels[<<t, f, g>>] = IF n1 = -1 \/ n2 = -1 THEN <<>> ELSE ListOf(t, n1, n2)
  <2>1. Parallels[<<t, f, g>>] = Listed(<<t, f, g>>) BY DEF Parallels
  <2>2. QED BY <1>2, <2>1 DEF Listed
<1>3. QED BY <1>1, <1>2 DEF ParallelsRead

LEMMA ParallelsAreNext == ParallelsRead'
BY ParallelsAre, PTL

LEMMA SameParallels ==
  ASSUME NodesTyped, SameLists, UNCHANGED nodeKeys
  PROVE  Parallels' = Parallels
<1>1. ParallelsRead /\ ParallelsRead' BY ParallelsAre, ParallelsAreNext
<1>2. ASSUME NEW t \in Types, NEW f \in Names, NEW g \in Names
      PROVE  Parallels'[<<t, f, g>>] = Parallels[<<t, f, g>>]
  <2>n1. PICK n1 : n1 = nodeKeys[f] OBVIOUS
  <2>n2. PICK n2 : n2 = nodeKeys[g] OBVIOUS
  <2>1. n1 \in {-1} \cup NodeIds /\ n2 \in {-1} \cup NodeIds BY <2>n1, <2>n2 DEF NodesTyped
  <2>2. Parallels[<<t, f, g>>] = IF n1 = -1 \/ n2 = -1 THEN <<>> ELSE ListOf(t, n1, n2)
    BY <1>1, <2>n1, <2>n2 DEF ParallelsRead
  <2>3. Parallels'[<<t, f, g>>] = IF n1 = -1 \/ n2 = -1 THEN <<>> ELSE ListOf(t, n1, n2)'
    BY <1>1, <2>n1, <2>n2 DEF ParallelsRead
  <2>4. QED BY <2>1, <2>2, <2>3 DEF SameLists
<1>3. \A e \in Triples : \E t \in Types, f, g \in Names : e = <<t, f, g>> BY DEF Triples
<1>4. /\ Parallels = [e \in Triples |-> Parallels[e]]
      /\ Parallels' = [e \in Triples |-> Parallels'[e]]
  BY <1>1 DEF ParallelsRead, Triples
<1>5. \A e \in Triples : Parallels'[e] = Parallels[e] BY <1>2, <1>3
<1>6. QED BY <1>4, <1>5

\* A type and two names, the triple they are and the ids of the names.
Pair(t, f, g, e, n1, n2) ==
  /\ t \in Types /\ f \in Names /\ g \in Names /\ e = <<t, f, g>>
  /\ n1 = nodeKeys[f] /\ n2 = nodeKeys[g]

LEMMA OneParallel ==
  ASSUME NodesTyped, NodeIdsSound, UNCHANGED nodeKeys,
         NEW t, NEW f, NEW g, NEW e, NEW n1, NEW n2, Pair(t, f, g, e, n1, n2),
         n1 # -1, n2 # -1, NEW list, OneList(t, n1, n2, list)
  PROVE  Parallels' = [Parallels EXCEPT ![e] = list]
<1>e. /\ t \in Types /\ f \in Names /\ g \in Names /\ e = <<t, f, g>>
      /\ n1 = nodeKeys[f] /\ n2 = nodeKeys[g]
  BY DEF Pair
<1>1. ParallelsRead /\ ParallelsRead' BY ParallelsAre, ParallelsAreNext
<1>2. ASSUME NEW u \in Types, NEW a \in Names, NEW b \in Names
      PROVE  Parallels'[<<u, a, b>>] = IF <<u, a, b>> = e THEN list ELSE Parallels[<<u, a, b>>]
  <2>m1. PICK m1 : m1 = nodeKeys[a] OBVIOUS
  <2>m2. PICK m2 : m2 = nodeKeys[b] OBVIOUS
  <2>1. m1 \in {-1} \cup NodeIds /\ m2 \in {-1} \cup NodeIds BY <2>m1, <2>m2 DEF NodesTyped
  <2>2. Parallels[<<u, a, b>>] = IF m1 = -1 \/ m2 = -1 THEN <<>> ELSE ListOf(u, m1, m2)
    BY <1>1, <2>m1, <2>m2 DEF ParallelsRead
  <2>3. Parallels'[<<u, a, b>>] = IF m1 = -1 \/ m2 = -1 THEN <<>> ELSE ListOf(u, m1, m2)'
    BY <1>1, <2>m1, <2>m2 DEF ParallelsRead
  <2>4. m1 # -1 /\ m2 # -1 =>
          ListOf(u, m1, m2)' = IF u = t /\ m1 = n1 /\ m2 = n2 THEN list ELSE ListOf(u, m1, m2)
    BY <2>1 DEF OneList
  <2>5. (m1 = n1 <=> a = f) /\ (m2 = n2 <=> b = g)
    BY <1>e, <2>m1, <2>m2 DEF NodeIdsSound, LiveNames
  <2>6. <<u, a, b>> = e <=> u = t /\ m1 = n1 /\ m2 = n2 BY <1>e, <2>5
  <2>7. QED BY <2>2, <2>3, <2>4, <2>6
<1>3. \A d \in Triples : \E u \in Types, a, b \in Names : d = <<u, a, b>> BY DEF Triples
<1>4. /\ Parallels = [d \in Triples |-> Parallels[d]]
      /\ Parallels' = [d \in Triples |-> Parallels'[d]]
  BY <1>1 DEF ParallelsRead, Triples
<1>5. \A d \in Triples : Parallels'[d] = IF d = e THEN list ELSE Parallels[d] BY <1>2, <1>3
<1>6. QED BY <1>4, <1>5

\* A pair with an id that no name has is without relationships.
LEMMA UnusedEmpty ==
  ASSUME Homed, NEW t, NEW n1 \in NodeIds, NEW n2 \in NodeIds, ~ Used(n1) \/ ~ Used(n2)
  PROVE  ListOf(t, n1, n2) = <<>>
<1>1. (IF t \in KnownTypes THEN relatedCounts[t][<<n1, n2>>] ELSE 0) = 0 BY DEF Homed
<1>2. QED BY <1>1 DEF ListOf

\* The list of a pair is as long as its count.
LEMMA ListLength ==
  ASSUME RelsInv, NumberInv, NEW t, NEW n1 \in NodeIds, NEW n2 \in NodeIds
  PROVE  /\ CountAt(t, <<n1, n2>>) \in Nat
         /\ DOMAIN ListOf(t, n1, n2) = 1 .. CountAt(t, <<n1, n2>>)
         /\ Len(ListOf(t, n1, n2)) = CountAt(t, <<n1, n2>>)
         /\ ListOf(t, n1, n2) = <<>> <=> CountAt(t, <<n1, n2>>) = 0
<1>q. PICK q : q = <<n1, n2>> OBVIOUS
<1>c. PICK c : c = CountAt(t, q) OBVIOUS
<1>s. PICK s : s = ListOf(t, n1, n2) OBVIOUS
<1>1. /\ s = [j \in 1 .. c |-> EntryOf(relationships, relationshipKeys[<<t, j>>][q])]
      /\ c \in Nat
  <2>1. ListRead(t, n1, n2, q) BY <1>q, ListsAre DEF ListsRead
  <2>2. QED BY <2>1, <1>c, <1>s DEF ListRead
<1>S. PICK S : S = {s[j] : j \in 1 .. c} OBVIOUS
<1>2. s \in Seq(S) /\ Len(s) = c /\ DOMAIN s = 1 .. c BY <1>1, <1>S
<1>3. s = <<>> <=> c = 0 BY <1>1, <1>2
<1>4. QED BY <1>1, <1>2, <1>3, <1>q, <1>c, <1>s

-----------------------------------------------------------------------------
(* The steps *)

\* An operation that changes nothing is the same answer of NumberedGraph.
LEMMA NothingMapped ==
  ASSUME NodesTyped, NEW call, NEW outcome, Unchanged(call, outcome)
  PROVE  Numbered!Return(call, outcome, -1) /\ Numbered!Nothing
<1>1. /\ UNCHANGED <<relationshipKeys, relationships, relatedCounts, nodeKeys>>
      /\ KnownTypes' = KnownTypes
      /\ Return(call, outcome, -1)
  BY DEF Unchanged, nodeVars, relVars, KnownTypes
<1>2. Parallels' = Parallels BY <1>1, ListsStay, SameParallels
<1>3. QED BY <1>1, <1>2 DEF Return, Numbered!Return, Numbered!Nothing

LEMMA AddNodeMapped ==
  ASSUME NodesTyped, NodeIdsSound, Homed, NEW name \in Names, NEW m, AddNode(name, m)
  PROVE  Numbered!AddNode(name)
<1>call. PICK call : call = <<"addNode", nodeKeys[name]>> OBVIOUS
<1>1. CASE nodeKeys[name] # -1 /\ Unchanged(call, "refused")
  <2>1. Numbered!Return(call, "refused", -1) /\ Numbered!Nothing BY <1>1, NothingMapped
  <2>2. QED BY <1>1, <1>call, <2>1 DEF Numbered!AddNode
<1>2. ASSUME nodeKeys[name] = -1, NEW id, UNCHANGED relVars,
             nodeKeys' = [nodeKeys EXCEPT ![name] = id], Return(call, "done", id),
             \/ deletedNodes = {} /\ Len(nodes) < MaxNodes /\ id = Len(nodes)
             \/ id \in deletedNodes
      PROVE  Numbered!AddNode(name)
  <2>0. Len(nodes) \in Nat /\ MaxNodes \in Nat BY BoundsAssumption DEF NodesTyped
  <2>1. id \in NodeIds
    <3>1. CASE id \in deletedNodes BY <3>1 DEF NodesTyped
    <3>2. CASE Len(nodes) < MaxNodes /\ id = Len(nodes) BY <2>0, <3>2 DEF NodeIds
    <3>3. QED BY <1>2, <3>1, <3>2
  <2>2. \A n \in Names : nodeKeys[n] # id
    <3>1. SUFFICES ASSUME NEW n \in Names, nodeKeys[n] = id PROVE FALSE OBVIOUS
    <3>2. n \in LiveNames /\ id \in Int BY <2>1, <3>1 DEF LiveNames, NodeIds
    <3>3. id < Len(nodes) /\ id \notin deletedNodes BY <3>1, <3>2 DEF NodeIdsSound
    <3>4. QED BY <1>2, <2>0, <3>2, <3>3
  <2>3. SameLists /\ KnownTypes' = KnownTypes
    <3>1. UNCHANGED <<relationshipKeys, relationships, relatedCounts>> /\ KnownTypes' = KnownTypes
      BY <1>2 DEF relVars, KnownTypes
    <3>2. QED BY <3>1, ListsStay
  <2>4. Parallels' = Parallels
    <3>1. ParallelsRead /\ ParallelsRead' BY ParallelsAre, ParallelsAreNext
    <3>2. ASSUME NEW t \in Types, NEW f \in Names, NEW g \in Names
          PROVE  Parallels'[<<t, f, g>>] = Parallels[<<t, f, g>>]
      <4>n1. PICK n1 : n1 = nodeKeys[f] OBVIOUS
      <4>n2. PICK n2 : n2 = nodeKeys[g] OBVIOUS
      <4>m1. PICK m1 : m1 = nodeKeys'[f] OBVIOUS
      <4>m2. PICK m2 : m2 = nodeKeys'[g] OBVIOUS
      <4>1. /\ n1 \in {-1} \cup NodeIds /\ n2 \in {-1} \cup NodeIds
            /\ m1 = (IF f = name THEN id ELSE n1) /\ m2 = (IF g = name THEN id ELSE n2)
        BY <1>2, <4>n1, <4>n2, <4>m1, <4>m2 DEF NodesTyped
      <4>2. Parallels[<<t, f, g>>] = IF n1 = -1 \/ n2 = -1 THEN <<>> ELSE ListOf(t, n1, n2)
        BY <3>1, <4>n1, <4>n2 DEF ParallelsRead
      <4>3. Parallels'[<<t, f, g>>] = IF m1 = -1 \/ m2 = -1 THEN <<>> ELSE ListOf(t, m1, m2)'
        BY <3>1, <4>m1, <4>m2 DEF ParallelsRead
      <4>4. CASE f # name /\ g # name BY <2>3, <4>1, <4>2, <4>3, <4>4 DEF SameLists
      <4>5. CASE f = name \/ g = name
        <5>1. Parallels[<<t, f, g>>] = <<>> BY <1>2, <4>2, <4>5, <4>n1, <4>n2
        <5>2. CASE m1 = -1 \/ m2 = -1 BY <4>3, <5>1, <5>2
        <5>3. CASE m1 # -1 /\ m2 # -1
          <6>1. m1 \in NodeIds /\ m2 \in NodeIds BY <2>1, <4>1, <5>3
          <6>2. ~ Used(m1) \/ ~ Used(m2) BY <2>2, <4>1, <4>5 DEF Used
          <6>3. ListOf(t, m1, m2) = <<>> BY <6>1, <6>2, UnusedEmpty
          <6>4. QED BY <2>3, <4>3, <5>1, <5>3, <6>1, <6>3 DEF SameLists
        <5>4. QED BY <5>2, <5>3
      <4>6. QED BY <4>4, <4>5
    <3>3. \A e \in Triples : \E t \in Types, f, g \in Names : e = <<t, f, g>> BY DEF Triples
    <3>4. /\ Parallels = [e \in Triples |-> Parallels[e]]
          /\ Parallels' = [e \in Triples |-> Parallels'[e]]
      BY <3>1 DEF ParallelsRead, Triples
    <3>5. \A e \in Triples : Parallels'[e] = Parallels[e] BY <3>2, <3>3
    <3>6. QED BY <3>4, <3>5
  <2>5. Numbered!Return(call, "done", id) BY <1>2 DEF Return, Numbered!Return
  <2>6. QED BY <1>2, <1>call, <2>1, <2>2, <2>3, <2>4, <2>5 DEF Numbered!AddNode
<1>3. QED BY <1>1, <1>2, <1>call DEF AddNode

LEMMA RemoveNodeMapped ==
  ASSUME NodesTyped, RelsInv, IndexInv, NumberInv, ListInv, NEW name \in Names, NEW call,
         call = <<"removeDetachedNode", nodeKeys[name]>>, Detached(name), RemoveNode(call, name)
  PROVE  Numbered!RemoveNode(name)
<1>1. CASE nodeKeys[name] = -1 /\ Unchanged(call, "refused")
  <2>1. Numbered!Return(call, "refused", -1) /\ Numbered!Nothing BY <1>1, NothingMapped
  <2>2. QED BY <1>1, <2>1 DEF Numbered!RemoveNode
<1>2. CASE RemoveNodeDone(call, name) \/ RemoveNodeThrows(call, name)
  <2>id. PICK id : id = nodeKeys[name] OBVIOUS
  <2>1. RemoveNodeDone(call, name) /\ Idle BY <1>2, DetachedIdle
  <2>2. /\ id # -1 /\ nodeKeys' = [nodeKeys EXCEPT ![name] = -1]
        /\ Return(call, "done", -1)
    BY <2>1, <2>id DEF RemoveNodeDone, ForgetKey
  <2>3. id \in NodeIds BY <2>2, <2>id DEF NodesTyped
  <2>4. SameLists /\ KnownTypes' = KnownTypes BY <2>1, ListsStay DEF Idle
  <2>5. ASSUME NEW t, NEW x \in NodeIds
        PROVE  ListOf(t, id, x) = <<>> /\ ListOf(t, x, id) = <<>>
    <3>1. CountAt(t, <<id, x>>) = 0 /\ CountAt(t, <<x, id>>) = 0
      <4>1. CASE t \in KnownTypes
        <5>1. \A u \in KnownTypes : FromSize(related[u], id) = 0 /\ ToSize(related[u], id) = 0
          BY <2>2, <2>id DEF Detached
        <5>2. relatedCounts[t][<<id, x>>] = 0 /\ relatedCounts[t][<<x, id>>] = 0
          BY <2>3, <4>1, <5>1, DetachedCounts
        <5>3. QED BY <4>1, <5>2 DEF CountAt
      <4>2. CASE t \notin KnownTypes BY <4>2 DEF CountAt
      <4>3. QED BY <4>1, <4>2
    <3>2. QED BY <2>3, <3>1, ListLength
  <2>6. ParallelsRead /\ ParallelsRead' BY ParallelsAre, ParallelsAreNext
  <2>7. ASSUME NEW t \in Types, NEW f \in Names, NEW g \in Names
        PROVE  /\ Parallels'[<<t, f, g>>] = Parallels[<<t, f, g>>]
               /\ name \in {f, g} => Parallels[<<t, f, g>>] = <<>>
    <3>n1. PICK n1 : n1 = nodeKeys[f] OBVIOUS
    <3>n2. PICK n2 : n2 = nodeKeys[g] OBVIOUS
    <3>m1. PICK m1 : m1 = nodeKeys'[f] OBVIOUS
    <3>m2. PICK m2 : m2 = nodeKeys'[g] OBVIOUS
    <3>1. /\ n1 \in {-1} \cup NodeIds /\ n2 \in {-1} \cup NodeIds
          /\ m1 = (IF f = name THEN -1 ELSE n1) /\ m2 = (IF g = name THEN -1 ELSE n2)
      BY <2>2, <3>n1, <3>n2, <3>m1, <3>m2 DEF NodesTyped
    <3>2. Parallels[<<t, f, g>>] = IF n1 = -1 \/ n2 = -1 THEN <<>> ELSE ListOf(t, n1, n2)
      BY <2>6, <3>n1, <3>n2 DEF ParallelsRead
    <3>3. Parallels'[<<t, f, g>>] = IF m1 = -1 \/ m2 = -1 THEN <<>> ELSE ListOf(t, m1, m2)'
      BY <2>6, <3>m1, <3>m2 DEF ParallelsRead
    <3>4. CASE f # name /\ g # name BY <2>4, <3>1, <3>2, <3>3, <3>4 DEF SameLists
    <3>5. CASE f = name \/ g = name
      <4>1. n1 = id \/ n2 = id BY <2>id, <3>5, <3>n1, <3>n2
      <4>2. Parallels[<<t, f, g>>] = <<>> BY <2>5, <3>1, <3>2, <4>1
      <4>3. Parallels'[<<t, f, g>>] = <<>> BY <3>1, <3>3, <3>5
      <4>4. QED BY <4>2, <4>3
    <3>6. QED BY <3>4, <3>5
  <2>8. \A e \in Triples : \E t \in Types, f, g \in Names : e = <<t, f, g>> BY DEF Triples
  <2>9. Parallels' = Parallels
    <3>1. /\ Parallels = [e \in Triples |-> Parallels[e]]
          /\ Parallels' = [e \in Triples |-> Parallels'[e]]
      BY <2>6 DEF ParallelsRead, Triples
    <3>2. \A e \in Triples : Parallels'[e] = Parallels[e] BY <2>7, <2>8
    <3>3. QED BY <3>1, <3>2
  <2>10. \A e \in Numbered!Triples : name \in {e[2], e[3]} => Parallels[e] = <<>>
    <3>1. SUFFICES ASSUME NEW e \in Triples, name \in {e[2], e[3]} PROVE Parallels[e] = <<>>
      BY DEF Triples, Numbered!Triples
    <3>2. PICK t \in Types, f \in Names, g \in Names : e = <<t, f, g>> BY <2>8
    <3>3. e[2] = f /\ e[3] = g BY <3>2
    <3>4. QED BY <2>7, <3>1, <3>2, <3>3
  <2>11. Numbered!Return(call, "done", -1) BY <2>2 DEF Return, Numbered!Return
  <2>12. QED BY <2>2, <2>id, <2>4, <2>9, <2>10, <2>11 DEF Numbered!RemoveNode
<1>3. QED BY <1>1, <1>2 DEF RemoveNode

\* The lists hold ids that have been allocated.
LEMMA UsedAllocated ==
  ASSUME NodesTyped, RelsInv, NumberInv
  PROVE  Numbered!UsedIds \subseteq RelIds
<1>1. SUFFICES ASSUME NEW e \in Triples, NEW j \in DOMAIN Parallels[e]
               PROVE  Parallels[e][j].id \in RelIds
  BY DEF Numbered!UsedIds, Numbered!Triples, Triples, Numbered!ToSet
<1>2. PICK t \in Types, f \in Names, g \in Names : e = <<t, f, g>> BY DEF Triples
<1>n1. PICK n1 : n1 = nodeKeys[f] OBVIOUS
<1>n2. PICK n2 : n2 = nodeKeys[g] OBVIOUS
<1>3. n1 \in {-1} \cup NodeIds /\ n2 \in {-1} \cup NodeIds BY <1>n1, <1>n2 DEF NodesTyped
<1>4. Parallels[e] = IF n1 = -1 \/ n2 = -1 THEN <<>> ELSE ListOf(t, n1, n2)
  BY <1>2, <1>n1, <1>n2, ParallelsAre DEF ParallelsRead
<1>5. DOMAIN <<>> = {} OBVIOUS
<1>6. n1 \in NodeIds /\ n2 \in NodeIds /\ Parallels[e] = ListOf(t, n1, n2)
  BY <1>1, <1>3, <1>4, <1>5
<1>q. PICK q : q = <<n1, n2>> OBVIOUS
<1>7. ListRead(t, n1, n2, q) BY <1>6, <1>q, ListsAre DEF ListsRead
<1>8. /\ j \in 1 .. CountAt(t, q)
      /\ Parallels[e][j] = EntryOf(relationships, relationshipKeys[<<t, j>>][q])
      /\ relationshipKeys[<<t, j>>][q] \in RelIds
  BY <1>6, <1>7 DEF ListRead
<1>9. QED BY <1>8 DEF EntryOf

\* A pair with names, and what NumberedGraph calls it.
LEMMA PairIs ==
  ASSUME NodesTyped, NEW t, NEW f, NEW g, NEW e, NEW n1, NEW n2, Pair(t, f, g, e, n1, n2)
  PROVE  /\ t \in Types /\ e \in Triples /\ e[1] = t /\ e[2] = f /\ e[3] = g
         /\ n1 \in {-1} \cup NodeIds /\ n2 \in {-1} \cup NodeIds
         /\ Numbered!From(e) = n1 /\ Numbered!To(e) = n2
         /\ Numbered!Exist(e) <=> n1 # -1 /\ n2 # -1
         /\ Parallels[e] = IF n1 = -1 \/ n2 = -1 THEN <<>> ELSE ListOf(t, n1, n2)
<1>0. /\ t \in Types /\ f \in Names /\ g \in Names /\ e = <<t, f, g>>
      /\ n1 = nodeKeys[f] /\ n2 = nodeKeys[g]
  BY DEF Pair
<1>1. e \in Triples /\ e[1] = t /\ e[2] = f /\ e[3] = g BY <1>0 DEF Triples
<1>2. n1 \in {-1} \cup NodeIds /\ n2 \in {-1} \cup NodeIds BY <1>0 DEF NodesTyped
<1>3. Parallels[e] = IF n1 = -1 \/ n2 = -1 THEN <<>> ELSE ListOf(t, n1, n2)
  BY <1>0, ParallelsAre DEF ParallelsRead
<1>4. /\ Numbered!From(e) = n1 /\ Numbered!To(e) = n2
      /\ Numbered!Exist(e) <=> n1 # -1 /\ n2 # -1
  BY <1>0, <1>1 DEF Numbered!From, Numbered!To, Numbered!Exist
<1>5. QED BY <1>0, <1>1, <1>2, <1>3, <1>4

LEMMA LinkMapped ==
  ASSUME NodesTyped, NodeIdsSound, RelsInv, NumberInv, RelsInv', NumberInv',
         NEW t, NEW f, NEW g, NEW e, NEW n1, NEW n2, Pair(t, f, g, e, n1, n2),
         n1 # -1, n2 # -1, NEW shown \in Int, NEW props \in StoredMaps,
         NEW call, Link(call, t, n1, n2, shown, props)
  PROVE  Numbered!AddRelationship(call, e, props)
<1>1. /\ t \in Types /\ e[1] = t /\ n1 \in NodeIds /\ n2 \in NodeIds
      /\ Numbered!Exist(e) /\ Parallels[e] = ListOf(t, n1, n2)
  BY PairIs
<1>new. PICK new : new = Len(relationships) OBVIOUS
<1>list. PICK list : list = Append(ListOf(t, n1, n2), [id |-> new, props |-> props]) OBVIOUS
<1>2. /\ Len(relationships) < MaxRelationships /\ Return(call, "done", new)
      /\ UNCHANGED nodeKeys
  BY <1>new DEF Link, NextRelId, nodeVars
<1>3. new \in Nat /\ new \notin RelIds BY <1>new DEF RelsInv, ListTyped, RelIds
<1>4. new \notin Numbered!UsedIds BY <1>3, UsedAllocated
<1>5. new \in 0 .. MaxRelationships - 1 BY <1>2, <1>3, <1>new, BoundsAssumption
<1>6. OneList(t, n1, n2, list) BY <1>1, <1>list, <1>new, LinkLists
<1>7. Parallels' = [Parallels EXCEPT ![e] = list]
  <2>1. UNCHANGED nodeKeys BY <1>2
  <2>2. n1 # -1 /\ n2 # -1 OBVIOUS
  <2>3. QED BY <1>6, <2>1, <2>2, OneParallel, SMTT(60)
<1>8. Parallels' = [Parallels EXCEPT ![e] = Append(@, [id |-> new, props |-> props])]
  BY <1>1, <1>7, <1>list
<1>9. KnownTypes' = KnownTypes \cup {t}
  <2>1. Linked(t, n1, n2, shown, props) BY <1>1, RelsInvIs, LinkEffect
  <2>2. QED BY <2>1 DEF Linked
<1>10. Numbered!Return(call, "done", new) BY <1>2 DEF Return, Numbered!Return
<1>11. QED BY <1>1, <1>2, <1>4, <1>5, <1>8, <1>9, <1>10 DEF Numbered!AddRelationship

\* Number j, which is k or the last one, leaves the list of e.
Taken(call, e, k, j) ==
  /\ Numbered!Return(call, "done", -1) /\ Numbered!Exist(e)
  /\ UNCHANGED nodeKeys /\ KnownTypes' = KnownTypes
  /\ Len(Parallels[e]) \in Nat /\ j \in 1 .. Len(Parallels[e])
  /\ DOMAIN Parallels[e] = 1 .. Len(Parallels[e])
  /\ j = k \/ j = Len(Parallels[e])
  /\ Parallels' =
       [Parallels EXCEPT ![e] = LeftWithout(Parallels[e], Len(Parallels[e]), j)]

\* The removal of number k of a pair with that many relationships.
LEMMA RemoveMapped ==
  ASSUME NodesTyped, NodeIdsSound, RelsInv, NumberInv, KeyInv, RelsInv', NumberInv',
         NEW t, NEW f, NEW g, NEW e, NEW n1, NEW n2, Pair(t, f, g, e, n1, n2),
         NEW k \in Int, k >= 1, Removable(t, n1, n2, k),
         NEW j \in {k, relatedCounts[t][<<n1, n2>>]}, NEW call, RemoveNumber(call, t, n1, n2, j)
  PROVE  Taken(call, e, k, j)
<1>count. PICK count : count = relatedCounts[t][<<n1, n2>>] OBVIOUS
<1>1. /\ n1 # -1 /\ n2 # -1 /\ t \in KnownTypes /\ count # 0 /\ ~ (count < k)
  BY <1>count DEF Removable, Checked
<1>2. /\ n1 \in NodeIds /\ n2 \in NodeIds
      /\ Numbered!Exist(e) /\ Parallels[e] = ListOf(t, n1, n2)
  BY <1>1, PairIs
<1>3. CountAt(t, <<n1, n2>>) = count BY <1>1, <1>count DEF CountAt
<1>4. /\ count \in Nat /\ Len(Parallels[e]) = count
      /\ DOMAIN Parallels[e] = 1 .. count
  BY <1>2, <1>3, ListLength
<1>5. j \in Int /\ j >= 1 /\ j <= count BY <1>1, <1>4, <1>count
<1>6. Return(call, "done", -1) /\ UNCHANGED nodeKeys /\ KnownTypes' = KnownTypes
  BY <1>1, <1>2, <1>5, <1>count, RemoveNumberDone
<1>list. PICK list : list = LeftWithout(ListOf(t, n1, n2), count, j) OBVIOUS
<1>7. OneList(t, n1, n2, list) BY <1>1, <1>2, <1>5, <1>count, <1>list, FreedLists
<1>8. Parallels' = [Parallels EXCEPT ![e] = list] BY <1>1, <1>6, <1>7, OneParallel
<1>9. Parallels' = [Parallels EXCEPT ![e] = LeftWithout(Parallels[e], Len(Parallels[e]), j)]
  BY <1>2, <1>4, <1>8, <1>list
<1>10. Numbered!Return(call, "done", -1) BY <1>6 DEF Return, Numbered!Return
<1>11. j \in 1 .. Len(Parallels[e]) /\ (j = k \/ j = Len(Parallels[e]))
  BY <1>4, <1>5, <1>count
<1>12. QED BY <1>2, <1>4, <1>6, <1>9, <1>10, <1>11 DEF Taken

LEMMA AddMapped ==
  ASSUME NodesTyped, NodeIdsSound, RelsInv, NumberInv, RelsInv', NumberInv',
         NEW t, NEW f, NEW g, NEW e, NEW n1, NEW n2, Pair(t, f, g, e, n1, n2),
         AddRelationship(t, n1, n2)
  PROVE  Numbered!AddRelationship(
           <<"addRelationship", e[1], Numbered!From(e), Numbered!To(e)>>, e, <<>>)
<1>call. PICK call : call = <<"addRelationship", t, n1, n2>> OBVIOUS
<1>1. e[1] = t /\ Numbered!From(e) = n1 /\ Numbered!To(e) = n2
      /\ (Numbered!Exist(e) <=> n1 # -1 /\ n2 # -1)
  BY PairIs
<1>2. CASE (n1 = -1 \/ n2 = -1) /\ Unchanged(call, "refused")
  <2>1. Numbered!Return(call, "refused", -1) /\ Numbered!Nothing BY <1>2, NothingMapped
  <2>2. Numbered!AddRelationship(call, e, <<>>)
    BY <1>1, <1>2, <2>1 DEF Numbered!AddRelationship
  <2>3. QED BY <1>1, <1>call, <2>2
<1>3. CASE n1 # -1 /\ n2 # -1 /\ Link(call, t, n1, n2, 0, NoProps)
  <2>1. NoProps \in StoredMaps /\ NoProps = <<>> BY NoPropsStored DEF NoProps
  <2>2. Numbered!AddRelationship(call, e, NoProps) BY <1>3, <2>1, LinkMapped
  <2>3. QED BY <1>1, <1>call, <2>1, <2>2
<1>4. QED BY <1>2, <1>3, <1>call DEF AddRelationship

LEMMA AddWithPropertiesMapped ==
  ASSUME NodesTyped, NodeIdsSound, RelsInv, NumberInv, RelsInv', NumberInv',
         NEW t, NEW f, NEW g, NEW e, NEW n1, NEW n2, Pair(t, f, g, e, n1, n2),
         NEW m \in UserMaps, NEW sent \in {0} \cup SentCounts,
         AddRelationshipWithProperties(t, n1, n2, m, sent)
  PROVE  Numbered!AddRelationship(
           <<"addRelationshipWithProperties", e[1], Numbered!From(e), Numbered!To(e), m>>, e, m)
<1>call. PICK call : call = <<"addRelationshipWithProperties", t, n1, n2, m>> OBVIOUS
<1>shown. PICK shown : shown = IF NextNumber(t, n1, n2) > 1 THEN NextNumber(t, n1, n2) ELSE sent
  OBVIOUS
<1>1. e[1] = t /\ Numbered!From(e) = n1 /\ Numbered!To(e) = n2
      /\ (Numbered!Exist(e) <=> n1 # -1 /\ n2 # -1)
      /\ n1 \in {-1} \cup NodeIds /\ n2 \in {-1} \cup NodeIds
  BY PairIs
<1>2. CASE (n1 = -1 \/ n2 = -1) /\ Unchanged(call, "refused")
  <2>1. Numbered!Return(call, "refused", -1) /\ Numbered!Nothing BY <1>2, NothingMapped
  <2>2. Numbered!AddRelationship(call, e, m)
    BY <1>1, <1>2, <2>1 DEF Numbered!AddRelationship
  <2>3. QED BY <1>1, <1>call, <2>2
<1>3. CASE n1 # -1 /\ n2 # -1 /\ Link(call, t, n1, n2, shown, m)
  <2>1. m \in StoredMaps BY UserMapsStored
  <2>2. shown \in Int
    <3>1. <<n1, n2>> \in Pairs BY <1>1, <1>3 DEF Pairs
    <3>2. NextNumber(t, n1, n2) \in Int
      BY <3>1 DEF NextNumber, PairCounts, RelsInv, CountsTyped, Pairs
    <3>3. sent \in Int BY BoundsAssumption
    <3>4. QED BY <1>shown, <3>2, <3>3
  <2>3. Numbered!AddRelationship(call, e, m) BY <1>3, <2>1, <2>2, LinkMapped
  <2>4. QED BY <1>1, <1>call, <2>3
<1>4. QED BY <1>2, <1>3, <1>call, <1>shown DEF AddRelationshipWithProperties

LEMMA NotRemovable ==
  ASSUME NodesTyped, RelsInv, NumberInv,
         NEW t, NEW f, NEW g, NEW e, NEW n1, NEW n2, Pair(t, f, g, e, n1, n2),
         NEW k \in Int, k >= 1, ~ Removable(t, n1, n2, k)
  PROVE  ~ Numbered!Exist(e) \/ Len(Parallels[e]) < k
<1>1. SUFFICES ASSUME Numbered!Exist(e) PROVE Len(Parallels[e]) < k OBVIOUS
<1>2. n1 \in NodeIds /\ n2 \in NodeIds /\ n1 # -1 /\ n2 # -1 /\ Parallels[e] = ListOf(t, n1, n2)
  BY <1>1, PairIs
<1>count. PICK count : count = CountAt(t, <<n1, n2>>) OBVIOUS
<1>3. count \in Nat /\ Len(Parallels[e]) = count BY <1>2, <1>count, ListLength
<1>4. count = 0 \/ count < k BY <1>2, <1>count DEF Removable, Checked, CountAt
<1>5. QED BY <1>3, <1>4

\* By names alone the last relationship of the list goes.
LEMMA RemoveLastMapped ==
  ASSUME NodesTyped, NodeIdsSound, RelsInv, NumberInv, KeyInv, RelsInv', NumberInv',
         NEW t, NEW f, NEW g, NEW e, NEW n1, NEW n2, Pair(t, f, g, e, n1, n2),
         RemoveRelationship(t, n1, n2)
  PROVE  Numbered!RemoveRelationship(e)
<1>call. PICK call : call = <<"removeRelationship", t, n1, n2>> OBVIOUS
<1>1. e[1] = t /\ Numbered!From(e) = n1 /\ Numbered!To(e) = n2 /\ e \in Triples
      /\ (Numbered!Exist(e) <=> n1 # -1 /\ n2 # -1)
  BY PairIs
<1>c. call = <<"removeRelationship", e[1], Numbered!From(e), Numbered!To(e)>>
  BY <1>1, <1>call
<1>2. CASE ~ Removable(t, n1, n2, 1) /\ Unchanged(call, "refused")
  <2>1. Numbered!Return(call, "refused", -1) /\ Numbered!Nothing BY <1>2, NothingMapped
  <2>2. ~ Numbered!Exist(e) \/ Len(Parallels[e]) < 1 BY <1>2, NotRemovable
  <2>3. Numbered!Exist(e) /\ Len(Parallels[e]) < 1 => Parallels[e] = <<>>
    <3>1. SUFFICES ASSUME Numbered!Exist(e), Len(Parallels[e]) < 1 PROVE Parallels[e] = <<>>
      OBVIOUS
    <3>2. n1 \in NodeIds /\ n2 \in NodeIds /\ Parallels[e] = ListOf(t, n1, n2)
      BY <3>1, PairIs
    <3>3. /\ Len(Parallels[e]) = CountAt(t, <<n1, n2>>) /\ Len(Parallels[e]) \in Nat
          /\ Parallels[e] = <<>> <=> CountAt(t, <<n1, n2>>) = 0
      BY <3>2, ListLength
    <3>4. QED BY <3>1, <3>3
  <2>4. QED BY <1>c, <2>1, <2>2, <2>3 DEF Numbered!RemoveRelationship
<1>3. CASE Removable(t, n1, n2, 1) /\ RemoveNumber(call, t, n1, n2, relatedCounts[t][<<n1, n2>>])
  <2>s. PICK s : s = Parallels[e] OBVIOUS
  <2>n. PICK n : n = Len(s) OBVIOUS
  <2>j. PICK j : j = relatedCounts[t][<<n1, n2>>] OBVIOUS
  <2>0. Taken(call, e, 1, j)
    <3>1. RemoveNumber(call, t, n1, n2, j) BY <1>3, <2>j
    <3>2. j \in {1, relatedCounts[t][<<n1, n2>>]} /\ 1 \in Int /\ 1 >= 1 BY <2>j
    <3>3. QED BY <1>3, <3>1, <3>2, RemoveMapped, SMTT(60)
  <2>1. /\ Numbered!Return(call, "done", -1) /\ Numbered!Exist(e)
        /\ UNCHANGED nodeKeys /\ KnownTypes' = KnownTypes
        /\ n \in Nat /\ j \in 1 .. n /\ DOMAIN s = 1 .. n
        /\ j = 1 \/ j = n
        /\ Parallels' = [Parallels EXCEPT ![e] = LeftWithout(s, n, j)]
    BY <2>0, <2>s, <2>n DEF Taken
  <2>2. j = n
    <3>1. n1 \in NodeIds /\ n2 \in NodeIds /\ s = ListOf(t, n1, n2)
      BY <2>1, <2>s, PairIs
    <3>2. n = CountAt(t, <<n1, n2>>) BY <2>n, <3>1, ListLength
    <3>3. QED BY <1>3, <2>j, <3>2 DEF CountAt, Removable
  <2>3. s = [i \in 1 .. n |-> s[i]] /\ n # 0
    <3>1. n1 \in NodeIds /\ n2 \in NodeIds /\ s = ListOf(t, n1, n2)
      BY <2>1, <2>s, PairIs
    <3>2. s = [i \in DOMAIN s |-> s[i]] BY <3>1 DEF ListOf
    <3>3. QED BY <2>1, <3>2
  <2>4. Front(s) = LeftWithout(s, n, n)
    <3>1. Front(s) = [i \in 1 .. n - 1 |-> s[i]] BY <2>1, <2>3, FrontIs
    <3>2. LeftWithout(s, n, n) = [i \in 1 .. n - 1 |-> s[i]] BY <2>1 DEF LeftWithout
    <3>3. QED BY <3>1, <3>2
  <2>5. Numbered!Front(s) = Front(s) BY DEF Numbered!Front, Front
  <2>6. Parallels' = [Parallels EXCEPT ![e] = Numbered!Front(@)]
    BY <2>1, <2>2, <2>4, <2>5, <2>s
  <2>7. Parallels[e] # <<>> BY <2>1, <2>2, <2>s
  <2>8. QED BY <1>c, <2>1, <2>6, <2>7 DEF Numbered!RemoveRelationship
<1>4. QED BY <1>2, <1>3, <1>call DEF RemoveRelationship

\* With a number the last relationship takes the place of that number.
LEMMA RemoveNumberMapped ==
  ASSUME NodesTyped, NodeIdsSound, RelsInv, NumberInv, KeyInv, RelsInv', NumberInv',
         NEW t, NEW f, NEW g, NEW e, NEW n1, NEW n2, Pair(t, f, g, e, n1, n2),
         NEW k \in Int, k >= 1, RemoveRelationshipNumber(t, n1, n2, k)
  PROVE  Numbered!RemoveRelationshipNumber(e, k)
<1>call. PICK call : call = <<"removeRelationshipNumber", t, n1, n2, k>> OBVIOUS
<1>1. e[1] = t /\ Numbered!From(e) = n1 /\ Numbered!To(e) = n2
  BY PairIs
<1>c. call = <<"removeRelationshipNumber", e[1], Numbered!From(e), Numbered!To(e), k>>
  BY <1>1, <1>call
<1>2. CASE ~ Removable(t, n1, n2, k) /\ Unchanged(call, "refused")
  <2>1. Numbered!Return(call, "refused", -1) /\ Numbered!Nothing BY <1>2, NothingMapped
  <2>2. ~ Numbered!Exist(e) \/ Len(Parallels[e]) < k BY <1>2, NotRemovable
  <2>3. QED BY <1>c, <2>1, <2>2 DEF Numbered!RemoveRelationshipNumber
<1>3. CASE Removable(t, n1, n2, k) /\ RemoveNumber(call, t, n1, n2, k)
  <2>s. PICK s : s = Parallels[e] OBVIOUS
  <2>n. PICK n : n = Len(s) OBVIOUS
  <2>0. Taken(call, e, k, k)
    <3>j. PICK j : j = k OBVIOUS
    <3>1. j \in {k, relatedCounts[t][<<n1, n2>>]} /\ RemoveNumber(call, t, n1, n2, j)
      BY <1>3, <3>j
    <3>2. Taken(call, e, k, j) BY <1>3, <3>1, RemoveMapped, SMTT(60)
    <3>3. QED BY <3>2, <3>j
  <2>1. /\ Numbered!Return(call, "done", -1) /\ Numbered!Exist(e)
        /\ UNCHANGED nodeKeys /\ KnownTypes' = KnownTypes
        /\ n \in Nat /\ k \in 1 .. n /\ DOMAIN s = 1 .. n
        /\ Parallels' = [Parallels EXCEPT ![e] = LeftWithout(s, n, k)]
    BY <2>0, <2>s, <2>n DEF Taken
  <2>2. s = [i \in 1 .. n |-> s[i]]
    <3>1. n1 \in NodeIds /\ n2 \in NodeIds /\ s = ListOf(t, n1, n2)
      BY <2>1, <2>s, PairIs
    <3>2. s = [i \in DOMAIN s |-> s[i]] BY <3>1 DEF ListOf
    <3>3. QED BY <2>1, <3>2
  <2>3. Front(ReplaceAt(s, k, Last(s))) = LeftWithout(s, n, k)
    BY <2>1, <2>2, WithoutIs DEF LeftWithout
  <2>4. Numbered!Without(s, k) = Front(ReplaceAt(s, k, Last(s)))
    BY DEF Numbered!Without, Numbered!Front, Numbered!ReplaceAt, Numbered!Last,
           Front, ReplaceAt, Last
  <2>5. Parallels' = [Parallels EXCEPT ![e] = Numbered!Without(Parallels[e], k)]
    BY <2>1, <2>3, <2>4, <2>s
  <2>6. QED BY <1>c, <2>1, <2>5, <2>s DEF Numbered!RemoveRelationshipNumber
<1>4. QED BY <1>2, <1>3, <1>call DEF RemoveRelationshipNumber

\* Number k was found: its key, its place in the list and its relationship.
FoundAt(t, k, e, n1, n2, id) ==
  /\ n1 \in NodeIds /\ n2 \in NodeIds /\ n1 # -1 /\ n2 # -1 /\ t \in KnownTypes
  /\ k \in 1 .. relatedCounts[t][<<n1, n2>>]
  /\ Numbered!Exist(e) /\ k \in DOMAIN Parallels[e] /\ Parallels[e] = ListOf(t, n1, n2)
  /\ RelUsable(id) /\ Parallels[e][k].props = RelRec(id).props

\* A number the checks accept leads to its entry of the list.
LEMMA FoundIs ==
  ASSUME NodesTyped, RelsInv, NumberInv, KeyInv,
         NEW t, NEW f, NEW g, NEW e, NEW n1, NEW n2, Pair(t, f, g, e, n1, n2),
         NEW k \in Int, k >= 1, Checked(t, n1, n2, k) = "found",
         NEW id, id = RelationshipKeyId(t, k, n1, n2)
  PROVE  FoundAt(t, k, e, n1, n2, id)
<1>pair. PICK pair : pair = <<n1, n2>> OBVIOUS
<1>count. PICK count : count = relatedCounts[t][pair] OBVIOUS
<1>1. n1 # -1 /\ n2 # -1 /\ t \in KnownTypes /\ count # 0 /\ ~ (count < k)
  BY <1>count, <1>pair DEF Checked
<1>2. /\ n1 \in NodeIds /\ n2 \in NodeIds
      /\ Numbered!Exist(e) /\ Parallels[e] = ListOf(t, n1, n2)
  BY <1>1, PairIs
<1>3. CountAt(t, pair) = count BY <1>1, <1>count DEF CountAt
<1>4. ListRead(t, n1, n2, pair) BY <1>2, <1>pair, ListsAre DEF ListsRead
<1>5. count \in Nat /\ k \in 1 .. count BY <1>1, <1>3, <1>4 DEF ListRead
<1>6. /\ Has(relationshipKeys, <<t, k>>, pair)
      /\ ListOf(t, n1, n2) =
           [j \in 1 .. count |-> EntryOf(relationships, relationshipKeys[<<t, j>>][pair])]
  BY <1>3, <1>4, <1>5 DEF ListRead
<1>7. id = relationshipKeys[<<t, k>>][pair] BY <1>6, <1>pair, KeyIdIs
<1>8. RelUsable(id) BY <1>6, <1>7 DEF KeyInv, KeysLead, IsOf
<1>9. k \in DOMAIN Parallels[e] /\ Parallels[e][k].props = RelRec(id).props
  BY <1>2, <1>5, <1>6, <1>7 DEF EntryOf, RelRec
<1>10. QED BY <1>1, <1>2, <1>5, <1>8, <1>9, <1>count, <1>pair DEF FoundAt

\* A property operation, once its arguments are accepted: number k is checked
\* and, if there is one, the properties of its relationship are replaced.
Tried(t, n1, n2, k, id, call, outcome, props) ==
  \/ Checked(t, n1, n2, k) # "found" /\ Unchanged(call, Checked(t, n1, n2, k))
  \/ Checked(t, n1, n2, k) = "found" /\ ChangeProps(call, id, outcome, props)

LEMMA OnNumberMapped ==
  ASSUME NodesTyped, NodeIdsSound, RelsInv, NumberInv, KeyInv, RelsInv', NumberInv',
         NEW t, NEW f, NEW g, NEW e, NEW n1, NEW n2, Pair(t, f, g, e, n1, n2),
         NEW k \in Int, k >= 1, NEW id, id = RelationshipKeyId(t, k, n1, n2),
         NEW call, NEW outcome, NEW props,
         Tried(t, n1, n2, k, id, call, outcome, props)
  PROVE  Numbered!OnNumber(call, e, k, outcome, props)
<1>1. e[1] = t /\ n1 \in {-1} \cup NodeIds /\ n2 \in {-1} \cup NodeIds
      /\ (Numbered!Exist(e) <=> n1 # -1 /\ n2 # -1)
      /\ Parallels[e] = IF n1 = -1 \/ n2 = -1 THEN <<>> ELSE ListOf(t, n1, n2)
  BY PairIs
<1>2. CASE Checked(t, n1, n2, k) # "found" /\ Unchanged(call, Checked(t, n1, n2, k))
  <2>a. PICK answer : answer = Checked(t, n1, n2, k) OBVIOUS
  <2>1. Numbered!Return(call, answer, -1) /\ Numbered!Nothing BY <1>2, <2>a, NothingMapped
  <2>2. CASE n1 = -1 \/ n2 = -1
    <3>1. answer = "refused" BY <2>2, <2>a DEF Checked
    <3>2. QED BY <1>1, <2>1, <2>2, <3>1 DEF Numbered!OnNumber
  <2>3. CASE n1 # -1 /\ n2 # -1 /\ t \notin KnownTypes
    <3>1. answer = "threw" BY <2>3, <2>a DEF Checked
    <3>2. QED BY <1>1, <2>1, <2>3, <3>1 DEF Numbered!OnNumber
  <2>4. CASE n1 # -1 /\ n2 # -1 /\ t \in KnownTypes
    <3>count. PICK count : count = CountAt(t, <<n1, n2>>) OBVIOUS
    <3>1. count \in Nat /\ Len(Parallels[e]) = count
      BY <1>1, <2>4, <3>count, ListLength
    <3>2. answer = "refused" /\ (count = 0 \/ count < k)
      BY <1>2, <2>4, <2>a, <3>count DEF Checked, CountAt
    <3>3. Len(Parallels[e]) < k BY <3>1, <3>2
    <3>4. QED BY <1>1, <2>1, <2>4, <3>2, <3>3 DEF Numbered!OnNumber
  <2>5. QED BY <2>2, <2>3, <2>4
<1>3. CASE Checked(t, n1, n2, k) = "found" /\ ChangeProps(call, id, outcome, props)
  <2>0. FoundAt(t, k, e, n1, n2, id) BY <1>3, FoundIs
  <2>1. /\ n1 \in NodeIds /\ n2 \in NodeIds /\ n1 # -1 /\ n2 # -1 /\ t \in KnownTypes
        /\ k \in 1 .. relatedCounts[t][<<n1, n2>>]
        /\ Numbered!Exist(e) /\ k \in DOMAIN Parallels[e] /\ Parallels[e] = ListOf(t, n1, n2)
        /\ RelUsable(id)
    BY <2>0 DEF FoundAt
  <2>2. SetRelProps(call, id, outcome, props) BY <1>3, <2>1 DEF ChangeProps
  <2>3. UNCHANGED nodeKeys /\ KnownTypes' = KnownTypes /\ Return(call, outcome, -1)
    BY <2>2 DEF SetRelProps, nodeVars, KnownTypes
  <2>list. PICK list : list = [ListOf(t, n1, n2) EXCEPT ![k].props = props] OBVIOUS
  <2>4. OneList(t, n1, n2, list) BY <2>1, <2>2, <2>list, PropsLists
  <2>5. Parallels' = [Parallels EXCEPT ![e] = list]
    <3>1. UNCHANGED nodeKeys BY <2>3
    <3>2. n1 # -1 /\ n2 # -1 BY <2>1
    <3>3. QED BY <2>4, <3>1, <3>2, OneParallel, SMTT(60)
  <2>6. Parallels' = [Parallels EXCEPT ![e][k].props = props]
    BY <2>1, <2>5, <2>list
  <2>7. Numbered!Return(call, outcome, -1) BY <2>3 DEF Return, Numbered!Return
  <2>8. QED BY <2>1, <2>3, <2>6, <2>7 DEF Numbered!OnNumber
<1>4. QED BY <1>2, <1>3 DEF Tried

\* Where the number is not found, OnNumber does not look at the new properties.
LEMMA OnNumberElsewhere ==
  ASSUME NodesTyped, NodeIdsSound, RelsInv, NumberInv, KeyInv, RelsInv', NumberInv',
         NEW t, NEW f, NEW g, NEW e, NEW n1, NEW n2, Pair(t, f, g, e, n1, n2),
         NEW k \in Int, k >= 1, NEW id, id = RelationshipKeyId(t, k, n1, n2),
         NEW call, NEW outcome, NEW props, NEW seen, NEW put,
         Tried(t, n1, n2, k, id, call, outcome, props),
         Numbered!PropsAt(e, k) = RelRec(id).props => outcome = seen /\ props = put
  PROVE  Numbered!OnNumber(call, e, k, seen, put)
<1>1. CASE Checked(t, n1, n2, k) # "found"
  <2>1. Tried(t, n1, n2, k, id, call, seen, put) BY <1>1 DEF Tried
  <2>2. QED BY <2>1, OnNumberMapped
<1>2. CASE Checked(t, n1, n2, k) = "found"
  <2>0. FoundAt(t, k, e, n1, n2, id) BY <1>2, FoundIs
  <2>1. Numbered!PropsAt(e, k) = RelRec(id).props BY <2>0 DEF FoundAt, Numbered!PropsAt
  <2>2. outcome = seen /\ props = put BY <2>1
  <2>3. QED BY <2>2, OnNumberMapped
<1>3. QED BY <1>1, <1>2

\* Maps with reserved names are those that are not the user's alone.
LEMMA ReservedIs == \A m \in PropMaps : m \in Numbered!UserOnly <=> ~ Reserved(m)
BY DEF Numbered!UserOnly, Numbered!Maps, PropMaps, Reserved

LEMMA MergedIs == \A f, g : Numbered!Merged(f, g) = MapPutAll(f, g)
BY DEF Numbered!Merged, MapPutAll

LEMMA MergedOne == \A f, p, v : Numbered!Merged(f, [q \in {p} |-> v]) = MapPut(f, p, v)
<1>1. SUFFICES ASSUME NEW f, NEW p, NEW v
               PROVE  Numbered!Merged(f, [q \in {p} |-> v]) = MapPut(f, p, v)
  OBVIOUS
<1>g. PICK g : g = [q \in {p} |-> v] OBVIOUS
<1>2. DOMAIN g = {p} /\ g[p] = v BY <1>g
<1>3. Numbered!Merged(f, g) = [y \in DOMAIN f \cup {p} |-> IF y \in {p} THEN g[y] ELSE f[y]]
  BY <1>2 DEF Numbered!Merged
<1>4. \A y \in DOMAIN f \cup {p} :
        (IF y \in {p} THEN g[y] ELSE f[y]) = IF y = p THEN v ELSE f[y]
  BY <1>2
<1>5. Numbered!Merged(f, g) = [y \in DOMAIN f \cup {p} |-> IF y = p THEN v ELSE f[y]]
  BY <1>3, <1>4
<1>6. QED BY <1>5, <1>g DEF MapPut

LEMMA UpdatePropertiesMapped ==
  ASSUME NodesTyped, NodeIdsSound, RelsInv, NumberInv, KeyInv, RelsInv', NumberInv',
         NEW t, NEW f, NEW g, NEW e, NEW n1, NEW n2, Pair(t, f, g, e, n1, n2),
         NEW k \in Int, k >= 1, NEW m \in PropMaps,
         UpdateRelationshipProperties(t, n1, n2, k, m)
  PROVE  Numbered!UpdateRelationshipProperties(e, k, m)
<1>call. PICK call : call = <<"updateRelationshipProperties", t, n1, n2, k, m>> OBVIOUS
<1>id. PICK id : id = RelationshipKeyId(t, k, n1, n2) OBVIOUS
<1>1. e[1] = t /\ Numbered!From(e) = n1 /\ Numbered!To(e) = n2 BY PairIs
<1>c. call = <<"updateRelationshipProperties", e[1], Numbered!From(e), Numbered!To(e), k, m>>
  BY <1>1, <1>call
<1>2. CASE Reserved(m)
  <2>1. Unchanged(call, "refused") BY <1>2, <1>call DEF UpdateRelationshipProperties
  <2>2. Numbered!Return(call, "refused", -1) /\ Numbered!Nothing BY <2>1, NothingMapped
  <2>3. m \notin Numbered!UserOnly BY <1>2, ReservedIs
  <2>4. QED BY <1>c, <2>2, <2>3 DEF Numbered!UpdateRelationshipProperties
<1>3. CASE ~ Reserved(m)
  <2>props. PICK props : props = MapPutAll(RelRec(id).props, m) OBVIOUS
  <2>put. PICK put : put = Numbered!Merged(Numbered!PropsAt(e, k), m) OBVIOUS
  <2>1. Tried(t, n1, n2, k, id, call, "done", props)
    BY <1>3, <1>call, <1>id, <2>props DEF Tried, UpdateRelationshipProperties
  <2>2. Numbered!PropsAt(e, k) = RelRec(id).props => props = put
    BY <2>props, <2>put, MergedIs
  <2>3. Numbered!OnNumber(call, e, k, "done", put)
    BY <1>id, <2>1, <2>2, OnNumberElsewhere, SMTT(60)
  <2>4. m \in Numbered!UserOnly BY <1>3, ReservedIs
  <2>5. QED BY <1>c, <2>3, <2>4, <2>put DEF Numbered!UpdateRelationshipProperties
<1>4. QED BY <1>2, <1>3

LEMMA UpdatePropertyMapped ==
  ASSUME NodesTyped, NodeIdsSound, RelsInv, NumberInv, KeyInv, RelsInv', NumberInv',
         NEW t, NEW f, NEW g, NEW e, NEW n1, NEW n2, Pair(t, f, g, e, n1, n2),
         NEW k \in Int, k >= 1, NEW p, NEW v,
         UpdateRelationshipProperty(t, n1, n2, k, p, v)
  PROVE  Numbered!UpdateRelationshipProperty(e, k, p, v)
<1>call. PICK call : call = <<"updateRelationshipProperty", t, n1, n2, k, p, v>> OBVIOUS
<1>id. PICK id : id = RelationshipKeyId(t, k, n1, n2) OBVIOUS
<1>1. e[1] = t /\ Numbered!From(e) = n1 /\ Numbered!To(e) = n2 BY PairIs
<1>c. call = <<"updateRelationshipProperty", e[1], Numbered!From(e), Numbered!To(e), k, p, v>>
  BY <1>1, <1>call
<1>2. CASE p \in MetaNames
  <2>1. Unchanged(call, "refused") BY <1>2, <1>call DEF UpdateRelationshipProperty
  <2>2. Numbered!Return(call, "refused", -1) /\ Numbered!Nothing BY <2>1, NothingMapped
  <2>3. QED BY <1>2, <1>c, <2>2 DEF Numbered!UpdateRelationshipProperty
<1>3. CASE p \notin MetaNames
  <2>props. PICK props : props = MapPut(RelRec(id).props, p, v) OBVIOUS
  <2>put. PICK put : put = Numbered!Merged(Numbered!PropsAt(e, k), [q \in {p} |-> v]) OBVIOUS
  <2>1. Tried(t, n1, n2, k, id, call, "done", props)
    BY <1>3, <1>call, <1>id, <2>props DEF Tried, UpdateRelationshipProperty
  <2>2. Numbered!PropsAt(e, k) = RelRec(id).props => props = put
    BY <2>props, <2>put, MergedOne
  <2>3. Numbered!OnNumber(call, e, k, "done", put)
    BY <1>id, <2>1, <2>2, OnNumberElsewhere, SMTT(60)
  <2>4. QED BY <1>3, <1>c, <2>3, <2>put DEF Numbered!UpdateRelationshipProperty
<1>4. QED BY <1>2, <1>3

LEMMA DeletePropertyMapped ==
  ASSUME NodesTyped, NodeIdsSound, RelsInv, NumberInv, KeyInv, RelsInv', NumberInv',
         NEW t, NEW f, NEW g, NEW e, NEW n1, NEW n2, Pair(t, f, g, e, n1, n2),
         NEW k \in Int, k >= 1, NEW numbered \in BOOLEAN, NEW p,
         DeleteRelationshipProperty(t, n1, n2, k, numbered, p)
  PROVE  Numbered!DeleteRelationshipProperty(e, k, numbered, p)
<1>call. PICK call : call = <<"deleteRelationshipProperty", t, n1, n2, k, numbered, p>> OBVIOUS
<1>id. PICK id : id = RelationshipKeyId(t, k, n1, n2) OBVIOUS
<1>1. e[1] = t /\ Numbered!From(e) = n1 /\ Numbered!To(e) = n2 BY PairIs
<1>c. call =
        <<"deleteRelationshipProperty", e[1], Numbered!From(e), Numbered!To(e), k, numbered, p>>
  BY <1>1, <1>call
<1>2. CASE p \in MetaNames
  <2>1. Unchanged(call, "refused") BY <1>2, <1>call DEF DeleteRelationshipProperty
  <2>2. Numbered!Return(call, "refused", -1) /\ Numbered!Nothing BY <2>1, NothingMapped
  <2>3. QED BY <1>2, <1>c, <2>2 DEF Numbered!DeleteRelationshipProperty
<1>3. CASE p \notin MetaNames
  <2>old. PICK old : old = RelRec(id).props OBVIOUS
  <2>at. PICK at : at = Numbered!PropsAt(e, k) OBVIOUS
  <2>props. PICK props : props = Drop(old, p) OBVIOUS
  <2>put. PICK put : put = Numbered!Restrict(at, DOMAIN at \ {p}) OBVIOUS
  <2>o. PICK outcome : outcome = IF numbered \/ p \in DOMAIN old THEN "done" ELSE "refused"
    OBVIOUS
  <2>n. PICK seen : seen = IF numbered \/ p \in DOMAIN at THEN "done" ELSE "refused" OBVIOUS
  <2>1. Tried(t, n1, n2, k, id, call, outcome, props)
    BY <1>3, <1>call, <1>id, <2>old, <2>props, <2>o DEF Tried, DeleteRelationshipProperty
  <2>2. Numbered!PropsAt(e, k) = RelRec(id).props => outcome = seen /\ props = put
    <3>1. SUFFICES ASSUME at = old PROVE outcome = seen /\ props = put BY <2>old, <2>at
    <3>2. props = put BY <3>1, <2>props, <2>put DEF Drop, Restrict, Numbered!Restrict
    <3>3. QED BY <3>1, <3>2, <2>o, <2>n
  <2>3. Numbered!OnNumber(call, e, k, seen, put)
    BY <1>id, <2>1, <2>2, OnNumberElsewhere, SMTT(60)
  <2>4. QED BY <1>3, <1>c, <2>3, <2>put, <2>at, <2>n DEF Numbered!DeleteRelationshipProperty
<1>4. QED BY <1>2, <1>3

-----------------------------------------------------------------------------
(* Every step of the client *)

NodeOp(n) ==
  \/ \E m \in UserMaps : AddNode(n, m)
  \/ Detached(n) /\ RemoveNode(<<"removeDetachedNode", nodeKeys[n]>>, n)

AddOp(t, n1, n2) ==
  \/ AddRelationship(t, n1, n2)
  \/ \E m \in UserMaps, sent \in {0} \cup SentCounts :
       AddRelationshipWithProperties(t, n1, n2, m, sent)

RemoveOp(t, n1, n2) ==
  \/ RemoveRelationship(t, n1, n2)
  \/ \E k \in Numbers : RemoveRelationshipNumber(t, n1, n2, k)

PropsOp(t, n1, n2, k) ==
  \/ \E m \in PropMaps : UpdateRelationshipProperties(t, n1, n2, k, m)
  \/ \E p \in PropNames, v \in Values : UpdateRelationshipProperty(t, n1, n2, k, p, v)
  \/ \E numbered \in BOOLEAN, p \in PropNames :
       DeleteRelationshipProperty(t, n1, n2, k, numbered, p)

PairOp(t, n1, n2) ==
  AddOp(t, n1, n2) \/ RemoveOp(t, n1, n2) \/ \E k \in Numbers : PropsOp(t, n1, n2, k)

LEMMA ListSteps ==
  ASSUME ListClient, [Next]_vars
  PROVE  \/ UNCHANGED vars
         \/ \E n \in Names : NodeOp(n)
         \/ \E t \in Types, f \in Names, g \in Names : PairOp(t, nodeKeys[f], nodeKeys[g])
<1>0. \A op \in {"removeNode", "updateNodeProperties", "updateNodeProperty",
                 "deleteNodeProperty", "deleteNodeProperties",
                 "removeRelationshipById", "deleteRelationshipProperties",
                 "updateRelationshipPropertiesById", "updateRelationshipPropertyById",
                 "deleteRelationshipPropertyById", "deleteRelationshipPropertiesById"} :
        op \notin Ops
  BY ListClientIs
<1>1. ASSUME NEW n \in Names,
             \/ RemoveNode(<<"removeNode", nodeKeys[n]>>, n)
             \/ \E m \in PropMaps : UpdateNodeProperties(nodeKeys[n], m)
             \/ \E p \in PropNames, v \in Values : UpdateNodeProperty(nodeKeys[n], p, v)
             \/ \E p \in PropNames : DeleteNodeProperty(nodeKeys[n], p)
             \/ DeleteNodeProperties(nodeKeys[n])
      PROVE  FALSE
  <2>1. ASSUME RemoveNode(<<"removeNode", nodeKeys[n]>>, n) PROVE FALSE
    BY <1>0, <2>1 DEF RemoveNode
  <2>2. ASSUME NEW m, UpdateNodeProperties(nodeKeys[n], m) PROVE FALSE
    BY <1>0, <2>2 DEF UpdateNodeProperties
  <2>3. ASSUME NEW p, NEW v, UpdateNodeProperty(nodeKeys[n], p, v) PROVE FALSE
    BY <1>0, <2>3 DEF UpdateNodeProperty
  <2>4. ASSUME NEW p, DeleteNodeProperty(nodeKeys[n], p) PROVE FALSE
    BY <1>0, <2>4 DEF DeleteNodeProperty
  <2>5. ASSUME DeleteNodeProperties(nodeKeys[n]) PROVE FALSE
    BY <1>0, <2>5 DEF DeleteNodeProperties
  <2>6. QED BY <1>1, <2>1, <2>2, <2>3, <2>4, <2>5
<1>2. ASSUME IdStep PROVE FALSE
  <2>1. PICK id \in 0 .. Len(relationships) - 1 :
          \/ RemoveRelationshipById(id)
          \/ \E m \in PropMaps : UpdateRelationshipPropertiesById(id, m)
          \/ \E p \in PropNames, v \in Values : UpdateRelationshipPropertyById(id, p, v)
          \/ \E p \in PropNames : DeleteRelationshipPropertyById(id, p)
          \/ DeleteRelationshipPropertiesById(id)
    BY <1>2 DEF IdStep
  <2>2. ASSUME RemoveRelationshipById(id) PROVE FALSE
    BY <1>0, <2>2 DEF RemoveRelationshipById
  <2>3. ASSUME NEW m, UpdateRelationshipPropertiesById(id, m) PROVE FALSE
    BY <1>0, <2>3 DEF UpdateRelationshipPropertiesById
  <2>4. ASSUME NEW p, NEW v, UpdateRelationshipPropertyById(id, p, v) PROVE FALSE
    BY <1>0, <2>4 DEF UpdateRelationshipPropertyById
  <2>5. ASSUME NEW p, DeleteRelationshipPropertyById(id, p) PROVE FALSE
    BY <1>0, <2>5 DEF DeleteRelationshipPropertyById
  <2>6. ASSUME DeleteRelationshipPropertiesById(id) PROVE FALSE
    BY <1>0, <2>6 DEF DeleteRelationshipPropertiesById
  <2>7. QED BY <2>1, <2>2, <2>3, <2>4, <2>5, <2>6
<1>3. ASSUME NEW t, NEW n1, NEW n2, NEW k, NEW numbered,
             DeleteRelationshipProperties(t, n1, n2, k, numbered)
      PROVE  FALSE
  BY <1>0, <1>3 DEF DeleteRelationshipProperties
<1>4. NodeStep => \E n \in Names : NodeOp(n)
  BY <1>1 DEF NodeStep, NodeOp
<1>5. PairStep =>
        \E t \in Types, f \in Names, g \in Names : PairOp(t, nodeKeys[f], nodeKeys[g])
  BY <1>3 DEF PairStep, PairOp, AddOp, RemoveOp, PropsOp
<1>6. QED BY <1>2, <1>4, <1>5 DEF Next

LEMMA HomedNode ==
  ASSUME TypeOK, NodesTyped, RelsInv, IndexInv, ListInv, Homed, NEW n \in Names, NodeOp(n)
  PROVE  Homed'
<1>1. ASSUME Nothing PROVE Homed'
  <2>1. UNCHANGED <<relatedCounts, nodeKeys>> /\ KnownTypes' = KnownTypes
    BY <1>1 DEF Nothing, nodeVars, relVars, KnownTypes
  <2>2. QED BY <2>1, HomedStays DEF Used
<1>2. ASSUME NEW m \in UserMaps, AddNode(n, m) PROVE Homed'
  <2>1. Nothing \/ AddNodeStep BY <1>2, AddNodeKind
  <2>2. QED BY <1>1, <2>1, HomedAdded
<1>call. PICK call : call = <<"removeDetachedNode", nodeKeys[n]>> OBVIOUS
<1>3. ASSUME Detached(n), RemoveNodeDone(call, n) \/ RemoveNodeThrows(call, n) PROVE Homed'
  BY <1>3, HomedDetached
<1>4. ASSUME Detached(n), RemoveNode(call, n) PROVE Homed'
  <2>1. \/ Nothing \/ RemoveNodeDone(call, n) \/ RemoveNodeThrows(call, n)
    BY <1>4 DEF RemoveNode, Unchanged, Nothing
  <2>2. QED BY <1>1, <1>3, <1>4, <2>1
<1>5. QED BY <1>2, <1>4, <1>call DEF NodeOp

LEMMA HomedPair ==
  ASSUME TypeInv, Homed,
         NEW t \in Types, NEW f \in Names, NEW g \in Names, PairOp(t, nodeKeys[f], nodeKeys[g])
  PROVE  Homed'
<1>n1. PICK n1 : n1 = nodeKeys[f] OBVIOUS
<1>n2. PICK n2 : n2 = nodeKeys[g] OBVIOUS
<1>0. NodesTyped /\ RelsInv /\ TypeOK /\ KeysTyped
  BY TypeInvParts, KeysAllocatedTyped DEF TypeInv
<1>1. n1 \in {-1} \cup NodeIds /\ n2 \in {-1} \cup NodeIds BY <1>0, <1>n1, <1>n2 DEF NodesTyped
<1>2. CASE Nothing
  <2>1. UNCHANGED <<relatedCounts, nodeKeys>> /\ KnownTypes' = KnownTypes
    BY <1>2 DEF Nothing, nodeVars, relVars, KnownTypes
  <2>2. QED BY <2>1, HomedStays DEF Used
<1>3. CASE AddOp(t, n1, n2)
  <2>1. ASSUME NEW call, NEW outcome, Unchanged(call, outcome) PROVE Nothing
    BY <2>1 DEF Unchanged, Nothing
  <2>2. \/ Nothing
        \/ n1 # -1 /\ n2 # -1 /\ \E call, shown, props : Link(call, t, n1, n2, shown, props)
    BY <1>3, <2>1 DEF AddOp, AddRelationship, AddRelationshipWithProperties
  <2>3. ASSUME n1 # -1, n2 # -1, NEW call, NEW shown, NEW props,
               Link(call, t, n1, n2, shown, props)
        PROVE  Homed'
    <3>1. n1 \in NodeIds /\ n2 \in NodeIds /\ Used(n1) /\ Used(n2)
      BY <1>1, <1>n1, <1>n2, <2>3 DEF Used
    <3>2. QED BY <1>0, <2>3, <3>1, HomedLink
  <2>4. QED BY <1>2, <2>2, <2>3
<1>4. CASE RemoveOp(t, n1, n2)
  <2>1. Nothing \/ RemoveNumberStep BY <1>0, <1>1, <1>4, RemoveNumberKinds DEF RemoveOp
  <2>2. QED BY <1>0, <1>2, <2>1, HomedRemove
<1>5. CASE \E k \in Numbers : PropsOp(t, n1, n2, k)
  <2>1. Nothing \/ RelPropsStep BY <1>0, <1>1, <1>5, NamedPropertyKinds DEF PropsOp
  <2>2. CASE RelPropsStep
    <3>1. UNCHANGED <<relatedCounts, nodeKeys>> /\ KnownTypes' = KnownTypes
      BY <2>2 DEF RelPropsStep, nodeVars, KnownTypes
    <3>2. QED BY <3>1, HomedStays DEF Used
  <2>3. QED BY <1>2, <2>1, <2>2
<1>6. QED BY <1>3, <1>4, <1>5, <1>n1, <1>n2 DEF PairOp

LEMMA HomedStep ==
  ListClient =>
    (TypeInv /\ NamedInv /\ NodeIdsSound /\ Homed /\ [Next]_vars => Homed')
<1>1. SUFFICES ASSUME ListClient, TypeInv, NamedInv, NodeIdsSound, Homed, [Next]_vars
               PROVE  Homed'
  OBVIOUS
<1>2. TypeOK /\ NodesTyped /\ RelsInv /\ IndexInv /\ ListInv
  BY <1>1, TypeInvParts DEF TypeInv, NamedInv
<1>3. CASE UNCHANGED vars BY <1>1, <1>3 DEF vars, Homed, Used, KnownTypes
<1>4. CASE \E n \in Names : NodeOp(n) BY <1>1, <1>2, <1>4, HomedNode
<1>5. CASE \E t \in Types, f \in Names, g \in Names : PairOp(t, nodeKeys[f], nodeKeys[g])
  BY <1>1, <1>5, HomedPair
<1>6. QED BY <1>1, <1>3, <1>4, <1>5, ListSteps

LEMMA ListInvariantHolds ==
  ASSUME ListClient
  PROVE  Spec => []ListInvariant
<1>1. NamedClient /\ StableClient BY ListClientIs
<1>2. Spec => [](TypeInv /\ NamedInv) BY <1>1, NamedInvHolds
<1>3. Spec => []NodeIdsSound BY <1>1, NodeIdsStaySound
<1>4. Init => Homed BY DEF Init, Homed, KnownTypes
<1>5. TypeInv /\ NamedInv /\ NodeIdsSound /\ Homed /\ [Next]_vars => Homed' BY HomedStep
<1>6. QED BY <1>2, <1>3, <1>4, <1>5, PTL DEF Spec, ListInvariant

-----------------------------------------------------------------------------
(* The refinement *)

ListParts ==
  NodesTyped /\ NodeIdsSound /\ RelsInv /\ NumberInv /\ KeyInv /\ IndexInv /\ ListInv /\ Homed

LEMMA ListPartsAre == ListInvariant => ListParts
BY TypeInvParts DEF ListInvariant, NamedInv, ListParts

LEMMA ListPartsNext == ListInvariant' => ListParts'
BY ListPartsAre, PTL

LEMMA NodeMapped ==
  ASSUME ListParts, NEW n \in Names, NodeOp(n)
  PROVE  Numbered!Next
<1>1. /\ NodesTyped /\ NodeIdsSound /\ RelsInv /\ NumberInv /\ IndexInv /\ ListInv /\ Homed
  BY DEF ListParts
<1>2. ASSUME NEW m \in UserMaps, AddNode(n, m) PROVE Numbered!AddNode(n)
  BY <1>1, <1>2, AddNodeMapped
<1>3. ASSUME Detached(n), RemoveNode(<<"removeDetachedNode", nodeKeys[n]>>, n)
      PROVE  Numbered!RemoveNode(n)
  <2>call. PICK call : call = <<"removeDetachedNode", nodeKeys[n]>> OBVIOUS
  <2>1. RemoveNode(call, n) BY <1>3, <2>call
  <2>2. QED BY <1>1, <1>3, <2>1, <2>call, RemoveNodeMapped
<1>4. Numbered!AddNode(n) \/ Numbered!RemoveNode(n) BY <1>2, <1>3 DEF NodeOp
<1>5. QED BY <1>4 DEF Numbered!Next

LEMMA PairMapped ==
  ASSUME ListClient, ListParts, ListParts',
         NEW t \in Types, NEW f \in Names, NEW g \in Names, PairOp(t, nodeKeys[f], nodeKeys[g])
  PROVE  Numbered!Next
<1>n1. PICK n1 : n1 = nodeKeys[f] OBVIOUS
<1>n2. PICK n2 : n2 = nodeKeys[g] OBVIOUS
<1>e. PICK e : e = <<t, f, g>> OBVIOUS
<1>1. NodesTyped /\ NodeIdsSound /\ RelsInv /\ NumberInv /\ KeyInv /\ RelsInv' /\ NumberInv'
  BY DEF ListParts
<1>p. Pair(t, f, g, e, n1, n2) BY <1>n1, <1>n2, <1>e DEF Pair
<1>2. e \in Numbered!Triples BY <1>e DEF Numbered!Triples
<1>3. \A k \in Numbers : k \in Int /\ k >= 1 BY BoundsAssumption DEF ListClient
<1>4. CASE AddRelationship(t, n1, n2)
  <2>1. Numbered!AddRelationship(
          <<"addRelationship", e[1], Numbered!From(e), Numbered!To(e)>>, e, <<>>)
    BY <1>1, <1>4, <1>p, AddMapped, SMTT(60)
  <2>2. QED BY <1>2, <2>1 DEF Numbered!Next
<1>5. ASSUME NEW m \in UserMaps, NEW sent \in {0} \cup SentCounts,
             AddRelationshipWithProperties(t, n1, n2, m, sent)
      PROVE  Numbered!Next
  <2>1. Numbered!AddRelationship(
          <<"addRelationshipWithProperties", e[1], Numbered!From(e), Numbered!To(e), m>>, e, m)
    BY <1>1, <1>5, <1>p, AddWithPropertiesMapped, SMTT(60)
  <2>2. m \in PropMaps /\ ~ Reserved(m) BY DEF UserMaps, Reserved
  <2>3. m \in Numbered!UserOnly BY <2>2, ReservedIs
  <2>4. QED BY <1>2, <2>1, <2>3 DEF Numbered!Next
<1>6. CASE RemoveRelationship(t, n1, n2)
  <2>1. Numbered!RemoveRelationship(e)
    BY <1>1, <1>6, <1>p, RemoveLastMapped, SMTT(60)
  <2>2. QED BY <1>2, <2>1 DEF Numbered!Next
<1>7. ASSUME NEW k \in Numbers, RemoveRelationshipNumber(t, n1, n2, k) PROVE Numbered!Next
  <2>1. k \in Int /\ k >= 1 BY <1>3
  <2>2. Numbered!RemoveRelationshipNumber(e, k)
    BY <1>1, <1>7, <1>p, <2>1, RemoveNumberMapped, SMTT(60)
  <2>3. QED BY <1>2, <2>2 DEF Numbered!Next
<1>8. ASSUME NEW k \in Numbers, NEW m \in PropMaps,
             UpdateRelationshipProperties(t, n1, n2, k, m)
      PROVE  Numbered!Next
  <2>1. k \in Int /\ k >= 1 BY <1>3
  <2>2. Numbered!UpdateRelationshipProperties(e, k, m)
    BY <1>1, <1>8, <1>p, <2>1, UpdatePropertiesMapped, SMTT(60)
  <2>3. m \in Numbered!Maps BY DEF Numbered!Maps, PropMaps
  <2>4. QED BY <1>2, <2>2, <2>3 DEF Numbered!Next
<1>9. ASSUME NEW k \in Numbers, NEW p \in PropNames, NEW v \in Values,
             UpdateRelationshipProperty(t, n1, n2, k, p, v)
      PROVE  Numbered!Next
  <2>1. k \in Int /\ k >= 1 BY <1>3
  <2>2. Numbered!UpdateRelationshipProperty(e, k, p, v)
    BY <1>1, <1>9, <1>p, <2>1, UpdatePropertyMapped, SMTT(60)
  <2>3. QED BY <1>2, <2>2 DEF Numbered!Next
<1>10. ASSUME NEW k \in Numbers, NEW numbered \in BOOLEAN, NEW p \in PropNames,
              DeleteRelationshipProperty(t, n1, n2, k, numbered, p)
       PROVE  Numbered!Next
  <2>1. k \in Int /\ k >= 1 BY <1>3
  <2>2. Numbered!DeleteRelationshipProperty(e, k, numbered, p)
    BY <1>1, <1>10, <1>p, <2>1, DeletePropertyMapped, SMTT(60)
  <2>3. QED BY <1>2, <2>2 DEF Numbered!Next
<1>11. PairOp(t, n1, n2) BY <1>n1, <1>n2
<1>12. CASE AddOp(t, n1, n2) BY <1>4, <1>5, <1>12 DEF AddOp
<1>13. CASE RemoveOp(t, n1, n2) BY <1>6, <1>7, <1>13 DEF RemoveOp
<1>14. ASSUME NEW k \in Numbers, PropsOp(t, n1, n2, k) PROVE Numbered!Next
  BY <1>8, <1>9, <1>10, <1>14 DEF PropsOp
<1>15. QED BY <1>11, <1>12, <1>13, <1>14 DEF PairOp

LEMMA NextRefines ==
  ASSUME ListClient, ListInvariant, ListInvariant', [Next]_vars
  PROVE  Numbered!Next \/ UNCHANGED Numbered!vars
<1>1. ListParts /\ ListParts' BY ListPartsAre, ListPartsNext
<1>2. CASE UNCHANGED vars
  <2>1. UNCHANGED <<relationshipKeys, relationships, relatedCounts, nodeKeys, result>>
        /\ KnownTypes' = KnownTypes
    BY <1>2 DEF vars, KnownTypes
  <2>2. Parallels' = Parallels BY <1>1, <2>1, ListsStay, SameParallels DEF ListParts
  <2>3. QED BY <2>1, <2>2 DEF Numbered!vars
<1>3. CASE \E n \in Names : NodeOp(n) BY <1>1, <1>3, NodeMapped
<1>4. CASE \E t \in Types, f \in Names, g \in Names : PairOp(t, nodeKeys[f], nodeKeys[g])
  BY <1>1, <1>4, PairMapped
<1>5. QED BY <1>2, <1>3, <1>4, ListSteps

LEMMA InitRefines == Init => Numbered!Init
<1>1. SUFFICES ASSUME Init PROVE Numbered!Init OBVIOUS
<1>2. nodeKeys = [n \in Names |-> -1] /\ KnownTypes = {}
      /\ result = [call |-> <<"clear">>, outcome |-> "done", id |-> -1]
  BY <1>1 DEF Init, KnownTypes
<1>3. Parallels = [e \in Triples |-> <<>>]
  <2>1. \A e \in Triples : Listed(e) = <<>>
    <3>1. SUFFICES ASSUME NEW e \in Triples PROVE nodeKeys[e[2]] = -1 BY DEF Listed
    <3>2. e[2] \in Names BY DEF Triples
    <3>3. QED BY <1>2, <3>2
  <2>2. QED BY <2>1 DEF Parallels, Triples
<1>4. QED BY <1>2, <1>3 DEF Numbered!Init, Numbered!Triples, Triples

\* The graph of a client of the by-name operations, which removes the
\* relationships of a node before the node, is its lists of numbered parallel
\* relationships: the node list, the index, the keys of every number and the
\* counts of FastUtilGraph add, remove, renumber, change and answer as
\* NumberedGraph does, for any number of nodes, types and relationships.
THEOREM GraphIsNumberedLists ==
  ASSUME ListClient
  PROVE  Spec => NumberedGraphSpec
<1>1. Init => Numbered!Init BY InitRefines
<1>2. ListInvariant /\ ListInvariant' /\ [Next]_vars => [Numbered!Next]_(Numbered!vars)
  BY NextRefines
<1>3. Spec => []ListInvariant BY ListInvariantHolds
<1>4. QED BY <1>1, <1>2, <1>3, PTL DEF Spec, NumberedGraphSpec, Numbered!Spec
=============================================================================

----------------------- MODULE ReversibleMultiMap_proofs -----------------------
(***************************************************************************)
(* What the operations of the multimap do to its lists, for lists of any    *)
(* length: how often a value occurs in them, and what removeAll leaves.     *)
(***************************************************************************)
EXTENDS ReversibleMultiMap, FiniteSetTheorems, TLAPS

\* A set of numbers that is not empty has a smallest one.
LEMMA Least ==
  ASSUME NEW T, T \subseteq Nat, T # {}
  PROVE  \E x \in T : \A y \in T : x <= y
<1>1. PICK x \in T : \A y \in T : ~ (<<y, x>> \in OpToRel(<, Nat))
  BY NatLessThanWellFounded, WFMin, Zenon
<1>2. ASSUME NEW y \in T PROVE x <= y
  <2>1. x \in Nat /\ y \in Nat OBVIOUS
  <2>2. ~ (y < x) BY <1>1, <2>1 DEF OpToRel
  <2>3. QED BY <2>1, <2>2
<1>3. QED BY <1>2

\* A property of 0 that passes from each number below n to the next.
LEMMA UpTo ==
  ASSUME NEW n \in Nat, NEW Good, 0 \in Good,
         \A i \in 0 .. n - 1 : i \in Good => i + 1 \in Good
  PROVE  \A i \in 0 .. n : i \in Good
<1> DEFINE Bad == {i \in 0 .. n : i \notin Good}
<1>1. SUFFICES ASSUME Bad # {} PROVE FALSE OBVIOUS
<1>2. Bad \subseteq Nat OBVIOUS
<1>3. PICK i \in Bad : \A j \in Bad : i <= j
  <2> HIDE DEF Bad
  <2>1. QED BY <1>1, <1>2, Least
<1>4. i \in 0 .. n /\ i # 0 OBVIOUS
<1>5. i - 1 \in 0 .. n - 1 /\ i - 1 \in 0 .. n /\ (i - 1) + 1 = i BY <1>4
<1>6. i - 1 \in Good BY <1>3, <1>5
<1>7. QED BY <1>5, <1>6

-----------------------------------------------------------------------------
(* Lists *)

\* Collection.remove: the list without one position that holds the value, or
\* the same list when it does not hold it.
LEMMA RemoveFirstCases ==
  ASSUME NEW S, NEW s \in Seq(S), NEW e
  PROVE  \/ /\ \A i \in 1 .. Len(s) : s[i] # e
            /\ RemoveFirst(s, e) = s
         \/ \E p \in 1 .. Len(s) :
              /\ s[p] = e
              /\ RemoveFirst(s, e) \in Seq(S)
              /\ Len(RemoveFirst(s, e)) = Len(s) - 1
              /\ \A i \in 1 .. Len(s) - 1 :
                   RemoveFirst(s, e)[i] = IF i < p THEN s[i] ELSE s[i + 1]
<1>1. CASE \A i \in 1 .. Len(s) : s[i] # e
  BY <1>1 DEF RemoveFirst
<1>2. CASE \E i \in 1 .. Len(s) : s[i] = e
  <2> DEFINE I == {i \in 1 .. Len(s) : s[i] = e}
  <2> DEFINE p == Min(I)
  <2>1. I \subseteq Nat /\ I # {} BY <1>2
  <2>2. p \in I
    <3>1. \E x \in I : \A y \in I : x <= y BY <2>1, Least
    <3> HIDE DEF I
    <3>2. QED BY <3>1 DEF Min
  <2>3. RemoveFirst(s, e) = SubSeq(s, 1, p - 1) \o SubSeq(s, p + 1, Len(s))
    <3>1. RemoveFirst(s, e) = RemoveAt(s, SelectInSeq(s, LAMBDA v : v = e))
      BY <1>2 DEF RemoveFirst
    <3>2. SelectInSeq(s, LAMBDA v : v = e) = p
      BY <2>1 DEF SelectInSeq
    <3>3. QED BY <3>1, <3>2 DEF RemoveAt
  <2>4. p \in 1 .. Len(s) /\ s[p] = e /\ Len(s) \in Nat BY <2>2
  <2> HIDE DEF p, I
  <2> DEFINE a == SubSeq(s, 1, p - 1)
  <2> DEFINE b == SubSeq(s, p + 1, Len(s))
  <2>5. a \in Seq(S) /\ Len(a) = p - 1 /\ \A i \in 1 .. p - 1 : a[i] = s[i]
    BY <2>4
  <2>6. /\ b \in Seq(S) /\ Len(b) = Len(s) - p
        /\ \A i \in 1 .. Len(s) - p : b[i] = s[p + i]
    BY <2>4
  <2> HIDE DEF a, b
  <2>7. a \o b \in Seq(S) /\ Len(a \o b) = Len(s) - 1
    <3>1. a \o b \in Seq(S) BY <2>5, <2>6
    <3>2. Len(a \o b) = Len(a) + Len(b) BY <2>5, <2>6
    <3>3. QED BY <2>4, <2>5, <2>6, <3>1, <3>2
  <2>8. ASSUME NEW i \in 1 .. Len(s) - 1
        PROVE  (a \o b)[i] = IF i < p THEN s[i] ELSE s[i + 1]
    <3>1. /\ i \in Nat /\ i >= 1 /\ i <= Len(a) + Len(b)
          /\ p \in Nat /\ Len(a) = p - 1 /\ Len(b) = Len(s) - p
      BY <2>4, <2>5, <2>6
    <3>2. (a \o b)[i] = IF i <= Len(a) THEN a[i] ELSE b[i - Len(a)]
      BY <2>5, <2>6, <3>1
    <3>3. CASE i < p BY <2>5, <3>1, <3>2, <3>3
    <3>4. CASE i >= p
      <4>1. i - Len(a) \in 1 .. Len(s) - p /\ p + (i - Len(a)) = i + 1
        BY <2>4, <3>1, <3>4
      <4>2. (a \o b)[i] = b[i - Len(a)] BY <3>1, <3>2, <3>4
      <4>3. QED BY <2>6, <3>1, <3>4, <4>1, <4>2
    <3>5. QED BY <3>1, <3>3, <3>4
  <2>9. RemoveFirst(s, e) = a \o b BY <2>3 DEF a, b
  <2>10. QED BY <2>4, <2>7, <2>8, <2>9
<1>3. QED BY <1>1, <1>2

\* What is left is a list of the same values.
LEMMA RemoveFirstTyped ==
  ASSUME NEW S, NEW s \in Seq(S), NEW e
  PROVE  /\ RemoveFirst(s, e) \in Seq(S)
         /\ Len(RemoveFirst(s, e)) <= Len(s)
         /\ Len(RemoveFirst(s, e)) >= Len(s) - 1
BY RemoveFirstCases

-----------------------------------------------------------------------------
(* How often values occur in a list *)

\* The number of positions of s that hold a value of T.
Places(s, T) == {i \in DOMAIN s : s[i] \in T}
Count(s, T)  == Cardinality(Places(s, T))

LEMMA CountTyped ==
  ASSUME NEW S, NEW s \in Seq(S), NEW T
  PROVE  IsFiniteSet(Places(s, T)) /\ Count(s, T) \in Nat /\ Count(s, T) <= Len(s)
<1>1. Len(s) \in Nat /\ DOMAIN s = 1 .. Len(s) OBVIOUS
<1>2. IsFiniteSet(1 .. Len(s)) /\ Cardinality(1 .. Len(s)) = Len(s)
  <2>1. 1 \in Int /\ Len(s) \in Int /\ (IF 1 > Len(s) THEN 0 ELSE Len(s) - 1 + 1) = Len(s)
    BY <1>1
  <2>2. QED BY <2>1, FS_Interval
<1>3. Places(s, T) \in SUBSET (1 .. Len(s)) BY <1>1 DEF Places
<1>4. IsFiniteSet(Places(s, T)) /\ Cardinality(Places(s, T)) <= Len(s)
  BY <1>2, <1>3, FS_Subset
<1>5. QED BY <1>4, FS_CardinalityType DEF Count

\* Every position counts when every value does.
LEMMA CountAll ==
  ASSUME NEW S, NEW s \in Seq(S), NEW T, S \subseteq T
  PROVE  Count(s, T) = Len(s)
<1>1. Len(s) \in Nat /\ Places(s, T) = 1 .. Len(s) BY DEF Places
<1>2. 1 \in Int /\ Len(s) \in Int /\ (IF 1 > Len(s) THEN 0 ELSE Len(s) - 1 + 1) = Len(s)
  BY <1>1
<1>3. QED BY <1>1, <1>2, FS_Interval DEF Count

LEMMA CountNone ==
  ASSUME NEW S, NEW s \in Seq(S), NEW T
  PROVE  Count(s, T) = 0 <=> \A i \in 1 .. Len(s) : s[i] \notin T
<1>1. IsFiniteSet(Places(s, T)) BY CountTyped
<1>2. Count(s, T) = 0 <=> Places(s, T) = {} BY <1>1, FS_EmptySet DEF Count
<1>3. QED BY <1>2 DEF Places

LEMMA CountEmpty == \A T : Count(<<>>, T) = 0
<1>1. \A T : Places(<<>>, T) = {} BY DEF Places
<1>2. QED BY <1>1, FS_EmptySet DEF Count

LEMMA CountMore ==
  ASSUME NEW S, NEW s \in Seq(S), NEW T, NEW U, T \subseteq U
  PROVE  Count(s, T) <= Count(s, U)
<1>1. Places(s, T) \in SUBSET Places(s, U) BY DEF Places
<1>2. IsFiniteSet(Places(s, U)) BY CountTyped
<1>3. QED BY <1>1, <1>2, FS_Subset DEF Count

\* A value and the others are counted apart.
LEMMA CountSplit ==
  ASSUME NEW S, NEW s \in Seq(S), NEW T, NEW U, T \cap U = {}
  PROVE  Count(s, T \cup U) = Count(s, T) + Count(s, U)
<1>1. /\ Places(s, T \cup U) = Places(s, T) \cup Places(s, U)
      /\ Places(s, T) \cap Places(s, U) = {}
  BY DEF Places
<1>2. IsFiniteSet(Places(s, T)) /\ IsFiniteSet(Places(s, U)) BY CountTyped
<1>3. Count(s, T) \in Nat /\ Count(s, U) \in Nat BY CountTyped
<1>4. Cardinality({}) = 0 BY FS_EmptySet
<1>5. Count(s, T \cup U) = Count(s, T) + Count(s, U) - 0
  <2> DEFINE A == Places(s, T)
  <2> DEFINE B == Places(s, U)
  <2> HIDE DEF A, B
  <2>1. Cardinality(A \cup B) = Cardinality(A) + Cardinality(B) - Cardinality(A \cap B)
    BY <1>2, FS_Union DEF A, B
  <2>2. QED BY <1>1, <1>4, <2>1 DEF Count, A, B
<1>6. QED BY <1>3, <1>5

LEMMA CountAppend ==
  ASSUME NEW S, NEW s \in Seq(S), NEW x, NEW T
  PROVE  Count(Append(s, x), T) = Count(s, T) + (IF x \in T THEN 1 ELSE 0)
<1> DEFINE n == Len(s) + 1
<1>1. /\ n \in Nat /\ DOMAIN Append(s, x) = 1 .. n /\ DOMAIN s = 1 .. n - 1
      /\ Append(s, x)[n] = x /\ \A i \in 1 .. n - 1 : Append(s, x)[i] = s[i]
  OBVIOUS
<1>2. IsFiniteSet(Places(s, T)) /\ Count(s, T) \in Nat BY CountTyped
<1> HIDE DEF n
<1>3. n \notin Places(s, T) BY <1>1 DEF Places
<1>4. CASE x \in T
  <2>1. Places(Append(s, x), T) = Places(s, T) \cup {n} BY <1>1, <1>4 DEF Places
  <2>2. QED BY <1>2, <1>3, <1>4, <2>1, FS_AddElement DEF Count
<1>5. CASE x \notin T
  <2>1. Places(Append(s, x), T) = Places(s, T) BY <1>1, <1>5 DEF Places
  <2>2. QED BY <1>2, <1>5, <2>1 DEF Count
<1>6. QED BY <1>4, <1>5

Holds(s, e) == \E i \in 1 .. Len(s) : s[i] = e

LEMMA CountRemoveFirst ==
  ASSUME NEW S, NEW s \in Seq(S), NEW e, NEW T
  PROVE  Count(RemoveFirst(s, e), T)
           = Count(s, T) - (IF e \in T /\ Holds(s, e) THEN 1 ELSE 0)
<1> DEFINE r == RemoveFirst(s, e)
<1>1. Count(s, T) \in Nat /\ IsFiniteSet(Places(s, T)) BY CountTyped
<1>2. CASE (\A i \in 1 .. Len(s) : s[i] # e) /\ r = s
  <2>1. ~ Holds(s, e) BY <1>2 DEF Holds
  <2>2. QED BY <1>1, <1>2, <2>1
<1>3. CASE ~ ((\A i \in 1 .. Len(s) : s[i] # e) /\ r = s)
  <2>1. PICK p \in 1 .. Len(s) :
              /\ s[p] = e
              /\ r \in Seq(S)
              /\ Len(r) = Len(s) - 1
              /\ \A i \in 1 .. Len(s) - 1 : r[i] = IF i < p THEN s[i] ELSE s[i + 1]
    BY <1>3, RemoveFirstCases
  <2>2. Holds(s, e) BY <2>1 DEF Holds
  <2> DEFINE A == Places(s, T) \ {p}
  <2> DEFINE B == Places(r, T)
  <2> DEFINE f == [i \in B |-> IF i < p THEN i ELSE i + 1]
  <2>3. Len(s) \in Nat /\ DOMAIN s = 1 .. Len(s) /\ DOMAIN r = 1 .. Len(s) - 1 BY <2>1
  <2>4. \A i \in B : /\ i \in 1 .. Len(s) - 1
                     /\ r[i] \in T /\ r[i] = IF i < p THEN s[i] ELSE s[i + 1]
    BY <2>1, <2>3 DEF Places
  <2>5. f \in [B -> A]
    <3>1. SUFFICES ASSUME NEW i \in B PROVE (IF i < p THEN i ELSE i + 1) \in A OBVIOUS
    <3>2. i \in 1 .. Len(s) - 1 BY <2>4
    <3>3. (IF i < p THEN i ELSE i + 1) \in 1 .. Len(s) /\ (IF i < p THEN i ELSE i + 1) # p
      BY <2>1, <2>3, <3>2
    <3>4. s[IF i < p THEN i ELSE i + 1] \in T BY <2>4
    <3>5. QED BY <2>3, <3>3, <3>4 DEF Places
  <2>6. \A i, j \in B : f[i] = f[j] => i = j
    BY <2>1, <2>3, <2>4
  <2>7. \A k \in A : \E i \in B : f[i] = k
    <3>1. SUFFICES ASSUME NEW k \in A PROVE \E i \in B : f[i] = k OBVIOUS
    <3>2. k \in 1 .. Len(s) /\ k # p /\ s[k] \in T BY <2>3 DEF Places
    <3>3. CASE k < p
      <4>1. k \in 1 .. Len(s) - 1 BY <2>1, <2>3, <3>2, <3>3
      <4>2. k \in B BY <2>1, <2>3, <3>2, <3>3, <4>1 DEF Places
      <4>3. QED BY <3>3, <4>2
    <3>4. CASE k > p
      <4> DEFINE j == k - 1
      <4>1. j \in 1 .. Len(s) - 1 /\ ~ (j < p) /\ j + 1 = k BY <2>1, <2>3, <3>2, <3>4
      <4>2. r[j] = s[k] BY <2>1, <4>1
      <4>3. j \in B BY <2>3, <3>2, <4>1, <4>2 DEF Places
      <4>4. QED BY <4>1, <4>3
    <3>5. QED BY <2>1, <2>3, <3>2, <3>3, <3>4
  <2> HIDE DEF f
  <2>8. f \in Bijection(B, A)
    BY <2>5, <2>6, <2>7 DEF Bijection, Injection, Surjection, IsInjective
  <2>9. ExistsBijection(B, A) BY <2>8 DEF ExistsBijection
  <2>10. IsFiniteSet(B) BY <2>1, CountTyped
  <2> HIDE DEF A, B
  <2>11. Cardinality(A) = Cardinality(B) BY <2>9, <2>10, FS_Bijection
  <2>12. p \in Places(s, T) <=> e \in T BY <2>1, <2>3 DEF Places
  <2>13. Cardinality(A) = IF e \in T THEN Count(s, T) - 1 ELSE Count(s, T)
    BY <1>1, <2>12, FS_RemoveElement DEF A, Count
  <2>14. QED BY <1>1, <2>2, <2>11, <2>13 DEF B, Count
<1>4. QED BY <1>2, <1>3

Times(s, e) == Count(s, {e})

LEMMA TimesTyped ==
  ASSUME NEW S, NEW s \in Seq(S), NEW e
  PROVE  Times(s, e) \in Nat /\ (Times(s, e) = 0 <=> ~ Holds(s, e))
BY CountTyped, CountNone DEF Times, Holds

-----------------------------------------------------------------------------
(* The rounds of removeAll *)

\* The state after round i, from the states after the rounds before it.
Round(m, key, g, i) ==
  IF i = 0 THEN RemoveOutgoing(m, key)
  ELSE Unlink(key, m.from2to[key], m.from2rel[key], g[i - 1], i)

IsLoop(m, key, g, n) == g = [i \in 0 .. n |-> Round(m, key, g, i)]

LEMMA LoopExists ==
  ASSUME NEW m, NEW key, NEW len \in Nat
  PROVE  \E g : IsLoop(m, key, g, len)
<1> DEFINE Bad == {n \in Nat : ~ \E g : IsLoop(m, key, g, n)}
<1>1. SUFFICES ASSUME Bad # {} PROVE FALSE OBVIOUS
<1>2. PICK n \in Bad : \A k \in Bad : n <= k
  <2>1. Bad \subseteq Nat OBVIOUS
  <2> HIDE DEF Bad
  <2>2. QED BY <1>1, <2>1, Least
<1>3. n \in Nat /\ ~ \E g : IsLoop(m, key, g, n) OBVIOUS
<1>4. CASE n = 0
  <2> DEFINE g == [i \in 0 .. 0 |-> RemoveOutgoing(m, key)]
  <2>1. \A i \in 0 .. 0 : Round(m, key, g, i) = RemoveOutgoing(m, key) BY DEF Round
  <2>2. g = [i \in 0 .. 0 |-> Round(m, key, g, i)] BY <2>1
  <2>3. QED BY <1>3, <1>4, <2>2 DEF IsLoop
<1>5. CASE n # 0
  <2>1. n - 1 \in Nat /\ n - 1 \notin Bad BY <1>2, <1>3, <1>5
  <2>2. PICK g : IsLoop(m, key, g, n - 1) BY <2>1
  <2> DEFINE h == [i \in 0 .. n |-> IF i = n THEN Round(m, key, g, n) ELSE g[i]]
  <2>3. ASSUME NEW i \in 0 .. n PROVE h[i] = Round(m, key, h, i)
    <3>1. i \in Nat /\ (i # 0 => i - 1 \in 0 .. n - 1 /\ i - 1 \in 0 .. n /\ i - 1 # n)
      BY <1>3
    <3>2. i # 0 => h[i - 1] = g[i - 1] BY <3>1
    <3>3. Round(m, key, h, i) = Round(m, key, g, i) BY <3>2 DEF Round
    <3>4. CASE i = n BY <3>3, <3>4
    <3>5. CASE i # n
      <4>1. i \in 0 .. n - 1 BY <1>3, <3>5
      <4>2. g[i] = Round(m, key, g, i) BY <2>2, <4>1 DEF IsLoop
      <4>3. QED BY <3>3, <3>5, <4>2
    <3>6. QED BY <3>4, <3>5
  <2>4. IsLoop(m, key, h, n) BY <2>3 DEF IsLoop
  <2>5. QED BY <1>3, <2>4
<1>6. QED BY <1>4, <1>5

\* The recursive function of the model is the loop.
LEMMA UnlinkedIsLoop ==
  ASSUME NEW m, NEW key, Len(m.from2to[key]) \in Nat
  PROVE  IsLoop(m, key, Unlinked(m, key), Len(m.from2to[key]))
<1> DEFINE len == Len(m.from2to[key])
<1>1. \E g : IsLoop(m, key, g, len) BY LoopExists
<1>2. \A g : IsLoop(m, key, g, len) <=>
        g = [i \in 0 .. len |->
               IF i = 0
               THEN RemoveOutgoing(m, key)
               ELSE Unlink(key, m.from2to[key], m.from2rel[key], g[i - 1], i)]
  BY DEF IsLoop, Round
<1>3. Unlinked(m, key) = CHOOSE g : IsLoop(m, key, g, len)
  BY <1>2 DEF Unlinked
<1>4. QED BY <1>1, <1>3

-----------------------------------------------------------------------------
(* The type of a map *)

\* The maps over a set of node ids that hold relationship ids of a given set.
Index(ids, rels) ==
  [from2to : [ids -> Seq(ids)], from2rel : [ids -> Seq(rels)],
   to2from : [ids -> Seq(ids)], to2rel   : [ids -> Seq(rels)]]

LEMMA NewMapTyped == \A ids, rels : NewMap(ids) \in Index(ids, rels)
<1>1. SUFFICES ASSUME NEW ids, NEW rels PROVE NewMap(ids) \in Index(ids, rels) OBVIOUS
<1> DEFINE none == [n \in ids |-> <<>>]
<1>2. <<>> \in Seq(ids) /\ <<>> \in Seq(rels) OBVIOUS
<1>3. none \in [ids -> Seq(ids)] /\ none \in [ids -> Seq(rels)] BY <1>2
<1> HIDE DEF none
<1>4. NewMap(ids) = [from2to |-> none, from2rel |-> none, to2from |-> none, to2rel |-> none]
  BY DEF NewMap, none
<1>5. QED BY <1>3, <1>4 DEF Index

\* One list of a map, changed or not, keeps its map a map.
LEMMA ListsTyped ==
  ASSUME NEW ids, NEW S, NEW lists \in [ids -> Seq(S)], NEW n \in ids, NEW s \in Seq(S)
  PROVE  [lists EXCEPT ![n] = s] \in [ids -> Seq(S)]
OBVIOUS

LEMMA PutTyped ==
  ASSUME NEW ids, NEW rels, NEW m \in Index(ids, rels),
         NEW from \in ids, NEW to \in ids, NEW rel \in rels
  PROVE  Put(m, from, to, rel) \in Index(ids, rels)
<1>1. /\ m.from2to \in [ids -> Seq(ids)] /\ m.from2rel \in [ids -> Seq(rels)]
      /\ m.to2from \in [ids -> Seq(ids)] /\ m.to2rel \in [ids -> Seq(rels)]
  BY DEF Index
<1>2. /\ Append(m.from2to[from], to) \in Seq(ids) /\ Append(m.from2rel[from], rel) \in Seq(rels)
      /\ Append(m.to2from[to], from) \in Seq(ids) /\ Append(m.to2rel[to], rel) \in Seq(rels)
  BY <1>1
<1>3. QED BY <1>1, <1>2 DEF Put, Index

LEMMA RemoveRelTyped ==
  ASSUME NEW ids, NEW rels, NEW m \in Index(ids, rels),
         NEW from \in ids, NEW to \in ids, NEW rel
  PROVE  RemoveRel(m, from, to, rel) \in Index(ids, rels)
<1>1. /\ m.from2to \in [ids -> Seq(ids)] /\ m.from2rel \in [ids -> Seq(rels)]
      /\ m.to2from \in [ids -> Seq(ids)] /\ m.to2rel \in [ids -> Seq(rels)]
  BY DEF Index
<1>2. /\ RemoveFirst(m.from2to[from], to) \in Seq(ids)
      /\ RemoveFirst(m.from2rel[from], rel) \in Seq(rels)
      /\ RemoveFirst(m.to2from[to], from) \in Seq(ids)
      /\ RemoveFirst(m.to2rel[to], rel) \in Seq(rels)
  BY <1>1, RemoveFirstTyped
<1>3. QED BY <1>1, <1>2 DEF RemoveRel, Index

LEMMA RemoveOutgoingTyped ==
  ASSUME NEW ids, NEW rels, NEW m \in Index(ids, rels), NEW key \in ids
  PROVE  RemoveOutgoing(m, key) \in Index(ids, rels)
<1>1. /\ m.from2to \in [ids -> Seq(ids)] /\ m.from2rel \in [ids -> Seq(rels)]
      /\ m.to2from \in [ids -> Seq(ids)] /\ m.to2rel \in [ids -> Seq(rels)]
  BY DEF Index
<1>2. <<>> \in Seq(ids) /\ <<>> \in Seq(rels) OBVIOUS
<1>3. QED BY <1>1, <1>2 DEF RemoveOutgoing, Index

\* The lists when that of n has lost its first x.
Less(lists, n, x) == [lists EXCEPT ![n] = RemoveFirst(@, x)]

\* What a round leaves alone, and what it does to the list of its neighbour.
LEMMA UnlinkEffect ==
  ASSUME NEW ids, NEW rels, NEW t \in Index(ids, rels), NEW key,
         NEW neighbours \in Seq(ids), NEW removed \in Seq(rels),
         NEW i \in 1 .. Len(neighbours)
  PROVE  LET u == Unlink(key, neighbours, removed, t, i)
             n == neighbours[i]
         IN  /\ u \in Index(ids, rels)
             /\ u.from2to = t.from2to /\ u.from2rel = t.from2rel
             /\ u.to2from = Less(t.to2from, n, key) \/ u.to2from = t.to2from
             /\ i <= Len(removed) => u.to2from = Less(t.to2from, n, key)
             /\ \/ u.to2rel = t.to2rel
                \/ /\ i <= Len(removed)
                   /\ u.to2rel = Less(t.to2rel, n, removed[i])
<1> DEFINE n == neighbours[i]
<1>1. n \in ids OBVIOUS
<1>2. /\ t.from2to \in [ids -> Seq(ids)] /\ t.from2rel \in [ids -> Seq(rels)]
      /\ t.to2from \in [ids -> Seq(ids)] /\ t.to2rel \in [ids -> Seq(rels)]
  BY DEF Index
<1>3. /\ RemoveFirst(t.to2from[n], key) \in Seq(ids)
      /\ RemoveFirst(t.to2rel[n], removed[i]) \in Seq(rels)
  BY <1>1, <1>2, RemoveFirstTyped
<1> HIDE DEF n
<1> DEFINE c == [t.to2from EXCEPT ![n] = RemoveFirst(@, key)]
<1> DEFINE d == [t.to2rel EXCEPT ![n] = RemoveFirst(@, removed[i])]
<1> DEFINE u == Unlink(key, neighbours, removed, t, i)
<1> DEFINE Map(x, y) == [from2to |-> t.from2to, from2rel |-> t.from2rel, to2from |-> x, to2rel |-> y]
<1>4. t = Map(t.to2from, t.to2rel) BY DEF Index
<1>5. c \in [ids -> Seq(ids)] /\ d \in [ids -> Seq(rels)] BY <1>1, <1>2, <1>3
<1>6. \A x \in [ids -> Seq(ids)], y \in [ids -> Seq(rels)] : Map(x, y) \in Index(ids, rels)
  BY <1>2 DEF Index
<1>7. CASE i <= Len(removed)
  <2>1. u = [t EXCEPT !.to2from[n] = RemoveFirst(@, key), !.to2rel[n] = RemoveFirst(@, removed[i])]
    BY <1>7 DEF Unlink, n
  <2>2. u = Map(c, d) BY <1>4, <2>1
  <2>3. u.from2to = t.from2to /\ u.from2rel = t.from2rel /\ u.to2from = c /\ u.to2rel = d
    BY <2>2
  <2>4. u \in Index(ids, rels) BY <1>5, <1>6, <2>2
  <2>5. QED BY <1>7, <2>3, <2>4 DEF n, Less
<1>8. CASE ~ (i <= Len(removed)) /\ i = Len(removed) + 1
  <2>1. u = [t EXCEPT !.to2from[n] = RemoveFirst(@, key)] BY <1>8 DEF Unlink, n
  <2>2. u = Map(c, t.to2rel) BY <1>4, <2>1
  <2>3. u.from2to = t.from2to /\ u.from2rel = t.from2rel /\ u.to2from = c /\ u.to2rel = t.to2rel
    BY <2>2
  <2>4. u \in Index(ids, rels) BY <1>2, <1>5, <1>6, <2>2
  <2>5. QED BY <1>8, <2>3, <2>4 DEF n, Less
<1>9. CASE ~ (i <= Len(removed)) /\ i # Len(removed) + 1
  BY <1>9 DEF Unlink
<1>10. QED BY <1>7, <1>8, <1>9

\* How often n is among the first i neighbours.
Seen(neighbours, i, n) == Cardinality({j \in 1 .. i : neighbours[j] = n})

LEMMA SeenSteps ==
  ASSUME NEW S, NEW neighbours \in Seq(S), NEW n
  PROVE  /\ Seen(neighbours, 0, n) = 0
         /\ \A i \in 1 .. Len(neighbours) :
              /\ Seen(neighbours, i - 1, n) \in Nat
              /\ Seen(neighbours, i, n)
                   = Seen(neighbours, i - 1, n) + (IF neighbours[i] = n THEN 1 ELSE 0)
              /\ Seen(neighbours, i, n) <= Times(neighbours, n)
         /\ Seen(neighbours, Len(neighbours), n) = Times(neighbours, n)
<1> DEFINE At(i) == {j \in 1 .. i : neighbours[j] = n}
<1>1. Seen(neighbours, 0, n) = 0
  <2>1. At(0) = {} OBVIOUS
  <2>2. QED BY <2>1, FS_EmptySet DEF Seen
<1>2. Places(neighbours, {n}) = At(Len(neighbours)) /\ Len(neighbours) \in Nat BY DEF Places
<1>3. IsFiniteSet(Places(neighbours, {n})) BY CountTyped
<1>4. ASSUME NEW i \in 1 .. Len(neighbours)
      PROVE  /\ Seen(neighbours, i - 1, n) \in Nat
             /\ Seen(neighbours, i, n)
                  = Seen(neighbours, i - 1, n) + (IF neighbours[i] = n THEN 1 ELSE 0)
             /\ Seen(neighbours, i, n) <= Times(neighbours, n)
  <2>1. At(i) = IF neighbours[i] = n THEN At(i - 1) \cup {i} ELSE At(i - 1) OBVIOUS
  <2>2. i \notin At(i - 1) OBVIOUS
  <2>3. At(i) \in SUBSET Places(neighbours, {n})
    <3>1. 1 .. i \subseteq 1 .. Len(neighbours) BY <1>2
    <3>2. QED BY <1>2, <3>1
  <2>4. At(i - 1) \in SUBSET At(i) OBVIOUS
  <2>5. /\ Seen(neighbours, i, n) = Cardinality(At(i))
        /\ Seen(neighbours, i - 1, n) = Cardinality(At(i - 1))
    BY DEF Seen
  <2> DEFINE A == At(i - 1)
  <2> DEFINE B == At(i)
  <2> HIDE DEF At, A, B
  <2>6. IsFiniteSet(B) /\ Cardinality(B) <= Times(neighbours, n)
    BY <1>3, <2>3, FS_Subset DEF Count, Times, B
  <2>7. IsFiniteSet(A) /\ Cardinality(A) \in Nat
    BY <2>4, <2>6, FS_Subset, FS_CardinalityType DEF A, B
  <2>8. CASE neighbours[i] = n
    <3>1. B = A \cup {i} /\ i \notin A BY <2>1, <2>2, <2>8 DEF A, B
    <3>2. Cardinality(B) = Cardinality(A) + 1 BY <2>7, <3>1, FS_AddElement
    <3>3. QED BY <2>5, <2>6, <2>7, <2>8, <3>2 DEF A, B
  <2>9. CASE neighbours[i] # n
    <3>1. B = A BY <2>1, <2>9 DEF A, B
    <3>2. QED BY <2>5, <2>6, <2>7, <2>9, <3>1 DEF A, B
  <2>10. QED BY <2>8, <2>9
<1>5. QED BY <1>1, <1>2, <1>4 DEF Seen, Count, Times

Lists(ids, S) == [ids -> Seq(S)]

\* The list of n loses an occurrence of x if it has one, and nothing else changes.
LEMMA LosesOne ==
  ASSUME NEW ids, NEW S, NEW lists \in Lists(ids, S), NEW n \in ids, NEW x
  PROVE  /\ Times(lists[n], x) = 0 => Times(Less(lists, n, x)[n], x) = 0
         /\ Times(lists[n], x) # 0 =>
              Times(Less(lists, n, x)[n], x) = Times(lists[n], x) - 1
<1>1. lists[n] \in Seq(S) BY DEF Lists
<1>2. Less(lists, n, x)[n] = RemoveFirst(lists[n], x) BY DEF Less, Lists
<1> DEFINE c == Times(lists[n], x)
<1> DEFINE d == Times(RemoveFirst(lists[n], x), x)
<1>3. c \in Nat /\ (Holds(lists[n], x) <=> c # 0) BY <1>1, TimesTyped
<1>4. d = c - (IF x \in {x} /\ Holds(lists[n], x) THEN 1 ELSE 0)
  BY <1>1, CountRemoveFirst DEF Times
<1> HIDE DEF c, d
<1>5. (c = 0 => d = 0) /\ (c # 0 => d = c - 1) BY <1>3, <1>4
<1>6. QED BY <1>2, <1>5 DEF c, d

LEMMA LosesNothingElse ==
  ASSUME NEW ids, NEW S, NEW lists \in Lists(ids, S), NEW n \in ids, NEW x,
         NEW k \in ids, NEW e, k # n \/ e # x
  PROVE  Times(Less(lists, n, x)[k], e) = Times(lists[k], e)
<1>1. CASE k # n BY <1>1 DEF Less, Lists
<1>2. CASE k = n
  <2>1. lists[n] \in Seq(S) BY DEF Lists
  <2>2. Less(lists, n, x)[k] = RemoveFirst(lists[n], x) BY <1>2 DEF Less, Lists
  <2>3. Times(lists[n], e) \in Nat BY <2>1, TimesTyped
  <2>4. Times(RemoveFirst(lists[n], x), e)
          = Times(lists[n], e) - (IF x \in {e} /\ Holds(lists[n], x) THEN 1 ELSE 0)
    BY <2>1, CountRemoveFirst DEF Times
  <2>5. x \notin {e} BY <1>2
  <2>6. QED BY <1>2, <2>2, <2>3, <2>4, <2>5
<1>3. QED BY <1>1, <1>2

Mirrored(m, key, n) == Times(m.to2from[n], key) = Times(m.from2to[key], n)

\* What holds of the map t after round i of removeAll(key) on m.
Behind(ids, rels, m, key, t, i) ==
  /\ t \in Index(ids, rels)
  /\ t.from2to = [m.from2to EXCEPT ![key] = <<>>]
  /\ t.from2rel = [m.from2rel EXCEPT ![key] = <<>>]
  /\ \A n \in ids, e \in rels :
       ~ Holds(m.from2rel[key], e) => Times(t.to2rel[n], e) = Times(m.to2rel[n], e)
  /\ \A n, k \in ids : k # key => Times(t.to2from[n], k) = Times(m.to2from[n], k)
  /\ ~ RemoveAllOverruns(m, key) =>
       \A n \in ids : Mirrored(m, key, n) =>
         Times(t.to2from[n], key) = Times(m.from2to[key], n) - Seen(m.from2to[key], i, n)

LEMMA FirstRound ==
  ASSUME NEW ids, NEW rels, NEW m \in Index(ids, rels), NEW key \in ids
  PROVE  Behind(ids, rels, m, key, RemoveOutgoing(m, key), 0)
<1> DEFINE t == RemoveOutgoing(m, key)
<1>1. t \in Index(ids, rels) BY RemoveOutgoingTyped
<1>2. /\ t.from2to = [m.from2to EXCEPT ![key] = <<>>]
      /\ t.from2rel = [m.from2rel EXCEPT ![key] = <<>>]
      /\ t.to2from = m.to2from /\ t.to2rel = m.to2rel
  BY DEF RemoveOutgoing
<1>3. m.from2to[key] \in Seq(ids) BY DEF Index
<1>4. ASSUME NEW n \in ids, Mirrored(m, key, n)
      PROVE  Times(t.to2from[n], key) = Times(m.from2to[key], n) - Seen(m.from2to[key], 0, n)
  <2>1. Seen(m.from2to[key], 0, n) = 0 BY <1>3, SeenSteps
  <2>2. Times(m.from2to[key], n) \in Nat BY <1>3, TimesTyped
  <2>3. QED BY <1>2, <1>4, <2>1, <2>2 DEF Mirrored
<1> HIDE DEF t
<1>5. QED BY <1>1, <1>2, <1>4 DEF Behind, t

LEMMA NextRound ==
  ASSUME NEW ids, NEW rels, NEW m \in Index(ids, rels), NEW key \in ids, NEW t,
         NEW i \in 1 .. Len(m.from2to[key]), Behind(ids, rels, m, key, t, i - 1)
  PROVE  Behind(ids, rels, m, key, Unlink(key, m.from2to[key], m.from2rel[key], t, i), i)
<1> DEFINE neighbours == m.from2to[key]
<1> DEFINE removed == m.from2rel[key]
<1> DEFINE u == Unlink(key, neighbours, removed, t, i)
<1> DEFINE n == neighbours[i]
<1>1. neighbours \in Seq(ids) /\ removed \in Seq(rels) /\ Len(neighbours) \in Nat
  BY DEF Index
<1>2. t \in Index(ids, rels) /\ n \in ids BY <1>1 DEF Behind
<1>3. /\ u \in Index(ids, rels)
      /\ u.from2to = t.from2to /\ u.from2rel = t.from2rel
      /\ u.to2from = Less(t.to2from, n, key) \/ u.to2from = t.to2from
      /\ i <= Len(removed) => u.to2from = Less(t.to2from, n, key)
      /\ \/ u.to2rel = t.to2rel
         \/ /\ i <= Len(removed)
            /\ u.to2rel = Less(t.to2rel, n, removed[i])
  BY <1>1, <1>2, UnlinkEffect
<1> DEFINE froms == t.to2from
<1> DEFINE relss == t.to2rel
<1>4. froms \in Lists(ids, ids) /\ relss \in Lists(ids, rels)
  BY <1>2 DEF Index, Lists
<1> HIDE DEF u, n, froms, relss
<1>5. ASSUME NEW k \in ids, NEW e \in rels, ~ Holds(removed, e)
      PROVE  Times(u.to2rel[k], e) = Times(m.to2rel[k], e)
  <2>1. Times(t.to2rel[k], e) = Times(m.to2rel[k], e) BY <1>5 DEF Behind
  <2>2. CASE u.to2rel = t.to2rel BY <2>1, <2>2
  <2>3. CASE i <= Len(removed) /\ u.to2rel = Less(t.to2rel, n, removed[i])
    <3>1. i \in 1 .. Len(removed) BY <1>1, <2>3
    <3>2. e # removed[i] BY <1>5, <3>1 DEF Holds
    <3> DEFINE x == removed[i]
    <3> HIDE DEF x
    <3>3. x # e BY <3>2 DEF x
    <3>4. Times(Less(relss, n, x)[k], e) = Times(relss[k], e)
      BY <1>2, <1>4, <3>3, LosesNothingElse
    <3>5. QED BY <2>1, <2>3, <3>4 DEF x, relss
  <2>4. QED BY <1>3, <2>2, <2>3
<1>7. ASSUME NEW p \in ids, NEW k \in ids, k # key
      PROVE  Times(u.to2from[p], k) = Times(m.to2from[p], k)
  <2>1. Times(t.to2from[p], k) = Times(m.to2from[p], k) BY <1>7 DEF Behind
  <2>2. Times(Less(froms, n, key)[p], k) = Times(froms[p], k)
    BY <1>2, <1>4, <1>7, LosesNothingElse
  <2>3. QED BY <1>3, <2>1, <2>2 DEF froms
<1>8. ASSUME ~ RemoveAllOverruns(m, key), NEW p \in ids, Mirrored(m, key, p)
      PROVE  Times(u.to2from[p], key) = Times(neighbours, p) - Seen(neighbours, i, p)
  <2>1. i <= Len(removed) BY <1>1, <1>8 DEF RemoveAllOverruns
  <2>2. Times(t.to2from[p], key) = Times(neighbours, p) - Seen(neighbours, i - 1, p)
    BY <1>8 DEF Behind
  <2>3. /\ Seen(neighbours, i - 1, p) \in Nat
        /\ Seen(neighbours, i, p) = Seen(neighbours, i - 1, p) + (IF n = p THEN 1 ELSE 0)
        /\ Seen(neighbours, i, p) <= Times(neighbours, p)
    BY <1>1, SeenSteps DEF n
  <2>4. /\ p # n => Times(Less(froms, n, key)[p], key) = Times(froms[p], key)
        /\ p = n => /\ Times(froms[p], key) = 0 =>
                         Times(Less(froms, n, key)[p], key) = 0
                    /\ Times(froms[p], key) # 0 =>
                         Times(Less(froms, n, key)[p], key) = Times(froms[p], key) - 1
    <3>1. p # n => Times(Less(froms, n, key)[p], key) = Times(froms[p], key)
      BY <1>2, <1>4, LosesNothingElse
    <3>2. /\ Times(froms[n], key) = 0 => Times(Less(froms, n, key)[n], key) = 0
          /\ Times(froms[n], key) # 0 =>
               Times(Less(froms, n, key)[n], key) = Times(froms[n], key) - 1
      BY <1>2, <1>4, LosesOne
    <3>3. QED BY <3>1, <3>2
  <2>5. Times(neighbours, p) \in Nat BY <1>1, TimesTyped
  <2>6. u.to2from = Less(t.to2from, n, key) BY <1>3, <2>1
  <2> DEFINE a == Times(neighbours, p)
  <2> DEFINE b == Seen(neighbours, i - 1, p)
  <2> DEFINE c == Seen(neighbours, i, p)
  <2> DEFINE d == Times(t.to2from[p], key)
  <2> DEFINE f == Times(u.to2from[p], key)
  <2>7. /\ a \in Nat /\ b \in Nat /\ c = b + (IF n = p THEN 1 ELSE 0) /\ c <= a
        /\ d = a - b
        /\ p # n => f = d
        /\ p = n => (d = 0 => f = 0) /\ (d # 0 => f = d - 1)
    BY <2>2, <2>3, <2>4, <2>5, <2>6 DEF froms
  <2> HIDE DEF a, b, c, d, f
  <2>8. f = a - c BY <2>7
  <2>9. QED BY <2>8 DEF a, c, f
<1>9. /\ u.from2to = [m.from2to EXCEPT ![key] = <<>>]
      /\ u.from2rel = [m.from2rel EXCEPT ![key] = <<>>]
  BY <1>3 DEF Behind
<1>10. Behind(ids, rels, m, key, u, i)
  BY <1>3, <1>5, <1>7, <1>8, <1>9 DEF Behind
<1>11. QED BY <1>10 DEF u

\* What removeAll leaves: the outgoing lists of the other nodes, in the incoming
\* lists everything but key and the relationships removed with it, and, when
\* there was a relationship for every neighbour, no occurrence of key.
AllRemoved(ids, rels, m, key, r) ==
  /\ r \in Index(ids, rels)
  /\ r.from2to = [m.from2to EXCEPT ![key] = <<>>]
  /\ r.from2rel = [m.from2rel EXCEPT ![key] = <<>>]
  /\ \A n \in ids, e \in rels :
       ~ Holds(m.from2rel[key], e) => Times(r.to2rel[n], e) = Times(m.to2rel[n], e)
  /\ \A n, k \in ids :
       k # key => Times(r.to2from[n], k) = Times(m.to2from[n], k)
  /\ ~ RemoveAllOverruns(m, key) =>
       \A n \in ids : Mirrored(m, key, n) => Times(r.to2from[n], key) = 0

LEMMA RemoveAllEffect ==
  ASSUME NEW ids, NEW rels, NEW m \in Index(ids, rels), NEW key \in ids
  PROVE  AllRemoved(ids, rels, m, key, RemoveAll(m, key))
<1> DEFINE len == Len(m.from2to[key])
<1> DEFINE g == Unlinked(m, key)
<1> DEFINE Good == {i \in 0 .. len : Behind(ids, rels, m, key, g[i], i)}
<1>1. m.from2to[key] \in Seq(ids) BY DEF Index
<1>2. len \in Nat BY <1>1
<1>3. \A i \in 0 .. len : g[i] = Round(m, key, g, i)
  <2>1. IsLoop(m, key, g, len) BY <1>2, UnlinkedIsLoop
  <2> HIDE DEF g
  <2>2. QED BY <2>1 DEF IsLoop
<1> HIDE DEF g
<1>4. 0 \in Good
  <2>1. 0 \in 0 .. len /\ g[0] = RemoveOutgoing(m, key) BY <1>2, <1>3 DEF Round
  <2>2. QED BY <2>1, FirstRound
<1>5. \A i \in 0 .. len - 1 : i \in Good => i + 1 \in Good
  <2>1. SUFFICES ASSUME NEW i \in 0 .. len - 1, i \in Good PROVE i + 1 \in Good OBVIOUS
  <2> DEFINE j == i + 1
  <2>2. j \in 1 .. len /\ j \in 0 .. len /\ j # 0 /\ j - 1 = i BY <1>2
  <2>3. g[j] = Unlink(key, m.from2to[key], m.from2rel[key], g[i], j)
    BY <1>3, <2>2 DEF Round
  <2>4. Behind(ids, rels, m, key, g[j - 1], j - 1) BY <2>1, <2>2
  <2> HIDE DEF j
  <2>5. Behind(ids, rels, m, key, g[j], j) BY <2>2, <2>3, <2>4, NextRound
  <2>6. QED BY <2>2, <2>5 DEF j
<1> HIDE DEF Good
<1>6. \A i \in 0 .. len : i \in Good BY <1>2, <1>4, <1>5, UpTo
<1>7. Behind(ids, rels, m, key, g[len], len)
  <2>1. len \in 0 .. len BY <1>2
  <2>2. QED BY <1>6, <2>1 DEF Good
<1>8. RemoveAll(m, key) = g[len] BY DEF RemoveAll, g
<1>9. ASSUME NEW n \in ids
      PROVE  Times(m.from2to[key], n) - Seen(m.from2to[key], len, n) = 0
  <2>1. Seen(m.from2to[key], len, n) = Times(m.from2to[key], n) BY <1>1, SeenSteps
  <2>2. Times(m.from2to[key], n) \in Nat BY <1>1, TimesTyped
  <2>3. QED BY <2>1, <2>2
<1> DEFINE r == g[len]
<1>10. /\ r \in Index(ids, rels)
       /\ r.from2to = [m.from2to EXCEPT ![key] = <<>>]
       /\ r.from2rel = [m.from2rel EXCEPT ![key] = <<>>]
       /\ \A n \in ids, e \in rels :
            ~ Holds(m.from2rel[key], e) => Times(r.to2rel[n], e) = Times(m.to2rel[n], e)
       /\ \A n, k \in ids : k # key => Times(r.to2from[n], k) = Times(m.to2from[n], k)
  BY <1>7 DEF Behind
<1>11. ~ RemoveAllOverruns(m, key) =>
         \A n \in ids : Mirrored(m, key, n) => Times(r.to2from[n], key) = 0
  <2> HIDE DEF r, len
  <2>1. Behind(ids, rels, m, key, r, len) BY <1>7 DEF r
  <2>2. QED BY <1>9, <2>1 DEF Behind
<1> HIDE DEF r
<1>12. RemoveAll(m, key) = r BY <1>8 DEF r
<1>13. QED BY <1>10, <1>11, <1>12 DEF AllRemoved

-----------------------------------------------------------------------------
(* What the operations keep.  The lists from2to and from2rel of a node need  *)
(* not stay parallel, but every neighbour keeps a relationship of its own:   *)
(* ends gives the node that each relationship id was put in for.             *)

EndIn(ends, S) == {id \in DOMAIN ends : ends[id] \in S}

\* Whatever the set of neighbours, at least as many ids lead into it.
Covers(ids, m, ends) ==
  \A n \in ids, S \in SUBSET ids :
    Count(m.from2to[n], S) <= Count(m.from2rel[n], EndIn(ends, S))

\* The incoming neighbours are the outgoing ones seen from the other end.
BothWays(ids, m) == \A n1, n2 \in ids : Mirrored(m, n1, n2)

LEMMA CountAgree ==
  ASSUME NEW S, NEW s \in Seq(S), NEW T, NEW U, \A x \in S : x \in T <=> x \in U
  PROVE  Count(s, T) = Count(s, U)
<1>1. \A i \in DOMAIN s : s[i] \in S OBVIOUS
<1>2. Places(s, T) = Places(s, U) BY <1>1 DEF Places
<1>3. QED BY <1>2 DEF Count

LEMMA CoversEnough ==
  ASSUME NEW ids, NEW ends, ends \in [DOMAIN ends -> ids], NEW m \in Index(ids, DOMAIN ends),
         Covers(ids, m, ends), NEW n \in ids
  PROVE  ~ RemoveAllOverruns(m, n)
<1>1. m.from2to[n] \in Seq(ids) /\ m.from2rel[n] \in Seq(DOMAIN ends) BY DEF Index
<1>2. ids \in SUBSET ids OBVIOUS
<1>3. Count(m.from2to[n], ids) <= Count(m.from2rel[n], EndIn(ends, ids))
  BY <1>2 DEF Covers
<1>4. Count(m.from2to[n], ids) = Len(m.from2to[n]) BY <1>1, CountAll
<1>5. Count(m.from2rel[n], EndIn(ends, ids)) <= Len(m.from2rel[n])
  BY <1>1, CountTyped
<1>6. /\ Count(m.from2rel[n], EndIn(ends, ids)) \in Nat
      /\ Len(m.from2to[n]) \in Nat /\ Len(m.from2rel[n]) \in Nat
  BY <1>1, CountTyped
<1>7. QED BY <1>3, <1>4, <1>5, <1>6 DEF RemoveAllOverruns

\* New ids that no list holds change nothing.
LEMMA CoversMore ==
  ASSUME NEW ids, NEW ends, NEW m \in Index(ids, DOMAIN ends), Covers(ids, m, ends),
         NEW more, DOMAIN ends \subseteq DOMAIN more,
         \A id \in DOMAIN ends : more[id] = ends[id]
  PROVE  Covers(ids, m, more)
<1>1. ASSUME NEW n \in ids, NEW S \in SUBSET ids
      PROVE  Count(m.from2to[n], S) <= Count(m.from2rel[n], EndIn(more, S))
  <2>1. m.from2rel[n] \in Seq(DOMAIN ends) BY DEF Index
  <2>2. \A id \in DOMAIN ends : id \in EndIn(ends, S) <=> id \in EndIn(more, S)
    BY DEF EndIn
  <2>3. Count(m.from2rel[n], EndIn(ends, S)) = Count(m.from2rel[n], EndIn(more, S))
    BY <2>1, <2>2, CountAgree
  <2>4. QED BY <2>3 DEF Covers
<1>2. QED BY <1>1 DEF Covers

LEMMA NewMapSound ==
  ASSUME NEW ids, NEW ends
  PROVE  Covers(ids, NewMap(ids), ends) /\ BothWays(ids, NewMap(ids))
<1> DEFINE m == NewMap(ids)
<1>1. \A n \in ids : m.from2to[n] = <<>> /\ m.from2rel[n] = <<>> /\ m.to2from[n] = <<>>
  BY DEF NewMap
<1> HIDE DEF m
<1>2. Covers(ids, m, ends) BY <1>1, CountEmpty DEF Covers
<1>3. BothWays(ids, m) BY <1>1, CountEmpty DEF BothWays, Mirrored, Times
<1>4. QED BY <1>2, <1>3 DEF m

LEMMA PutCovers ==
  ASSUME NEW ids, NEW ends, NEW m \in Index(ids, DOMAIN ends), Covers(ids, m, ends),
         NEW from \in ids, NEW to \in ids, NEW rel \in DOMAIN ends, ends[rel] = to
  PROVE  Covers(ids, Put(m, from, to, rel), ends)
<1> DEFINE p == Put(m, from, to, rel)
<1>1. ASSUME NEW n \in ids, NEW S \in SUBSET ids
      PROVE  Count(p.from2to[n], S) <= Count(p.from2rel[n], EndIn(ends, S))
  <2> DEFINE tos == m.from2to[n]
  <2> DEFINE rels == m.from2rel[n]
  <2> DEFINE U == EndIn(ends, S)
  <2>1. tos \in Seq(ids) /\ rels \in Seq(DOMAIN ends) BY DEF Index
  <2>2. Count(tos, S) <= Count(rels, U) BY DEF Covers
  <2>3. Count(tos, S) \in Nat /\ Count(rels, U) \in Nat BY <2>1, CountTyped
  <2>4. rel \in U <=> to \in S BY DEF EndIn
  <2>5. /\ p.from2to[n] = IF n = from THEN Append(tos, to) ELSE tos
        /\ p.from2rel[n] = IF n = from THEN Append(rels, rel) ELSE rels
    BY DEF Put, Index
  <2> HIDE DEF tos, rels, U, p
  <2>6. /\ Count(Append(tos, to), S) = Count(tos, S) + (IF to \in S THEN 1 ELSE 0)
        /\ Count(Append(rels, rel), U) = Count(rels, U) + (IF rel \in U THEN 1 ELSE 0)
    BY <2>1, CountAppend
  <2>7. Count(p.from2to[n], S) <= Count(p.from2rel[n], U)
    BY <2>2, <2>3, <2>4, <2>5, <2>6
  <2>8. QED BY <2>7 DEF U
<1>2. QED BY <1>1 DEF Covers

\* Removing a neighbour and a relationship of that neighbour, or one that no
\* list holds.  When the neighbour is not there the relationship was a spare.
LEMMA RemoveRelCovers ==
  ASSUME NEW ids, NEW ends, NEW m \in Index(ids, DOMAIN ends), Covers(ids, m, ends),
         NEW from \in ids, NEW to \in ids, NEW rel, rel \in DOMAIN ends => ends[rel] = to
  PROVE  Covers(ids, RemoveRel(m, from, to, rel), ends)
<1> DEFINE p == RemoveRel(m, from, to, rel)
<1>1. ASSUME NEW n \in ids, NEW S \in SUBSET ids
      PROVE  Count(p.from2to[n], S) <= Count(p.from2rel[n], EndIn(ends, S))
  <2> DEFINE tos == m.from2to[n]
  <2> DEFINE rels == m.from2rel[n]
  <2> DEFINE T == S \ {to}
  <2> DEFINE U == EndIn(ends, S)
  <2> DEFINE V == EndIn(ends, T)
  <2>1. tos \in Seq(ids) /\ rels \in Seq(DOMAIN ends) BY DEF Index
  <2>2. Count(tos, S) <= Count(rels, U) /\ Count(tos, T) <= Count(rels, V) BY DEF Covers
  <2>3. p.from2to[n] = IF n = from THEN RemoveFirst(tos, to) ELSE tos
    BY DEF RemoveRel, Index
  <2>4. p.from2rel[n] = IF n = from THEN RemoveFirst(rels, rel) ELSE rels
    BY DEF RemoveRel, Index
  <2>5. V \cup {rel} \subseteq U \/ rel \notin U BY DEF EndIn
  <2>6. rel \in U => to \in S /\ rel \notin V BY DEF EndIn
  <2>7. S = T \/ S = T \cup {to} OBVIOUS
  <2>8. to \notin T OBVIOUS
  <2> HIDE DEF tos, rels, p, T, U, V
  <2>9. /\ Count(tos, S) \in Nat /\ Count(rels, U) \in Nat
        /\ Count(tos, T) \in Nat /\ Count(rels, V) \in Nat
    BY <2>1, CountTyped
  <2>10. /\ Count(RemoveFirst(tos, to), S)
              = Count(tos, S) - (IF to \in S /\ Holds(tos, to) THEN 1 ELSE 0)
         /\ Count(RemoveFirst(rels, rel), U)
              = Count(rels, U) - (IF rel \in U /\ Holds(rels, rel) THEN 1 ELSE 0)
    BY <2>1, CountRemoveFirst
  <2>11. CASE n # from BY <2>2, <2>3, <2>4, <2>11 DEF U
  <2>12. CASE n = from /\ ~ (rel \in U /\ Holds(rels, rel))
    <3>1. Count(p.from2to[n], S) <= Count(tos, S) BY <2>3, <2>9, <2>10, <2>12
    <3>2. Count(p.from2rel[n], U) = Count(rels, U) BY <2>4, <2>9, <2>10, <2>12
    <3>3. Count(p.from2to[n], S) \in Nat BY <2>3, <2>1, <2>12, RemoveFirstTyped, CountTyped
    <3>4. Count(p.from2to[n], S) <= Count(p.from2rel[n], U) BY <2>2, <2>9, <3>1, <3>2, <3>3
    <3>5. QED BY <3>4 DEF U
  <2>13. CASE n = from /\ rel \in U /\ Holds(rels, rel) /\ Holds(tos, to)
    <3>1. Count(p.from2to[n], S) = Count(tos, S) - 1 BY <2>3, <2>6, <2>10, <2>13
    <3>2. Count(p.from2rel[n], U) = Count(rels, U) - 1 BY <2>4, <2>10, <2>13
    <3>3. Count(p.from2to[n], S) <= Count(p.from2rel[n], U) BY <2>2, <2>9, <3>1, <3>2
    <3>4. QED BY <3>3 DEF U
  <2>14. CASE n = from /\ rel \in U /\ Holds(rels, rel) /\ ~ Holds(tos, to)
    <3>1. Count(p.from2to[n], S) = Count(tos, S) BY <2>3, <2>9, <2>10, <2>14
    <3>2. Count(tos, S) = Count(tos, T)
      <4>1. \A i \in DOMAIN tos : tos[i] # to BY <2>1, <2>14 DEF Holds
      <4>2. Places(tos, S) = Places(tos, T) BY <2>7, <4>1 DEF Places
      <4>3. QED BY <4>2 DEF Count
    <3>3. Count(p.from2rel[n], U) = Count(rels, U) - 1 BY <2>4, <2>10, <2>14
    <3>4. Count(rels, V) + 1 <= Count(rels, U)
      <4>1. Count(rels, V \cup {rel}) = Count(rels, V) + Count(rels, {rel})
        <5>1. V \cap {rel} = {} BY <2>6, <2>14
        <5>2. QED BY <2>1, <5>1, CountSplit
      <4>2. Count(rels, {rel}) \in Nat /\ Count(rels, {rel}) # 0
        BY <2>1, <2>14, TimesTyped DEF Times
      <4>3. Count(rels, V \cup {rel}) <= Count(rels, U)
        <5>1. V \cup {rel} \subseteq U BY <2>5, <2>14
        <5>2. QED BY <2>1, <5>1, CountMore
      <4>4. QED BY <2>9, <4>1, <4>2, <4>3
    <3>5. Count(p.from2to[n], S) <= Count(p.from2rel[n], U)
      BY <2>2, <2>9, <3>1, <3>2, <3>3, <3>4
    <3>6. QED BY <3>5 DEF U
  <2>15. QED BY <2>11, <2>12, <2>13, <2>14
<1>2. QED BY <1>1 DEF Covers

LEMMA PutBothWays ==
  ASSUME NEW ids, NEW rels, NEW m \in Index(ids, rels), BothWays(ids, m),
         NEW from \in ids, NEW to \in ids, NEW rel
  PROVE  BothWays(ids, Put(m, from, to, rel))
<1> DEFINE p == Put(m, from, to, rel)
<1>1. ASSUME NEW n1 \in ids, NEW n2 \in ids
      PROVE  Times(p.to2from[n2], n1) = Times(p.from2to[n1], n2)
  <2> DEFINE froms == m.to2from[n2]
  <2> DEFINE tos == m.from2to[n1]
  <2>1. tos \in Seq(ids) /\ froms \in Seq(ids) BY DEF Index
  <2>2. Times(froms, n1) = Times(tos, n2) BY DEF BothWays, Mirrored
  <2>3. p.from2to[n1] = IF n1 = from THEN Append(tos, to) ELSE tos BY DEF Put, Index
  <2>4. p.to2from[n2] = IF n2 = to THEN Append(froms, from) ELSE froms BY DEF Put, Index
  <2> HIDE DEF tos, froms, p
  <2>5. Times(froms, n1) \in Nat /\ Times(tos, n2) \in Nat BY <2>1, TimesTyped
  <2>6. /\ Times(Append(tos, to), n2) = Times(tos, n2) + (IF to \in {n2} THEN 1 ELSE 0)
        /\ Times(Append(froms, from), n1) = Times(froms, n1) + (IF from \in {n1} THEN 1 ELSE 0)
    BY <2>1, CountAppend DEF Times
  <2>7. (to \in {n2} <=> n2 = to) /\ (from \in {n1} <=> n1 = from) OBVIOUS
  <2>8. QED BY <2>2, <2>3, <2>4, <2>5, <2>6, <2>7
<1>2. QED BY <1>1 DEF BothWays, Mirrored

LEMMA RemoveRelBothWays ==
  ASSUME NEW ids, NEW rels, NEW m \in Index(ids, rels), BothWays(ids, m),
         NEW from \in ids, NEW to \in ids, NEW rel
  PROVE  BothWays(ids, RemoveRel(m, from, to, rel))
<1> DEFINE p == RemoveRel(m, from, to, rel)
<1>1. ASSUME NEW n1 \in ids, NEW n2 \in ids
      PROVE  Times(p.to2from[n2], n1) = Times(p.from2to[n1], n2)
  <2> DEFINE froms == m.to2from[n2]
  <2> DEFINE tos == m.from2to[n1]
  <2>1. tos \in Seq(ids) /\ froms \in Seq(ids) BY DEF Index
  <2>2. Times(froms, n1) = Times(tos, n2) BY DEF BothWays, Mirrored
  <2>3. p.from2to[n1] = IF n1 = from THEN RemoveFirst(tos, to) ELSE tos BY DEF RemoveRel, Index
  <2>4. p.to2from[n2] = IF n2 = to THEN RemoveFirst(froms, from) ELSE froms
    BY DEF RemoveRel, Index
  <2> HIDE DEF tos, froms, p
  <2>5. /\ Times(froms, n1) \in Nat /\ Times(tos, n2) \in Nat
        /\ (Times(froms, n1) = 0 <=> ~ Holds(froms, n1))
        /\ (Times(tos, n2) = 0 <=> ~ Holds(tos, n2))
    BY <2>1, TimesTyped
  <2>6. /\ Times(RemoveFirst(tos, to), n2)
             = Times(tos, n2) - (IF to \in {n2} /\ Holds(tos, to) THEN 1 ELSE 0)
        /\ Times(RemoveFirst(froms, from), n1)
             = Times(froms, n1) - (IF from \in {n1} /\ Holds(froms, from) THEN 1 ELSE 0)
    BY <2>1, CountRemoveFirst DEF Times
  <2>7. (to \in {n2} <=> n2 = to) /\ (from \in {n1} <=> n1 = from) OBVIOUS
  <2>8. CASE n1 = from /\ n2 = to BY <2>2, <2>3, <2>4, <2>5, <2>6, <2>7, <2>8
  <2>9. CASE ~ (n1 = from /\ n2 = to) BY <2>2, <2>3, <2>4, <2>5, <2>6, <2>7, <2>9
  <2>10. QED BY <2>8, <2>9
<1>2. QED BY <1>1 DEF BothWays, Mirrored

LEMMA RemoveAllKeeps ==
  ASSUME NEW ids, NEW ends, ends \in [DOMAIN ends -> ids], NEW m \in Index(ids, DOMAIN ends),
         Covers(ids, m, ends), BothWays(ids, m), NEW key \in ids
  PROVE  Covers(ids, RemoveAll(m, key), ends) /\ BothWays(ids, RemoveAll(m, key))
<1> DEFINE r == RemoveAll(m, key)
<1>1. ~ RemoveAllOverruns(m, key) BY CoversEnough
<1>2. /\ r.from2to = [m.from2to EXCEPT ![key] = <<>>]
      /\ r.from2rel = [m.from2rel EXCEPT ![key] = <<>>]
      /\ \A n, k \in ids : k # key => Times(r.to2from[n], k) = Times(m.to2from[n], k)
      /\ \A n \in ids : Mirrored(m, key, n) => Times(r.to2from[n], key) = 0
  <2>1. AllRemoved(ids, DOMAIN ends, m, key, r) BY RemoveAllEffect
  <2> HIDE DEF r
  <2>2. QED BY <1>1, <2>1 DEF AllRemoved
<1> HIDE DEF r
<1>3. /\ r.from2to[key] = <<>> /\ r.from2rel[key] = <<>>
      /\ \A n \in ids : n # key =>
           r.from2to[n] = m.from2to[n] /\ r.from2rel[n] = m.from2rel[n]
  BY <1>2 DEF Index
<1>4. Covers(ids, r, ends) BY <1>3, CountEmpty DEF Covers
<1>5. ASSUME NEW n1 \in ids, NEW n2 \in ids
      PROVE  Times(r.to2from[n2], n1) = Times(r.from2to[n1], n2)
  <2>1. CASE n1 = key BY <1>2, <1>3, <2>1, CountEmpty DEF BothWays, Times
  <2>2. CASE n1 # key BY <1>2, <1>3, <2>2 DEF BothWays, Mirrored
  <2>3. QED BY <2>1, <2>2
<1>6. QED BY <1>4, <1>5 DEF BothWays, Mirrored, r

\* The map p has e where m has it, and the new rel once more at its two ends.
OnceMore(m, p, from, to, rel, n, e) ==
  /\ Times(p.from2rel[n], e) = Times(m.from2rel[n], e) + (IF n = from /\ e = rel THEN 1 ELSE 0)
  /\ Times(p.to2rel[n], e) = Times(m.to2rel[n], e) + (IF n = to /\ e = rel THEN 1 ELSE 0)

\* Put adds one occurrence of rel to a list of either end, and of nothing else.
LEMMA PutTimes ==
  ASSUME NEW ids, NEW rels, NEW m \in Index(ids, rels), NEW from \in ids, NEW to \in ids,
         NEW rel, NEW n \in ids, NEW e
  PROVE  OnceMore(m, Put(m, from, to, rel), from, to, rel, n, e)
<1> DEFINE p == Put(m, from, to, rel)
<1> DEFINE a == m.from2rel[n]
<1> DEFINE b == m.to2rel[n]
<1>1. a \in Seq(rels) /\ b \in Seq(rels) BY DEF Index
<1>2. p.from2rel[n] = IF n = from THEN Append(a, rel) ELSE a BY DEF Put, Index
<1>3. p.to2rel[n] = IF n = to THEN Append(b, rel) ELSE b BY DEF Put, Index
<1> HIDE DEF p, a, b
<1>4. Times(a, e) \in Nat /\ Times(b, e) \in Nat BY <1>1, TimesTyped
<1>5. /\ Times(Append(a, rel), e) = Times(a, e) + (IF rel \in {e} THEN 1 ELSE 0)
      /\ Times(Append(b, rel), e) = Times(b, e) + (IF rel \in {e} THEN 1 ELSE 0)
  BY <1>1, CountAppend DEF Times
<1>6. rel \in {e} <=> e = rel OBVIOUS
<1>7. /\ Times(p.from2rel[n], e) = Times(a, e) + (IF n = from /\ e = rel THEN 1 ELSE 0)
      /\ Times(p.to2rel[n], e) = Times(b, e) + (IF n = to /\ e = rel THEN 1 ELSE 0)
  BY <1>2, <1>3, <1>4, <1>5, <1>6
<1>8. QED BY <1>7 DEF p, a, b, OnceMore

\* The map p has e where the map m has it in the lists of n.
SameTimes(m, p, n, e) ==
  /\ Times(p.from2rel[n], e) = Times(m.from2rel[n], e)
  /\ Times(p.to2rel[n], e) = Times(m.to2rel[n], e)

\* Remove takes out no other relationship.
LEMMA RemoveRelTimes ==
  ASSUME NEW ids, NEW rels, NEW m \in Index(ids, rels), NEW from, NEW to,
         NEW rel, NEW n \in ids, NEW e, e # rel
  PROVE  SameTimes(m, RemoveRel(m, from, to, rel), n, e)
<1> DEFINE p == RemoveRel(m, from, to, rel)
<1> DEFINE a == m.from2rel[n]
<1> DEFINE b == m.to2rel[n]
<1>1. a \in Seq(rels) /\ b \in Seq(rels) BY DEF Index
<1>2. p.from2rel[n] = IF n = from THEN RemoveFirst(a, rel) ELSE a BY DEF RemoveRel, Index
<1>3. p.to2rel[n] = IF n = to THEN RemoveFirst(b, rel) ELSE b BY DEF RemoveRel, Index
<1> HIDE DEF p, a, b
<1>4. Times(a, e) \in Nat /\ Times(b, e) \in Nat BY <1>1, TimesTyped
<1>5. /\ Times(RemoveFirst(a, rel), e)
           = Times(a, e) - (IF rel \in {e} /\ Holds(a, rel) THEN 1 ELSE 0)
      /\ Times(RemoveFirst(b, rel), e)
           = Times(b, e) - (IF rel \in {e} /\ Holds(b, rel) THEN 1 ELSE 0)
  BY <1>1, CountRemoveFirst DEF Times
<1>6. rel \notin {e} OBVIOUS
<1>7. Times(p.from2rel[n], e) = Times(a, e) /\ Times(p.to2rel[n], e) = Times(b, e)
  BY <1>2, <1>3, <1>4, <1>5, <1>6
<1>8. QED BY <1>7 DEF p, a, b, SameTimes

\* removeAll takes out only relationships of key, and those that leave key.
LEMMA RemoveAllTimes ==
  ASSUME NEW ids, NEW rels, NEW m \in Index(ids, rels), NEW key \in ids,
         NEW n \in ids, NEW e \in rels, ~ Holds(m.from2rel[key], e)
  PROVE  SameTimes(m, RemoveAll(m, key), n, e)
<1> DEFINE r == RemoveAll(m, key)
<1>1. AllRemoved(ids, rels, m, key, r) BY RemoveAllEffect
<1> HIDE DEF r
<1>2. m.from2rel[key] \in Seq(rels) BY DEF Index
<1>3. Times(m.from2rel[key], e) = 0 BY <1>2, TimesTyped
<1>4. r.from2rel[n] = IF n = key THEN <<>> ELSE m.from2rel[n] BY <1>1 DEF Index, AllRemoved
<1>5. Times(r.from2rel[n], e) = Times(m.from2rel[n], e)
  BY <1>3, <1>4, CountEmpty DEF Times
<1>6. Times(r.to2rel[n], e) = Times(m.to2rel[n], e) BY <1>1 DEF AllRemoved
<1>7. QED BY <1>5, <1>6 DEF r, SameTimes

-----------------------------------------------------------------------------
(* An index that agrees with the number of relationships of every pair *)

\* The lists of a side are as long as each other, and the outgoing neighbours
\* of a node are those of its pairs, each as often as the pair counts.
Paired(ids, m, counts) ==
  \A n \in ids :
    /\ Len(m.from2rel[n]) = Len(m.from2to[n]) /\ Len(m.to2rel[n]) = Len(m.to2from[n])
    /\ \A x \in ids : Times(m.from2to[n], x) = counts[<<n, x>>]

LEMMA NewMapPaired ==
  ASSUME NEW ids
  PROVE  Paired(ids, NewMap(ids), [pair \in ids \X ids |-> 0])
<1> DEFINE m == NewMap(ids)
<1>1. \A n \in ids : m.from2to[n] = <<>> /\ m.from2rel[n] = <<>>
                     /\ m.to2from[n] = <<>> /\ m.to2rel[n] = <<>>
  BY DEF NewMap
<1> HIDE DEF m
<1>2. Paired(ids, m, [pair \in ids \X ids |-> 0]) BY <1>1, CountEmpty DEF Paired, Times
<1>3. QED BY <1>2 DEF m

LEMMA PutPaired ==
  ASSUME NEW ids, NEW rels, NEW m \in Index(ids, rels), NEW from \in ids, NEW to \in ids, NEW rel,
         NEW counts \in [ids \X ids -> Nat], Paired(ids, m, counts)
  PROVE  Paired(ids, Put(m, from, to, rel), [counts EXCEPT ![<<from, to>>] = @ + 1])
<1>p. PICK p : p = Put(m, from, to, rel) OBVIOUS
<1>more. PICK more : more = [counts EXCEPT ![<<from, to>>] = @ + 1] OBVIOUS
<1>1. ASSUME NEW n \in ids
      PROVE  /\ Len(p.from2rel[n]) = Len(p.from2to[n]) /\ Len(p.to2rel[n]) = Len(p.to2from[n])
             /\ \A x \in ids : Times(p.from2to[n], x) = more[<<n, x>>]
  <2> DEFINE tos == m.from2to[n]
  <2> DEFINE outs == m.from2rel[n]
  <2> DEFINE froms == m.to2from[n]
  <2> DEFINE ins == m.to2rel[n]
  <2>1. tos \in Seq(ids) /\ outs \in Seq(rels) /\ froms \in Seq(ids) /\ ins \in Seq(rels)
    BY DEF Index
  <2>2. Len(outs) = Len(tos) /\ Len(ins) = Len(froms) BY DEF Paired
  <2>3. p.from2to[n] = IF n = from THEN Append(tos, to) ELSE tos BY <1>p DEF Put, Index
  <2>4. p.from2rel[n] = IF n = from THEN Append(outs, rel) ELSE outs BY <1>p DEF Put, Index
  <2>5. p.to2from[n] = IF n = to THEN Append(froms, from) ELSE froms BY <1>p DEF Put, Index
  <2>6. p.to2rel[n] = IF n = to THEN Append(ins, rel) ELSE ins BY <1>p DEF Put, Index
  <2>7. \A x \in ids : Times(tos, x) = counts[<<n, x>>] BY DEF Paired
  <2> HIDE DEF tos, outs, froms, ins
  <2>8. Len(p.from2rel[n]) = Len(p.from2to[n]) /\ Len(p.to2rel[n]) = Len(p.to2from[n])
    BY <2>1, <2>2, <2>3, <2>4, <2>5, <2>6
  <2>9. ASSUME NEW x \in ids PROVE Times(p.from2to[n], x) = more[<<n, x>>]
    <3>1. Times(Append(tos, to), x) = Times(tos, x) + (IF to \in {x} THEN 1 ELSE 0)
      BY <2>1, CountAppend DEF Times
    <3>2. more[<<n, x>>] = counts[<<n, x>>] + (IF n = from /\ x = to THEN 1 ELSE 0)
      BY <1>more
    <3>3. Times(tos, x) \in Nat BY <2>1, TimesTyped
    <3>4. to \in {x} <=> x = to OBVIOUS
    <3>5. QED BY <2>3, <2>7, <3>1, <3>2, <3>3, <3>4
  <2>10. QED BY <2>8, <2>9
<1>2. Paired(ids, p, more) BY <1>1 DEF Paired
<1>3. QED BY <1>2, <1>p, <1>more

LEMMA RemoveFirstHeld ==
  ASSUME NEW S, NEW s \in Seq(S), NEW e, Holds(s, e)
  PROVE  Len(RemoveFirst(s, e)) = Len(s) - 1
BY RemoveFirstCases DEF Holds

\* What is removed is in all four lists.
Present(m, from, to, rel) ==
  /\ Holds(m.from2to[from], to) /\ Holds(m.from2rel[from], rel)
  /\ Holds(m.to2from[to], from) /\ Holds(m.to2rel[to], rel)

LEMMA RemoveRelPaired ==
  ASSUME NEW ids, NEW rels, NEW m \in Index(ids, rels), NEW from \in ids, NEW to \in ids, NEW rel,
         NEW counts \in [ids \X ids -> Nat], Paired(ids, m, counts), Present(m, from, to, rel)
  PROVE  Paired(ids, RemoveRel(m, from, to, rel), [counts EXCEPT ![<<from, to>>] = @ - 1])
<1>p. PICK p : p = RemoveRel(m, from, to, rel) OBVIOUS
<1>less. PICK less : less = [counts EXCEPT ![<<from, to>>] = @ - 1] OBVIOUS
<1>1. ASSUME NEW n \in ids
      PROVE  /\ Len(p.from2rel[n]) = Len(p.from2to[n]) /\ Len(p.to2rel[n]) = Len(p.to2from[n])
             /\ \A x \in ids : Times(p.from2to[n], x) = less[<<n, x>>]
  <2> DEFINE tos == m.from2to[n]
  <2> DEFINE outs == m.from2rel[n]
  <2> DEFINE froms == m.to2from[n]
  <2> DEFINE ins == m.to2rel[n]
  <2>1. tos \in Seq(ids) /\ outs \in Seq(rels) /\ froms \in Seq(ids) /\ ins \in Seq(rels)
    BY DEF Index
  <2>2. Len(outs) = Len(tos) /\ Len(ins) = Len(froms) BY DEF Paired
  <2>3. p.from2to[n] = IF n = from THEN RemoveFirst(tos, to) ELSE tos
    BY <1>p DEF RemoveRel, Index
  <2>4. p.from2rel[n] = IF n = from THEN RemoveFirst(outs, rel) ELSE outs
    BY <1>p DEF RemoveRel, Index
  <2>5. p.to2from[n] = IF n = to THEN RemoveFirst(froms, from) ELSE froms
    BY <1>p DEF RemoveRel, Index
  <2>6. p.to2rel[n] = IF n = to THEN RemoveFirst(ins, rel) ELSE ins
    BY <1>p DEF RemoveRel, Index
  <2>7. \A x \in ids : Times(tos, x) = counts[<<n, x>>] BY DEF Paired
  <2>8. /\ n = from => Holds(tos, to) /\ Holds(outs, rel)
        /\ n = to => Holds(froms, from) /\ Holds(ins, rel)
    BY DEF Present
  <2> HIDE DEF tos, outs, froms, ins
  <2>9. Len(p.from2rel[n]) = Len(p.from2to[n])
    <3>1. CASE n = from BY <2>1, <2>2, <2>3, <2>4, <2>8, <3>1, RemoveFirstHeld
    <3>2. CASE n # from BY <2>2, <2>3, <2>4, <3>2
    <3>3. QED BY <3>1, <3>2
  <2>10. Len(p.to2rel[n]) = Len(p.to2from[n])
    <3>1. CASE n = to BY <2>1, <2>2, <2>5, <2>6, <2>8, <3>1, RemoveFirstHeld
    <3>2. CASE n # to BY <2>2, <2>5, <2>6, <3>2
    <3>3. QED BY <3>1, <3>2
  <2>11. ASSUME NEW x \in ids PROVE Times(p.from2to[n], x) = less[<<n, x>>]
    <3>1. Times(RemoveFirst(tos, to), x)
            = Times(tos, x) - (IF to \in {x} /\ Holds(tos, to) THEN 1 ELSE 0)
      BY <2>1, CountRemoveFirst DEF Times
    <3>2. less[<<n, x>>] = IF n = from /\ x = to THEN counts[<<n, x>>] - 1 ELSE counts[<<n, x>>]
      BY <1>less
    <3>3. Times(tos, x) \in Nat BY <2>1, TimesTyped
    <3>4. to \in {x} <=> x = to OBVIOUS
    <3>5. CASE n = from BY <2>3, <2>7, <2>8, <3>1, <3>2, <3>3, <3>4, <3>5
    <3>6. CASE n # from BY <2>3, <2>7, <3>2, <3>6
    <3>7. QED BY <3>5, <3>6
  <2>12. QED BY <2>9, <2>10, <2>11
<1>2. Paired(ids, p, less) BY <1>1 DEF Paired
<1>3. QED BY <1>2, <1>p, <1>less

\* A node without neighbours and relationships loses nothing.
LEMMA RemoveAllNothing ==
  ASSUME NEW ids, NEW rels, NEW m \in Index(ids, rels), NEW key \in ids,
         Len(m.from2to[key]) = 0, Len(m.from2rel[key]) = 0
  PROVE  RemoveAll(m, key) = m
<1>1. m.from2to[key] \in Seq(ids) /\ m.from2rel[key] \in Seq(rels) BY DEF Index
<1>2. m.from2to[key] = <<>> /\ m.from2rel[key] = <<>> BY <1>1
<1>3. IsLoop(m, key, Unlinked(m, key), 0) BY UnlinkedIsLoop
<1>4. 0 \in 0 .. 0 OBVIOUS
<1>5. Unlinked(m, key)[0] = RemoveOutgoing(m, key) BY <1>3, <1>4 DEF IsLoop, Round
<1>6. RemoveAll(m, key) = RemoveOutgoing(m, key) BY <1>5 DEF RemoveAll
<1>7. [m.from2to EXCEPT ![key] = <<>>] = m.from2to
      /\ [m.from2rel EXCEPT ![key] = <<>>] = m.from2rel
  BY <1>2 DEF Index
<1>8. RemoveOutgoing(m, key) = m BY <1>7 DEF RemoveOutgoing, Index
<1>9. QED BY <1>6, <1>8

-----------------------------------------------------------------------------
(* Lengths and sums *)

\* A list that has each of its elements once is as long as the set of them.
LEMMA ListCardinality ==
  ASSUME NEW R, NEW s \in Seq(R), NEW S, \A e \in S : Times(s, e) = 1,
         \A e : Holds(s, e) => e \in S
  PROVE  Cardinality(S) = Len(s)
<1>1. Len(s) \in Nat /\ DOMAIN s = 1 .. Len(s) OBVIOUS
<1>2. \A i \in 1 .. Len(s) : s[i] \in S BY DEF Holds
<1>3. \A e \in S : Holds(s, e) BY TimesTyped
<1>4. \A e \in S : \E i : Places(s, {e}) = {i}
  <2>1. SUFFICES ASSUME NEW e \in S PROVE \E i : Places(s, {e}) = {i} OBVIOUS
  <2>2. IsFiniteSet(Places(s, {e})) BY CountTyped
  <2>3. Cardinality(Places(s, {e})) = 1 BY DEF Times, Count
  <2>4. QED BY <2>2, <2>3, FS_Singleton
<1>5. \A i, j \in 1 .. Len(s) : s[i] = s[j] => i = j
  <2>1. SUFFICES ASSUME NEW i \in 1 .. Len(s), NEW j \in 1 .. Len(s), s[i] = s[j] PROVE i = j
    OBVIOUS
  <2>2. i \in Places(s, {s[i]}) /\ j \in Places(s, {s[i]}) BY <2>1 DEF Places
  <2>3. PICK k : Places(s, {s[i]}) = {k} BY <1>2, <1>4
  <2>4. QED BY <2>2, <2>3
<1>6. s \in Bijection(1 .. Len(s), S)
  <2>1. s \in [1 .. Len(s) -> S] BY <1>1, <1>2
  <2>2. IsInjective(s) BY <1>1, <1>5 DEF IsInjective
  <2>3. \A e \in S : \E i \in 1 .. Len(s) : s[i] = e BY <1>3 DEF Holds
  <2>4. QED BY <2>1, <2>2, <2>3 DEF Bijection, Injection, Surjection
<1>7. ExistsBijection(1 .. Len(s), S) BY <1>6 DEF ExistsBijection
<1>8. QED BY <1>1, <1>7, FS_CountingElements

\* The sum over a single type.
LEMMA SumOfOne ==
  ASSUME NEW f, NEW x, DOMAIN f = {x}, f[x] \in Int
  PROVE  SumFunction(f) = f[x]
<1> DEFINE Body(g, s) ==
      IF s = {} THEN 0 ELSE f[CHOOSE y \in s : TRUE] + g[s \ {CHOOSE y \in s : TRUE}]
<1> DEFINE IsSum(g) == g = [s \in SUBSET {x} |-> Body(g, s)]
<1>1. SumFunction(f) = (CHOOSE g : IsSum(g))[{x}]
  BY DEF SumFunction, SumFunctionOnSet, FoldFunctionOnSet, MapThenFoldSet
<1>2. \E g : IsSum(g)
  <2> DEFINE g == [s \in SUBSET {x} |-> IF s = {} THEN 0 ELSE f[x]]
  <2>1. SUBSET {x} = {{}, {x}} OBVIOUS
  <2>2. (CHOOSE y \in {x} : TRUE) = x OBVIOUS
  <2>3. g[{}] = 0 /\ g[{x}] = f[x] BY <2>1
  <2>4. Body(g, {}) = 0 OBVIOUS
  <2>5. Body(g, {x}) = f[x] BY <2>2, <2>3
  <2> HIDE DEF Body
  <2>6. \A s \in SUBSET {x} : g[s] = Body(g, s) BY <2>1, <2>3, <2>4, <2>5
  <2>7. IsSum(g) BY <2>6
  <2>8. QED BY <2>7
<1>3. PICK g : g = (CHOOSE h : IsSum(h)) OBVIOUS
<1>4. IsSum(g) BY <1>2, <1>3
<1>5. g[{}] = 0 BY <1>4
<1>6. (CHOOSE y \in {x} : TRUE) = x /\ {x} \ {x} = {} OBVIOUS
<1>7. g[{x}] = f[x] + g[{}] BY <1>4, <1>6
<1>8. QED BY <1>1, <1>3, <1>5, <1>7
=============================================================================

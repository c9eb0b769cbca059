----------------------------- MODULE NumberedGraph -----------------------------
(***************************************************************************)
(* What the graph promises a client of the by-name operations: a pair of    *)
(* nodes holds, per type, a list of parallel relationships numbered from 1. *)
(* A new relationship goes to the end of the list, a removal without a      *)
(* number takes the last one, and a removal with a number puts the last one *)
(* in the place of the removed one, so that the numbers stay without gaps.  *)
(***************************************************************************)
EXTENDS Integers, Sequences, SequencesExt

CONSTANTS
  Names, Types, PropNames, MetaNames, Values, Numbers,
  NodeIds,  \* ids a node may get
  RelIds    \* ids a relationship may get

VARIABLES
  idOf,      \* name -> node id, -1 while the name is free
  known,     \* the types that have had a relationship
  parallel,  \* (type, from, to) -> list of [id, props]
  result     \* the last operation and what it returned

vars == <<idOf, known, parallel, result>>

Maps     == UNION {[D -> Values] : D \in SUBSET PropNames}
UserOnly == {m \in Maps : DOMAIN m \cap MetaNames = {}}
Triples  == Types \X Names \X Names

Return(call, outcome, id) == result' = [call |-> call, outcome |-> outcome, id |-> id]
Nothing == UNCHANGED <<idOf, known, parallel>>

Exist(e)  == idOf[e[2]] # -1 /\ idOf[e[3]] # -1
From(e)   == idOf[e[2]]
To(e)     == idOf[e[3]]
UsedIds   == {r.id : r \in UNION {ToSet(parallel[e]) : e \in Triples}}

Init ==
  /\ idOf = [n \in Names |-> -1]
  /\ known = {}
  /\ parallel = [e \in Triples |-> <<>>]
  /\ result = [call |-> <<"clear">>, outcome |-> "done", id |-> -1]

AddNode(n) ==
  \/ Return(<<"addNode", idOf[n]>>, "refused", -1) /\ idOf[n] # -1 /\ Nothing
  \/ \E id \in NodeIds :
       /\ Return(<<"addNode", idOf[n]>>, "done", id)
       /\ idOf[n] = -1
       /\ \A m \in Names : idOf[m] # id
       /\ idOf' = [idOf EXCEPT ![n] = id]
       /\ UNCHANGED <<known, parallel>>

\* A node leaves only after its relationships.
RemoveNode(n) ==
  LET call == <<"removeDetachedNode", idOf[n]>> IN
  \/ Return(call, "refused", -1) /\ idOf[n] = -1 /\ Nothing
  \/ /\ Return(call, "done", -1)
     /\ idOf[n] # -1
     /\ \A e \in Triples : n \in {e[2], e[3]} => parallel[e] = <<>>
     /\ idOf' = [idOf EXCEPT ![n] = -1]
     /\ UNCHANGED <<known, parallel>>

AddRelationship(call, e, props) ==
  \/ Return(call, "refused", -1) /\ ~ Exist(e) /\ Nothing
  \/ \E id \in RelIds :
       /\ Return(call, "done", id)
       /\ Exist(e) /\ id \notin UsedIds
       /\ parallel' = [parallel EXCEPT ![e] = Append(@, [id |-> id, props |-> props])]
       /\ known' = known \cup {e[1]}
       /\ UNCHANGED idOf

\* The last relationship fills the place of number k.
Without(s, k) == Front(ReplaceAt(s, k, Last(s)))

RemoveRelationship(e) ==
  LET call == <<"removeRelationship", e[1], From(e), To(e)>> IN
  \/ Return(call, "refused", -1) /\ (~ Exist(e) \/ parallel[e] = <<>>) /\ Nothing
  \/ /\ Return(call, "done", -1)
     /\ Exist(e) /\ parallel[e] # <<>>
     /\ parallel' = [parallel EXCEPT ![e] = Front(@)]
     /\ UNCHANGED <<idOf, known>>

RemoveRelationshipNumber(e, k) ==
  LET call == <<"removeRelationshipNumber", e[1], From(e), To(e), k>> IN
  \/ Return(call, "refused", -1) /\ (~ Exist(e) \/ Len(parallel[e]) < k) /\ Nothing
  \/ /\ Return(call, "done", -1)
     /\ Exist(e) /\ k \in DOMAIN parallel[e]
     /\ parallel' = [parallel EXCEPT ![e] = Without(parallel[e], k)]
     /\ UNCHANGED <<idOf, known>>

\* A property operation on number k: a missing node or number is refused, a
\* type nobody has used yet throws.
OnNumber(call, e, k, outcome, props) ==
  \/ /\ Return(call, "refused", -1)
     /\ ~ Exist(e) \/ (e[1] \in known /\ Len(parallel[e]) < k)
     /\ Nothing
  \/ Return(call, "threw", -1) /\ Exist(e) /\ e[1] \notin known /\ Nothing
  \/ /\ Exist(e) /\ k \in DOMAIN parallel[e]
     /\ Return(call, outcome, -1)
     /\ parallel' = [parallel EXCEPT ![e][k].props = props]
     /\ UNCHANGED <<idOf, known>>

PropsAt(e, k) == parallel[e][k].props

\* f with the properties of g added or replaced.
Merged(f, g) == [p \in DOMAIN f \cup DOMAIN g |-> IF p \in DOMAIN g THEN g[p] ELSE f[p]]

UpdateRelationshipProperties(e, k, m) ==
  LET call == <<"updateRelationshipProperties", e[1], From(e), To(e), k, m>> IN
  IF m \in UserOnly THEN OnNumber(call, e, k, "done", Merged(PropsAt(e, k), m))
  ELSE Return(call, "refused", -1) /\ Nothing

UpdateRelationshipProperty(e, k, p, v) ==
  LET call == <<"updateRelationshipProperty", e[1], From(e), To(e), k, p, v>> IN
  IF p \in MetaNames THEN Return(call, "refused", -1) /\ Nothing
  ELSE OnNumber(call, e, k, "done", Merged(PropsAt(e, k), [q \in {p} |-> v]))

DeleteRelationshipProperty(e, k, numbered, p) ==
  LET call == <<"deleteRelationshipProperty", e[1], From(e), To(e), k, numbered, p>> IN
  IF p \in MetaNames THEN Return(call, "refused", -1) /\ Nothing
  ELSE OnNumber(call, e, k,
                IF numbered \/ p \in DOMAIN PropsAt(e, k) THEN "done" ELSE "refused",
                Restrict(PropsAt(e, k), DOMAIN PropsAt(e, k) \ {p}))

Next ==
  \/ \E n \in Names : AddNode(n) \/ RemoveNode(n)
  \/ \E e \in Triples :
       \/ AddRelationship(<<"addRelationship", e[1], From(e), To(e)>>, e, <<>>)
       \/ \E m \in UserOnly :
            AddRelationship(<<"addRelationshipWithProperties", e[1], From(e), To(e), m>>, e, m)
       \/ RemoveRelationship(e)
       \/ \E k \in Numbers :
            \/ RemoveRelationshipNumber(e, k)
            \/ \E m \in Maps : UpdateRelationshipProperties(e, k, m)
            \/ \E p \in PropNames, v \in Values : UpdateRelationshipProperty(e, k, p, v)
            \/ \E p \in PropNames, numbered \in BOOLEAN :
                 DeleteRelationshipProperty(e, k, numbered, p)

Spec == Init /\ [][Next]_vars
=============================================================================

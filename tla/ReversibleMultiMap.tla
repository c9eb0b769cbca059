-------------------------- MODULE ReversibleMultiMap --------------------------
(***************************************************************************)
(* The index of one relationship type (graph/ReversibleMultiMap.java): four *)
(* Guava ArrayListMultimaps that describe the same relationships from both  *)
(* ends.  A map is a record of four functions from node ids to sequences;   *)
(* an absent key is the empty sequence.  The lists of one side are meant to *)
(* be parallel: from2rel[n][i] is the relationship that reaches             *)
(* from2to[n][i].                                                           *)
(***************************************************************************)
EXTENDS Integers, Sequences, SequencesExt

\* new ReversibleMultiMap(), and what clear() leaves, over a set of node ids.
NewMap(ids) ==
  LET none == [n \in ids |-> <<>>]
  IN  [from2to |-> none, from2rel |-> none, to2from |-> none, to2rel |-> none]

Put(m, from, to, rel) ==
  [from2to  |-> [m.from2to  EXCEPT ![from] = Append(@, to)],
   from2rel |-> [m.from2rel EXCEPT ![from] = Append(@, rel)],
   to2from  |-> [m.to2from  EXCEPT ![to]   = Append(@, from)],
   to2rel   |-> [m.to2rel   EXCEPT ![to]   = Append(@, rel)]]

KeepNeighbour(m, from, to, rel) ==   \* mutant: from2to.remove is missing
  [m EXCEPT !.from2rel[from] = RemoveFirst(@, rel),
            !.to2from[to]    = RemoveFirst(@, from),
            !.to2rel[to]     = RemoveFirst(@, rel)]

RemoveByPosition(m, from, to, rel) ==   \* mutant: drops the id beside the neighbour
  LET i == SelectInSeq(m.from2to[from], LAMBDA x : x = to)
  IN  [m EXCEPT !.from2to[from]  = RemoveFirst(@, to),
                !.from2rel[from] = IF i \in DOMAIN @ THEN RemoveAt(@, i) ELSE @,
                !.to2from[to]    = RemoveFirst(@, from),
                !.to2rel[to]     = RemoveFirst(@, rel)]

\* Each list loses the first occurrence of its value, if it has one: with
\* parallel relationships the lists of one side may lose different positions.
RemoveRel(m, from, to, rel) ==
  [from2to  |-> [m.from2to  EXCEPT ![from] = RemoveFirst(@, to)],
   from2rel |-> [m.from2rel EXCEPT ![from] = RemoveFirst(@, rel)],
   to2from  |-> [m.to2from  EXCEPT ![to]   = RemoveFirst(@, from)],
   to2rel   |-> [m.to2rel   EXCEPT ![to]   = RemoveFirst(@, rel)]]

\* removeAll pairs the i-th removed neighbour with the i-th removed
\* relationship and throws IndexOutOfBounds when it runs out of the latter.
RemoveAllOverruns(m, key) == Len(m.from2rel[key]) < Len(m.from2to[key])

\* from2to.removeAll(key) and from2rel.removeAll(key).
RemoveOutgoing(m, key) ==
  [from2to  |-> [m.from2to  EXCEPT ![key] = <<>>],
   from2rel |-> [m.from2rel EXCEPT ![key] = <<>>],
   to2from  |-> m.to2from,
   to2rel   |-> m.to2rel]

\* One round of removeAll's loop on the map t: the i-th of the neighbours loses
\* key and the i-th of the relationships.  When there is none, get() throws
\* after the neighbour has lost key, and the rounds behind it do not run.
Unlink(key, neighbours, rels, t, i) ==
  LET n == neighbours[i] IN
  IF i <= Len(rels)
  THEN [t EXCEPT !.to2from[n] = RemoveFirst(@, key),
                 !.to2rel[n]  = RemoveFirst(@, rels[i])]
  ELSE IF i = Len(rels) + 1 THEN [t EXCEPT !.to2from[n] = RemoveFirst(@, key)] ELSE t

\* The map before the loop and after each of its rounds: the outgoing lists of
\* key are gone at once.
Unlinked(m, key) ==
  LET after[i \in 0 .. Len(m.from2to[key])] ==
        IF i = 0
        THEN RemoveOutgoing(m, key)
        ELSE Unlink(key, m.from2to[key], m.from2rel[key], after[i - 1], i)
  IN  after

\* The multimap after removeAll(key), or after its prefix when it overruns.
\* Nothing is done about the relationships that come in to key.
RemoveAll(m, key) == Unlinked(m, key)[Len(m.from2to[key])]

\* Every relationship id in the map, as getAllRels lists them.
AllRels(m) == UNION {ToSet(m.from2rel[n]) : n \in DOMAIN m.from2rel}

\* The degrees: getFromSize and getToSize count neighbours, not ids.
FromSize(m, n) == Len(m.from2to[n])
ToSize(m, n)   == Len(m.to2from[n])
=============================================================================
